---------------------------- MODULE Conversations ---------------------------
(***************************************************************************)
(* What outlives a turn: the chat session it belongs to, the history Agno  *)
(* keeps of it, and the memories of its user.  Chat turns and workflow     *)
(* runs (ChatService and WorkflowExecutionService have the same            *)
(* _get_or_create_session) name a session by an id of their choice, a      *)
(* scheduled run opens one of its own.                                     *)
(*                                                                         *)
(* A turn runs the engine once, for an agent or for a team (the root is    *)
(* one); Agno keeps the history of a session apart for the two.  A         *)
(* workflow of several steps runs it several times, each time reading and  *)
(* writing the history of the step's kind; here it has one step.           *)
(*                                                                         *)
(* Three stores are written in transactions of their own: the session of   *)
(* the request (session row, facts of remember_fact), the sync engine of   *)
(* PlatformMemoryDb (one transaction per operation), and the sync engine   *)
(* of Agno's storage (the whole history of a session at the end of a run). *)
(* Memories are those of one agent; the steps of a turn itself are in      *)
(* ChatTurns.                                                              *)
(***************************************************************************)
EXTENDS Naturals, FiniteSets

CONSTANTS
    Turns,
    Users,
    SessionIds,
    Memories,    \* ids of Agno's memories
    Anonymous,   \* the user of a request without user_id
    NoOne,       \* no session row, no memory row
    TokenRequired, \* AUTH_MODE is keycloak_required
    HistoryRuns, \* num_history_runs of an agent and of a team
    MaxFacts     \* bound: remember_fact calls of a turn

ASSUME ConversationsAssumption ==
    /\ NoOne \notin Users /\ Anonymous \in Users
    /\ SessionIds # {}
    /\ TokenRequired \in BOOLEAN
    /\ MaxFacts \in Nat
    /\ IsFiniteSet(Turns) /\ HistoryRuns \in [{"agent", "team"} -> Nat \ {0}]

VARIABLES      \* committed
    owner,     \* user_id of each chat session
    recorded,  \* turns with committed rows, and so with messages in their session
    facts,     \* facts of each turn in agent_memories
    memory,    \* user_id of each row Agno's MemoryManager wrote
    history,   \* turns in Agno's two histories of each session
    place      \* of a turn in the order in which they were saved there (0: it was not)

VARIABLES      \* of a turn
    pc, user, sid, form,
    kind,      \* what the turn is for, an agent or a team
    opened,    \* it has inserted its session and not committed it
    told,      \* facts the model was told are remembered
    context,   \* history of its kind when it was started
    known,     \* memories it was given
    upsert     \* a memory between SELECT and write, and whether the row was found

VARIABLES      \* history, read by the properties only
    met,       \* pairs of turns of one session and kind that were under way together
    due        \* turns it was to be given: answered, and among the last that were saved

db     == <<owner, recorded, facts, memory, history, place>>
local  == <<pc, user, sid, form, kind, opened, told, context, known, upsert>>
ghost  == <<met, due>>
vars   == <<db, local, ghost>>

Idle == [id |-> {}, found |-> FALSE]

\* "gone": the client went away, or an exception that no handler turns into a
\* failed run reached it
Over == {"answered", "failed", "cancelled", "refused", "gone"}

Form == {"plain", "stream", "scheduled"}

Kind == {"agent", "team"}

TypeOK ==
    /\ owner \in [SessionIds -> Users \cup {NoOne}]
    /\ recorded \subseteq Turns
    /\ facts \in [Turns -> 0..MaxFacts] /\ told \in [Turns -> 0..MaxFacts]
    /\ memory \in [Memories -> Users \cup {NoOne}]
    /\ history \in [SessionIds -> [Kind -> SUBSET Turns]] /\ place \in [Turns -> Nat]
    /\ pc \in [Turns -> {"idle", "lookup", "create", "begin", "start", "engine", "end"} \cup Over]
    /\ user \in [Turns -> Users] /\ sid \in [Turns -> SessionIds] /\ form \in [Turns -> Form]
    /\ kind \in [Turns -> Kind]
    /\ opened \subseteq Turns
    /\ context \in [Turns -> SUBSET Turns]
    /\ known \in [Turns -> SUBSET Memories]
    /\ upsert \in [Turns -> [id: SUBSET Memories, found: BOOLEAN]]
    /\ met \subseteq Turns \X Turns /\ due \in [Turns -> SUBSET Turns]

-----------------------------------------------------------------------------
(* The session of a turn *)

Goto(t, label) == pc' = [pc EXCEPT ![t] = label]

UnderWay(t) == pc[t] \in {"start", "engine", "end"}

\* They share a history.
Akin(o, t) == sid[o] = sid[t] /\ kind[o] = kind[t]

\* The subject of the bearer token, or nobody: without a token, or with one that
\* cannot be verified for any reason.
verify_bearer_token == Users

resolve_effective_user_id(verified, named) ==
    IF verified # Anonymous THEN verified ELSE IF TokenRequired THEN Anonymous ELSE named

\* named is the user_id of the request, None for an anonymous caller.
Request(t, named, s) ==
    /\ pc[t] = "idle"
    /\ Goto(t, "lookup")
    /\ \E verified \in verify_bearer_token :
        user' = [user EXCEPT ![t] = resolve_effective_user_id(verified, named)]
    /\ sid' = [sid EXCEPT ![t] = s]
    /\ form' \in {[form EXCEPT ![t] = f] : f \in {"plain", "stream"}}
    /\ kind' \in {[kind EXCEPT ![t] = k] : k \in Kind}
    /\ UNCHANGED <<db, opened, told, context, known, upsert, ghost>>

\* The ticker runs a workflow for the user of the schedule, in a new session.
Schedule(t, u, s) ==
    /\ pc[t] = "idle"
    /\ owner[s] = NoOne /\ \A o \in Turns : sid[o] = s => pc[o] = "idle"
    /\ Goto(t, "create")
    /\ user' = [user EXCEPT ![t] = u]
    /\ sid' = [sid EXCEPT ![t] = s]
    /\ form' = [form EXCEPT ![t] = "scheduled"]
    /\ kind' \in {[kind EXCEPT ![t] = k] : k \in Kind}
    /\ UNCHANGED <<db, opened, told, context, known, upsert, ghost>>

\* Not found, found for this user, or found for another one.
Lookup(t) ==
    /\ pc[t] = "lookup"
    /\ \/ owner[sid[t]] = NoOne /\ Goto(t, "create")
       \/ owner[sid[t]] = user[t] /\ Goto(t, "begin")
       \/ owner[sid[t]] \notin {NoOne, user[t]} /\ Goto(t, "refused")
    /\ UNCHANGED <<db, user, sid, form, kind, opened, told, context, known, upsert, ghost>>

\* Mutant: on a conflict the turn goes on in the session that exists.
Create_mut(t) ==
    /\ pc[t] = "create"
    /\ \A o \in opened : sid[o] # sid[t]
    /\ opened' = IF owner[sid[t]] = NoOne THEN opened \cup {t} ELSE opened
    /\ Goto(t, "begin")
    /\ UNCHANGED <<db, user, sid, form, kind, told, context, known, upsert, ghost>>

\* The INSERT waits for an uncommitted one of the same id; a committed one
\* violates the primary key.
Create(t) ==
    /\ pc[t] = "create"
    /\ \A o \in opened : sid[o] # sid[t]
    /\ \/ owner[sid[t]] = NoOne /\ opened' = opened \cup {t} /\ Goto(t, "begin")
       \/ owner[sid[t]] # NoOne /\ opened' = opened /\ Goto(t, "failed")
    /\ UNCHANGED <<db, user, sid, form, kind, told, context, known, upsert, ghost>>

\* Mutant: the fact that is being told is written once more.
Commit_mut(t) ==
    /\ owner' = IF t \in opened THEN [owner EXCEPT ![sid[t]] = user[t]] ELSE owner
    /\ opened' = opened \ {t}
    /\ recorded' = recorded \cup {t}
    /\ facts' = [facts EXCEPT ![t] = @ + told[t]]

\* What the request's session holds becomes visible.
Commit(t) ==
    /\ owner' = IF t \in opened THEN [owner EXCEPT ![sid[t]] = user[t]] ELSE owner
    /\ opened' = opened \ {t}
    /\ recorded' = recorded \cup {t}
    /\ facts' = [facts EXCEPT ![t] = told[t]]

Rollback(t) == opened' = opened \ {t} /\ UNCHANGED <<owner, recorded, facts>>

\* Run and user message are written; a stream commits them before it begins.
Begin(t) ==
    /\ pc[t] = "begin"
    /\ Goto(t, "start")
    /\ IF form[t] = "stream" THEN Commit(t) ELSE UNCHANGED <<owner, opened, recorded, facts>>
    /\ met' = met \cup UNION {{<<o, t>>, <<t, o>>} : o \in {o \in Turns : UnderWay(o) /\ Akin(o, t)}}
    /\ UNCHANGED <<memory, history, place, user, sid, form, kind, told, context, known, upsert, due>>

-----------------------------------------------------------------------------
(* The run of the engine *)

engine == <<owner, recorded, facts, user, sid, form, kind, opened, met>>

\* The last runs of a history, as many as add_history_to_messages takes.
Last(runs, k) == {o \in runs : Cardinality({x \in runs : place[x] > place[o]}) < HistoryRuns[k]}

\* The history a turn is given.
given(t) == Last(context[t], kind[t])

Saved(t) == {o \in Turns : Akin(o, t) /\ place[o] > 0}

\* Agno reads the history of the session and the memories of the user.
Start(t) ==
    /\ pc[t] = "start"
    /\ Goto(t, "engine")
    /\ context' = [context EXCEPT ![t] = history[sid[t]][kind[t]]]
    /\ known' = [known EXCEPT ![t] = {m \in Memories : memory[m] = user[t]}]
    /\ due' = [due EXCEPT ![t] = {o \in Last(Saved(t), kind[t]) : pc[o] = "answered"}]
    /\ UNCHANGED <<memory, history, place, told, upsert, engine>>

\* Memories are only for a user who is known.
Remembers(t) == pc[t] = "engine" /\ user[t] # Anonymous

\* Flushed, and answered as remembered.
remember_fact(t) ==
    /\ Remembers(t)
    /\ told[t] < MaxFacts
    /\ told' = [told EXCEPT ![t] = @ + 1]
    /\ UNCHANGED <<pc, memory, history, place, context, known, upsert, due, engine>>

\* A stream commits with every event.
Event(t) ==
    /\ pc[t] = "engine"
    /\ form[t] = "stream"
    /\ facts[t] # told[t]
    /\ Commit(t)
    /\ UNCHANGED <<memory, history, place, pc, user, sid, form, kind, told, context, known, upsert, ghost>>

\* The MemoryManager writes a memory it was given, or one with a new id.
New(m) == \A t \in Turns : m \notin known[t] /\ upsert[t].id # {m}

upsert_select(t, m) ==
    /\ Remembers(t)
    /\ upsert[t] = Idle
    /\ \/ m \in known[t]
       \/ memory[m] = NoOne /\ New(m)
    /\ upsert' = [upsert EXCEPT ![t] = [id |-> {m}, found |-> memory[m] # NoOne]]
    /\ UNCHANGED <<pc, memory, history, place, told, context, known, due, engine>>

\* An UPDATE of the row it found, which may be gone; or an INSERT, which violates
\* the unique key if somebody else inserted it meanwhile and then changes nothing.
upsert_write(t, m) ==
    /\ upsert[t].id = {m}
    /\ memory' = IF ~upsert[t].found /\ memory[m] = NoOne
                 THEN [memory EXCEPT ![m] = user[t]] ELSE memory
    /\ upsert' = [upsert EXCEPT ![t] = Idle]
    /\ known' = [known EXCEPT ![t] = @ \cup {m}]
    /\ UNCHANGED <<pc, history, place, told, context, due, engine>>

delete_memory(t, m) ==
    /\ pc[t] = "engine"
    /\ upsert[t] = Idle
    /\ m \in known[t]
    /\ memory' = [memory EXCEPT ![m] = NoOne]
    /\ known' = [known EXCEPT ![t] = @ \ {m}]
    /\ UNCHANGED <<pc, history, place, told, context, upsert, due, engine>>

\* Mutant: only this turn is written.
SaveHistory_mut(t) ==
    /\ pc[t] = "engine"
    /\ upsert[t] = Idle
    /\ Goto(t, "end")
    /\ history' = [history EXCEPT ![sid[t]][kind[t]] = {t}]
    /\ place' = [place EXCEPT ![t] = 1 + Cardinality({o \in Turns : place[o] > 0})]
    /\ UNCHANGED <<memory, told, context, known, upsert, due, engine>>

\* At the end of a run Agno writes all of the history it has read and this turn.
SaveHistory(t) ==
    /\ pc[t] = "engine"
    /\ upsert[t] = Idle
    /\ Goto(t, "end")
    /\ history' = [history EXCEPT ![sid[t]][kind[t]] = context[t] \cup {t}]
    /\ place' = [place EXCEPT ![t] = 1 + Cardinality({o \in Turns : place[o] > 0})]
    /\ UNCHANGED <<memory, told, context, known, upsert, due, engine>>

-----------------------------------------------------------------------------
(* The end of a turn, with which its locals go *)

Ends(t, label) ==
    /\ Goto(t, label)
    /\ upsert' = [upsert EXCEPT ![t] = Idle]
    /\ context' = [context EXCEPT ![t] = {}]
    /\ known' = [known EXCEPT ![t] = {}]
    /\ due' = [due EXCEPT ![t] = {}]
    /\ UNCHANGED <<memory, history, place, user, sid, form, kind, told, met>>

Complete(t) ==
    /\ pc[t] = "end"
    /\ Commit(t)
    /\ Ends(t, "answered")

\* record_usage of a chat turn cannot insert and rolls the session back; the stream
\* has committed its completed run before.
UsageFails(t) ==
    /\ pc[t] = "end"
    /\ form[t] # "scheduled" /\ user[t] # Anonymous
    /\ IF form[t] = "stream" THEN Commit(t) ELSE Rollback(t)
    /\ Ends(t, "gone")

\* A streamed turn is stopped and what it has is kept.
Cancelled(t) ==
    /\ pc[t] \in {"engine", "end"}
    /\ form[t] = "stream"
    /\ Commit(t)
    /\ Ends(t, "cancelled")

\* Mutant: a stream leaves it to get_db, too.
Fail_mut(t) ==
    /\ pc[t] \in {"start", "engine", "end"}
    /\ IF form[t] = "scheduled" THEN Commit(t) ELSE Rollback(t)
    /\ Ends(t, "failed")

\* RuntimeExecutionError, also when the run is over and its sessions are closed: a
\* stream marks the run failed and commits, the ticker records it and commits, a
\* plain request leaves it to get_db.
Fail(t) ==
    /\ pc[t] \in {"start", "engine", "end"}
    /\ IF form[t] = "plain" THEN Rollback(t) ELSE Commit(t)
    /\ Ends(t, "failed")

\* The client is gone, or a database error: what is not committed is lost.
Vanish(t) ==
    /\ pc[t] \in {"lookup", "create", "begin", "start", "engine", "end"}
    /\ Rollback(t)
    /\ Ends(t, "gone")

\* DELETE /memories/{id}
forget(m) ==
    /\ memory[m] # NoOne
    /\ memory' = [memory EXCEPT ![m] = NoOne]
    /\ UNCHANGED <<owner, recorded, facts, history, place, local, ghost>>

-----------------------------------------------------------------------------

Step(t) ==
    \/ Lookup(t) \/ Create(t) \/ Begin(t) \/ Start(t) \/ remember_fact(t) \/ Event(t)
    \/ \E m \in Memories : upsert_select(t, m) \/ upsert_write(t, m) \/ delete_memory(t, m)
    \/ SaveHistory(t) \/ Complete(t) \/ UsageFails(t) \/ Cancelled(t) \/ Fail(t) \/ Vanish(t)

Next ==
    \/ \E t \in Turns :
        Step(t) \/ \E u \in Users, s \in SessionIds : Request(t, u, s) \/ Schedule(t, u, s)
    \/ \E m \in Memories : forget(m)

Init ==
    /\ owner = [s \in SessionIds |-> NoOne]
    /\ recorded = {}
    /\ facts = [t \in Turns |-> 0] /\ told = [t \in Turns |-> 0]
    /\ memory = [m \in Memories |-> NoOne]
    /\ history = [s \in SessionIds |-> [k \in Kind |-> {}]]
    /\ place = [t \in Turns |-> 0]
    /\ pc = [t \in Turns |-> "idle"]
    /\ user = [t \in Turns |-> Anonymous]
    /\ sid = [t \in Turns |-> CHOOSE s \in SessionIds : TRUE]
    /\ form = [t \in Turns |-> "plain"]
    /\ kind = [t \in Turns |-> "agent"]
    /\ opened = {}
    /\ context = [t \in Turns |-> {}]
    /\ known = [t \in Turns |-> {}]
    /\ upsert = [t \in Turns |-> Idle]
    /\ met = {} /\ due = [t \in Turns |-> {}]

Spec == Init /\ [][Next]_vars

-----------------------------------------------------------------------------
(* Properties *)

\* A conversation has one owner: whatever is recorded in a session was said by its
\* user, though the check and the insert are two statements and two first turns may
\* choose the same id.  And a run is given, and so changes and deletes, memories of
\* its own user only, though PlatformMemoryDb finds a row by agent and memory id.
UsersStayApart ==
    /\ \A t \in recorded : owner[sid[t]] = user[t]
    /\ \A t \in Turns : \A m \in known[t] : memory[m] \in {NoOne, user[t]}

\* What remember_fact stored shares the fate of the turn's other rows: all of it
\* is kept when the turn was answered or cancelled, or its failure recorded, nothing
\* when a turn that commits only once ended in any other way.
FactsFollowTheTurn ==
    \A t \in Turns :
        /\ \/ pc[t] \in {"answered", "cancelled"}
           \/ pc[t] = "failed" /\ form[t] # "plain"
           => facts[t] = told[t]
        /\ \/ pc[t] = "gone" /\ form[t] # "stream"
           \/ pc[t] = "failed" /\ form[t] = "plain"
           => facts[t] = 0

\* add_history_to_messages: a turn is given every turn of its session and kind that
\* was answered before it was started and is among the last num_history_runs saved,
\* but for those that overlapped with another such turn (the later save then
\* overwrites the earlier one).  Turns of the other kind are not given, although
\* WorkflowExecutionService says that a workflow and the chat share the history.
HistoryKeepsTurns ==
    \A t \in Turns : pc[t] \in {"engine", "end"} =>
        \A o \in due[t] : (\A c \in Turns : <<o, c>> \notin met) => o \in given(t)
=============================================================================
