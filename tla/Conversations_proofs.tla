------------------------ MODULE Conversations_proofs ------------------------
(***************************************************************************)
(* That users stay apart, that facts share the fate of their turn and that *)
(* the history of a session keeps the turns that did not overlap, for any  *)
(* number of turns, users, sessions and memories.                          *)
(*                                                                         *)
(* The inductive invariant has one part for each store: the session rows,  *)
(* the memories, the facts and Agno's history.                             *)
(***************************************************************************)
EXTENDS Conversations, FiniteSetTheorems, TLAPS

\* A turn that works in its session has found it to be its user's, or is the only
\* one that is inserting it.
SessionOf(t) ==
    /\ pc[t] \in {"begin", "start", "engine", "end"} =>
            IF t \in opened THEN owner[sid[t]] = NoOne ELSE owner[sid[t]] = user[t]
    /\ t \in opened => pc[t] \in {"begin", "start", "engine", "end"}
    /\ t \in recorded => owner[sid[t]] = user[t] /\ pc[t] # "idle"

Sessions ==
    /\ \A t \in Turns : SessionOf(t)
    /\ \A t, o \in opened : sid[t] = sid[o] => t = o

Holds(t, m) == m \in known[t] \/ upsert[t].id = {m}

\* The turns that hold a memory, or its id, are of one user, and nobody else's row
\* has the id.
Held ==
    /\ \A t \in Turns, m \in Memories : Holds(t, m) =>
            pc[t] # "idle" /\ memory[m] \in {NoOne, user[t]}
    /\ \A t, o \in Turns, m \in Memories : Holds(t, m) /\ Holds(o, m) => user[t] = user[o]

FactsOf(t) ==
    /\ pc[t] \in {"idle", "lookup", "create", "begin", "start"} => told[t] = 0 /\ facts[t] = 0
    /\ form[t] # "stream" /\ pc[t] \notin {"answered", "failed"} => facts[t] = 0
    /\ form[t] = "plain" /\ pc[t] = "failed" => facts[t] = 0
    /\ pc[t] \in {"answered", "cancelled"} \/ (pc[t] = "failed" /\ form[t] # "plain") =>
            facts[t] = told[t]

FactsInv == \A t \in Turns : FactsOf(t)

Alone(o) == \A c \in Turns : <<o, c>> \notin met

\* Turns of one history that are under way together have met.
Meetings ==
    \A o, c \in Turns : o # c /\ Akin(o, c) /\ UnderWay(o) /\ UnderWay(c) => <<o, c>> \in met

\* A history holds turns that were saved in it, and so does what was read of it; a
\* turn is saved once, at the end of its run.
Places ==
    /\ \A s \in SessionIds, k \in Kind : \A o \in history[s][k] :
            sid[o] = s /\ kind[o] = k /\ place[o] > 0
    /\ \A t \in Turns : \A o \in context[t] :
            Akin(o, t) /\ place[o] > 0 /\ pc[t] \in {"engine", "end"}
    /\ \A t \in Turns : pc[t] \in {"idle", "lookup", "create", "begin", "start", "engine"} => place[t] = 0

\* So a turn that met nobody is in the history when it has been saved, and in what
\* every later turn will write back.
Kept ==
    \A o \in Turns : Alone(o) /\ pc[o] \in {"end", "answered"} =>
        /\ o \in history[sid[o]][kind[o]]
        /\ \A c \in Turns : c # o /\ Akin(o, c) /\ pc[c] = "engine" => o \in context[c]

\* The turns a run was to be given are answered, and it was given those that met
\* nobody.
Due ==
    \A t \in Turns : \A o \in due[t] :
        /\ pc[o] = "answered" /\ pc[t] \in {"engine", "end"}
        /\ Alone(o) => o \in given(t)

HistoryInv == Meetings /\ Places /\ Kept /\ Due

Inv == TypeOK /\ Sessions /\ Held /\ FactsInv /\ HistoryInv

-----------------------------------------------------------------------------
(* Types *)

Label == {"idle", "lookup", "create", "begin", "start", "engine", "end"} \cup Over

\* The steps that end a turn.
Finish(t) == Complete(t) \/ UsageFails(t) \/ Cancelled(t) \/ Fail(t) \/ Vanish(t)

\* The turns that were saved can be counted.
LEMMA CountType == Cardinality({o \in Turns : place[o] > 0}) \in Nat
<1>1. {o \in Turns : place[o] > 0} \in SUBSET Turns
  OBVIOUS
<1>2. IsFiniteSet({o \in Turns : place[o] > 0})
  BY <1>1, FS_Subset, ConversationsAssumption
<1> QED
  BY <1>2, FS_CardinalityType

\* The labels a turn goes to.
LEMMA GotoType ==
    ASSUME TypeOK, NEW t \in Turns, NEW label \in Label, Goto(t, label)
    PROVE  /\ pc' \in [Turns -> Label]
           /\ pc'[t] = label
           /\ \A o \in Turns : o # t => pc'[o] = pc[o]
BY DEF TypeOK, Goto, Label

\* What a commit or a rollback writes has its type.
LEMMA CommitType ==
    ASSUME TypeOK, NEW t \in Turns, Commit(t) \/ Rollback(t)
    PROVE  /\ owner' \in [SessionIds -> Users \cup {NoOne}]
           /\ opened' \in SUBSET Turns /\ recorded' \in SUBSET Turns
           /\ facts' \in [Turns -> 0..MaxFacts]
<1>1. CASE Commit(t)
  BY <1>1 DEF Commit, TypeOK
<1>2. CASE Rollback(t)
  BY <1>2 DEF Rollback, TypeOK
<1> QED
  BY <1>1, <1>2

LEMMA EndsType ==
    ASSUME TypeOK, NEW t \in Turns, NEW label \in Over,
           Commit(t) \/ Rollback(t), Ends(t, label)
    PROVE  TypeOK'
<1>1. pc' \in [Turns -> Label]
  BY GotoType DEF Ends, Label
<1>2. upsert' \in [Turns -> [id: SUBSET Memories, found: BOOLEAN]]
  BY DEF TypeOK, Ends, Idle
<1>3. /\ context' \in [Turns -> SUBSET Turns] /\ known' \in [Turns -> SUBSET Memories]
      /\ due' \in [Turns -> SUBSET Turns]
  BY DEF TypeOK, Ends
<1> QED
  BY <1>1, <1>2, <1>3, CommitType DEF TypeOK, Ends, Label

\* The first state has the types.
LEMMA InitType == Init => TypeOK
<1> SUFFICES ASSUME Init
             PROVE  TypeOK
  OBVIOUS
<1>1. /\ Anonymous \in Users /\ 0 \in 0..MaxFacts
      /\ Idle \in [id: SUBSET Memories, found: BOOLEAN]
  BY ConversationsAssumption DEF Idle
<1>2. sid \in [Turns -> SessionIds]
  BY ConversationsAssumption DEF Init
<1> QED
  BY <1>1, <1>2 DEF Init, TypeOK, Form, Kind

LEMMA TypeStep == TypeOK /\ [Next]_vars => TypeOK'
<1> SUFFICES ASSUME TypeOK, [Next]_vars
             PROVE  TypeOK'
  OBVIOUS
<1> USE DEF db, local, ghost, engine
<1>0. ASSUME NEW t \in Turns, NEW label \in Label, Goto(t, label)
      PROVE  pc' \in [Turns -> Label]
  BY <1>0, GotoType
<1>1. ASSUME NEW t \in Turns, NEW u \in Users, NEW s \in SessionIds,
             Request(t, u, s) \/ Schedule(t, u, s)
      PROVE  TypeOK'
  <2>1. pc' \in [Turns -> Label]
    <3>1. \E label \in Label : Goto(t, label)
      <4>1. "lookup" \in Label /\ "create" \in Label
        BY DEF Label
      <4> QED
        BY <1>1, <4>1 DEF Request, Schedule
    <3>2. PICK label \in Label : Goto(t, label)
      BY <3>1
    <3> QED
      BY <1>0, <3>2
  <2>2. user' \in [Turns -> Users]
    <3>1. \E v \in Users : user' = [user EXCEPT ![t] = v]
      <4>1. \A verified \in verify_bearer_token : resolve_effective_user_id(verified, u) \in Users
        BY ConversationsAssumption DEF verify_bearer_token, resolve_effective_user_id
      <4> QED
        BY <1>1, <4>1 DEF Request, Schedule
    <3> QED
      BY <3>1 DEF TypeOK
  <2>3. sid' \in [Turns -> SessionIds]
    BY <1>1 DEF TypeOK, Request, Schedule
  <2>4. \E f \in Form, k \in Kind : form' = [form EXCEPT ![t] = f] /\ kind' = [kind EXCEPT ![t] = k]
    <3>1. CASE Request(t, u, s)
      BY <3>1 DEF Request, Form
    <3>2. CASE Schedule(t, u, s)
      BY <3>2 DEF Schedule, Form
    <3> QED
      BY <1>1, <3>1, <3>2
  <2>5. form' \in [Turns -> Form] /\ kind' \in [Turns -> Kind]
    BY <2>4 DEF TypeOK
  <2>6. UNCHANGED <<db, opened, told, context, known, upsert, ghost>>
    BY <1>1 DEF Request, Schedule
  <2> QED
    BY <2>1, <2>2, <2>3, <2>5, <2>6 DEF TypeOK, Label
<1>2. ASSUME NEW t \in Turns, Step(t)
      PROVE  TypeOK'
  <2>1. CASE Lookup(t)
    <3>1. pc' \in [Turns -> Label]
      BY <1>0, <2>1 DEF Lookup, Label, Over
    <3> QED
      BY <2>1, <3>1 DEF TypeOK, Lookup, Label
  <2>2. CASE Create(t)
    <3>1. pc' \in [Turns -> Label]
      BY <1>0, <2>2 DEF Create, Label, Over
    <3>2. opened' \in SUBSET Turns
      BY <2>2 DEF TypeOK, Create
    <3> QED
      BY <2>2, <3>1, <3>2 DEF TypeOK, Create, Label
  <2>3. CASE Begin(t)
    <3>1. pc' \in [Turns -> Label]
      BY <1>0, <2>3 DEF Begin, Label
    <3>2. /\ owner' \in [SessionIds -> Users \cup {NoOne}]
          /\ opened' \in SUBSET Turns /\ recorded' \in SUBSET Turns
          /\ facts' \in [Turns -> 0..MaxFacts]
      BY <2>3, CommitType DEF TypeOK, Begin
    <3>3. met' \in SUBSET (Turns \X Turns)
      BY <2>3 DEF TypeOK, Begin
    <3> QED
      BY <2>3, <3>1, <3>2, <3>3 DEF TypeOK, Begin, Label
  <2>4. CASE Start(t)
    <3>1. pc' \in [Turns -> Label]
      BY <1>0, <2>4 DEF Start, Label
    <3>2. history[sid[t]][kind[t]] \in SUBSET Turns
      BY DEF TypeOK
    <3>3. Last(Saved(t), kind[t]) \subseteq Turns
      BY DEF Last, Saved
    <3>4. /\ context' \in [Turns -> SUBSET Turns] /\ known' \in [Turns -> SUBSET Memories]
          /\ due' \in [Turns -> SUBSET Turns]
      BY <2>4, <3>2, <3>3 DEF TypeOK, Start
    <3> QED
      BY <2>4, <3>1, <3>4 DEF TypeOK, Start, Label
  <2>5. CASE remember_fact(t)
    <3>1. told' \in [Turns -> 0..MaxFacts]
      BY <2>5, ConversationsAssumption DEF TypeOK, remember_fact
    <3> QED
      BY <2>5, <3>1 DEF TypeOK, remember_fact
  <2>6. CASE Event(t)
    BY <2>6, CommitType DEF TypeOK, Event
  <2>7. ASSUME NEW m \in Memories, upsert_select(t, m)
        PROVE  TypeOK'
    <3>1. upsert' \in [Turns -> [id: SUBSET Memories, found: BOOLEAN]]
      BY <2>7 DEF TypeOK, upsert_select
    <3> QED
      BY <2>7, <3>1 DEF TypeOK, upsert_select
  <2>8. ASSUME NEW m \in Memories, upsert_write(t, m)
        PROVE  TypeOK'
    <3>1. upsert' \in [Turns -> [id: SUBSET Memories, found: BOOLEAN]]
      BY <2>8 DEF TypeOK, upsert_write, Idle
    <3>2. memory' \in [Memories -> Users \cup {NoOne}] /\ known' \in [Turns -> SUBSET Memories]
      BY <2>8 DEF TypeOK, upsert_write
    <3> QED
      BY <2>8, <3>1, <3>2 DEF TypeOK, upsert_write
  <2>9. ASSUME NEW m \in Memories, delete_memory(t, m)
        PROVE  TypeOK'
    <3>1. memory' \in [Memories -> Users \cup {NoOne}] /\ known' \in [Turns -> SUBSET Memories]
      BY <2>9 DEF TypeOK, delete_memory
    <3> QED
      BY <2>9, <3>1 DEF TypeOK, delete_memory
  <2>10. CASE SaveHistory(t)
    <3>1. pc' \in [Turns -> Label]
      BY <1>0, <2>10 DEF SaveHistory, Label
    <3>2. history' \in [SessionIds -> [Kind -> SUBSET Turns]]
      BY <2>10 DEF TypeOK, SaveHistory
    <3>3. place' \in [Turns -> Nat]
      BY <2>10, CountType DEF TypeOK, SaveHistory
    <3> QED
      BY <2>10, <3>1, <3>2, <3>3 DEF TypeOK, SaveHistory, Label
  <2>11. CASE Finish(t)
    <3>1. /\ Commit(t) \/ Rollback(t)
          /\ \E label \in Over : Ends(t, label)
      BY <2>11 DEF Finish, Complete, UsageFails, Cancelled, Fail, Vanish, Over
    <3> QED
      BY <3>1, EndsType
  <2> QED
    BY <1>2, <2>1, <2>2, <2>3, <2>4, <2>5, <2>6, <2>7, <2>8, <2>9, <2>10, <2>11
       DEF Step, Finish
<1>3. ASSUME NEW m \in Memories, forget(m)
      PROVE  TypeOK'
  <2>1. memory' \in [Memories -> Users \cup {NoOne}]
    BY <1>3 DEF TypeOK, forget
  <2> QED
    BY <1>3, <2>1 DEF TypeOK, forget
<1>4. CASE UNCHANGED vars
  BY <1>4 DEF TypeOK, vars
<1> QED
  BY <1>1, <1>2, <1>3, <1>4 DEF Next

-----------------------------------------------------------------------------
(* The session rows *)

Began == {"begin", "start", "engine", "end"}

\* A turn goes to a label at which it still works in its session, with nothing of
\* the session rows changed.
LEMMA SessionsGoOn ==
    ASSUME TypeOK, Sessions, NEW t \in Turns, NEW label \in Label, Goto(t, label),
           label # "idle", label \in Began <=> pc[t] \in Began,
           UNCHANGED <<owner, opened, recorded, user, sid>>
    PROVE  Sessions'
<1>1. \A o \in Turns : /\ pc'[o] \in Began <=> pc[o] \in Began
                       /\ pc'[o] = "idle" => pc[o] = "idle"
  BY GotoType
<1> QED
  BY <1>1 DEF Sessions, SessionOf, Began

\* A commit of a turn that works in its session; after it the turn may be over.
LEMMA CommitSessions ==
    ASSUME TypeOK, Sessions, NEW t \in Turns, pc[t] \in Began, Commit(t),
           UNCHANGED <<user, sid>>, pc' \in [Turns -> Label], pc'[t] # "idle",
           \A o \in Turns : o # t => pc'[o] = pc[o]
    PROVE  Sessions'
<1>1. /\ opened' = opened \ {t} /\ recorded' = recorded \cup {t}
      /\ opened \subseteq Turns /\ recorded \subseteq Turns
      /\ \A o \in Turns : user[o] \in Users /\ user[o] # NoOne /\ sid[o] \in SessionIds
  BY ConversationsAssumption DEF Commit, TypeOK
<1>2. owner'[sid[t]] = user[t]
  BY DEF Commit, TypeOK, Sessions, SessionOf, Began
<1>3. \A s \in SessionIds : owner[s] # NoOne => owner'[s] = owner[s]
  BY DEF Commit, TypeOK, Sessions, SessionOf, Began
<1>4. \A s \in SessionIds : s # sid[t] => owner'[s] = owner[s]
  BY DEF Commit, TypeOK
<1>5. \A o \in opened' : sid[o] # sid[t]
  <2> SUFFICES ASSUME NEW o \in opened', sid[o] = sid[t]
               PROVE  FALSE
    OBVIOUS
  <2>1. o \in opened /\ o # t /\ o \in Turns
    BY <1>1
  <2>2. owner[sid[o]] = NoOne
    BY <2>1 DEF Sessions, SessionOf
  <2>3. CASE t \in opened
    BY <2>1, <2>3 DEF Sessions
  <2>4. CASE t \notin opened
    BY <2>2, <2>4, <1>1 DEF Sessions, SessionOf, Began
  <2> QED
    BY <2>3, <2>4
<1>6. ASSUME NEW o \in Turns PROVE SessionOf(o)'
  <2>1. CASE o = t
    BY <2>1, <1>1, <1>2 DEF SessionOf
  <2>2. CASE o # t
    <3>1. pc'[o] = pc[o] /\ (o \in opened' <=> o \in opened) /\ (o \in recorded' <=> o \in recorded)
      BY <2>2, <1>1
    <3>2. o \in opened => owner'[sid[o]] = owner[sid[o]]
      BY <3>1, <1>1, <1>4, <1>5
    <3>3. owner[sid[o]] = user[o] => owner'[sid[o]] = user[o]
      BY <1>1, <1>3
    <3> QED
      BY <3>1, <3>2, <3>3 DEF SessionOf, Sessions
  <2> QED
    BY <2>1, <2>2
<1>7. \A c, o \in opened' : sid'[c] = sid'[o] => c = o
  BY <1>1 DEF Sessions
<1> QED
  BY <1>6, <1>7 DEF Sessions

\* A turn that is over, whether its session was inserted or not.
LEMMA RollbackSessions ==
    ASSUME TypeOK, Sessions, NEW t \in Turns, pc[t] # "idle", Rollback(t),
           NEW label \in Over, Goto(t, label), UNCHANGED <<user, sid>>
    PROVE  Sessions'
<1>1. /\ opened' = opened \ {t} /\ UNCHANGED <<owner, recorded>> /\ opened \subseteq Turns
      /\ label \in Label /\ label \notin Began /\ label # "idle"
  BY DEF Rollback, TypeOK, Label, Over, Began
<1>2. pc'[t] = label /\ \A o \in Turns : o # t => pc'[o] = pc[o]
  BY <1>1, GotoType
<1> QED
  BY <1>1, <1>2 DEF Sessions, SessionOf, Began

LEMMA SessionsStep == TypeOK /\ Sessions /\ [Next]_vars => Sessions'
<1> SUFFICES ASSUME TypeOK, Sessions, [Next]_vars
             PROVE  Sessions'
  OBVIOUS
<1> USE DEF db, local, ghost, engine
<1>1. ASSUME NEW t \in Turns, NEW u \in Users, NEW s \in SessionIds,
             Request(t, u, s) \/ Schedule(t, u, s)
      PROVE  Sessions'
  <2>1. /\ pc[t] = "idle" /\ pc'[t] \in {"lookup", "create"} /\ t \notin opened /\ t \notin recorded
        /\ UNCHANGED <<owner, opened, recorded>>
        /\ opened \subseteq Turns
    BY <1>1 DEF Request, Schedule, Goto, TypeOK, Sessions, SessionOf
  <2>2. \A o \in Turns : o # t => pc'[o] = pc[o] /\ user'[o] = user[o] /\ sid'[o] = sid[o]
    BY <1>1 DEF Request, Schedule, Goto, TypeOK
  <2>3. ASSUME NEW o \in Turns PROVE SessionOf(o)'
    <3>1. CASE o = t
      BY <2>1, <3>1 DEF SessionOf
    <3>2. CASE o # t
      BY <2>1, <2>2, <3>2 DEF Sessions, SessionOf
    <3> QED
      BY <3>1, <3>2
  <2>4. \A c, o \in opened' : sid'[c] = sid'[o] => c = o
    BY <2>1, <2>2 DEF Sessions
  <2> QED
    BY <2>3, <2>4 DEF Sessions
<1>2. ASSUME NEW t \in Turns, Step(t)
      PROVE  Sessions'
  <2>1. CASE Lookup(t)
    <3>1. /\ pc[t] = "lookup" /\ t \notin opened /\ UNCHANGED <<owner, opened, recorded, user, sid>>
          /\ pc'[t] \in {"create", "begin", "refused"} /\ (pc'[t] = "begin" => owner[sid[t]] = user[t])
      BY <2>1 DEF Lookup, Goto, TypeOK, Sessions, SessionOf
    <3>2. \A o \in Turns : o # t => pc'[o] = pc[o]
      BY <2>1 DEF Lookup, Goto, TypeOK
    <3> QED
      BY <3>1, <3>2 DEF Sessions, SessionOf
  <2>2. CASE Create(t)
    <3>1. /\ pc[t] = "create" /\ UNCHANGED <<owner, recorded, user, sid>>
          /\ \A o \in opened : sid[o] # sid[t]
      BY <2>2 DEF Create
    <3>2. \A o \in Turns : o # t => pc'[o] = pc[o]
      BY <2>2 DEF Create, Goto, TypeOK
    <3>3. CASE owner[sid[t]] = NoOne /\ opened' = opened \cup {t} /\ Goto(t, "begin")
      <4>1. pc'[t] = "begin"
        BY <3>3 DEF Goto, TypeOK
      <4>2. \A o \in Turns : SessionOf(o)'
        BY <3>1, <3>2, <3>3, <4>1 DEF Sessions, SessionOf
      <4>3. \A c, o \in opened' : sid'[c] = sid'[o] => c = o
        BY <3>1, <3>3 DEF Sessions
      <4> QED
        BY <4>2, <4>3 DEF Sessions
    <3>4. CASE opened' = opened /\ Goto(t, "failed")
      <4>1. "failed" \in Label /\ "failed" \notin Began /\ pc[t] \notin Began
        BY <3>1 DEF Label, Over, Began
      <4> QED
        BY <3>1, <3>4, <4>1, SessionsGoOn
    <3> QED
      BY <2>2, <3>3, <3>4 DEF Create
  <2>3. CASE Begin(t)
    <3>1. /\ pc[t] = "begin" /\ Goto(t, "start") /\ UNCHANGED <<user, sid>>
          /\ "start" \in Label /\ "start" \in Began /\ "begin" \in Began
      BY <2>3 DEF Begin, Label, Began
    <3>2. CASE Commit(t)
      BY <3>1, <3>2, GotoType, CommitSessions
    <3>3. CASE UNCHANGED <<owner, opened, recorded, facts>>
      BY <3>1, <3>3, SessionsGoOn
    <3> QED
      BY <2>3, <3>2, <3>3 DEF Begin
  <2>4. CASE Start(t)
    <3>1. "start" \in Began /\ "engine" \in Began /\ "engine" \in Label
      BY DEF Began, Label
    <3> QED
      BY <2>4, <3>1, SessionsGoOn DEF Start
  <2>5. CASE Event(t)
    <3>1. pc[t] \in Began /\ pc'[t] # "idle" /\ Commit(t) /\ UNCHANGED <<pc, user, sid>>
      BY <2>5 DEF Event, Began
    <3>2. pc' \in [Turns -> Label]
      BY <3>1 DEF TypeOK, Label
    <3> QED
      BY <3>1, <3>2, CommitSessions
  <2>6. CASE SaveHistory(t)
    <3>1. "end" \in Began /\ "engine" \in Began /\ "end" \in Label
      BY DEF Began, Label
    <3> QED
      BY <2>6, <3>1, SessionsGoOn DEF SaveHistory
  <2>7. ASSUME pc[t] \in Began, NEW label \in Over, Commit(t), Ends(t, label)
        PROVE  Sessions'
    <3>1. label \in Label /\ label # "idle"
      BY DEF Label, Over
    <3> QED
      BY <2>7, <3>1, GotoType, CommitSessions DEF Ends
  <2>8. ASSUME pc[t] # "idle", NEW label \in Over, Rollback(t), Ends(t, label)
        PROVE  Sessions'
    BY <2>8, RollbackSessions DEF Ends
  <2>9. CASE Finish(t)
    BY <2>7, <2>8, <2>9 DEF Finish, Complete, UsageFails, Cancelled, Fail, Vanish, Over, Began
  <2>10. CASE remember_fact(t) \/ \E m \in Memories : upsert_select(t, m) \/ upsert_write(t, m) \/ delete_memory(t, m)
    <3>1. UNCHANGED <<owner, opened, recorded, pc, user, sid>>
      BY <2>10 DEF remember_fact, upsert_select, upsert_write, delete_memory
    <3> QED
      BY <3>1 DEF Sessions, SessionOf
  <2> QED
    BY <1>2, <2>1, <2>2, <2>3, <2>4, <2>5, <2>6, <2>9, <2>10 DEF Step, Finish
<1>3. CASE UNCHANGED vars \/ \E m \in Memories : forget(m)
  <2>1. UNCHANGED <<owner, opened, recorded, pc, user, sid>>
    BY <1>3 DEF forget, vars
  <2> QED
    BY <2>1 DEF Sessions, SessionOf
<1> QED
  BY <1>1, <1>2, <1>3 DEF Next

-----------------------------------------------------------------------------
(* The memories *)

\* No step of a turn leads back to its beginning.
LEMMA NeverIdleAgain ==
    ASSUME TypeOK, NEW t \in Turns, Step(t)
    PROVE  \A o \in Turns : pc'[o] = "idle" => pc[o] = "idle"
<1> USE DEF TypeOK, Goto, Ends
<1>1. CASE Lookup(t) \/ Create(t) \/ Begin(t)
  BY <1>1 DEF Lookup, Create, Begin
<1>2. CASE Start(t) \/ remember_fact(t) \/ Event(t) \/ SaveHistory(t)
  BY <1>2 DEF Start, remember_fact, Event, SaveHistory
<1>3. CASE \E m \in Memories : upsert_select(t, m) \/ upsert_write(t, m) \/ delete_memory(t, m)
  BY <1>3 DEF upsert_select, upsert_write, delete_memory
<1>4. CASE Finish(t)
  BY <1>4 DEF Finish, Complete, UsageFails, Cancelled, Fail, Vanish
<1> QED
  BY <1>1, <1>2, <1>3, <1>4 DEF Step, Finish

\* Steps that let go of memories and delete them.
LEMMA HeldShrinks ==
    ASSUME Held, \A o \in Turns, m \in Memories : Holds(o, m)' => Holds(o, m),
           \A m \in Memories : memory'[m] \in {memory[m], NoOne},
           \A o \in Turns : pc'[o] = "idle" => pc[o] = "idle",
           user' = user
    PROVE  Held'
BY DEF Held

LEMMA HeldStep == TypeOK /\ Held /\ [Next]_vars => Held'
<1> SUFFICES ASSUME TypeOK, Held, [Next]_vars
             PROVE  Held'
  OBVIOUS
<1> USE DEF db, local, ghost, engine
<1>1. ASSUME NEW t \in Turns, NEW u \in Users, NEW s \in SessionIds,
             Request(t, u, s) \/ Schedule(t, u, s)
      PROVE  Held'
  <2>1. pc[t] = "idle" /\ UNCHANGED <<memory, known, upsert>>
    BY <1>1 DEF Request, Schedule
  <2>2. \A o \in Turns : o # t => pc'[o] = pc[o] /\ user'[o] = user[o]
    BY <1>1 DEF Request, Schedule, Goto, TypeOK
  <2>3. \A o \in Turns, m \in Memories : Holds(o, m)' <=> Holds(o, m)
    BY <2>1 DEF Holds
  <2>4. \A m \in Memories : ~Holds(t, m)
    BY <2>1 DEF Held
  <2> QED
    BY <2>1, <2>2, <2>3, <2>4 DEF Held
<1>2. ASSUME NEW t \in Turns, Step(t)
      PROVE  Held'
  <2>1. \A o \in Turns : pc'[o] = "idle" => pc[o] = "idle"
    BY <1>2, NeverIdleAgain
  <2>2. ASSUME UNCHANGED <<memory, known, upsert, user>>
        PROVE  Held'
    BY <2>1, <2>2, HeldShrinks DEF Holds
  <2>3. CASE Lookup(t) \/ Create(t) \/ Begin(t) \/ remember_fact(t) \/ Event(t) \/ SaveHistory(t)
    BY <2>2, <2>3 DEF Lookup, Create, Begin, remember_fact, Event, SaveHistory
  <2>4. CASE Start(t)
    <3>1. /\ UNCHANGED <<memory, upsert, user>> /\ pc'[t] = "engine"
          /\ known'[t] = {m \in Memories : memory[m] = user[t]}
          /\ \A o \in Turns : o # t => known'[o] = known[o]
          /\ user[t] \in Users /\ user[t] # NoOne
      BY <2>4, ConversationsAssumption DEF Start, Goto, TypeOK
    <3>2. \A o \in Turns, m \in Memories :
            Holds(o, m)' => Holds(o, m) \/ (o = t /\ memory[m] = user[t])
      BY <3>1 DEF Holds
    <3>3. \A o \in Turns, m \in Memories : Holds(o, m) /\ memory[m] = user[t] => user[o] = user[t]
      BY <3>1 DEF Held
    <3>4. \A o \in Turns, m \in Memories : Holds(o, m)' =>
            pc'[o] # "idle" /\ memory[m] \in {NoOne, user[o]}
      BY <2>1, <3>1, <3>2 DEF Held
    <3>5. ASSUME NEW c \in Turns, NEW o \in Turns, NEW m \in Memories, Holds(c, m)', Holds(o, m)'
          PROVE  user[c] = user[o]
      BY <3>2, <3>3, <3>5 DEF Held
    <3> QED
      BY <3>1, <3>4, <3>5 DEF Held
  <2>5. ASSUME NEW m \in Memories, upsert_select(t, m)
        PROVE  Held'
    <3>1. /\ UNCHANGED <<memory, known, user>> /\ pc[t] = "engine"
          /\ upsert'[t].id = {m}
          /\ \A o \in Turns : o # t => upsert'[o] = upsert[o]
          /\ m \in known[t] \/ (memory[m] = NoOne /\ New(m))
      BY <2>5 DEF upsert_select, Remembers, TypeOK
    <3>2. \A o \in Turns, k \in Memories : Holds(o, k)' => Holds(o, k) \/ (o = t /\ k = m)
      BY <3>1 DEF Holds
    <3>3. CASE m \in known[t]
      <4>1. Holds(t, m)
        BY <3>3 DEF Holds
      <4> QED
        BY <2>1, <3>1, <3>2, <4>1, HeldShrinks
    <3>4. CASE memory[m] = NoOne /\ New(m)
      <4>1. \A o \in Turns : ~Holds(o, m)
        BY <3>4 DEF New, Holds
      <4> QED
        BY <2>1, <3>1, <3>2, <3>4, <4>1 DEF Held
    <3> QED
      BY <3>1, <3>3, <3>4
  <2>6. ASSUME NEW m \in Memories, upsert_write(t, m)
        PROVE  Held'
    <3>1. /\ UNCHANGED <<pc, user>> /\ upsert[t].id = {m}
          /\ upsert'[t].id = {} /\ known'[t] = known[t] \cup {m}
          /\ \A o \in Turns : o # t => upsert'[o] = upsert[o] /\ known'[o] = known[o]
          /\ memory'[m] = memory[m] \/ memory'[m] = user[t]
          /\ \A k \in Memories : k # m => memory'[k] = memory[k]
      BY <2>6 DEF upsert_write, Idle, TypeOK
    <3>2. Holds(t, m) /\ \A o \in Turns, k \in Memories : Holds(o, k)' => Holds(o, k)
      BY <3>1 DEF Holds
    <3>3. \A o \in Turns, k \in Memories : Holds(o, k) => memory'[k] \in {NoOne, user[o]}
      BY <3>1, <3>2 DEF Held
    <3> QED
      BY <3>1, <3>2, <3>3 DEF Held
  <2>7. ASSUME NEW m \in Memories, delete_memory(t, m)
        PROVE  Held'
    <3>1. \A o \in Turns, k \in Memories : Holds(o, k)' => Holds(o, k)
      BY <2>7 DEF delete_memory, TypeOK, Holds
    <3>2. user' = user /\ \A k \in Memories : memory'[k] \in {memory[k], NoOne}
      BY <2>7 DEF delete_memory, TypeOK
    <3> QED
      BY <2>1, <3>1, <3>2, HeldShrinks
  <2>8. CASE Finish(t)
    <3>1. /\ UNCHANGED <<memory, user>>
          /\ \A o \in Turns : upsert'[o].id \in {upsert[o].id, {}} /\ known'[o] \subseteq known[o]
      BY <2>8 DEF Finish, Complete, UsageFails, Cancelled, Fail, Vanish, Ends, Idle, TypeOK
    <3>2. \A o \in Turns, k \in Memories : Holds(o, k)' => Holds(o, k)
      BY <3>1 DEF Holds
    <3> QED
      BY <2>1, <3>1, <3>2, HeldShrinks
  <2> QED
    BY <1>2, <2>3, <2>4, <2>5, <2>6, <2>7, <2>8 DEF Step, Finish
<1>3. ASSUME NEW m \in Memories, forget(m)
      PROVE  Held'
  <2>1. \A k \in Memories : memory'[k] \in {memory[k], NoOne}
    BY <1>3 DEF forget, TypeOK
  <2>2. UNCHANGED <<pc, user, known, upsert>>
    BY <1>3 DEF forget
  <2> QED
    BY <2>1, <2>2, HeldShrinks DEF Holds
<1>4. CASE UNCHANGED vars
  BY <1>4 DEF vars, Held, Holds
<1> QED
  BY <1>1, <1>2, <1>3, <1>4 DEF Next

-----------------------------------------------------------------------------
(* The facts *)

\* Only the facts of the turn that takes the step are concerned.
LEMMA FactsOfOne ==
    ASSUME FactsInv, NEW t \in Turns, FactsOf(t)',
           \A o \in Turns : o # t => /\ pc'[o] = pc[o] /\ facts'[o] = facts[o]
                                     /\ told'[o] = told[o] /\ form'[o] = form[o]
    PROVE  FactsInv'
<1>1. ASSUME NEW o \in Turns, o # t PROVE FactsOf(o)'
  BY <1>1 DEF FactsInv, FactsOf
<1> QED
  BY <1>1 DEF FactsInv

\* A commit stores what was told, a rollback leaves what was stored.
LEMMA CommitFacts ==
    ASSUME TypeOK, NEW t \in Turns, Commit(t)
    PROVE  /\ facts'[t] = told[t]
           /\ \A o \in Turns : o # t => facts'[o] = facts[o]
BY DEF Commit, TypeOK

LEMMA FactsStep == TypeOK /\ FactsInv /\ [Next]_vars => FactsInv'
<1> SUFFICES ASSUME TypeOK, FactsInv, [Next]_vars
             PROVE  FactsInv'
  OBVIOUS
<1> USE DEF db, local, ghost, engine
<1>1. ASSUME NEW t \in Turns, NEW u \in Users, NEW s \in SessionIds,
             Request(t, u, s) \/ Schedule(t, u, s)
      PROVE  FactsInv'
  <2>1. pc[t] = "idle" /\ pc'[t] \in {"lookup", "create"} /\ UNCHANGED <<facts, told>>
    BY <1>1 DEF Request, Schedule, Goto, TypeOK
  <2>2. \A o \in Turns : o # t => pc'[o] = pc[o] /\ form'[o] = form[o]
    BY <1>1 DEF Request, Schedule, Goto, TypeOK
  <2>3. FactsOf(t)'
    BY <2>1 DEF FactsInv, FactsOf
  <2> QED
    BY <2>1, <2>2, <2>3, FactsOfOne
<1>2. ASSUME NEW t \in Turns, Step(t)
      PROVE  FactsInv'
  <2> USE DEF TypeOK, Goto
  <2>1. CASE Lookup(t) \/ Create(t)
    <3>1. /\ pc[t] \in {"lookup", "create"} /\ pc'[t] \in {"create", "begin", "refused", "failed"}
          /\ UNCHANGED <<facts, told, form>> /\ \A o \in Turns : o # t => pc'[o] = pc[o]
      BY <2>1 DEF Lookup, Create
    <3>2. FactsOf(t)'
      BY <3>1 DEF FactsInv, FactsOf
    <3> QED
      BY <3>1, <3>2, FactsOfOne
  <2>2. CASE Begin(t)
    <3>1. /\ pc[t] = "begin" /\ pc'[t] = "start" /\ UNCHANGED <<told, form>>
          /\ \A o \in Turns : o # t => pc'[o] = pc[o]
      BY <2>2 DEF Begin
    <3>2. facts'[t] \in {facts[t], told[t]} /\ \A o \in Turns : o # t => facts'[o] = facts[o]
      BY <2>2, CommitFacts DEF Begin
    <3>3. FactsOf(t)'
      BY <3>1, <3>2 DEF FactsInv, FactsOf
    <3> QED
      BY <3>1, <3>2, <3>3, FactsOfOne
  <2>3. CASE Start(t) \/ SaveHistory(t)
    <3>1. /\ pc[t] \in {"start", "engine"} /\ pc'[t] \in {"engine", "end"}
          /\ UNCHANGED <<facts, told, form>> /\ \A o \in Turns : o # t => pc'[o] = pc[o]
      BY <2>3 DEF Start, SaveHistory
    <3>2. FactsOf(t)'
      BY <3>1 DEF FactsInv, FactsOf
    <3> QED
      BY <3>1, <3>2, FactsOfOne
  <2>4. CASE remember_fact(t)
    <3>1. /\ pc[t] = "engine" /\ UNCHANGED <<pc, facts, form>>
          /\ \A o \in Turns : o # t => told'[o] = told[o]
      BY <2>4 DEF remember_fact, Remembers
    <3>2. FactsOf(t)'
      BY <3>1 DEF FactsInv, FactsOf
    <3> QED
      BY <3>1, <3>2, FactsOfOne
  <2>5. CASE Event(t)
    <3>1. pc[t] = "engine" /\ form[t] = "stream" /\ UNCHANGED <<pc, told, form>>
      BY <2>5 DEF Event
    <3>2. \A o \in Turns : o # t => facts'[o] = facts[o]
      BY <2>5, CommitFacts DEF Event
    <3>3. FactsOf(t)'
      BY <3>1 DEF FactsOf
    <3> QED
      BY <3>1, <3>2, <3>3, FactsOfOne
  <2>6. CASE \E m \in Memories : upsert_select(t, m) \/ upsert_write(t, m) \/ delete_memory(t, m)
    <3>1. UNCHANGED <<pc, facts, told, form>>
      BY <2>6 DEF upsert_select, upsert_write, delete_memory
    <3> QED
      BY <3>1 DEF FactsInv, FactsOf
  <2>7. CASE Finish(t)
    <3>1. /\ UNCHANGED <<told, form>> /\ pc'[t] \in {"answered", "cancelled", "failed", "gone"}
          /\ pc[t] \notin {"answered", "cancelled", "failed"}
          /\ \A o \in Turns : o # t => pc'[o] = pc[o]
      BY <2>7 DEF Finish, Complete, UsageFails, Cancelled, Fail, Vanish, Ends
    <3>2. /\ pc'[t] \in {"answered", "cancelled"} => Commit(t)
          /\ pc'[t] = "cancelled" => form[t] = "stream"
          /\ pc'[t] = "failed" => IF form[t] = "plain" THEN Rollback(t) ELSE Commit(t)
          /\ pc'[t] = "gone" => Rollback(t) \/ (form[t] = "stream" /\ Commit(t))
      BY <2>7 DEF Finish, Complete, UsageFails, Cancelled, Fail, Vanish, Ends
    <3>3. Rollback(t) => facts' = facts
      BY DEF Rollback
    <3>4. \A o \in Turns : o # t => facts'[o] = facts[o]
      BY <3>1, <3>2, <3>3, CommitFacts
    <3>5. form[t] # "stream" /\ Rollback(t) => facts'[t] = 0
      BY <3>1, <3>3 DEF FactsInv, FactsOf
    <3>6. Commit(t) => facts'[t] = told[t]
      BY CommitFacts
    <3>7. form[t] \in {"plain", "stream", "scheduled"}
      BY DEF Form
    <3>8. FactsOf(t)'
      <4>1. CASE pc'[t] \in {"answered", "cancelled"}
        BY <3>1, <3>2, <3>6, <4>1 DEF FactsOf
      <4>2. CASE pc'[t] = "failed"
        BY <3>1, <3>2, <3>5, <3>6, <3>7, <4>2 DEF FactsOf
      <4>3. CASE pc'[t] = "gone"
        BY <3>1, <3>2, <3>5, <4>3 DEF FactsOf
      <4> QED
        BY <3>1, <4>1, <4>2, <4>3
    <3> QED
      BY <3>1, <3>4, <3>8, FactsOfOne
  <2> QED
    BY <1>2, <2>1, <2>2, <2>3, <2>4, <2>5, <2>6, <2>7 DEF Step, Finish
<1>3. CASE UNCHANGED vars \/ \E m \in Memories : forget(m)
  <2>1. UNCHANGED <<pc, facts, told, form>>
    BY <1>3 DEF forget, vars
  <2> QED
    BY <2>1 DEF FactsInv, FactsOf
<1> QED
  BY <1>1, <1>2, <1>3 DEF Next

-----------------------------------------------------------------------------
(* The history *)

\* What a turn was given depends on its own state and the places of its context.
LEMMA GivenSame ==
    ASSUME TypeOK, NEW t \in Turns, context'[t] = context[t], kind'[t] = kind[t],
           \A o \in context[t] : place'[o] = place[o]
    PROVE  given(t)' = given(t)
<1>1. ASSUME NEW o \in context[t]
      PROVE  {x \in context[t] : place'[x] > place'[o]} = {x \in context[t] : place[x] > place[o]}
  OBVIOUS
<1> QED
  BY <1>1 DEF given, Last

\* Steps that neither begin a turn nor read or write a history, and may end a turn.
LEMMA HistoryQuiet ==
    ASSUME TypeOK, HistoryInv, UNCHANGED <<history, place, sid, kind, met>>,
           \A o \in Turns : /\ pc'[o] \in {"start", "engine", "end"} => UnderWay(o)
                            /\ pc'[o] \in {"end", "answered"} => pc[o] \in {"end", "answered"}
                            /\ pc'[o] = "engine" => pc[o] = "engine"
                            /\ pc[o] = "answered" => pc'[o] = "answered"
                            /\ pc'[o] \in {"idle", "lookup", "create", "begin", "start", "engine"} => place[o] = 0
                            /\ \/ pc'[o] = pc[o] /\ context'[o] = context[o] /\ due'[o] = due[o]
                               \/ pc'[o] # "engine" /\ context'[o] = {} /\ due'[o] = {}
    PROVE  HistoryInv'
<1>1. \A o, c \in Turns : (Alone(o)' <=> Alone(o)) /\ (Akin(o, c)' <=> Akin(o, c))
  BY DEF Alone, Akin
<1>2. Meetings'
  BY <1>1 DEF HistoryInv, Meetings, UnderWay
<1>3. Places'
  <2>1. \A s \in SessionIds, k \in Kind : \A o \in history[s][k] :
            sid[o] = s /\ kind[o] = k /\ place[o] > 0
    BY DEF HistoryInv, Places
  <2>2. ASSUME NEW t \in Turns, NEW o \in context'[t]
        PROVE  Akin(o, t)' /\ place'[o] > 0 /\ pc'[t] \in {"engine", "end"}
    <3>1. o \in context[t] /\ pc'[t] = pc[t] /\ o \in Turns
      BY <2>2 DEF TypeOK
    <3> QED
      BY <1>1, <3>1 DEF HistoryInv, Places
  <2> QED
    BY <2>1, <2>2 DEF Places
<1>4. Kept'
  BY <1>1 DEF HistoryInv, Kept
<1>5. Due'
  <2> SUFFICES ASSUME NEW t \in Turns, NEW o \in due'[t]
               PROVE  /\ pc'[o] = "answered" /\ pc'[t] \in {"engine", "end"}
                      /\ Alone(o)' => o \in given(t)'
    BY DEF Due
  <2>1. pc'[t] = pc[t] /\ context'[t] = context[t] /\ due'[t] = due[t]
    OBVIOUS
  <2>2. given(t)' = given(t)
    BY <2>1, GivenSame
  <2>3. o \in Turns
    BY <2>1 DEF TypeOK
  <2> QED
    BY <1>1, <2>1, <2>2, <2>3 DEF HistoryInv, Due
<1> QED
  BY <1>2, <1>3, <1>4, <1>5 DEF HistoryInv

\* A new request or run of a schedule has no past.
LEMMA HistoryRequest ==
    ASSUME TypeOK, HistoryInv, NEW t \in Turns, NEW u \in Users, NEW s \in SessionIds,
           Request(t, u, s) \/ Schedule(t, u, s)
    PROVE  HistoryInv'
<1>1. /\ pc[t] = "idle" /\ pc'[t] \in {"lookup", "create"} /\ place[t] = 0
      /\ UNCHANGED <<history, place, context, met, due>>
      /\ \A o \in Turns : o # t => pc'[o] = pc[o] /\ sid'[o] = sid[o] /\ kind'[o] = kind[o]
  BY DEF Request, Schedule, Goto, TypeOK, db, ghost, HistoryInv, Places
<1>2. /\ \A c \in Turns : t \notin context[c]
      /\ \A z \in SessionIds, k \in Kind : t \notin history[z][k]
  BY <1>1 DEF HistoryInv, Places
<1>3. \A o, c \in Turns : o # t /\ c # t => (Akin(o, c)' <=> Akin(o, c))
  BY <1>1 DEF Akin
<1>4. context[t] = {}
  BY <1>1 DEF HistoryInv, Places
<1>5. \A o \in Turns : Alone(o)' <=> Alone(o)
  BY <1>1 DEF Alone
<1>6. Meetings'
  BY <1>1, <1>3 DEF HistoryInv, Meetings, UnderWay
<1>7. Places'
  <2>1. \A z \in SessionIds, k \in Kind : \A o \in history[z][k] : o \in Turns /\ o # t
    BY <1>2 DEF TypeOK
  <2>2. \A c \in Turns : \A o \in context[c] : o \in Turns /\ o # t /\ c # t
    BY <1>2, <1>4 DEF TypeOK
  <2> QED
    BY <1>1, <1>3, <2>1, <2>2 DEF HistoryInv, Places
<1>8. Kept'
  BY <1>1, <1>3, <1>5 DEF HistoryInv, Kept
<1>9. Due'
  <2> SUFFICES ASSUME NEW c \in Turns, NEW o \in due[c]
               PROVE  /\ pc'[o] = "answered" /\ pc'[c] \in {"engine", "end"}
                      /\ Alone(o)' => o \in given(c)'
    BY <1>1 DEF Due
  <2>1. o \in Turns /\ pc[o] = "answered" /\ pc[c] \in {"engine", "end"} /\ o # t /\ c # t
    BY <1>1 DEF HistoryInv, Due, TypeOK
  <2>2. given(c)' = given(c)
    BY <1>1, <2>1, GivenSame
  <2> QED
    BY <1>1, <1>5, <2>1, <2>2 DEF HistoryInv, Due
<1> QED
  BY <1>6, <1>7, <1>8, <1>9 DEF HistoryInv

\* A turn that begins meets those under way in its session.
LEMMA HistoryBegin ==
    ASSUME TypeOK, HistoryInv, NEW t \in Turns, Begin(t)
    PROVE  HistoryInv'
<1>1. /\ pc[t] = "begin" /\ pc'[t] = "start"
      /\ UNCHANGED <<history, place, context, sid, kind, due>>
      /\ \A o \in Turns : o # t => pc'[o] = pc[o]
  BY DEF Begin, Goto, TypeOK
<1>2. /\ met \subseteq met'
      /\ \A o \in Turns : UnderWay(o) /\ Akin(o, t) => <<o, t>> \in met' /\ <<t, o>> \in met'
  <2>1. met' = met \cup UNION {{<<o, t>>, <<t, o>>} : o \in {o \in Turns : UnderWay(o) /\ Akin(o, t)}}
    BY DEF Begin
  <2> QED
    BY <2>1
<1>3. \A o, c \in Turns : /\ Akin(o, c)' <=> Akin(o, c)
                          /\ Akin(o, c) <=> Akin(c, o)
                          /\ Alone(o)' => Alone(o)
  BY <1>1, <1>2 DEF Alone, Akin
<1>4. Meetings'
  <2> SUFFICES ASSUME NEW o \in Turns, NEW c \in Turns,
                      o # c, Akin(o, c), UnderWay(o)', UnderWay(c)'
               PROVE  <<o, c>> \in met'
    BY <1>3 DEF Meetings
  <2> QED
    BY <1>1, <1>2, <1>3 DEF HistoryInv, Meetings, UnderWay
<1>5. Places'
  BY <1>1 DEF HistoryInv, Places, Akin
<1>6. Kept'
  BY <1>1, <1>3 DEF HistoryInv, Kept
<1>7. Due'
  <2> SUFFICES ASSUME NEW c \in Turns, NEW o \in due[c]
               PROVE  /\ pc'[o] = "answered" /\ pc'[c] \in {"engine", "end"}
                      /\ Alone(o)' => o \in given(c)'
    BY <1>1 DEF Due
  <2>1. o \in Turns /\ pc[o] = "answered" /\ pc[c] \in {"engine", "end"} /\ o # t /\ c # t
    BY <1>1 DEF HistoryInv, Due, TypeOK
  <2>2. given(c)' = given(c)
    BY <1>1, GivenSame
  <2> QED
    BY <1>1, <1>3, <2>1, <2>2 DEF HistoryInv, Due
<1> QED
  BY <1>4, <1>5, <1>6, <1>7 DEF HistoryInv

\* What a run reads holds every turn of its history that met nobody; and as it holds
\* nothing but turns that were saved, the last of those are among its own last.
LEMMA HistoryStart ==
    ASSUME TypeOK, HistoryInv, NEW t \in Turns, Start(t)
    PROVE  HistoryInv'
<1>1. /\ pc[t] = "start" /\ pc'[t] = "engine"
      /\ UNCHANGED <<history, place, sid, kind, met>>
      /\ \A o \in Turns : o # t => pc'[o] = pc[o] /\ context'[o] = context[o] /\ due'[o] = due[o]
      /\ context'[t] = history[sid[t]][kind[t]]
      /\ due'[t] = {o \in Last(Saved(t), kind[t]) : pc[o] = "answered"}
  BY DEF Start, Goto, TypeOK, engine
<1>2. \A o, c \in Turns : (Alone(o)' <=> Alone(o)) /\ (Akin(o, c)' <=> Akin(o, c))
  BY <1>1 DEF Alone, Akin
<1>3. sid[t] \in SessionIds /\ kind[t] \in Kind /\ context'[t] \subseteq Turns
  BY <1>1 DEF TypeOK
<1>4. context'[t] \subseteq Saved(t)
  BY <1>1, <1>3 DEF HistoryInv, Places, Saved, Akin
<1>5. Meetings'
  BY <1>1, <1>2 DEF HistoryInv, Meetings, UnderWay
<1>6. Places'
  <2>1. \A o \in context'[t] : Akin(o, t)' /\ place'[o] > 0 /\ pc'[t] \in {"engine", "end"}
    BY <1>1, <1>2, <1>3, <1>4 DEF Saved
  <2>2. \A c \in Turns : c # t => \A o \in context'[c] : Akin(o, c)' /\ place'[o] > 0 /\ pc'[c] \in {"engine", "end"}
    BY <1>1, <1>2 DEF HistoryInv, Places, TypeOK
  <2> QED
    BY <1>1, <2>1, <2>2 DEF HistoryInv, Places
<1>7. Kept'
  <2> SUFFICES ASSUME NEW o \in Turns, Alone(o), pc'[o] \in {"end", "answered"}
               PROVE  /\ o \in history[sid[o]][kind[o]]
                      /\ \A c \in Turns : c # o /\ Akin(o, c) /\ pc'[c] = "engine" => o \in context'[c]
    BY <1>1, <1>2 DEF Kept
  <2>1. pc[o] = pc'[o] /\ o # t
    BY <1>1
  <2>2. Akin(o, t) => o \in context'[t]
    BY <1>1, <2>1 DEF HistoryInv, Kept, Akin
  <2> QED
    BY <1>1, <2>1, <2>2 DEF HistoryInv, Kept
<1>8. ASSUME NEW o \in due'[t]
      PROVE  pc'[o] = "answered" /\ (Alone(o)' => o \in given(t)')
  <2>1. o \in Saved(t) /\ o \in Turns /\ o # t /\ pc[o] = "answered" /\ Akin(o, t)
    BY <1>1, <1>8 DEF Last, Saved
  <2>2. Alone(o) => o \in context'[t]
    BY <1>1, <2>1 DEF HistoryInv, Kept, Akin
  <2> DEFINE After == {x \in Saved(t) : place[x] > place[o]}
             Given == {x \in context'[t] : place[x] > place[o]}
  <2>3. Given \in SUBSET After /\ After \in SUBSET Turns
    BY <1>4 DEF Saved
  <2>4. IsFiniteSet(After)
    BY <2>3, FS_Subset, ConversationsAssumption
  <2>5. IsFiniteSet(Given) /\ Cardinality(Given) <= Cardinality(After)
    BY <2>3, <2>4, FS_Subset
  <2>6. Cardinality(Given) \in Nat /\ Cardinality(After) \in Nat
    BY <2>4, <2>5, FS_CardinalityType
  <2>7. Cardinality(After) < HistoryRuns[kind[t]]
    BY <1>1, <1>8 DEF Last
  <2>8. HistoryRuns[kind[t]] \in Nat
    BY <1>3, ConversationsAssumption DEF Kind
  <2>9. Cardinality(Given) < HistoryRuns[kind[t]]
    <3> HIDE DEF After, Given
    <3> QED
      BY <2>5, <2>6, <2>7, <2>8
  <2>10. given(t)' = {x \in context'[t] :
            Cardinality({y \in context'[t] : place[y] > place[x]}) < HistoryRuns[kind[t]]}
    BY <1>1 DEF given, Last
  <2> QED
    BY <1>1, <1>2, <2>1, <2>2, <2>9, <2>10
<1>9. Due'
  <2> SUFFICES ASSUME NEW c \in Turns, NEW o \in due'[c]
               PROVE  /\ pc'[o] = "answered" /\ pc'[c] \in {"engine", "end"}
                      /\ Alone(o)' => o \in given(c)'
    BY DEF Due
  <2>1. CASE c = t
    BY <1>1, <1>8, <2>1
  <2>2. CASE c # t
    <3>1. /\ o \in due[c] /\ o \in Turns /\ pc[o] = "answered" /\ pc[c] \in {"engine", "end"}
          /\ Alone(o) => o \in given(c)
      BY <1>1, <2>2 DEF HistoryInv, Due, TypeOK
    <3>2. given(c)' = given(c)
      BY <1>1, <2>2, GivenSame
    <3> QED
      BY <1>1, <1>2, <2>2, <3>1, <3>2
  <2> QED
    BY <2>1, <2>2
<1> QED
  BY <1>5, <1>6, <1>7, <1>9 DEF HistoryInv

\* Who saves a history writes every turn that met nobody back, and its own.
LEMMA HistorySave ==
    ASSUME TypeOK, HistoryInv, NEW t \in Turns, SaveHistory(t)
    PROVE  HistoryInv'
<1>1. /\ pc[t] = "engine" /\ pc'[t] = "end" /\ place[t] = 0
      /\ UNCHANGED <<context, sid, kind, met, due>>
      /\ \A o \in Turns : o # t => pc'[o] = pc[o] /\ place'[o] = place[o]
  BY DEF SaveHistory, Goto, TypeOK, engine, HistoryInv, Places
<1>2. place'[t] > 0
  BY CountType DEF SaveHistory, TypeOK
<1>3. /\ history'[sid[t]][kind[t]] = context[t] \cup {t}
      /\ \A s \in SessionIds, k \in Kind :
            s # sid[t] \/ k # kind[t] => history'[s][k] = history[s][k]
      /\ \A o \in Turns : sid[o] \in SessionIds /\ kind[o] \in Kind
  BY DEF SaveHistory, TypeOK
<1>4. \A o, c \in Turns : (Alone(o)' <=> Alone(o)) /\ (Akin(o, c)' <=> Akin(o, c))
  BY <1>1 DEF Alone, Akin
<1>5. \A c \in Turns : \A o \in context[c] : o \in Turns /\ o # t /\ place'[o] = place[o]
  BY <1>1 DEF HistoryInv, Places, TypeOK
<1>6. Meetings'
  BY <1>1, <1>4 DEF HistoryInv, Meetings, UnderWay
<1>7. Places'
  <2>1. ASSUME NEW s \in SessionIds, NEW k \in Kind, NEW o \in history'[s][k]
        PROVE  sid[o] = s /\ kind[o] = k /\ place'[o] > 0
    <3>1. CASE s = sid[t] /\ k = kind[t]
      BY <1>1, <1>2, <1>3, <1>5, <2>1, <3>1 DEF HistoryInv, Places, Akin
    <3>2. CASE s # sid[t] \/ k # kind[t]
      <4>1. o \in history[s][k] /\ o \in Turns
        BY <1>3, <2>1, <3>2 DEF TypeOK
      <4>2. sid[o] = s /\ kind[o] = k /\ place[o] > 0
        BY <4>1 DEF HistoryInv, Places
      <4> QED
        BY <1>1, <3>2, <4>1, <4>2
    <3> QED
      BY <3>1, <3>2
  <2>2. ASSUME NEW c \in Turns, NEW o \in context'[c]
        PROVE  Akin(o, c)' /\ place'[o] > 0 /\ pc'[c] \in {"engine", "end"}
    BY <1>1, <1>4, <1>5, <2>2 DEF HistoryInv, Places
  <2>3. \A c \in Turns : pc'[c] \in {"idle", "lookup", "create", "begin", "start", "engine"} => place'[c] = 0
    BY <1>1 DEF HistoryInv, Places
  <2> QED
    BY <1>1, <2>1, <2>2, <2>3 DEF Places
<1>8. Kept'
  <2> SUFFICES ASSUME NEW o \in Turns, Alone(o), pc'[o] \in {"end", "answered"}
               PROVE  /\ o \in history'[sid[o]][kind[o]]
                      /\ \A c \in Turns : c # o /\ Akin(o, c) /\ pc'[c] = "engine" => o \in context[c]
    BY <1>1, <1>4 DEF Kept
  <2>1. CASE o = t
    <3>1. \A c \in Turns : c # t /\ Akin(t, c) => pc[c] # "engine"
      BY <1>1, <2>1 DEF HistoryInv, Meetings, UnderWay, Alone
    <3> QED
      BY <1>1, <1>3, <2>1, <3>1
  <2>2. CASE o # t
    <3>1. pc[o] \in {"end", "answered"}
      BY <1>1, <2>2
    <3>2. /\ o \in history[sid[o]][kind[o]]
          /\ \A c \in Turns : c # o /\ Akin(o, c) /\ pc[c] = "engine" => o \in context[c]
      BY <3>1 DEF HistoryInv, Kept
    <3>3. CASE Akin(o, t)
      BY <1>1, <1>3, <2>2, <3>2, <3>3 DEF Akin
    <3>4. CASE ~Akin(o, t)
      BY <1>1, <1>3, <2>2, <3>2, <3>4 DEF Akin
    <3> QED
      BY <3>3, <3>4
  <2> QED
    BY <2>1, <2>2
<1>9. Due'
  <2> SUFFICES ASSUME NEW c \in Turns, NEW o \in due[c]
               PROVE  /\ pc'[o] = "answered" /\ pc'[c] \in {"engine", "end"}
                      /\ Alone(o)' => o \in given(c)'
    BY <1>1 DEF Due
  <2>1. o \in Turns /\ pc[o] = "answered" /\ pc[c] \in {"engine", "end"} /\ o # t
    BY <1>1 DEF HistoryInv, Due, TypeOK
  <2>2. given(c)' = given(c)
    BY <1>1, <1>5, GivenSame
  <2> QED
    BY <1>1, <1>4, <2>1, <2>2 DEF HistoryInv, Due
<1> QED
  BY <1>6, <1>7, <1>8, <1>9 DEF HistoryInv

LEMMA HistoryStep == TypeOK /\ HistoryInv /\ [Next]_vars => HistoryInv'
<1> SUFFICES ASSUME TypeOK, HistoryInv, [Next]_vars
             PROVE  HistoryInv'
  OBVIOUS
<1> USE DEF db, local, ghost, engine
<1>0. \A o \in Turns : pc[o] \in {"idle", "lookup", "create", "begin", "start", "engine"} => place[o] = 0
  BY DEF HistoryInv, Places
<1>1. ASSUME NEW t \in Turns, Step(t)
      PROVE  HistoryInv'
  <2>1. CASE Lookup(t) \/ Create(t)
    <3>1. UNCHANGED <<history, place, context, sid, kind, met, due>>
      BY <2>1 DEF Lookup, Create
    <3>2. /\ pc[t] \in {"lookup", "create"} /\ pc'[t] \in {"create", "begin", "refused", "failed"}
          /\ \A o \in Turns : o # t => pc'[o] = pc[o]
      BY <2>1 DEF Lookup, Create, Goto, TypeOK
    <3>3. context[t] = {} /\ due[t] = {}
      BY <3>2 DEF HistoryInv, Places, Due
    <3> QED
      BY <1>0, <3>1, <3>2, <3>3, HistoryQuiet DEF UnderWay
  <2>2. CASE Finish(t)
    <3>1. UNCHANGED <<history, place, sid, kind, met>>
      BY <2>2 DEF Finish, Complete, UsageFails, Cancelled, Fail, Vanish, Ends
    <3>2. /\ pc[t] # "answered" /\ pc'[t] \in {"answered", "cancelled", "failed", "gone"}
          /\ pc'[t] = "answered" => pc[t] = "end"
          /\ context'[t] = {} /\ due'[t] = {}
          /\ \A o \in Turns : o # t => pc'[o] = pc[o] /\ context'[o] = context[o] /\ due'[o] = due[o]
      BY <2>2 DEF Finish, Complete, UsageFails, Cancelled, Fail, Vanish, Ends, Goto, TypeOK
    <3> QED
      BY <1>0, <3>1, <3>2, HistoryQuiet DEF UnderWay
  <2>3. CASE \/ remember_fact(t) \/ Event(t)
             \/ \E m \in Memories : upsert_select(t, m) \/ upsert_write(t, m) \/ delete_memory(t, m)
    <3>1. UNCHANGED <<history, place, context, sid, kind, met, due, pc>>
      BY <2>3 DEF remember_fact, Event, upsert_select, upsert_write, delete_memory
    <3> QED
      BY <1>0, <3>1, HistoryQuiet DEF UnderWay
  <2> QED
    BY <1>1, <2>1, <2>2, <2>3, HistoryBegin, HistoryStart, HistorySave DEF Step, Finish
<1>2. CASE UNCHANGED vars \/ \E m \in Memories : forget(m)
  <2>1. UNCHANGED <<history, place, context, sid, kind, met, due, pc>>
    BY <1>2 DEF forget, vars
  <2> QED
    BY <1>0, <2>1, HistoryQuiet DEF UnderWay
<1> QED
  BY <1>1, <1>2, HistoryRequest DEF Next

-----------------------------------------------------------------------------
(* Theorems *)

\* The first state has no session, no fact and no history.
LEMMA InitInv == Init => Inv
<1> SUFFICES ASSUME Init
             PROVE  Inv
  OBVIOUS
<1>1. \A t \in Turns : pc[t] = "idle" /\ facts[t] = 0 /\ told[t] = 0 /\ known[t] = {}
                        /\ upsert[t].id = {} /\ due[t] = {} /\ context[t] = {} /\ place[t] = 0
  BY DEF Init, Idle
<1>2. Sessions
  BY <1>1 DEF Init, Sessions, SessionOf
<1>3. Held
  BY <1>1 DEF Held, Holds
<1>4. FactsInv
  BY <1>1 DEF FactsInv, FactsOf
<1>5. HistoryInv
  BY <1>1 DEF Init, HistoryInv, Meetings, Places, Kept, Due, UnderWay
<1> QED
  BY <1>2, <1>3, <1>4, <1>5, InitType DEF Inv

\* The inductive invariant of the session rows, the memories, the facts and the
\* history.
THEOREM InvHolds == Spec => []Inv
<1>1. Inv /\ [Next]_vars => Inv'
  BY TypeStep, SessionsStep, HeldStep, FactsStep, HistoryStep DEF Inv
<1> QED
  BY <1>1, InitInv, PTL DEF Spec

\* Every variable keeps its type.
THEOREM TypeCorrect == Spec => []TypeOK
<1>1. Inv => TypeOK
  BY DEF Inv
<1> QED
  BY <1>1, InvHolds, PTL

\* _get_or_create_session and PlatformMemoryDb keep users apart, for any turns that
\* choose any session ids and whatever memories their runs write.
THEOREM Apart == Spec => []UsersStayApart
<1>1. Inv => UsersStayApart
  <2> SUFFICES ASSUME Inv
               PROVE  UsersStayApart
    OBVIOUS
  <2>1. \A t \in recorded : t \in Turns /\ owner[sid[t]] = user[t]
    BY DEF Inv, TypeOK, Sessions, SessionOf
  <2>2. \A t \in Turns : \A m \in known[t] : m \in Memories /\ memory[m] \in {NoOne, user[t]}
    BY DEF Inv, TypeOK, Held, Holds
  <2> QED
    BY <2>1, <2>2 DEF UsersStayApart
<1> QED
  BY <1>1, InvHolds, PTL

\* What remember_fact flushed is kept or lost with the turn, for any number of facts.
THEOREM FactsFollow == Spec => []FactsFollowTheTurn
<1>1. Inv => FactsFollowTheTurn
  BY DEF Inv, FactsInv, FactsOf, FactsFollowTheTurn
<1> QED
  BY <1>1, InvHolds, PTL

\* Agno's whole-history saves lose a turn only if it overlapped with another one of
\* its session and kind, for any number of turns and of runs that are given.
THEOREM HistoryKept == Spec => []HistoryKeepsTurns
<1>1. Inv => HistoryKeepsTurns
  BY DEF Inv, HistoryInv, Due, Alone, HistoryKeepsTurns
<1> QED
  BY <1>1, InvHolds, PTL
=============================================================================
