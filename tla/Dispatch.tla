------------------------------ MODULE Dispatch ------------------------------
(***************************************************************************)
(* The resolution of metadata into what an agent may do: the resolve_*     *)
(* methods of AgnoRuntimeEngine and CapabilityService.resolve, against     *)
(* administrators who create, disable and delete rows of the hierarchy,    *)
(* assign skills and replace capability sets through the API.              *)
(*                                                                         *)
(* A resolution is some twenty statements of one session under READ        *)
(* COMMITTED, each of which sees what is committed when it runs.  The      *)
(* session's identity map holds the hierarchy rows it has loaded: a second *)
(* select of one notices that the row was deleted (the WHERE clause is     *)
(* evaluated by the database) and not that it was disabled.                *)
(*                                                                         *)
(* A resolution writes nothing, so one is enough; the next one begins      *)
(* where it ended, with an empty identity map.  Prompts are composed from  *)
(* the same rows and left out.                                             *)
(*                                                                         *)
(* The engine lists the teams of an AgentOS and the members of a team with *)
(* limit=200, disabled ones included, and drops what is beyond.  Here no   *)
(* list is longer (PageAssumption), so the limit never bites.              *)
(***************************************************************************)
EXTENDS Naturals, FiniteSets, Sequences

CONSTANTS
    AgentOS,     \* the row of the AgentOS
    Teams,
    Agents,
    TeamOf,      \* the team of each agent
    Skills,
    Codes,       \* capability codes
    Later,       \* rows that do not exist at first
    Requests,    \* POST /capabilities/assignments and PUT /skills/{id} in flight
    MaxEdits     \* bound: edits by administrators

Nodes == {AgentOS} \cup Teams \cup Agents

ASSUME HierarchyAssumption ==
    /\ TeamOf \in [Agents -> Teams]
    /\ AgentOS \notin Teams \cup Agents /\ Teams \cap Agents = {}
    /\ Nodes \cap Skills = {}
    /\ Later \subseteq Nodes \cup Skills
    /\ \A n \in Teams \ Later : AgentOS \notin Later
    /\ \A a \in Agents \ Later : TeamOf[a] \notin Later
    /\ MaxEdits \in Nat

\* The limit of list_teams and list_members.
Page == 200

ASSUME PageAssumption ==
    /\ Cardinality(Teams) <= Page
    /\ \A t \in Teams : Cardinality({a \in Agents : TeamOf[a] = t}) <= Page

VARIABLES      \* the database, as committed
    rows,      \* state of each row of the hierarchy and of each skill
    enabled,   \* its enabled flag (no meaning for skills)
    grants,    \* codes assigned to each row (the four *_capabilities tables)
    links,     \* agent_skills
    edits      \* edits so far

VARIABLES      \* the transactions that replace a set
    edit

VARIABLES      \* the resolution
    pc,
    goal,      \* row it resolves: an agent, a team or the AgentOS
    path,      \* rows it has still to select
    teams,     \* teams whose members are still to be listed
    todo,      \* members whose context is still to be built
    cur,       \* the member being built (none or one)
    acc,       \* codes all levels read so far allow
    ctx,       \* effective capabilities of each member built
    built      \* members built

VARIABLES      \* history, read by the properties only
    up,        \* rows that were live and enabled at some time of the resolution
    gone,      \* rows deleted when the current member was begun
    ever,      \* codes each row held at some time of the resolution
    always,    \* codes it held at every time
    everSkill, alwaysSkill   \* the same for what an agent holds through skills

store == <<rows, enabled, grants, links, edits>>
local == <<pc, goal, path, teams, todo, cur, acc, ctx, built>>
seen  == <<up, ever, always, everSkill, alwaysSkill>>
vars  == <<store, edit, local, gone, seen>>

Rows == Nodes \cup Skills

NoEdit == [step |-> "idle", target |-> AgentOS, codes |-> {}, found |-> {}, locked |-> {},
           raced |-> {}]

PC == {"idle", "lookup", "teams", "members", "first", "build", "recheck", "agent_os", "team",
       "direct", "skill", "done", "failed"}

TypeOK ==
    /\ rows \in [Rows -> {"absent", "live", "deleted"}]
    /\ enabled \in [Nodes -> BOOLEAN]
    /\ grants \in [Rows -> SUBSET Codes]
    /\ links \in SUBSET (Agents \X Skills)
    /\ edits \in 0..MaxEdits
    /\ edit \in [Requests -> [step: {"idle", "delete", "insert"}, target: Rows,
                              codes: SUBSET Codes, found: SUBSET Codes, locked: SUBSET Codes,
                              raced: SUBSET Codes]]
    /\ pc \in PC
    /\ goal \in Nodes
    /\ path \in Seq(Nodes) /\ Len(path) <= 3
    /\ teams \in SUBSET Teams
    /\ todo \in SUBSET Agents
    /\ cur \in SUBSET Agents
    /\ acc \in [all: SUBSET Codes, direct: SUBSET Codes]
    /\ ctx \in [Agents -> SUBSET Codes]
    /\ built \in SUBSET Agents
    /\ up \in SUBSET Nodes /\ gone \in SUBSET Nodes
    /\ ever \in [Nodes -> SUBSET Codes] /\ always \in [Nodes -> SUBSET Codes]
    /\ everSkill \in [Agents -> SUBSET Codes] /\ alwaysSkill \in [Agents -> SUBSET Codes]

-----------------------------------------------------------------------------
(* What a select finds *)

Live(n) == rows[n] = "live"
Up(n) == Live(n) /\ enabled[n]

\* The join takes no notice of skills.deleted_at.
get_capability_codes_for_agent(a) == UNION {grants[s] : s \in {s \in Skills : <<a, s>> \in links}}

Settled == pc \in {"idle", "done", "failed"}

\* The history of a resolution under way takes in the state an edit leads to.
Observe ==
    IF Settled THEN UNCHANGED seen ELSE
    /\ up' = up \cup {n \in Nodes : Up(n)'}
    /\ ever' = [n \in Nodes |-> ever[n] \cup grants'[n]]
    /\ always' = [n \in Nodes |-> always[n] \cap grants'[n]]
    /\ everSkill' = [a \in Agents |-> everSkill[a] \cup get_capability_codes_for_agent(a)']
    /\ alwaysSkill' = [a \in Agents |-> alwaysSkill[a] \cap get_capability_codes_for_agent(a)']

-----------------------------------------------------------------------------
(* Administrators: hierarchy and skills *)

Parent(n) == IF n \in Agents THEN TeamOf[n] ELSE AgentOS

CountEdit == edits < MaxEdits /\ edits' = edits + 1

\* The parent is looked up before the insert.  The code of a deleted row passes
\* the check and then violates the unique constraint: nothing changes.
create(n) ==
    /\ CountEdit
    /\ rows[n] = "absent"
    /\ n \in Teams \cup Agents => Live(Parent(n))
    /\ rows' = [rows EXCEPT ![n] = "live"]
    /\ enabled' = [m \in Nodes |-> m = n \/ enabled[m]]
    /\ UNCHANGED <<grants, links>>

set_enabled(n) ==
    /\ CountEdit
    /\ Live(n)
    /\ enabled' = [enabled EXCEPT ![n] = ~@]
    /\ UNCHANGED <<rows, grants, links>>

\* Assignments and links of a deleted row stay.
soft_delete(n) ==
    /\ CountEdit
    /\ Live(n)
    /\ rows' = [rows EXCEPT ![n] = "deleted"]
    /\ UNCHANGED <<enabled, grants, links>>

assign_to_agent(a, s) ==
    /\ CountEdit
    /\ Live(s)
    /\ rows[a] # "absent"
    /\ <<a, s>> \notin links
    /\ links' = links \cup {<<a, s>>}
    /\ UNCHANGED <<rows, enabled, grants>>

unassign_from_agent(a, s) ==
    /\ CountEdit
    /\ <<a, s>> \in links
    /\ links' = links \ {<<a, s>>}
    /\ UNCHANGED <<rows, enabled, grants>>

MetadataEdit ==
    /\ \/ \E n \in Rows : create(n) \/ soft_delete(n)
       \/ \E n \in Nodes : set_enabled(n)
       \/ \E a \in Agents, s \in Skills : assign_to_agent(a, s) \/ unassign_from_agent(a, s)
    /\ Observe
    /\ UNCHANGED <<edit, local, gone>>

-----------------------------------------------------------------------------
(* Administrators: set_*_capabilities, a DELETE and an INSERT *)

\* The DELETE takes its snapshot: rows committed later are not in it.
set_begin(e, l) ==
    /\ CountEdit
    /\ edit[e].step = "idle"
    /\ IF l \in Skills THEN Live(l) ELSE rows[l] # "absent"
    /\ \E codes \in SUBSET Codes :
        edit' = [edit EXCEPT ![e] = [step |-> "delete", target |-> l, codes |-> codes,
                                     found |-> grants[l], locked |-> {}, raced |-> {}]]
    /\ UNCHANGED <<rows, enabled, grants, links, local, gone, seen>>

LockedByOther(e, codes) ==
    \E f \in Requests \ {e} : edit[f].target = edit[e].target /\ edit[f].locked \cap codes # {}

\* Mutant: the assignments of the target are not deleted first.
set_delete_mutKeeps(e) ==
    /\ edit[e].step = "delete"
    /\ edit' = [edit EXCEPT ![e].step = "insert"]
    /\ UNCHANGED <<store, local, gone, seen>>

\* It waits for whoever has deleted a row of it before.
set_delete(e) ==
    /\ edit[e].step = "delete"
    /\ ~LockedByOther(e, edit[e].found)
    /\ edit' = [edit EXCEPT ![e].step = "insert", ![e].locked = edit[e].found]
    /\ UNCHANGED <<store, local, gone, seen>>

\* The rows a committed DELETE removed are skipped by one that waited for them,
\* the rows committed with it are not in its snapshot.
Forget(e, f) ==
    IF f # e /\ edit[f].target = edit[e].target /\ edit[f].step # "idle"
    THEN [edit[f] EXCEPT !.found = @ \ edit[e].locked, !.raced = @ \cup edit[e].codes]
    ELSE edit[f]

Taken(e) == edit[e].codes \cap (grants[edit[e].target] \ edit[e].locked)

\* The INSERT and the commit of get_db.  A code that another transaction is
\* deleting is waited for.
set_insert(e) ==
    /\ edit[e].step = "insert"
    /\ ~LockedByOther(e, edit[e].codes)
    /\ Taken(e) = {}
    /\ grants' = [grants EXCEPT ![edit[e].target] = (@ \ edit[e].locked) \cup edit[e].codes]
    /\ edit' = [f \in Requests |-> IF f = e THEN NoEdit ELSE Forget(e, f)]
    /\ UNCHANGED <<rows, enabled, links, edits, local, gone>>
    /\ Observe

\* A code that is still there violates the unique constraint: rollback.
set_conflict(e) ==
    /\ edit[e].step = "insert"
    /\ ~LockedByOther(e, edit[e].codes)
    /\ Taken(e) # {}
    /\ edit' = [edit EXCEPT ![e] = NoEdit]
    /\ UNCHANGED <<store, local, gone, seen>>

\* The client is gone or the connection lost: rollback.
set_abort(e) ==
    /\ edit[e].step # "idle"
    /\ edit' = [edit EXCEPT ![e] = NoEdit]
    /\ UNCHANGED <<store, local, gone, seen>>

-----------------------------------------------------------------------------
(* The resolution *)

remote == <<store, edit, gone, seen>>

Path(n) ==
    IF n \in Agents THEN <<AgentOS, TeamOf[n], n>>
    ELSE IF n \in Teams THEN <<AgentOS, n>> ELSE <<AgentOS>>

Backwards(p) == [i \in DOMAIN p |-> p[Len(p) + 1 - i]]

\* resolve_context, resolve_team_context_by_code and resolve_root_context look
\* down from the AgentOS, the by_id methods up from the row they are given.
Resolve(n, byId) ==
    /\ Settled
    /\ pc' = "lookup"
    /\ goal' = n
    /\ path' = IF byId THEN Backwards(Path(n)) ELSE Path(n)
    /\ teams' = {} /\ todo' = {} /\ cur' = {} /\ built' = {} /\ gone' = {}
    /\ acc' = [all |-> {}, direct |-> {}]
    /\ ctx' = [a \in Agents |-> {}]
    /\ up' = {m \in Nodes : Up(m)}
    /\ ever' = [m \in Nodes |-> grants[m]]
    /\ always' = ever'
    /\ everSkill' = [a \in Agents |-> get_capability_codes_for_agent(a)]
    /\ alwaysSkill' = everSkill'
    /\ UNCHANGED <<store, edit>>

Fail ==
    /\ pc' = "failed"
    /\ UNCHANGED <<goal, path, teams, todo, cur, acc, ctx, built>>

\* "not found or disabled"
Lookup ==
    /\ pc = "lookup"
    /\ path # <<>>
    /\ IF Up(Head(path))
       THEN path' = Tail(path) /\ UNCHANGED <<pc, goal, teams, todo, cur, acc, ctx, built>>
       ELSE Fail
    /\ UNCHANGED remote

\* An agent is built alone; a team lists its members, or takes the first enabled
\* one when the caller wanted an agent and named none; the AgentOS lists its teams.
LookupEnds ==
    /\ pc = "lookup"
    /\ path = <<>>
    /\ \/ goal \in Agents /\ pc' = "build" /\ todo' = {goal} /\ teams' = teams
       \/ goal \in Teams /\ pc' \in {"members", "first"} /\ todo' = todo /\ teams' = {goal}
       \/ goal = AgentOS /\ pc' = "teams" /\ UNCHANGED <<todo, teams>>
    /\ UNCHANGED <<goal, path, cur, acc, ctx, built>>
    /\ UNCHANGED remote

list_teams ==
    LET found == {t \in Teams : Up(t)} IN
    /\ pc = "teams"
    /\ IF found = {} THEN Fail
       ELSE /\ pc' = "members" /\ teams' = found
            /\ UNCHANGED <<goal, path, todo, cur, acc, ctx, built>>
    /\ UNCHANGED remote

EnabledMembers(t) == {a \in Agents : TeamOf[a] = t /\ Up(a)}

list_members(t) ==
    /\ pc = "members"
    /\ t \in teams
    /\ IF EnabledMembers(t) = {} THEN Fail
       ELSE /\ pc' = "build" /\ teams' = teams \ {t} /\ todo' = EnabledMembers(t)
            /\ UNCHANGED <<goal, path, cur, acc, ctx, built>>
    /\ UNCHANGED remote

\* Mutant: the context is built for the id of the team.
get_first_enabled_in_team_mut(t) ==
    /\ pc = "first"
    /\ t \in teams
    /\ pc' = "build" /\ teams' = {} /\ todo' = {t}
    /\ UNCHANGED <<goal, path, cur, acc, ctx, built, remote>>

\* Which one is first depends on created_at.
get_first_enabled_in_team(t) ==
    /\ pc = "first"
    /\ t \in teams
    /\ \/ EnabledMembers(t) = {} /\ Fail
       \/ \E a \in EnabledMembers(t) :
            /\ pc' = "build" /\ teams' = {} /\ todo' = {a}
            /\ UNCHANGED <<goal, path, cur, acc, ctx, built>>
    /\ UNCHANGED remote

\* _build_resolved_context, and the begin of CapabilityService.resolve
build(a) ==
    /\ pc = "build"
    /\ a \in todo
    /\ pc' = "recheck"
    /\ todo' = todo \ {a}
    /\ cur' = {a}
    /\ path' = Path(a)
    /\ gone' = {n \in Nodes : rows[n] = "deleted"}
    /\ UNCHANGED <<store, edit, goal, teams, acc, ctx, built, seen>>

\* Mutant: the rows were looked up before and are not looked up again.
Recheck_mutTrusts ==
    /\ pc = "recheck"
    /\ path # <<>>
    /\ path' = Tail(path)
    /\ UNCHANGED <<pc, goal, teams, todo, cur, acc, ctx, built, remote>>

\* The row comes from the identity map with the enabled flag it was loaded with.
Recheck ==
    /\ pc = "recheck"
    /\ path # <<>>
    /\ \/ Live(Head(path)) /\ path' = Tail(path)
          /\ UNCHANGED <<pc, goal, teams, todo, cur, acc, ctx, built>>
       \/ ~Live(Head(path)) /\ Fail
    /\ UNCHANGED remote

get_agent_os_capabilities ==
    /\ pc = "recheck"
    /\ path = <<>>
    /\ pc' = "team"
    /\ acc' = [all |-> grants[AgentOS], direct |-> {}]
    /\ UNCHANGED <<goal, path, teams, todo, cur, ctx, built>>
    /\ UNCHANGED remote

get_team_capabilities(a) ==
    /\ pc = "team"
    /\ a \in cur
    /\ pc' = "direct"
    /\ acc' = [acc EXCEPT !.all = @ \cap grants[TeamOf[a]]]
    /\ UNCHANGED <<goal, path, teams, todo, cur, ctx, built>>
    /\ UNCHANGED remote

get_agent_capabilities(a) ==
    /\ pc = "direct"
    /\ a \in cur
    /\ pc' = "skill"
    /\ acc' = [acc EXCEPT !.direct = grants[a]]
    /\ UNCHANGED <<goal, path, teams, todo, cur, ctx, built>>
    /\ UNCHANGED remote

\* Mutant: what is assigned directly is not restricted by team and AgentOS.
get_skill_capabilities_mutDirect(a) ==
    /\ pc = "skill"
    /\ a \in cur
    /\ ctx' = [ctx EXCEPT ![a] = acc.direct \cup (acc.all \cap get_capability_codes_for_agent(a))]
    /\ built' = built \cup {a}
    /\ cur' = {}
    /\ pc' = IF todo # {} THEN "build" ELSE IF teams # {} THEN "members" ELSE "done"
    /\ UNCHANGED <<goal, path, teams, todo, acc, remote>>

\* The last read and the intersection; then the next member, the next team or
\* the end.
get_skill_capabilities(a) ==
    /\ pc = "skill"
    /\ a \in cur
    /\ ctx' = [ctx EXCEPT ![a] =
                 acc.all \cap (acc.direct \cup get_capability_codes_for_agent(a))]
    /\ built' = built \cup {a}
    /\ cur' = {}
    /\ pc' = IF todo # {} THEN "build" ELSE IF teams # {} THEN "members" ELSE "done"
    /\ UNCHANGED <<goal, path, teams, todo, acc>>
    /\ UNCHANGED remote

-----------------------------------------------------------------------------

Member(a) ==
    \/ build(a) \/ get_team_capabilities(a) \/ get_agent_capabilities(a)
    \/ get_skill_capabilities(a)

Turn ==
    \/ Lookup \/ LookupEnds \/ list_teams \/ Recheck \/ get_agent_os_capabilities
    \/ \E t \in Teams : list_members(t) \/ get_first_enabled_in_team(t)
    \/ \E a \in Agents : Member(a)

Next ==
    \/ MetadataEdit
    \/ \E e \in Requests :
        \/ \E l \in Rows : set_begin(e, l)
        \/ set_delete(e) \/ set_insert(e) \/ set_conflict(e) \/ set_abort(e)
    \/ \E n \in Nodes, byId \in BOOLEAN : Resolve(n, byId)
    \/ Turn

\* A deployment in which an administrator has set up part of the hierarchy and
\* assigned the same codes everywhere.
Init ==
    /\ rows = [n \in Rows |-> IF n \in Later THEN "absent" ELSE "live"]
    /\ enabled = [n \in Nodes |-> Live(n)]
    /\ \E codes \in SUBSET Codes :
        grants = [n \in Rows |-> IF Live(n) THEN codes ELSE {}]
    /\ links = {}
    /\ edits = 0
    /\ edit = [e \in Requests |-> NoEdit]
    /\ pc = "idle" /\ goal = AgentOS /\ path = <<>> /\ teams = {} /\ todo = {} /\ cur = {}
    /\ acc = [all |-> {}, direct |-> {}]
    /\ ctx = [a \in Agents |-> {}] /\ built = {}
    /\ up = {} /\ gone = {}
    /\ ever = [n \in Nodes |-> {}] /\ always = ever
    /\ everSkill = [a \in Agents |-> {}] /\ alwaysSkill = everSkill

Spec == Init /\ [][Next]_vars

-----------------------------------------------------------------------------
(* Properties *)

\* The levels are read at different moments, so a context need not be right for
\* any one of them.  It is regular: every code of it was held, at some time of
\* the resolution, by each level that restricts it and by the agent or one of
\* its skills; and no code that was held throughout is missing.
ResolutionIsRegular ==
    \A a \in built :
        LET t == TeamOf[a] IN
        /\ ctx[a] \subseteq ever[AgentOS] \cap ever[t] \cap (ever[a] \cup everSkill[a])
        /\ always[AgentOS] \cap always[t] \cap (always[a] \cup alwaysSkill[a]) \subseteq ctx[a]

\* A context is built only of rows that were live and enabled at some time of
\* the resolution, though none of them is locked and the flag is read once; and a
\* row that was deleted while an earlier member of the team was resolved is
\* noticed before the next one gets a context.
ContextWasUp ==
    [][\A a \in built' \ built : {AgentOS, TeamOf[a], a} \subseteq up \ gone]_vars

\* docs/API.md:165, "Replaces the full set": what a committed set_*_capabilities
\* leaves is the set it was given, and of other codes only those that a request
\* committed after its DELETE had begun.
ReplacementIsExactUnlessRaced ==
    [][\A e \in Requests :
        set_insert(e) => LET g == grants'[edit[e].target] IN
            /\ edit[e].codes \subseteq g
            /\ g \subseteq edit[e].codes \cup edit[e].raced]_vars
=============================================================================
