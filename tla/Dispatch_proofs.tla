--------------------------- MODULE Dispatch_proofs ---------------------------
(***************************************************************************)
(* That a resolution is regular, that its context is built of rows that    *)
(* were up, and that a replacement is exact unless raced, for any          *)
(* hierarchy, any codes and any number of administrators.                  *)
(*                                                                         *)
(* The inductive invariant says what a resolution has established at each  *)
(* of its statements, and what of a target a replacement has not locked.   *)
(***************************************************************************)
EXTENDS Dispatch, TLAPS

\* The rows a context of n is built of.
Above(n) == IF n \in Agents THEN {AgentOS, TeamOf[n], n} ELSE {AgentOS, n}

Between(low, codes, high) == low \subseteq codes /\ codes \subseteq high

On(n, p) == \E i \in 1..Len(p) : p[i] = n

StoreTypes ==
    /\ rows \in [Rows -> {"absent", "live", "deleted"}]
    /\ enabled \in [Nodes -> BOOLEAN]
    /\ grants \in [Rows -> SUBSET Codes]
    /\ links \in SUBSET (Agents \X Skills)
    /\ edits \in 0..MaxEdits

EditType == [step: {"idle", "delete", "insert"}, target: Rows, codes: SUBSET Codes,
             found: SUBSET Codes, locked: SUBSET Codes, raced: SUBSET Codes]

LocalTypes ==
    /\ pc \in PC
    /\ goal \in Nodes
    /\ path \in Seq(Nodes) /\ Len(path) <= 3
    /\ teams \in SUBSET Teams
    /\ todo \in SUBSET Agents
    /\ cur \in SUBSET Agents /\ \A a, b \in cur : a = b
    /\ acc \in [all: SUBSET Codes, direct: SUBSET Codes]
    /\ ctx \in [Agents -> SUBSET Codes]
    /\ built \in SUBSET Agents

HistoryTypes ==
    /\ up \in SUBSET Nodes
    /\ ever \in [Nodes -> SUBSET Codes] /\ always \in [Nodes -> SUBSET Codes]
    /\ everSkill \in [Agents -> SUBSET Codes] /\ alwaysSkill \in [Agents -> SUBSET Codes]

\* The history of a resolution under way covers the present.
Watched ==
    ~Settled =>
        /\ \A n \in Nodes : Up(n) => n \in up
        /\ \A n \in Nodes : Between(always[n], grants[n], ever[n])
        /\ \A a \in Agents :
            Between(alwaysSkill[a], get_capability_codes_for_agent(a), everSkill[a])

Deleted == \A n \in gone : rows[n] = "deleted"

\* What the levels read so far leave.
Accumulated ==
    \A a \in cur :
        /\ pc = "team" => Between(always[AgentOS], acc.all, ever[AgentOS])
        /\ pc \in {"direct", "skill"} =>
            Between(always[AgentOS] \cap always[TeamOf[a]], acc.all, ever[AgentOS] \cap ever[TeamOf[a]])
        /\ pc = "skill" => Between(always[a], acc.direct, ever[a])

\* Rows are on the path, or have been selected.
Selected ==
    /\ pc = "lookup" => \A n \in Above(goal) : n \in up \/ On(n, path)
    /\ pc = "teams" => AgentOS \in up
    /\ \A t \in teams : {AgentOS, t} \subseteq up
    /\ \A a \in todo \cup cur : Above(a) \subseteq up
    /\ pc = "recheck" => \A a \in cur : \A n \in Above(a) : n \notin gone \/ On(n, path)
    /\ pc \in {"team", "direct", "skill"} => \A a \in cur : Above(a) \cap gone = {}

\* A code of the target that a replacement has not found was written by a request
\* that raced with it.
Raced ==
    \A e \in Requests :
        /\ edit[e].step = "delete" =>
            grants[edit[e].target] \subseteq edit[e].found \cup edit[e].raced
        /\ edit[e].step = "insert" =>
            grants[edit[e].target] \subseteq edit[e].locked \cup edit[e].raced

Stores == StoreTypes /\ edit \in [Requests -> EditType] /\ Raced

Resolution ==
    /\ LocalTypes /\ HistoryTypes
    /\ gone \in SUBSET Nodes
    /\ Watched /\ Deleted /\ Accumulated /\ Selected
    /\ ResolutionIsRegular

Inv == Stores /\ Resolution

-----------------------------------------------------------------------------
(* Paths, rows and codes *)

\* Short paths.
LEMMA OneRow ==
    ASSUME NEW a \in Nodes
    PROVE  <<a>> \in Seq(Nodes) /\ Len(<<a>>) <= 3 /\ On(a, <<a>>)
<1> DEFINE p == <<a>>
<1>1. p \in Seq(Nodes) /\ Len(p) = 1 /\ p[1] = a
  OBVIOUS
<1>2. 1 \in 1..Len(p)
  BY <1>1
<1> HIDE DEF p
<1>3. Len(p) <= 3 /\ On(a, p)
  BY <1>1, <1>2 DEF On
<1> QED
  BY <1>1, <1>3 DEF p

LEMMA TwoRows ==
    ASSUME NEW a \in Nodes, NEW b \in Nodes
    PROVE  /\ <<a, b>> \in Seq(Nodes) /\ Len(<<a, b>>) <= 3
           /\ On(a, <<a, b>>) /\ On(b, <<a, b>>)
<1> DEFINE p == <<a, b>>
<1>1. p \in Seq(Nodes) /\ Len(p) = 2 /\ p[1] = a /\ p[2] = b
  OBVIOUS
<1>2. 1 \in 1..Len(p) /\ 2 \in 1..Len(p)
  BY <1>1
<1> HIDE DEF p
<1>3. Len(p) <= 3 /\ On(a, p) /\ On(b, p)
  BY <1>1, <1>2 DEF On
<1> QED
  BY <1>1, <1>3 DEF p

LEMMA ThreeRows ==
    ASSUME NEW a \in Nodes, NEW b \in Nodes, NEW c \in Nodes
    PROVE  /\ <<a, b, c>> \in Seq(Nodes) /\ Len(<<a, b, c>>) <= 3
           /\ On(a, <<a, b, c>>) /\ On(b, <<a, b, c>>) /\ On(c, <<a, b, c>>)
<1> DEFINE p == <<a, b, c>>
<1>1. p \in Seq(Nodes) /\ Len(p) = 3 /\ p[1] = a /\ p[2] = b /\ p[3] = c
  OBVIOUS
<1>2. 1 \in 1..Len(p) /\ 2 \in 1..Len(p) /\ 3 \in 1..Len(p)
  BY <1>1
<1> HIDE DEF p
<1>3. Len(p) <= 3 /\ On(a, p) /\ On(b, p) /\ On(c, p)
  BY <1>1, <1>2 DEF On
<1> QED
  BY <1>1, <1>3 DEF p

\* A path has the rows above its goal, from either end.
LEMMA PathType ==
    ASSUME NEW n \in Nodes, NEW byId \in BOOLEAN, NEW p,
           p = IF byId THEN Backwards(Path(n)) ELSE Path(n)
    PROVE  /\ p \in Seq(Nodes) /\ Len(p) <= 3
           /\ \A m \in Above(n) : On(m, p)
<1>1. CASE n \in Agents
  <2>1. TeamOf[n] \in Nodes /\ AgentOS \in Nodes
    BY <1>1, HierarchyAssumption DEF Nodes
  <2>2. Path(n) = <<AgentOS, TeamOf[n], n>>
    BY <1>1 DEF Path
  <2>3. Backwards(Path(n)) = <<n, TeamOf[n], AgentOS>>
    BY <2>2 DEF Backwards
  <2>4. p = <<AgentOS, TeamOf[n], n>> \/ p = <<n, TeamOf[n], AgentOS>>
    BY <2>2, <2>3
  <2> QED
    BY <1>1, <2>1, <2>4, ThreeRows DEF Above
<1>2. CASE n \in Teams
  <2>1. AgentOS \in Nodes /\ n \notin Agents
    BY <1>2, HierarchyAssumption DEF Nodes
  <2>2. Path(n) = <<AgentOS, n>>
    BY <1>2, <2>1 DEF Path
  <2>3. Backwards(Path(n)) = <<n, AgentOS>>
    BY <2>2 DEF Backwards
  <2>4. p = <<AgentOS, n>> \/ p = <<n, AgentOS>>
    BY <2>2, <2>3
  <2> QED
    BY <2>1, <2>4, TwoRows DEF Above
<1>3. CASE n = AgentOS
  <2>1. Path(n) = <<AgentOS>>
    BY <1>3, HierarchyAssumption DEF Path
  <2>2. Backwards(Path(n)) = <<AgentOS>>
    BY <2>1 DEF Backwards
  <2>3. p = <<AgentOS>>
    BY <2>1, <2>2
  <2>4. Above(n) = {AgentOS} /\ AgentOS \in Nodes
    BY <1>3, HierarchyAssumption DEF Above, Nodes
  <2> QED
    BY <2>3, <2>4, OneRow
<1> QED
  BY <1>1, <1>2, <1>3 DEF Nodes

\* The first row of a path is dealt with, the others are still on it.
LEMMA TailType ==
    ASSUME NEW p \in Seq(Nodes), p # <<>>, Len(p) <= 3
    PROVE  /\ Head(p) \in Nodes
           /\ Tail(p) \in Seq(Nodes) /\ Len(Tail(p)) <= 3
           /\ \A n : On(n, p) => n = Head(p) \/ On(n, Tail(p))
<1>1. /\ Head(p) = p[1] /\ Head(p) \in Nodes
      /\ Tail(p) \in Seq(Nodes) /\ Len(Tail(p)) = Len(p) - 1
      /\ \A i \in 1..Len(Tail(p)) : Tail(p)[i] = p[i + 1]
  OBVIOUS
<1>2. ASSUME NEW n, NEW i \in 1..Len(p), p[i] = n, n # Head(p)
      PROVE  On(n, Tail(p))
  <2>1. i - 1 \in 1..Len(Tail(p)) /\ Tail(p)[i - 1] = n
    BY <1>1, <1>2
  <2> QED
    BY <2>1 DEF On
<1> QED
  BY <1>1, <1>2 DEF On

LEMMA NothingOn == ASSUME NEW n PROVE ~On(n, <<>>)
BY DEF On

LEMMA AboveType ==
    ASSUME NEW n \in Nodes
    PROVE  Above(n) \subseteq Nodes
BY HierarchyAssumption DEF Above, Nodes

\* Codes that come through skills are codes.
LEMMA SkillCodes ==
    ASSUME NEW g \in [Rows -> SUBSET Codes], NEW S \in SUBSET Skills
    PROVE  UNION {g[s] : s \in S} \in SUBSET Codes
<1>1. \A s \in S : g[s] \in SUBSET Codes
  BY DEF Rows
<1> QED
  BY <1>1

LEMMA SkillCodesType ==
    ASSUME StoreTypes, NEW a \in Agents
    PROVE  get_capability_codes_for_agent(a) \in SUBSET Codes
<1>1. {s \in Skills : <<a, s>> \in links} \in SUBSET Skills
  OBVIOUS
<1> QED
  BY <1>1, SkillCodes DEF StoreTypes, get_capability_codes_for_agent

-----------------------------------------------------------------------------
(* Administrators *)

\* What a level allows is observed to grow, what it always allowed to shrink.
LEMMA ObserveStep ==
    ASSUME Resolution, StoreTypes, StoreTypes', ~Settled, Observe
    PROVE  /\ HistoryTypes'
           /\ up \subseteq up'
           /\ \A n \in Nodes : ever[n] \subseteq ever'[n] /\ always'[n] \subseteq always[n]
           /\ \A a \in Agents :
                everSkill[a] \subseteq everSkill'[a] /\ alwaysSkill'[a] \subseteq alwaysSkill[a]
           /\ \A n \in Nodes : Up(n)' => n \in up'
           /\ \A n \in Nodes : Between(always'[n], grants'[n], ever'[n])
           /\ \A a \in Agents :
                Between(alwaysSkill'[a], get_capability_codes_for_agent(a)', everSkill'[a])
<1> DEFINE c(a) == get_capability_codes_for_agent(a)
<1>1. ASSUME NEW a \in Agents PROVE c(a)' \in SUBSET Codes
  <2>1. {s \in Skills : <<a, s>> \in links'} \in SUBSET Skills
    OBVIOUS
  <2>2. UNION {grants'[s] : s \in {s \in Skills : <<a, s>> \in links'}} \in SUBSET Codes
    BY <2>1, SkillCodes DEF StoreTypes
  <2> QED
    BY <2>2 DEF get_capability_codes_for_agent
<1> HIDE DEF c
<1>2. /\ up' = up \cup {n \in Nodes : Up(n)'}
      /\ ever' = [n \in Nodes |-> ever[n] \cup grants'[n]]
      /\ always' = [n \in Nodes |-> always[n] \cap grants'[n]]
      /\ everSkill' = [a \in Agents |-> everSkill[a] \cup c(a)']
      /\ alwaysSkill' = [a \in Agents |-> alwaysSkill[a] \cap c(a)']
  BY DEF Observe, c
<1>3. \A n \in Nodes : grants'[n] \in SUBSET Codes
  BY DEF StoreTypes, Rows
<1>4. HistoryTypes'
  BY <1>1, <1>2, <1>3 DEF Resolution, HistoryTypes
<1>5. \A a \in Agents : Between(alwaysSkill'[a], c(a)', everSkill'[a])
  BY <1>2 DEF Between
<1> QED
  BY <1>2, <1>4, <1>5 DEF Between, c

\* No edit makes what a resolution has established wrong.
LEMMA EditKeepsResolution ==
    ASSUME Resolution, StoreTypes, StoreTypes', UNCHANGED <<local, gone>>, Observe,
           \A n \in Nodes : rows[n] = "deleted" => rows'[n] = "deleted"
    PROVE  Resolution'
<1>1. LocalTypes' /\ gone' \in SUBSET Nodes /\ Deleted'
  BY DEF Resolution, LocalTypes, local, Deleted
<1>2. CASE Settled
  <2>1. UNCHANGED seen /\ Settled'
    BY <1>2 DEF Observe, Settled, local
  <2>2. HistoryTypes' /\ Watched' /\ Accumulated' /\ Selected' /\ ResolutionIsRegular'
    BY <2>1 DEF Resolution, HistoryTypes, Watched, Accumulated, Selected, ResolutionIsRegular,
                seen, local
  <2> QED
    BY <1>1, <2>2 DEF Resolution
<1>3. CASE ~Settled
  <2>1. /\ up \subseteq up'
        /\ \A n \in Nodes : ever[n] \subseteq ever'[n] /\ always'[n] \subseteq always[n]
        /\ \A a \in Agents :
             everSkill[a] \subseteq everSkill'[a] /\ alwaysSkill'[a] \subseteq alwaysSkill[a]
    BY <1>3, ObserveStep
  <2>2. HistoryTypes' /\ Watched'
    BY <1>3, ObserveStep DEF Watched
  <2>3. \A a \in Agents : AgentOS \in Nodes /\ TeamOf[a] \in Nodes /\ a \in Nodes
    BY HierarchyAssumption DEF Nodes
  <2>4. Accumulated'
    BY <2>1, <2>3 DEF Resolution, LocalTypes, Accumulated, Between, local
  <2>5. Selected'
    BY <2>1 DEF Resolution, Selected, local
  <2>6. ResolutionIsRegular'
    <3> SUFFICES ASSUME NEW a \in built
                 PROVE  LET t == TeamOf[a] IN
                        /\ ctx[a] \subseteq ever'[AgentOS] \cap ever'[t] \cap (ever'[a] \cup everSkill'[a])
                        /\ always'[AgentOS] \cap always'[t] \cap (always'[a] \cup alwaysSkill'[a])
                             \subseteq ctx[a]
      BY DEF ResolutionIsRegular, local
    <3>1. a \in Agents
      BY DEF Resolution, LocalTypes
    <3> QED
      BY <2>1, <2>3, <3>1 DEF Resolution, ResolutionIsRegular
  <2> QED
    BY <1>1, <2>2, <2>4, <2>5, <2>6 DEF Resolution
<1> QED
  BY <1>2, <1>3

-----------------------------------------------------------------------------
(* Statements of a resolution *)

\* A statement of the resolution changes nothing anybody else sees.
LEMMA OwnStep ==
    ASSUME Resolution, ~Settled, UNCHANGED <<store, edit, seen>>
    PROVE  /\ HistoryTypes' /\ Watched'
           /\ \A n \in Nodes : Up(n) => n \in up
           /\ \A n \in Nodes : Between(always[n], grants[n], ever[n])
           /\ \A a \in Agents :
                Between(alwaysSkill[a], get_capability_codes_for_agent(a), everSkill[a])
           /\ UNCHANGED <<rows, enabled, grants, links>>
           /\ UNCHANGED <<up, ever, always, everSkill, alwaysSkill>>
<1>1. /\ \A n \in Nodes : Up(n) => n \in up
      /\ \A n \in Nodes : Between(always[n], grants[n], ever[n])
      /\ \A a \in Agents :
           Between(alwaysSkill[a], get_capability_codes_for_agent(a), everSkill[a])
  BY DEF Resolution, Watched
<1>2. UNCHANGED <<rows, enabled, grants, links>> /\ UNCHANGED <<up, ever, always, everSkill, alwaysSkill>>
  BY DEF store, seen
<1>3. \A n \in Nodes : Up(n)' <=> Up(n)
  BY <1>2 DEF Up, Live
<1>4. \A a \in Agents : get_capability_codes_for_agent(a)' = get_capability_codes_for_agent(a)
  BY <1>2 DEF get_capability_codes_for_agent
<1>5. Watched'
  BY <1>1, <1>2, <1>3, <1>4 DEF Watched
<1>6. HistoryTypes'
  BY <1>2 DEF Resolution, HistoryTypes
<1> QED
  BY <1>1, <1>2, <1>5, <1>6

\* What is left unless a context is built.
LEMMA KeepsRegular ==
    ASSUME Resolution, ~Settled, UNCHANGED <<store, edit, seen>>, UNCHANGED <<built, ctx>>
    PROVE  ResolutionIsRegular'
BY OwnStep DEF Resolution, ResolutionIsRegular

LEMMA FailStep ==
    ASSUME Resolution, ~Settled, UNCHANGED remote, Fail
    PROVE  Resolution'
<1>1. HistoryTypes' /\ Watched' /\ ResolutionIsRegular'
  BY OwnStep, KeepsRegular DEF remote, Fail
<1>2. LocalTypes' /\ gone' \in SUBSET Nodes /\ Deleted'
  BY DEF Resolution, LocalTypes, Deleted, Fail, PC, remote, store
<1>3. Accumulated' /\ Selected'
  BY DEF Resolution, Accumulated, Selected, Fail, remote, seen
<1> QED
  BY <1>1, <1>2, <1>3 DEF Resolution

LEMMA LookupStep ==
    ASSUME Resolution, Lookup
    PROVE  Resolution'
<1>1. ~Settled /\ UNCHANGED remote
  BY DEF Lookup, Settled
<1>2. CASE Fail
  BY <1>1, <1>2, FailStep
<1>3. ASSUME Up(Head(path)), path' = Tail(path), UNCHANGED <<pc, goal, teams, todo, cur, acc, ctx, built>>
      PROVE  Resolution'
  <2>1. HistoryTypes' /\ Watched' /\ ResolutionIsRegular'
    BY <1>1, <1>3, OwnStep, KeepsRegular DEF remote
  <2>2. /\ Head(path) \in Nodes
        /\ Tail(path) \in Seq(Nodes) /\ Len(Tail(path)) <= 3
        /\ \A n : On(n, path) => n = Head(path) \/ On(n, Tail(path))
    BY TailType DEF Resolution, LocalTypes, Lookup
  <2>3. Head(path) \in up
    BY <1>1, <1>3, <2>2, OwnStep DEF remote
  <2>4. LocalTypes' /\ gone' \in SUBSET Nodes /\ Deleted'
    BY <1>1, <1>3, <2>2 DEF Resolution, LocalTypes, Deleted, remote, store
  <2>5. Accumulated'
    BY <1>1, <1>3 DEF Resolution, Accumulated, remote, seen
  <2>6. Selected'
    BY <1>1, <1>3, <2>2, <2>3 DEF Resolution, Selected, remote, seen, Lookup
  <2> QED
    BY <2>1, <2>4, <2>5, <2>6 DEF Resolution
<1> QED
  BY <1>2, <1>3 DEF Lookup

LEMMA LookupEndsStep ==
    ASSUME Resolution, LookupEnds
    PROVE  Resolution'
<1>1. ~Settled /\ UNCHANGED remote
  BY DEF LookupEnds, Settled
<1>2. HistoryTypes' /\ Watched' /\ ResolutionIsRegular'
  BY <1>1, OwnStep, KeepsRegular DEF remote, LookupEnds
<1>3. LocalTypes' /\ gone' \in SUBSET Nodes /\ Deleted'
  BY <1>1 DEF Resolution, LocalTypes, Deleted, remote, store, LookupEnds, PC
<1>4. Accumulated'
  BY DEF Resolution, Accumulated, remote, seen, LookupEnds
<1>5. \A n \in Above(goal) : n \in up
  BY NothingOn DEF Resolution, Selected, LookupEnds
<1>6. Selected'
  <2>1. UNCHANGED <<up, gone, cur>>
    BY <1>1 DEF remote, seen, LookupEnds
  <2>2. CASE goal \in Agents /\ pc' = "build" /\ todo' = {goal} /\ teams' = teams
    BY <1>5, <2>1, <2>2 DEF Resolution, Selected
  <2>3. CASE goal \in Teams /\ pc' \in {"members", "first"} /\ todo' = todo /\ teams' = {goal}
    <3>1. {AgentOS, goal} \subseteq up
      BY <1>5, <2>3, HierarchyAssumption DEF Above
    <3> QED
      BY <2>1, <2>3, <3>1 DEF Resolution, Selected
  <2>4. CASE goal = AgentOS /\ pc' = "teams" /\ UNCHANGED <<todo, teams>>
    <3>1. AgentOS \in up
      BY <1>5, <2>4, HierarchyAssumption DEF Above
    <3> QED
      BY <2>1, <2>4, <3>1 DEF Resolution, Selected
  <2> QED
    BY <2>2, <2>3, <2>4 DEF LookupEnds
<1> QED
  BY <1>2, <1>3, <1>4, <1>6 DEF Resolution

LEMMA ListTeamsStep ==
    ASSUME Resolution, list_teams
    PROVE  Resolution'
<1> DEFINE found == {t \in Teams : Up(t)}
<1>1. ~Settled /\ UNCHANGED remote
  BY DEF list_teams, Settled
<1>2. CASE Fail
  BY <1>1, <1>2, FailStep
<1>3. ASSUME pc' = "members", teams' = found, UNCHANGED <<goal, path, todo, cur, acc, ctx, built>>
      PROVE  Resolution'
  <2>1. HistoryTypes' /\ Watched' /\ ResolutionIsRegular'
    BY <1>1, <1>3, OwnStep, KeepsRegular DEF remote
  <2>2. LocalTypes' /\ gone' \in SUBSET Nodes /\ Deleted'
    BY <1>1, <1>3 DEF Resolution, LocalTypes, Deleted, remote, store, PC
  <2>3. Accumulated'
    BY <1>3 DEF Resolution, Accumulated
  <2>4. found \subseteq up
    BY <1>1, OwnStep DEF remote, Nodes
  <2>5. Selected'
    BY <1>1, <1>3, <2>4 DEF Resolution, Selected, remote, seen, list_teams
  <2> QED
    BY <2>1, <2>2, <2>3, <2>5 DEF Resolution
<1> QED
  BY <1>2, <1>3 DEF list_teams

\* The enabled members of a team that was up have been up, like the rows above them.
LEMMA MembersUp ==
    ASSUME Resolution, ~Settled, UNCHANGED remote, NEW t \in teams
    PROVE  \A a \in EnabledMembers(t) : a \in Agents /\ Above(a) \subseteq up
<1> SUFFICES ASSUME NEW a \in EnabledMembers(t)
             PROVE  a \in Agents /\ Above(a) \subseteq up
  OBVIOUS
<1>1. a \in Agents /\ TeamOf[a] = t /\ Up(a)
  BY DEF EnabledMembers
<1>2. a \in up
  BY <1>1, OwnStep DEF remote, Nodes
<1>3. {AgentOS, t} \subseteq up
  BY DEF Resolution, Selected
<1> QED
  BY <1>1, <1>2, <1>3 DEF Above

LEMMA ListMembersStep ==
    ASSUME Resolution, NEW t \in Teams, list_members(t)
    PROVE  Resolution'
<1>1. ~Settled /\ UNCHANGED remote /\ t \in teams
  BY DEF list_members, Settled
<1>2. CASE Fail
  BY <1>1, <1>2, FailStep
<1>3. ASSUME pc' = "build", teams' = teams \ {t}, todo' = EnabledMembers(t),
             UNCHANGED <<goal, path, cur, acc, ctx, built>>
      PROVE  Resolution'
  <2>1. HistoryTypes' /\ Watched' /\ ResolutionIsRegular'
    BY <1>1, <1>3, OwnStep, KeepsRegular DEF remote
  <2>2. \A a \in todo' : a \in Agents /\ Above(a) \subseteq up
    BY <1>1, <1>3, MembersUp
  <2>3. LocalTypes' /\ gone' \in SUBSET Nodes /\ Deleted'
    BY <1>1, <1>3, <2>2 DEF Resolution, LocalTypes, Deleted, remote, store, PC
  <2>4. Accumulated'
    BY <1>3 DEF Resolution, Accumulated
  <2>5. Selected'
    BY <1>1, <1>3, <2>2 DEF Resolution, Selected, remote, seen
  <2> QED
    BY <2>1, <2>3, <2>4, <2>5 DEF Resolution
<1> QED
  BY <1>2, <1>3 DEF list_members

LEMMA FirstStep ==
    ASSUME Resolution, NEW t \in Teams, get_first_enabled_in_team(t)
    PROVE  Resolution'
<1>1. ~Settled /\ UNCHANGED remote /\ t \in teams
  BY DEF get_first_enabled_in_team, Settled
<1>2. CASE Fail
  BY <1>1, <1>2, FailStep
<1>3. ASSUME NEW a \in EnabledMembers(t), pc' = "build", teams' = {}, todo' = {a},
             UNCHANGED <<goal, path, cur, acc, ctx, built>>
      PROVE  Resolution'
  <2>1. HistoryTypes' /\ Watched' /\ ResolutionIsRegular'
    BY <1>1, <1>3, OwnStep, KeepsRegular DEF remote
  <2>2. a \in Agents /\ Above(a) \subseteq up
    BY <1>1, MembersUp
  <2>3. LocalTypes' /\ gone' \in SUBSET Nodes /\ Deleted'
    BY <1>1, <1>3, <2>2 DEF Resolution, LocalTypes, Deleted, remote, store, PC
  <2>4. Accumulated'
    BY <1>3 DEF Resolution, Accumulated
  <2>5. Selected'
    BY <1>1, <1>3, <2>2 DEF Resolution, Selected, remote, seen
  <2> QED
    BY <2>1, <2>3, <2>4, <2>5 DEF Resolution
<1> QED
  BY <1>2, <1>3 DEF get_first_enabled_in_team

LEMMA BuildStep ==
    ASSUME Resolution, NEW a \in Agents, build(a)
    PROVE  Resolution'
<1>1. ~Settled /\ UNCHANGED <<store, edit, seen>> /\ UNCHANGED <<built, ctx>>
  BY DEF build, Settled
<1>2. HistoryTypes' /\ Watched' /\ ResolutionIsRegular'
  BY <1>1, OwnStep, KeepsRegular
<1>3. /\ Path(a) \in Seq(Nodes) /\ Len(Path(a)) <= 3
      /\ \A m \in Above(a) : On(m, Path(a))
  BY PathType DEF Nodes
<1>4. LocalTypes'
  BY <1>3 DEF Resolution, LocalTypes, build, PC
<1>5. gone' \in SUBSET Nodes /\ Deleted'
  BY <1>1 DEF build, Deleted, store
<1>6. Accumulated'
  BY DEF Accumulated, build
<1>7. Selected'
  BY <1>1, <1>3 DEF Resolution, Selected, build, seen
<1> QED
  BY <1>2, <1>4, <1>5, <1>6, <1>7 DEF Resolution

LEMMA RecheckStep ==
    ASSUME Resolution, Recheck
    PROVE  Resolution'
<1>1. ~Settled /\ UNCHANGED remote
  BY DEF Recheck, Settled
<1>2. CASE Fail
  BY <1>1, <1>2, FailStep
<1>3. ASSUME Live(Head(path)), path' = Tail(path), UNCHANGED <<pc, goal, teams, todo, cur, acc, ctx, built>>
      PROVE  Resolution'
  <2>1. HistoryTypes' /\ Watched' /\ ResolutionIsRegular'
    BY <1>1, <1>3, OwnStep, KeepsRegular DEF remote
  <2>2. /\ Tail(path) \in Seq(Nodes) /\ Len(Tail(path)) <= 3
        /\ \A n : On(n, path) => n = Head(path) \/ On(n, Tail(path))
    BY TailType DEF Resolution, LocalTypes, Recheck
  <2>3. Head(path) \notin gone
    BY <1>3 DEF Resolution, Deleted, Live
  <2>4. LocalTypes' /\ gone' \in SUBSET Nodes /\ Deleted'
    BY <1>1, <1>3, <2>2 DEF Resolution, LocalTypes, Deleted, remote, store
  <2>5. Accumulated'
    BY <1>3 DEF Accumulated, Recheck
  <2>6. Selected'
    BY <1>1, <1>3, <2>2, <2>3 DEF Resolution, Selected, remote, seen, Recheck
  <2> QED
    BY <2>1, <2>4, <2>5, <2>6 DEF Resolution
<1> QED
  BY <1>2, <1>3 DEF Recheck

\* The three levels are those of rows.
LEMMA Levels ==
    ASSUME NEW a \in Agents
    PROVE  AgentOS \in Nodes /\ TeamOf[a] \in Nodes /\ a \in Nodes
           /\ AgentOS \in Rows /\ TeamOf[a] \in Rows /\ a \in Rows
           /\ Above(a) = {AgentOS, TeamOf[a], a}
BY HierarchyAssumption DEF Nodes, Rows, Above

LEMMA FirstLevelStep ==
    ASSUME StoreTypes, Resolution, get_agent_os_capabilities
    PROVE  Resolution'
<1>1. ~Settled /\ UNCHANGED remote
  BY DEF get_agent_os_capabilities, Settled
<1>2. HistoryTypes' /\ Watched' /\ ResolutionIsRegular'
  BY <1>1, OwnStep, KeepsRegular DEF remote, get_agent_os_capabilities
<1>3. AgentOS \in Nodes /\ AgentOS \in Rows
  BY DEF Nodes, Rows
<1>4. grants[AgentOS] \in SUBSET Codes
  BY <1>3 DEF StoreTypes
<1>5. LocalTypes' /\ gone' \in SUBSET Nodes /\ Deleted'
  BY <1>1, <1>4 DEF Resolution, LocalTypes, Deleted, get_agent_os_capabilities, remote, store, PC
<1>6. Between(always[AgentOS], grants[AgentOS], ever[AgentOS])
  BY <1>1, <1>3, OwnStep DEF remote
<1>7. Accumulated'
  BY <1>1, <1>6 DEF Accumulated, get_agent_os_capabilities, remote, seen
<1>8. \A a \in cur : Above(a) \cap gone = {}
  BY NothingOn DEF Resolution, Selected, get_agent_os_capabilities
<1>9. Selected'
  BY <1>1, <1>8 DEF Resolution, Selected, get_agent_os_capabilities, remote, seen
<1> QED
  BY <1>2, <1>5, <1>7, <1>9 DEF Resolution

LEMMA SecondLevelStep ==
    ASSUME StoreTypes, Resolution, NEW a \in Agents, get_team_capabilities(a)
    PROVE  Resolution'
<1>1. ~Settled /\ UNCHANGED remote
  BY DEF get_team_capabilities, Settled
<1>2. HistoryTypes' /\ Watched' /\ ResolutionIsRegular'
  BY <1>1, OwnStep, KeepsRegular DEF remote, get_team_capabilities
<1>3. acc' \in [all: SUBSET Codes, direct: SUBSET Codes] /\ acc'.all = acc.all \cap grants[TeamOf[a]]
  BY DEF Resolution, LocalTypes, get_team_capabilities
<1>4. LocalTypes' /\ gone' \in SUBSET Nodes /\ Deleted'
  BY <1>1, <1>3 DEF Resolution, LocalTypes, Deleted, get_team_capabilities, remote, store, PC
<1>5. Between(always[TeamOf[a]], grants[TeamOf[a]], ever[TeamOf[a]])
  BY <1>1, Levels, OwnStep DEF remote
<1>6. \A b \in cur : b = a
  BY DEF Resolution, LocalTypes, get_team_capabilities
<1>7. Accumulated'
  BY <1>1, <1>3, <1>5, <1>6 DEF Resolution, Accumulated, Between, get_team_capabilities, remote, seen
<1>8. Selected'
  BY <1>1 DEF Resolution, Selected, get_team_capabilities, remote, seen
<1> QED
  BY <1>2, <1>4, <1>7, <1>8 DEF Resolution

LEMMA ThirdLevelStep ==
    ASSUME StoreTypes, Resolution, NEW a \in Agents, get_agent_capabilities(a)
    PROVE  Resolution'
<1>1. ~Settled /\ UNCHANGED remote
  BY DEF get_agent_capabilities, Settled
<1>2. HistoryTypes' /\ Watched' /\ ResolutionIsRegular'
  BY <1>1, OwnStep, KeepsRegular DEF remote, get_agent_capabilities
<1>3. grants[a] \in SUBSET Codes
  BY Levels DEF StoreTypes
<1>4. /\ acc' \in [all: SUBSET Codes, direct: SUBSET Codes]
      /\ acc'.all = acc.all /\ acc'.direct = grants[a]
  BY <1>3 DEF Resolution, LocalTypes, get_agent_capabilities
<1>5. LocalTypes' /\ gone' \in SUBSET Nodes /\ Deleted'
  BY <1>1, <1>4 DEF Resolution, LocalTypes, Deleted, get_agent_capabilities, remote, store, PC
<1>6. Between(always[a], grants[a], ever[a])
  BY <1>1, Levels, OwnStep DEF remote
<1>7. \A b \in cur : b = a
  BY DEF Resolution, LocalTypes, get_agent_capabilities
<1>8. Accumulated'
  BY <1>1, <1>4, <1>6, <1>7 DEF Resolution, Accumulated, get_agent_capabilities, remote, seen
<1>9. Selected'
  BY <1>1 DEF Resolution, Selected, get_agent_capabilities, remote, seen
<1> QED
  BY <1>2, <1>5, <1>8, <1>9 DEF Resolution

LEMMA LastReadStep ==
    ASSUME StoreTypes, Resolution, NEW a \in Agents, get_skill_capabilities(a)
    PROVE  Resolution'
<1> DEFINE c == get_capability_codes_for_agent(a)
           t == TeamOf[a]
<1>1. ~Settled /\ UNCHANGED remote /\ pc = "skill" /\ a \in cur
  BY DEF get_skill_capabilities, Settled
<1>2. HistoryTypes' /\ Watched'
  BY <1>1, OwnStep DEF remote
<1>3. c \in SUBSET Codes
  BY SkillCodesType
<1>4. Between(alwaysSkill[a], c, everSkill[a])
  BY <1>1, OwnStep DEF remote
<1> HIDE DEF c
<1>5. acc.all \cap (acc.direct \cup c) \in SUBSET Codes
  BY <1>3 DEF Resolution, LocalTypes
<1>6. /\ ctx' \in [Agents -> SUBSET Codes]
      /\ ctx'[a] = acc.all \cap (acc.direct \cup c)
      /\ \A b \in Agents : b # a => ctx'[b] = ctx[b]
  BY <1>5 DEF Resolution, LocalTypes, get_skill_capabilities, c
<1>7. LocalTypes' /\ gone' \in SUBSET Nodes /\ Deleted'
  BY <1>1, <1>6 DEF Resolution, LocalTypes, Deleted, get_skill_capabilities, remote, store, PC
<1>8. Accumulated'
  BY DEF Accumulated, get_skill_capabilities
<1>9. Selected'
  BY <1>1 DEF Resolution, Selected, get_skill_capabilities, remote, seen
<1>10. /\ ctx'[a] \subseteq ever[AgentOS] \cap ever[t] \cap (ever[a] \cup everSkill[a])
       /\ always[AgentOS] \cap always[t] \cap (always[a] \cup alwaysSkill[a]) \subseteq ctx'[a]
  BY <1>1, <1>4, <1>6 DEF Resolution, Accumulated, Between
<1>11. built' = built \cup {a} /\ built \subseteq Agents
  BY DEF get_skill_capabilities, Resolution, LocalTypes
<1>12. UNCHANGED <<ever, always, everSkill, alwaysSkill>>
  BY <1>1 DEF remote, seen
<1>13. ResolutionIsRegular'
  BY <1>6, <1>10, <1>11, <1>12 DEF Resolution, ResolutionIsRegular
<1> QED
  BY <1>2, <1>7, <1>8, <1>9, <1>13 DEF Resolution

LEMMA ResolveStep ==
    ASSUME StoreTypes, NEW n \in Nodes, NEW byId \in BOOLEAN, Resolve(n, byId)
    PROVE  Resolution'
<1>1. UNCHANGED <<rows, enabled, grants, links>>
  BY DEF Resolve, store
<1>2. /\ path' \in Seq(Nodes) /\ Len(path') <= 3
      /\ \A m \in Above(n) : On(m, path')
  BY PathType DEF Resolve
<1>3. LocalTypes'
  BY <1>2 DEF LocalTypes, Resolve, PC
<1>4. \A m \in Nodes : grants[m] \in SUBSET Codes
  BY DEF StoreTypes, Rows
<1>5. HistoryTypes'
  BY <1>4, SkillCodesType DEF HistoryTypes, Resolve
<1>6. Watched'
  <2>1. \A m \in Nodes : Up(m)' <=> Up(m)
    BY <1>1 DEF Up, Live
  <2>2. \A a \in Agents : get_capability_codes_for_agent(a)' = get_capability_codes_for_agent(a)
    BY <1>1 DEF get_capability_codes_for_agent
  <2>3. \A m \in Nodes : Up(m)' => m \in up'
    BY <2>1 DEF Resolve
  <2>4. \A m \in Nodes : Between(always'[m], grants'[m], ever'[m])
    BY <1>1 DEF Resolve, Between
  <2>5. \A a \in Agents :
          Between(alwaysSkill'[a], get_capability_codes_for_agent(a)', everSkill'[a])
    BY <2>2 DEF Resolve, Between
  <2> QED
    BY <2>3, <2>4, <2>5 DEF Watched
<1>7. gone' \in SUBSET Nodes /\ Deleted'
  BY DEF Resolve, Deleted
<1>8. Accumulated' /\ ResolutionIsRegular'
  BY DEF Resolve, Accumulated, ResolutionIsRegular
<1>9. Selected'
  BY <1>2 DEF Resolve, Selected
<1> QED
  BY <1>3, <1>5, <1>6, <1>7, <1>8, <1>9 DEF Resolution

-----------------------------------------------------------------------------
(* The stores *)

\* Hierarchy, flags and links change, assignments do not.
LEMMA MetadataStep ==
    ASSUME Inv, MetadataEdit
    PROVE  Inv'
<1>1. /\ rows' \in [Rows -> {"absent", "live", "deleted"}]
      /\ enabled' \in [Nodes -> BOOLEAN]
      /\ links' \in SUBSET (Agents \X Skills)
      /\ edits' \in 0..MaxEdits
      /\ \A n \in Nodes : rows[n] = "deleted" => rows'[n] = "deleted"
      /\ UNCHANGED grants
  <2> USE DEF Inv, Stores, StoreTypes
  <2>a. CountEdit
    BY DEF MetadataEdit, create, set_enabled, soft_delete, assign_to_agent, unassign_from_agent
  <2>1. edits' \in 0..MaxEdits
    BY <2>a, HierarchyAssumption DEF CountEdit
  <2>2. ASSUME NEW n \in Rows, create(n) \/ soft_delete(n)
        PROVE  /\ rows' \in [Rows -> {"absent", "live", "deleted"}]
               /\ enabled' \in [Nodes -> BOOLEAN]
               /\ \A m \in Nodes : rows[m] = "deleted" => rows'[m] = "deleted"
               /\ UNCHANGED <<grants, links>>
    BY <2>2 DEF create, soft_delete, Rows
  <2>3. ASSUME NEW n \in Nodes, set_enabled(n)
        PROVE  enabled' \in [Nodes -> BOOLEAN] /\ UNCHANGED <<rows, grants, links>>
    BY <2>3 DEF set_enabled
  <2>4. ASSUME NEW a \in Agents, NEW s \in Skills, assign_to_agent(a, s) \/ unassign_from_agent(a, s)
        PROVE  links' \in SUBSET (Agents \X Skills) /\ UNCHANGED <<rows, enabled, grants>>
    BY <2>4 DEF assign_to_agent, unassign_from_agent
  <2> QED
    BY <2>1, <2>2, <2>3, <2>4 DEF MetadataEdit
<1>2. StoreTypes'
  BY <1>1 DEF Inv, Stores, StoreTypes
<1>3. Stores'
  BY <1>1, <1>2 DEF Inv, Stores, Raced, MetadataEdit
<1>4. Resolution'
  BY <1>1, <1>2, EditKeepsResolution DEF Inv, Stores, MetadataEdit
<1> QED
  BY <1>3, <1>4 DEF Inv

\* A resolution does not see the transactions that are under way.
LEMMA UnseenStep ==
    ASSUME Resolution, UNCHANGED <<rows, enabled, grants, links, local, gone, seen>>
    PROVE  Resolution'
<1>1. \A n \in Nodes : Up(n)' <=> Up(n)
  BY DEF Up, Live
<1>2. \A a \in Agents : get_capability_codes_for_agent(a)' = get_capability_codes_for_agent(a)
  BY DEF get_capability_codes_for_agent
<1>3. Watched'
  BY <1>1, <1>2 DEF Resolution, Watched, Settled, local, seen
<1>4. LocalTypes' /\ HistoryTypes' /\ gone' \in SUBSET Nodes /\ Deleted'
  BY DEF Resolution, LocalTypes, HistoryTypes, Deleted, local, seen
<1>5. Accumulated' /\ Selected' /\ ResolutionIsRegular'
  BY DEF Resolution, Accumulated, Selected, ResolutionIsRegular, local, seen
<1> QED
  BY <1>3, <1>4, <1>5 DEF Resolution

LEMMA NoEditType == NoEdit \in EditType
BY DEF NoEdit, EditType, Rows, Nodes

LEMMA SetBeginStep ==
    ASSUME Inv, NEW e \in Requests, NEW l \in Rows, set_begin(e, l)
    PROVE  Inv'
<1>1. PICK codes \in SUBSET Codes :
        edit' = [edit EXCEPT ![e] = [step |-> "delete", target |-> l, codes |-> codes,
                                     found |-> grants[l], locked |-> {}, raced |-> {}]]
  BY DEF set_begin
<1>2. edit' \in [Requests -> EditType]
  BY <1>1 DEF Inv, Stores, StoreTypes, EditType
<1>3. StoreTypes'
  BY HierarchyAssumption DEF Inv, Stores, StoreTypes, set_begin, CountEdit
<1>4. Raced'
  BY <1>1 DEF Inv, Stores, Raced, set_begin
<1>5. Resolution'
  BY UnseenStep DEF Inv, set_begin
<1> QED
  BY <1>2, <1>3, <1>4, <1>5 DEF Inv, Stores

LEMMA SetDeleteStep ==
    ASSUME Inv, NEW e \in Requests, set_delete(e)
    PROVE  Inv'
<1>1. edit' = [edit EXCEPT ![e].step = "insert", ![e].locked = edit[e].found]
      /\ edit[e] \in EditType /\ edit[e].step = "delete"
  BY DEF Inv, Stores, set_delete
<1>2. edit' \in [Requests -> EditType]
  BY <1>1 DEF Inv, Stores, EditType
<1>3. StoreTypes' /\ UNCHANGED <<rows, enabled, grants, links>>
  BY DEF Inv, Stores, StoreTypes, set_delete, store
<1>4. Raced'
  BY <1>1, <1>3 DEF Inv, Stores, Raced, EditType
<1>5. Resolution'
  BY <1>3, UnseenStep DEF Inv, set_delete
<1> QED
  BY <1>2, <1>3, <1>4, <1>5 DEF Inv, Stores

LEMMA SetEndsStep ==
    ASSUME Inv, NEW e \in Requests, set_conflict(e) \/ set_abort(e)
    PROVE  Inv'
<1>1. edit' = [edit EXCEPT ![e] = NoEdit] /\ UNCHANGED <<store, local, gone, seen>>
  BY DEF set_conflict, set_abort
<1>2. edit' \in [Requests -> EditType]
  BY <1>1, NoEditType DEF Inv, Stores
<1>3. StoreTypes' /\ UNCHANGED <<rows, enabled, grants, links>>
  BY <1>1 DEF Inv, Stores, StoreTypes, store
<1>4. Raced'
  BY <1>1, <1>3 DEF Inv, Stores, Raced, NoEdit
<1>5. Resolution'
  BY <1>1, <1>3, UnseenStep DEF Inv
<1> QED
  BY <1>2, <1>3, <1>4, <1>5 DEF Inv, Stores

LEMMA SetInsertStep ==
    ASSUME Inv, NEW e \in Requests, set_insert(e)
    PROVE  Inv'
<1> DEFINE l == edit[e].target
<1>1. edit[e] \in EditType /\ l \in Rows /\ edit[e].codes \in SUBSET Codes
  BY DEF Inv, Stores, EditType
<1>2. /\ grants' = [grants EXCEPT ![l] = (@ \ edit[e].locked) \cup edit[e].codes]
      /\ edit' = [f \in Requests |-> IF f = e THEN NoEdit ELSE Forget(e, f)]
      /\ UNCHANGED <<rows, enabled, links, edits, local, gone>> /\ Observe
  BY DEF set_insert
<1>3. StoreTypes'
  BY <1>1, <1>2 DEF Inv, Stores, StoreTypes
<1>4. ASSUME NEW f \in Requests PROVE Forget(e, f) \in EditType
  BY <1>1 DEF Inv, Stores, EditType, Forget
<1>5. edit' \in [Requests -> EditType]
  BY <1>2, <1>4, NoEditType
<1>6. Raced'
  <2> SUFFICES ASSUME NEW f \in Requests
               PROVE  /\ edit'[f].step = "delete" =>
                          grants'[edit'[f].target] \subseteq edit'[f].found \cup edit'[f].raced
                      /\ edit'[f].step = "insert" =>
                          grants'[edit'[f].target] \subseteq edit'[f].locked \cup edit'[f].raced
    BY DEF Raced
  <2>1. edit[f] \in EditType /\ grants \in [Rows -> SUBSET Codes]
    BY DEF Inv, Stores, StoreTypes
  <2>2. CASE f = e
    BY <1>2, <2>2 DEF NoEdit
  <2>3. CASE f # e /\ edit[f].target = l /\ edit[f].step # "idle"
    <3>1. edit'[f] = [edit[f] EXCEPT !.found = @ \ edit[e].locked, !.raced = @ \cup edit[e].codes]
      BY <1>2, <2>3 DEF Forget
    <3>2. /\ edit'[f].step = edit[f].step /\ edit'[f].target = l
          /\ edit'[f].found = edit[f].found \ edit[e].locked
          /\ edit'[f].locked = edit[f].locked
          /\ edit'[f].raced = edit[f].raced \cup edit[e].codes
      BY <2>1, <2>3, <3>1 DEF EditType
    <3>3. grants'[l] = (grants[l] \ edit[e].locked) \cup edit[e].codes
      BY <1>1, <1>2, <2>1
    <3>4. /\ edit[f].step = "delete" => grants[l] \subseteq edit[f].found \cup edit[f].raced
          /\ edit[f].step = "insert" => grants[l] \subseteq edit[f].locked \cup edit[f].raced
      BY <2>3 DEF Inv, Stores, Raced
    <3> QED
      BY <3>2, <3>3, <3>4
  <2>4. CASE f # e /\ (edit[f].target # l \/ edit[f].step = "idle")
    <3>1. edit'[f] = edit[f]
      BY <1>2, <2>4 DEF Forget
    <3>2. edit[f].target # l => grants'[edit[f].target] = grants[edit[f].target]
      BY <1>2, <2>1 DEF EditType
    <3> QED
      BY <2>4, <3>1, <3>2 DEF Inv, Stores, Raced
  <2> QED
    BY <2>2, <2>3, <2>4
<1>7. Resolution'
  BY <1>2, <1>3, EditKeepsResolution DEF Inv, Stores
<1> QED
  BY <1>3, <1>5, <1>6, <1>7 DEF Inv, Stores

-----------------------------------------------------------------------------
(* Theorems *)

LEMMA TurnStep == Inv /\ Turn => Inv'
<1> SUFFICES ASSUME Inv, Turn
             PROVE  Inv'
  OBVIOUS
<1>1. StoreTypes /\ Resolution
  BY DEF Inv, Stores
<1>2. UNCHANGED <<store, edit>>
  BY DEF Turn, Member, Lookup, LookupEnds, list_teams, Recheck, get_agent_os_capabilities,
         list_members, get_first_enabled_in_team, build, get_team_capabilities,
         get_agent_capabilities, get_skill_capabilities, remote
<1>3. Stores'
  BY <1>2 DEF Inv, Stores, StoreTypes, Raced, store
<1>4. CASE Lookup \/ LookupEnds \/ list_teams \/ Recheck \/ get_agent_os_capabilities
  BY <1>1, <1>3, <1>4, LookupStep, LookupEndsStep, ListTeamsStep, RecheckStep, FirstLevelStep DEF Inv
<1>5. ASSUME NEW t \in Teams, list_members(t) \/ get_first_enabled_in_team(t)
      PROVE  Inv'
  BY <1>1, <1>3, <1>5, ListMembersStep, FirstStep DEF Inv
<1>6. ASSUME NEW a \in Agents, Member(a)
      PROVE  Inv'
  BY <1>1, <1>3, <1>6, BuildStep, SecondLevelStep, ThirdLevelStep, LastReadStep DEF Inv, Member
<1> QED
  BY <1>4, <1>5, <1>6 DEF Turn

LEMMA InvStep == Inv /\ [Next]_vars => Inv'
<1> SUFFICES ASSUME Inv, [Next]_vars
             PROVE  Inv'
  OBVIOUS
<1>1. CASE MetadataEdit
  BY <1>1, MetadataStep
<1>2. ASSUME NEW e \in Requests,
             \/ \E l \in Rows : set_begin(e, l)
             \/ set_delete(e) \/ set_insert(e) \/ set_conflict(e) \/ set_abort(e)
      PROVE  Inv'
  BY <1>2, SetBeginStep, SetDeleteStep, SetInsertStep, SetEndsStep
<1>3. ASSUME NEW n \in Nodes, NEW byId \in BOOLEAN, Resolve(n, byId)
      PROVE  Inv'
  <2>1. Resolution'
    BY <1>3, ResolveStep DEF Inv, Stores
  <2>2. Stores'
    BY <1>3 DEF Inv, Stores, StoreTypes, Raced, Resolve, store
  <2> QED
    BY <2>1, <2>2 DEF Inv
<1>4. CASE Turn
  BY <1>4, TurnStep
<1>5. CASE UNCHANGED vars
  <2>1. Resolution'
    BY <1>5, UnseenStep DEF Inv, vars, store
  <2>2. Stores'
    BY <1>5 DEF Inv, Stores, StoreTypes, Raced, vars, store
  <2> QED
    BY <2>1, <2>2 DEF Inv
<1> QED
  BY <1>1, <1>2, <1>3, <1>4, <1>5 DEF Next

LEMMA InitInv == Init => Inv
<1> SUFFICES ASSUME Init
             PROVE  Inv
  OBVIOUS
<1>1. AgentOS \in Nodes /\ Nodes \subseteq Rows
  BY DEF Nodes, Rows
<1>2. rows \in [Rows -> {"absent", "live", "deleted"}] /\ enabled \in [Nodes -> BOOLEAN]
  BY DEF Init, Live
<1>3. grants \in [Rows -> SUBSET Codes]
  BY DEF Init
<1>4. StoreTypes
  BY <1>2, <1>3, HierarchyAssumption DEF Init, StoreTypes
<1>5. edit \in [Requests -> EditType] /\ Raced
  BY NoEditType DEF Init, Raced, NoEdit
<1>6. LocalTypes /\ HistoryTypes
  BY <1>1 DEF Init, LocalTypes, HistoryTypes, PC
<1>7. gone \in SUBSET Nodes /\ Deleted /\ Accumulated /\ Selected /\ ResolutionIsRegular
  BY DEF Init, Deleted, Accumulated, Selected, ResolutionIsRegular
<1>8. Watched
  BY DEF Init, Watched, Settled
<1> QED
  BY <1>4, <1>5, <1>6, <1>7, <1>8 DEF Inv, Stores, Resolution

\* The inductive invariant of resolutions and replacements: what the statements so
\* far have established, for any hierarchy and any number of requests.
THEOREM InvHolds == Spec => []Inv
BY InitInv, InvStep, PTL DEF Spec

\* Every variable keeps its type.
THEOREM TypeCorrect == Spec => []TypeOK
<1>1. Inv => TypeOK
  BY DEF Inv, Stores, Resolution, StoreTypes, EditType, LocalTypes, HistoryTypes, TypeOK
<1> QED
  BY <1>1, InvHolds, PTL

\* Every context a resolution builds is regular (get_skill_capabilities: what the
\* three levels and the skills held when each of them was read).
THEOREM Regular == Spec => []ResolutionIsRegular
<1>1. Inv => ResolutionIsRegular
  BY DEF Inv, Resolution
<1> QED
  BY <1>1, InvHolds, PTL

\* A context is built of rows that were up (Lookup), none of which was deleted
\* before its member was begun (Recheck).
THEOREM WasUp == Spec => ContextWasUp
<1>1. ASSUME Inv, [Next]_vars
      PROVE  \A a \in built' \ built : {AgentOS, TeamOf[a], a} \subseteq up \ gone
  <2> SUFFICES ASSUME NEW a \in built' \ built
               PROVE  {AgentOS, TeamOf[a], a} \subseteq up \ gone
    OBVIOUS
  <2>1. \E b \in Agents : get_skill_capabilities(b)
    BY <1>1 DEF Next, MetadataEdit, set_begin, set_delete, set_insert, set_conflict, set_abort,
                Resolve, Turn, Member, Lookup, LookupEnds, list_teams, Recheck, Fail,
                get_agent_os_capabilities, list_members, get_first_enabled_in_team, build,
                get_team_capabilities, get_agent_capabilities, vars, local
  <2>2. PICK b \in Agents : get_skill_capabilities(b)
    BY <2>1
  <2>3. a = b /\ pc = "skill" /\ b \in cur
    BY <2>2 DEF get_skill_capabilities
  <2>4. Above(b) \subseteq up /\ Above(b) \cap gone = {}
    BY <1>1, <2>3 DEF Inv, Resolution, Selected
  <2> QED
    BY <2>3, <2>4, Levels
<1> QED
  BY <1>1, InvHolds, PTL DEF Spec, ContextWasUp

\* What set_*_capabilities commits is the set it was given, but for what requests
\* that raced with it wrote.
THEOREM Exact == Spec => ReplacementIsExactUnlessRaced
<1>1. ASSUME Inv, [Next]_vars
      PROVE  \A e \in Requests : set_insert(e) =>
                LET g == grants'[edit[e].target] IN
                /\ edit[e].codes \subseteq g
                /\ g \subseteq edit[e].codes \cup edit[e].raced
  <2> SUFFICES ASSUME NEW e \in Requests, set_insert(e)
               PROVE  LET g == grants'[edit[e].target] IN
                      /\ edit[e].codes \subseteq g
                      /\ g \subseteq edit[e].codes \cup edit[e].raced
    OBVIOUS
  <2>1. edit[e].target \in Rows /\ grants \in [Rows -> SUBSET Codes]
    BY <1>1 DEF Inv, Stores, StoreTypes, EditType
  <2>2. grants'[edit[e].target] = (grants[edit[e].target] \ edit[e].locked) \cup edit[e].codes
    BY <2>1 DEF set_insert
  <2>3. grants[edit[e].target] \subseteq edit[e].locked \cup edit[e].raced
    BY <1>1 DEF Inv, Stores, Raced, set_insert
  <2> QED
    BY <2>2, <2>3
<1> QED
  BY <1>1, InvHolds, PTL DEF Spec, ReplacementIsExactUnlessRaced
=============================================================================
