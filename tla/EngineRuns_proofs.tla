-------------------------- MODULE EngineRuns_proofs -------------------------
(***************************************************************************)
(* That a run of the engine leaves no session open, that Agno has the      *)
(* session of every member, that a stream tells how it ends, and that the  *)
(* plan of a run is made of its proposals, for any shapes, events, actions *)
(* and runs.                                                               *)
(*                                                                         *)
(* First the places, sessions and events of a run.  Then what is needed to *)
(* speak of sequences of any length (what a selection, a flattening and    *)
(* the sort by number do, by induction on their length), and with it the   *)
(* types, the members and the plan.                                        *)
(***************************************************************************)
EXTENDS EngineRuns, SequenceTheorems, FiniteSetTheorems, WellFoundedInduction, TLAPS

\* What the run does once its sessions are closed, or its consumer asks again.
Next_step == IF pc \in {"yield", "unwind"} THEN then ELSE pc

\* Where a run stands and where it goes on.
Control ==
    /\ pc \in PC /\ stream \in BOOLEAN
    /\ pc = "yield" => then \in {"run", "raise", "plan", "return"} /\ stream
    /\ pc = "unwind" => then \in {"catch", "raise", "metrics", "gone"}
    /\ pc = "dropped" => then = "gone"
    /\ Next_step \in {"gone", "dropped"} => outcome \in {"abandoned", "cancelled"}

Sessions ==
    /\ NothingLeftOpen
    /\ pc = "yield" /\ then \in {"plan", "return"} => stack = <<>>

\* What a stream has said, by where its run goes on.
Quiet == \A i \in 1..Len(events) : events[i] \in {"event", "error"}

Said ==
    /\ events \in Seq({"event", "error", "metrics", "plan"})
    /\ Next_step \in {"idle", "connect", "build", "run", "catch", "metrics"} => Quiet
    /\ Next_step = "raise" /\ stream =>
        Quiet /\ events # <<>> /\ events[Len(events)] = "error"
    /\ Next_step = "plan" =>
        \A i \in 1..Len(events) :
            events[i] \in {"event", "error"} \/ (events[i] = "metrics" /\ i = Len(events))
    /\ Next_step = "return" /\ stream => (plan # <<>> <=> Contains(events, "plan"))
    /\ StreamEndsOnce

\* The sessions open and the members still to be connected are those of the run.
Connected ==
    /\ pc = "connect" => stack \o OnlyOf(todo, Members) = OnlyOf(shape, Members)
    /\ pc = "build" => todo # <<>> /\ stack \o OnlyOf(Tail(todo), Members) = OnlyOf(shape, Members)
    /\ Next_step = "run" => stack = OnlyOf(shape, Members)

\* What is still to be built: members not built yet, and none of them twice.
ToBuild ==
    /\ \A i, j \in DOMAIN todo : todo[i] = todo[j] /\ todo[i] \in Members => i = j
    /\ \A i \in DOMAIN collectors, j \in DOMAIN todo : collectors[i].of # todo[j]
    /\ pc \in {"connect", "build"} => proposed = <<>>

\* The lists of actions of collectors cs
Lists(cs) == [i \in DOMAIN cs |-> cs[i].actions]

\* What collectors cs hold of the proposals p: each those of its member, numbered
\* from 0, and all of them together.
Gathered(cs, p) ==
    /\ \A i, j \in DOMAIN cs : cs[i].of = cs[j].of => i = j
    /\ \A i \in DOMAIN cs :
        /\ cs[i].actions = OnlyOf(p, By(cs[i].of))
        /\ \A k \in DOMAIN cs[i].actions :
            cs[i].actions[k] = [by |-> cs[i].of, executionOrder |-> k - 1]
    /\ \A k \in DOMAIN p : \E i \in DOMAIN cs : cs[i].of = p[k].by
    /\ Len(p) <= MaxActions
    /\ Len(FlattenSeq(Lists(cs))) = Len(p)

\* A plan is made at the end, of what was proposed until then.
Planned ==
    /\ Gathered(collectors, proposed)
    /\ plan # NoPlan => Next_step \in {"return", "over", "gone", "dropped"}
    /\ Next_step = "return" => plan # NoPlan
    /\ Next_step \notin {"over", "gone", "dropped"} => outcome = "none"
    /\ PlanIsOfThisRun

Inv == Control /\ Sessions /\ Said /\ TypeOK /\ Connected /\ ToBuild /\ Planned

-----------------------------------------------------------------------------
(* Where the run stands *)

LEMMA ControlStep == Control /\ [Next]_vars => Control'
<1> SUFFICES ASSUME Control, [Next]_vars
             PROVE  Control'
  OBVIOUS
<1> USE DEF Control, Next_step, PC, Go, Yield
<1>1. ASSUME NEW s \in Shapes, NEW streamed \in BOOLEAN, Start(s, streamed)
      PROVE  Control'
  BY <1>1 DEF Start
<1>2. CASE __aenter__
  BY <1>2 DEF __aenter__
<1>3. CASE _build_agno_agent
  BY <1>3 DEF _build_agno_agent
<1>4. CASE Catch
  BY <1>4 DEF Catch
<1>5. CASE Reraise
  BY <1>5 DEF Reraise
<1>6. CASE __aexit__
  BY <1>6 DEF __aexit__
<1>7. CASE Unwound
  BY <1>7 DEF Unwound
<1>8. CASE Metrics
  BY <1>8 DEF Metrics
<1>9. CASE Plan
  BY <1>9 DEF Plan
<1>10. CASE Return \/ Finalize \/ Gone
  BY <1>10 DEF Return, Finalize, Gone
<1>11. ASSUME NEW i \in DOMAIN collectors, propose_ui_action(i)
       PROVE  Control'
  BY <1>11 DEF propose_ui_action
<1>12. CASE Event \/ Ends
  BY <1>12 DEF Event, Ends
<1>13. CASE Raise
  BY <1>13 DEF Raise
<1>14. CASE Resume \/ Close \/ Abandon \/ Cancel
  BY <1>14 DEF Resume, Close, Abandon, Cancel
<1>15. CASE UNCHANGED vars
  BY <1>15 DEF vars
<1> QED
  BY <1>1, <1>2, <1>3, <1>4, <1>5, <1>6, <1>7, <1>8, <1>9, <1>10, <1>11, <1>12, <1>13, <1>14, <1>15
     DEF Next, Own

-----------------------------------------------------------------------------
(* The sessions *)

\* Whatever opens a session or leaves one open goes on to a step that closes it.
LEMMA SessionsStep == Control /\ Sessions /\ [Next]_vars => Sessions'
<1> SUFFICES ASSUME Control, Sessions, [Next]_vars
             PROVE  Sessions'
  OBVIOUS
<1> USE DEF Control, Sessions, NothingLeftOpen, Go, Yield
<1>1. ASSUME NEW s \in Shapes, NEW streamed \in BOOLEAN, Start(s, streamed)
      PROVE  Sessions'
  BY <1>1 DEF Start
<1>2. CASE __aenter__ \/ _build_agno_agent
  BY <1>2 DEF __aenter__, _build_agno_agent
<1>3. CASE Catch
  BY <1>3 DEF Catch, IsTeam
<1>4. CASE Reraise
  BY <1>4 DEF Reraise
<1>5. CASE __aexit__
  BY <1>5 DEF __aexit__
<1>6. CASE Unwound
  BY <1>6 DEF Unwound, IsTeam
<1>7. CASE Metrics
  BY <1>7 DEF Metrics
<1>8. CASE Plan
  BY <1>8 DEF Plan
<1>9. CASE Return \/ Finalize \/ Gone
  BY <1>9 DEF Return, Finalize, Gone
<1>10. ASSUME NEW i \in DOMAIN collectors, propose_ui_action(i)
       PROVE  Sessions'
  BY <1>10 DEF propose_ui_action
<1>11. CASE Event \/ Ends
  BY <1>11 DEF Event, Ends
<1>12. CASE Raise
  BY <1>12 DEF Raise, IsTeam
<1>13. CASE Resume \/ Close \/ Abandon \/ Cancel
  BY <1>13 DEF Resume, Close, Abandon, Cancel
<1>14. CASE UNCHANGED vars
  BY <1>14 DEF vars, IsTeam
<1> QED
  BY <1>1, <1>2, <1>3, <1>4, <1>5, <1>6, <1>7, <1>8, <1>9, <1>10, <1>11, <1>12, <1>13, <1>14
     DEF Next, Own

-----------------------------------------------------------------------------
(* The events *)

\* One more event.
LEMMA OneMore ==
    ASSUME events \in Seq({"event", "error", "metrics", "plan"}),
           NEW e \in {"event", "error", "metrics", "plan"},
           events' = Append(events, e)
    PROVE  /\ events' \in Seq({"event", "error", "metrics", "plan"})
           /\ Len(events) \in Nat /\ Len(events') = Len(events) + 1
           /\ events' # <<>>
           /\ \A i \in 1..Len(events) : events'[i] = events[i]
           /\ events'[Len(events')] = e
           /\ \A i \in 1..Len(events') : i # Len(events') => i \in 1..Len(events)
<1>1. /\ events' \in Seq({"event", "error", "metrics", "plan"})
      /\ Len(events) \in Nat /\ Len(events') = Len(events) + 1
      /\ \A i \in 1..Len(events) : events'[i] = events[i]
      /\ events'[Len(events) + 1] = e
  BY AppendProperties, LenProperties
<1>2. events' # <<>>
  BY <1>1, EmptySeq
<1> QED
  BY <1>1, <1>2

\* A step that says nothing, of a run that is not over by it.
LEMMA SaidNothing ==
    ASSUME Said, UNCHANGED <<events, stream, plan>>,
           Next_step' = Next_step \/ Next_step' \in {"gone", "dropped"}
              \/ (Quiet /\ Next_step' \in {"build", "connect", "run", "catch", "metrics", "plan"})
              \/ (~stream /\ Next_step' = "raise"),
           pc' = "over" => pc = "over" /\ outcome' = outcome
    PROVE  Said'
<1>1. StreamEndsOnce'
  BY DEF Said, StreamEndsOnce
<1>2. Quiet' <=> Quiet
  BY DEF Quiet
<1> QED
  BY <1>1, <1>2 DEF Said, Quiet, Contains

\* One more event that is not the last word.
LEMMA SaidMore ==
    ASSUME Said, Quiet, NEW e \in {"event", "error", "metrics"}, events' = Append(events, e),
           UNCHANGED <<stream, plan>>, pc' = "yield",
           \/ e \in {"event", "error"} /\ then' = "run"
           \/ e = "error" /\ then' = "raise"
           \/ e = "metrics" /\ then' = "plan"
    PROVE  Said'
<1>1. /\ events' \in Seq({"event", "error", "metrics", "plan"})
      /\ Len(events) \in Nat /\ Len(events') = Len(events) + 1 /\ events' # <<>>
      /\ events'[Len(events')] = e
      /\ \A i \in 1..Len(events') : i # Len(events') => events'[i] \in {"event", "error"}
  <2>1. e \in {"event", "error", "metrics", "plan"}
    OBVIOUS
  <2> QED
    BY <2>1, OneMore DEF Said, Quiet
<1>2. DOMAIN events' = 1..Len(events')
  BY <1>1, LenProperties
<1>3. Next_step' = then'
  BY DEF Next_step
<1>4. \A i \in DOMAIN events' :
        /\ events'[i] = "plan" => i = Len(events')
        /\ events'[i] = "metrics" => \A j \in i + 1..Len(events') : events'[j] = "plan"
  <2> SUFFICES ASSUME NEW i \in 1..Len(events')
               PROVE  /\ events'[i] = "plan" => i = Len(events')
                      /\ events'[i] = "metrics" => \A j \in i + 1..Len(events') : events'[j] = "plan"
    BY <1>2
  <2> QED
    BY <1>1
<1>5. StreamEndsOnce'
  BY <1>4 DEF StreamEndsOnce
<1>6. CASE e \in {"event", "error"} /\ then' = "run"
  BY <1>1, <1>3, <1>5, <1>6 DEF Said, Quiet
<1>7. CASE e = "error" /\ then' = "raise"
  BY <1>1, <1>3, <1>5, <1>7 DEF Said, Quiet
<1>8. CASE e = "metrics" /\ then' = "plan"
  BY <1>1, <1>3, <1>5, <1>8 DEF Said
<1> QED
  BY <1>6, <1>7, <1>8

\* The plan is announced if there is one, and nothing after it.
LEMMA SaidPlan ==
    ASSUME Control, Said, Plan
    PROVE  Said'
<1>1. /\ pc = "plan" /\ Next_step = "plan" /\ stream' = stream
      /\ events \in Seq({"event", "error", "metrics", "plan"}) /\ Len(events) \in Nat
      /\ \A i \in 1..Len(events) :
            events[i] \in {"event", "error"} \/ (events[i] = "metrics" /\ i = Len(events))
      /\ DOMAIN events = 1..Len(events)
  BY LenProperties DEF Plan, Next_step, Said
<1>2. CASE stream /\ plan' # <<>>
  <2>1. Next_step' = "return" /\ pc' = "yield" /\ events' = Append(events, "plan")
    BY <1>2 DEF Plan, Next_step
  <2>2. /\ events' \in Seq({"event", "error", "metrics", "plan"})
        /\ Len(events') = Len(events) + 1
        /\ events'[Len(events')] = "plan"
        /\ \A i \in 1..Len(events') : i = Len(events') \/ (i \in 1..Len(events) /\ events'[i] = events[i])
    BY <1>1, <2>1, OneMore
  <2>3. DOMAIN events' = 1..Len(events')
    BY <2>2, LenProperties
  <2>4. \A i \in 1..Len(events') :
          /\ events'[i] = "plan" => i = Len(events')
          /\ events'[i] = "metrics" => i = Len(events)
    BY <1>1, <2>2
  <2>5. StreamEndsOnce'
    <3>1. ASSUME NEW i \in 1..Len(events'), events'[i] = "metrics", NEW j \in i + 1..Len(events')
          PROVE  events'[j] = "plan"
      <4>1. i = Len(events)
        BY <2>4, <3>1
      <4>2. Len(events) \in Nat /\ Len(events') = Len(events) + 1
        BY <1>1, <2>2
      <4>3. j \in (Len(events) + 1)..(Len(events) + 1)
        BY <4>1, <4>2
      <4>4. j = Len(events')
        BY ONLY <4>2, <4>3
      <4> QED
        BY <2>2, <4>4
    <3>2. \A i \in DOMAIN events' :
            /\ events'[i] = "plan" => i = Len(events')
            /\ events'[i] = "metrics" => \A j \in i + 1..Len(events') : events'[j] = "plan"
      BY <2>3, <2>4, <3>1
    <3> QED
      BY <3>2, <2>1 DEF StreamEndsOnce
  <2>6. Contains(events', "plan")
    <3>1. Len(events') \in 1..Len(events')
      <4>1. Len(events) \in Nat /\ Len(events') = Len(events) + 1
        BY <1>1, <2>2
      <4> QED
        BY ONLY <4>1
    <3> QED
      BY <2>2, <2>4, <3>1 DEF Contains
  <2> QED
    BY <1>2, <2>1, <2>2, <2>5, <2>6 DEF Said
<1>3. CASE ~(stream /\ plan' # <<>>)
  <2>1. Next_step' = "return" /\ pc' = "return" /\ events' = events
    BY <1>3 DEF Plan, Next_step
  <2>2. StreamEndsOnce'
    BY <1>1, <2>1 DEF Said, StreamEndsOnce
  <2>3. ~Contains(events, "plan")
    BY <1>1 DEF Contains
  <2> QED
    BY <1>1, <1>3, <2>1, <2>2, <2>3 DEF Said
<1> QED
  BY <1>2, <1>3

\* A run that is over has said how it ended.
LEMMA SaidAll ==
    ASSUME Said, Next_step' = "over", pc' = "over", UNCHANGED <<events, stream, plan>>,
           \/ outcome' \in {"abandoned", "cancelled"}
           \/ outcome' = "raised" /\ Next_step = "raise"
           \/ outcome' = "returned" /\ Next_step = "return"
    PROVE  Said'
<1>1. Next_step = "raise" /\ stream => ~Contains(events, "metrics") /\ ~Contains(events, "plan")
  BY DEF Said, Quiet, Contains
<1>2. StreamEndsOnce'
  BY <1>1 DEF Said, StreamEndsOnce, Last
<1> QED
  BY <1>2 DEF Said

LEMMA SaidStep == Control /\ Said /\ [Next]_vars => Said'
<1> SUFFICES ASSUME Control, Said, [Next]_vars
             PROVE  Said'
  OBVIOUS
<1> USE DEF Go, Next_step
<1>1. ASSUME NEW s \in Shapes, NEW streamed \in BOOLEAN, Start(s, streamed)
      PROVE  Said'
  <2>1. events' = <<>> /\ pc' = "connect"
    BY <1>1 DEF Start
  <2>2. events' \in Seq({"event", "error", "metrics", "plan"}) /\ Len(events') = 0 /\ DOMAIN events' = 1..0
    BY <2>1, EmptySeq
  <2> QED
    BY <2>1, <2>2 DEF Said, Quiet, StreamEndsOnce
<1>2. CASE __aenter__ \/ _build_agno_agent
  <2>1. /\ UNCHANGED <<events, stream, plan>> /\ Quiet /\ pc' \in {"build", "connect", "run"}
    BY <1>2 DEF __aenter__, _build_agno_agent, Said
  <2> QED
    BY <2>1, SaidNothing
<1>3. CASE Catch
  <2>1. Quiet /\ UNCHANGED <<stream, plan>>
    BY <1>3 DEF Catch, Said, Yield
  <2>2. CASE stream
    BY <1>3, <2>1, <2>2, SaidMore DEF Catch, Yield
  <2>3. CASE ~stream
    BY <1>3, <2>1, <2>3, SaidNothing DEF Catch
  <2> QED
    BY <2>2, <2>3
<1>4. CASE Reraise
  <2>1. CASE stack # <<>>
    BY <1>4, <2>1, SaidNothing DEF Reraise
  <2>2. CASE stack = <<>>
    BY <1>4, <2>2, SaidAll DEF Reraise
  <2> QED
    BY <2>1, <2>2
<1>5. CASE __aexit__ \/ Finalize \/ Cancel \/ Close \/ Abandon
  BY <1>5, SaidNothing DEF __aexit__, Finalize, Cancel, Close, Abandon
<1>6. CASE Unwound \/ Resume
  <2>1. Next_step' = Next_step /\ pc' # "over"
    BY <1>6 DEF Unwound, Resume, Control
  <2> QED
    BY <1>6, <2>1, SaidNothing DEF Unwound, Resume
<1>7. CASE Metrics
  <2>1. Quiet /\ UNCHANGED <<stream, plan>>
    BY <1>7 DEF Metrics, Said, Yield
  <2>2. CASE stream /\ Yield("metrics", "plan")
    BY <2>1, <2>2, SaidMore DEF Yield
  <2>3. CASE Go("plan", "over") /\ UNCHANGED <<events, outcome>>
    BY <2>1, <2>3, SaidNothing
  <2> QED
    BY <1>7, <2>2, <2>3 DEF Metrics
<1>8. CASE Plan
  BY <1>8, SaidPlan
<1>9. CASE Return \/ Gone
  BY <1>9, SaidAll DEF Return, Gone, Control
<1>10. ASSUME NEW i \in DOMAIN collectors, propose_ui_action(i)
       PROVE  Said'
  BY <1>10, SaidNothing DEF propose_ui_action
<1>11. CASE Event
  BY <1>11, SaidMore DEF Event, Yield, Said
<1>12. CASE Ends \/ Raise
  BY <1>12, SaidNothing DEF Ends, Raise, Said
<1>13. CASE UNCHANGED vars
  BY <1>13, SaidNothing DEF vars
<1> QED
  BY <1>1, <1>2, <1>3, <1>4, <1>5, <1>6, <1>7, <1>8, <1>9, <1>10, <1>11, <1>12, <1>13 DEF Next, Own

-----------------------------------------------------------------------------
(* Selecting from a sequence *)

\* A set of numbers with 0 and the successor of each of its members has them all.
LEMMA Induction ==
    ASSUME NEW S \in SUBSET Nat, 0 \in S, \A n \in S : n + 1 \in S
    PROVE  S = Nat
<1> SUFFICES ASSUME Nat \ S # {} PROVE FALSE
  OBVIOUS
<1>1. PICK n \in Nat \ S : \A m \in Nat \ S : <<m, n>> \notin OpToRel(<, Nat)
  BY NatLessThanWellFounded, WFMin
<1>2. \A m \in Nat \ S : ~(m < n)
  BY <1>1 DEF OpToRel
<1>3. n \in Nat /\ n # 0
  OBVIOUS
<1>4. n - 1 \in Nat /\ n - 1 < n /\ (n - 1) + 1 = n
  BY <1>3
<1> QED
  BY <1>2, <1>4

\* Every sequence is made by appending one element after another.
LEMMA AppendInduction ==
    ASSUME NEW A, NEW T, <<>> \in T,
           \A s \in Seq(A), a \in A : s \in T => Append(s, a) \in T
    PROVE  \A s \in Seq(A) : s \in T
<1> DEFINE N == {n \in Nat : \A s \in Seq(A) : Len(s) = n => s \in T}
<1>1. 0 \in N
  BY EmptySeq
<1>2. ASSUME NEW n \in N PROVE n + 1 \in N
  <2>1. ASSUME NEW s \in Seq(A), Len(s) = n + 1 PROVE s \in T
    <3>1. n \in Nat
      BY <1>2
    <3>2. s # <<>>
      BY <2>1, <3>1, EmptySeq
    <3>3. PICK r \in Seq(A), a \in A : s = Append(r, a)
      BY <3>2, SequenceEmptyOrAppend
    <3>4. Len(r) = n
      BY <2>1, <3>1, <3>3, AppendProperties, LenProperties
    <3> QED
      BY <1>2, <3>3, <3>4
  <2> QED
    BY <1>2, <2>1
<1>3. N = Nat
  <2>1. N \in SUBSET Nat
    OBVIOUS
  <2> HIDE DEF N
  <2> QED
    BY <1>1, <1>2, <2>1, Induction
<1> QED
  BY <1>3, LenProperties

\* The selections from the prefixes of s
Picks(s, T, F) ==
    F = [i \in 0..Len(s) |-> IF i = 0 THEN <<>>
                             ELSE IF s[i] \in T THEN Append(F[i - 1], s[i]) ELSE F[i - 1]]

LEMMA OnlyOfIs ==
    ASSUME NEW s, NEW T
    PROVE  OnlyOf(s, T) = (CHOOSE F : Picks(s, T, F))[Len(s)]
BY DEF OnlyOf, Picks

LEMMA PicksStep ==
    ASSUME NEW A, NEW s \in Seq(A), NEW T, NEW F, Picks(s, T, F)
    PROVE  /\ F[0] = <<>>
           /\ \A n \in 1..Len(s) :
                F[n] = IF s[n] \in T THEN Append(F[n - 1], s[n]) ELSE F[n - 1]
<1> DEFINE Value(i) == IF i = 0 THEN <<>>
                       ELSE IF s[i] \in T THEN Append(F[i - 1], s[i]) ELSE F[i - 1]
<1>1. Len(s) \in Nat
  BY LenProperties
<1>2. F = [i \in 0..Len(s) |-> Value(i)]
  BY DEF Picks
<1>3. \A i \in 0..Len(s) : F[i] = Value(i)
  <2> HIDE DEF Value
  <2> QED
    BY <1>2
<1>4. F[0] = <<>>
  BY <1>1, <1>3
<1>5. \A n \in 1..Len(s) : n \in 0..Len(s) /\ n # 0
  BY <1>1
<1> QED
  BY <1>3, <1>4, <1>5

\* The selections from the same prefixes are the same.
LEMMA PicksAgree ==
    ASSUME NEW A, NEW s \in Seq(A), NEW t \in Seq(A), NEW T, NEW F, NEW G,
           Len(s) <= Len(t), \A i \in 1..Len(s) : t[i] = s[i], Picks(s, T, F), Picks(t, T, G)
    PROVE  G[Len(s)] = F[Len(s)]
<1> DEFINE N == {n \in Nat : n <= Len(s) => G[n] = F[n]}
<1>1. Len(s) \in Nat /\ Len(t) \in Nat
  BY LenProperties
<1>2. 0 \in N
  BY PicksStep
<1>3. ASSUME NEW n \in N PROVE n + 1 \in N
  <2>1. CASE n + 1 <= Len(s)
    <3>1. n \in Nat /\ n <= Len(s) /\ n + 1 \in 1..Len(s) /\ n + 1 \in 1..Len(t) /\ (n + 1) - 1 = n
      BY <1>1, <2>1
    <3>2. G[n] = F[n] /\ t[n + 1] = s[n + 1]
      BY <3>1
    <3>3. F[n + 1] = IF s[n + 1] \in T THEN Append(F[n], s[n + 1]) ELSE F[n]
      BY <3>1, PicksStep
    <3>4. G[n + 1] = IF t[n + 1] \in T THEN Append(G[n], t[n + 1]) ELSE G[n]
      BY <3>1, PicksStep
    <3> QED
      BY <3>1, <3>2, <3>3, <3>4
  <2> QED
    BY <2>1
<1>4. N = Nat
  <2>1. N \in SUBSET Nat
    OBVIOUS
  <2> HIDE DEF N
  <2> QED
    BY <1>2, <1>3, <2>1, Induction
<1> QED
  BY <1>1, <1>4

\* One more element.
LEMMA PicksMore ==
    ASSUME NEW A, NEW s \in Seq(A), NEW a \in A, NEW T, NEW F, Picks(s, T, F)
    PROVE  \E G : Picks(Append(s, a), T, G)
<1> DEFINE t == Append(s, a)
           Value(H, i) == IF i = 0 THEN <<>>
                          ELSE IF t[i] \in T THEN Append(H[i - 1], t[i]) ELSE H[i - 1]
           G == [i \in 0..Len(t) |-> IF i <= Len(s) THEN F[i] ELSE Value(F, i)]
<1>1. /\ Len(s) \in Nat /\ Len(t) = Len(s) + 1
      /\ \A i \in 1..Len(s) : t[i] = s[i]
  BY AppendProperties, LenProperties
<1> HIDE DEF t
<1>2. ASSUME NEW i \in 0..Len(t) PROVE G[i] = Value(G, i)
  <2>1. CASE i = 0
    BY <1>1, <2>1, PicksStep
  <2>2. CASE i # 0
    <3>1. i \in Nat /\ i - 1 \in 0..Len(t) /\ i - 1 <= Len(s)
      BY <1>1, <2>2
    <3>2. G[i - 1] = F[i - 1]
      BY <3>1
    <3>3. G[i] = Value(F, i)
      <4>1. CASE i <= Len(s)
        <5>1. i \in 1..Len(s) /\ t[i] = s[i]
          BY <1>1, <2>2, <4>1
        <5> QED
          BY <2>2, <4>1, <5>1, PicksStep
      <4> QED
        BY <4>1
    <3> HIDE DEF G
    <3> QED
      BY <3>2, <3>3
  <2> QED
    BY <2>1, <2>2
<1>3. G = [i \in 0..Len(t) |-> Value(G, i)]
  <2> DEFINE H == [i \in 0..Len(t) |-> Value(G, i)]
  <2>1. \A i \in 0..Len(t) : G[i] = H[i]
    BY <1>2
  <2> HIDE DEF Value
  <2> QED
    BY <2>1
<1>4. Picks(t, T, G)
  BY <1>3 DEF Picks
<1> QED
  BY <1>4 DEF t

LEMMA PicksExists ==
    ASSUME NEW A, NEW T
    PROVE  \A s \in Seq(A) : \E F : Picks(s, T, F)
<1> DEFINE S == {s \in Seq(A) : \E F : Picks(s, T, F)}
<1>1. <<>> \in S
  <2> DEFINE F == [i \in 0..0 |-> <<>>]
  <2>1. Len(<<>>) = 0 /\ <<>> \in Seq(A)
    BY EmptySeq
  <2>2. Picks(<<>>, T, F)
    BY <2>1 DEF Picks
  <2> QED
    BY <2>1, <2>2
<1>2. \A s \in Seq(A), a \in A : s \in S => Append(s, a) \in S
  BY PicksMore, AppendProperties
<1> HIDE DEF S
<1>3. \A s \in Seq(A) : s \in S
  BY <1>1, <1>2, AppendInduction
<1> QED
  BY <1>3 DEF S

LEMMA OnlyOfPicks ==
    ASSUME NEW A, NEW s \in Seq(A), NEW T
    PROVE  \E F : Picks(s, T, F) /\ OnlyOf(s, T) = F[Len(s)]
<1>1. \E F : Picks(s, T, F)
  BY PicksExists
<1> QED
  BY <1>1, OnlyOfIs

\* Selecting goes element by element.
LEMMA OnlyOfEmpty ==
    ASSUME NEW T
    PROVE  OnlyOf(<<>>, T) = <<>>
<1> SUFFICES ASSUME NEW A, NEW e \in Seq(A), e = <<>>, Len(e) = 0 PROVE OnlyOf(e, T) = e
  BY EmptySeq
<1>2. PICK F : Picks(e, T, F) /\ OnlyOf(e, T) = F[Len(e)]
  BY OnlyOfPicks
<1>3. e \in Seq(A)
  OBVIOUS
<1>4. F[0] = <<>>
  BY ONLY <1>2, <1>3, PicksStep
<1> QED
  BY <1>2, <1>4

LEMMA OnlyOfAppend ==
    ASSUME NEW A, NEW s \in Seq(A), NEW a \in A, NEW T
    PROVE  OnlyOf(Append(s, a), T) = IF a \in T THEN Append(OnlyOf(s, T), a) ELSE OnlyOf(s, T)
<1> DEFINE t == Append(s, a)
<1>1. /\ t \in Seq(A) /\ Len(s) \in Nat /\ Len(t) = Len(s) + 1
      /\ t[Len(s) + 1] = a /\ \A i \in 1..Len(s) : t[i] = s[i]
  BY AppendProperties, LenProperties
<1> HIDE DEF t
<1>2. PICK F : Picks(s, T, F) /\ OnlyOf(s, T) = F[Len(s)]
  BY OnlyOfPicks
<1>3. PICK G : Picks(t, T, G) /\ OnlyOf(t, T) = G[Len(t)]
  BY <1>1, OnlyOfPicks
<1>4. G[Len(s)] = F[Len(s)]
  BY <1>1, <1>2, <1>3, PicksAgree
<1>5. Len(t) \in 1..Len(t) /\ Len(t) - 1 = Len(s)
  BY <1>1
<1>6. G[Len(t)] = IF t[Len(t)] \in T THEN Append(G[Len(t) - 1], t[Len(t)]) ELSE G[Len(t) - 1]
  BY <1>1, <1>3, <1>5, PicksStep
<1> QED
  BY <1>1, <1>2, <1>3, <1>4, <1>5, <1>6 DEF t

\* What is selected is a sequence of elements of the sequence, and no longer.
LEMMA OnlyOfSeq ==
    ASSUME NEW A, NEW T
    PROVE  \A s \in Seq(A) : OnlyOf(s, T) \in Seq(A) /\ Len(OnlyOf(s, T)) <= Len(s)
<1> DEFINE S == {s \in Seq(A) : OnlyOf(s, T) \in Seq(A) /\ Len(OnlyOf(s, T)) <= Len(s)}
<1>1. <<>> \in S
  <2>1. <<>> \in Seq(A) /\ Len(OnlyOf(<<>>, T)) <= Len(<<>>) /\ OnlyOf(<<>>, T) = <<>>
    BY EmptySeq, OnlyOfEmpty
  <2> QED
    BY <2>1
<1>2. ASSUME NEW s \in Seq(A), NEW a \in A, s \in S
      PROVE  Append(s, a) \in S
  <2>1. OnlyOf(Append(s, a), T) = IF a \in T THEN Append(OnlyOf(s, T), a) ELSE OnlyOf(s, T)
    BY OnlyOfAppend
  <2>2. Append(s, a) \in Seq(A) /\ Len(Append(s, a)) = Len(s) + 1 /\ Len(s) \in Nat
    BY AppendProperties, LenProperties
  <2>3. OnlyOf(s, T) \in Seq(A) /\ Len(OnlyOf(s, T)) <= Len(s) /\ Len(OnlyOf(s, T)) \in Nat
    BY <1>2, LenProperties
  <2>4. /\ Append(OnlyOf(s, T), a) \in Seq(A)
        /\ Len(Append(OnlyOf(s, T), a)) = Len(OnlyOf(s, T)) + 1
    BY <2>3, AppendProperties
  <2> QED
    BY <2>1, <2>2, <2>3, <2>4
<1> HIDE DEF S
<1>3. \A s \in Seq(A) : s \in S
  BY <1>1, <1>2, AppendInduction
<1> QED
  BY <1>3 DEF S

\* It is all of a sequence of elements of T, and nothing of one without any.
LEMMA OnlyOfAll ==
    ASSUME NEW A, NEW T
    PROVE  \A s \in Seq(A) :
              /\ (\A i \in 1..Len(s) : s[i] \in T) => OnlyOf(s, T) = s
              /\ (\A i \in 1..Len(s) : s[i] \notin T) => OnlyOf(s, T) = <<>>
<1> DEFINE All(s) == \A i \in 1..Len(s) : s[i] \in T
           None(s) == \A i \in 1..Len(s) : s[i] \notin T
           S == {s \in Seq(A) : (All(s) => OnlyOf(s, T) = s) /\ (None(s) => OnlyOf(s, T) = <<>>)}
<1>1. <<>> \in S
  BY EmptySeq, OnlyOfEmpty
<1>2. ASSUME NEW s \in Seq(A), NEW a \in A, s \in S
      PROVE  Append(s, a) \in S
  <2> DEFINE t == Append(s, a)
  <2>1. OnlyOf(t, T) = IF a \in T THEN Append(OnlyOf(s, T), a) ELSE OnlyOf(s, T)
    BY OnlyOfAppend
  <2>2. /\ t \in Seq(A) /\ Len(t) = Len(s) + 1 /\ Len(s) \in Nat /\ t[Len(s) + 1] = a
        /\ \A i \in 1..Len(s) : t[i] = s[i]
    BY AppendProperties, LenProperties
  <2> HIDE DEF t
  <2>3. Len(s) + 1 \in 1..Len(t) /\ \A i \in 1..Len(s) : i \in 1..Len(t)
    BY <2>2
  <2>4. (All(t) => All(s) /\ a \in T) /\ (None(t) => None(s) /\ a \notin T)
    BY <2>2, <2>3
  <2>5. (All(s) => OnlyOf(s, T) = s) /\ (None(s) => OnlyOf(s, T) = <<>>)
    BY <1>2
  <2>6. All(t) => OnlyOf(t, T) = t
    BY <2>1, <2>4, <2>5 DEF t
  <2>7. None(t) => OnlyOf(t, T) = <<>>
    BY <2>1, <2>4, <2>5
  <2> HIDE DEF All, None
  <2>8. t \in S
    BY <2>2, <2>6, <2>7
  <2> QED
    BY <2>8 DEF t
<1> HIDE DEF S
<1>3. \A s \in Seq(A) : s \in S
  BY <1>1, <1>2, AppendInduction
<1> QED
  BY <1>3 DEF S

\* One element more at the end of the second of two sequences.
LEMMA ConcatAppend ==
    ASSUME NEW A, NEW s \in Seq(A), NEW t \in Seq(A), NEW a \in A
    PROVE  s \o Append(t, a) = Append(s \o t, a)
<1>1. <<a>> \in Seq(A)
  OBVIOUS
<1>2. Append(t, a) = t \o <<a>> /\ Append(s \o t, a) = (s \o t) \o <<a>>
  BY AppendIsConcat, ConcatProperties
<1> QED
  BY <1>1, <1>2, ConcatAssociative

\* Of two sequences one after the other.
LEMMA OnlyOfConcat ==
    ASSUME NEW A, NEW T, NEW s \in Seq(A)
    PROVE  \A t \in Seq(A) : OnlyOf(s \o t, T) = OnlyOf(s, T) \o OnlyOf(t, T)
<1> DEFINE S == {t \in Seq(A) : OnlyOf(s \o t, T) = OnlyOf(s, T) \o OnlyOf(t, T)}
<1>1. <<>> \in S
  <2>1. OnlyOf(s, T) \in Seq(A) /\ OnlyOf(<<>>, T) = <<>> /\ <<>> \in Seq(A)
    BY OnlyOfSeq, OnlyOfEmpty, EmptySeq
  <2> QED
    BY <2>1, ConcatEmptySeq
<1>2. ASSUME NEW t \in Seq(A), NEW a \in A, t \in S
      PROVE  Append(t, a) \in S
  <2>1. OnlyOf(t, T) \in Seq(A) /\ OnlyOf(s, T) \in Seq(A) /\ s \o t \in Seq(A)
    BY OnlyOfSeq, ConcatProperties
  <2>2. s \o Append(t, a) = Append(s \o t, a)
    BY ConcatAppend
  <2>3. /\ OnlyOf(Append(s \o t, a), T) = IF a \in T THEN Append(OnlyOf(s \o t, T), a) ELSE OnlyOf(s \o t, T)
        /\ OnlyOf(Append(t, a), T) = IF a \in T THEN Append(OnlyOf(t, T), a) ELSE OnlyOf(t, T)
    BY <2>1, OnlyOfAppend
  <2>4. OnlyOf(s \o t, T) = OnlyOf(s, T) \o OnlyOf(t, T)
    BY <1>2
  <2>5. OnlyOf(s, T) \o Append(OnlyOf(t, T), a) = Append(OnlyOf(s, T) \o OnlyOf(t, T), a)
    BY <2>1, ConcatAppend
  <2>6. Append(t, a) \in Seq(A)
    BY AppendProperties
  <2> QED
    BY <2>2, <2>3, <2>4, <2>5, <2>6
<1> HIDE DEF S
<1>3. \A t \in Seq(A) : t \in S
  BY <1>1, <1>2, AppendInduction
<1> QED
  BY <1>3 DEF S

\* The order of two selections does not matter.
LEMMA OnlyOfTwice ==
    ASSUME NEW A, NEW T, NEW U
    PROVE  \A s \in Seq(A) : OnlyOf(OnlyOf(s, T), U) = OnlyOf(OnlyOf(s, U), T)
<1> DEFINE S == {s \in Seq(A) : OnlyOf(OnlyOf(s, T), U) = OnlyOf(OnlyOf(s, U), T)}
<1>1. <<>> \in S
  BY EmptySeq, OnlyOfEmpty
<1>2. ASSUME NEW s \in Seq(A), NEW a \in A, s \in S
      PROVE  Append(s, a) \in S
  <2> DEFINE t == Append(s, a)
             sT == OnlyOf(s, T)
             sU == OnlyOf(s, U)
  <2>1. t \in Seq(A) /\ sT \in Seq(A) /\ sU \in Seq(A)
    BY AppendProperties, OnlyOfSeq
  <2>2. /\ OnlyOf(t, T) = IF a \in T THEN Append(sT, a) ELSE sT
        /\ OnlyOf(t, U) = IF a \in U THEN Append(sU, a) ELSE sU
    BY OnlyOfAppend
  <2>3. OnlyOf(sT, U) = OnlyOf(sU, T)
    BY <1>2
  <2> HIDE DEF t, sT, sU
  <2>4. /\ OnlyOf(Append(sT, a), U) = IF a \in U THEN Append(OnlyOf(sT, U), a) ELSE OnlyOf(sT, U)
        /\ OnlyOf(Append(sU, a), T) = IF a \in T THEN Append(OnlyOf(sU, T), a) ELSE OnlyOf(sU, T)
    BY <2>1, OnlyOfAppend
  <2>5. OnlyOf(OnlyOf(t, T), U) = OnlyOf(OnlyOf(t, U), T)
    BY <2>2, <2>3, <2>4
  <2> QED
    BY <2>1, <2>5 DEF t
<1> HIDE DEF S
<1>3. \A s \in Seq(A) : s \in S
  BY <1>1, <1>2, AppendInduction
<1> QED
  BY <1>3 DEF S

-----------------------------------------------------------------------------
(* Sequences one after another *)

\* What FlattenSeq computes: the joins of the first sequences
Joins(s, F) == F = [i \in 1..Len(s) |-> IF i = 1 THEN s[i] ELSE F[i - 1] \o s[i]]

LEMMA FlattenIs ==
    ASSUME NEW s
    PROVE  FlattenSeq(s) = IF Len(s) = 0 THEN s ELSE (CHOOSE F : Joins(s, F))[Len(s)]
BY DEF FlattenSeq, Joins

LEMMA JoinsStep ==
    ASSUME NEW A, NEW s \in Seq(A), NEW F, Joins(s, F)
    PROVE  \A n \in 1..Len(s) : F[n] = IF n = 1 THEN s[n] ELSE F[n - 1] \o s[n]
<1> DEFINE Value(i) == IF i = 1 THEN s[i] ELSE F[i - 1] \o s[i]
<1>1. F = [i \in 1..Len(s) |-> Value(i)]
  BY DEF Joins
<1>2. \A i \in 1..Len(s) : F[i] = Value(i)
  <2> HIDE DEF Value
  <2> QED
    BY <1>1
<1> QED
  BY <1>2

\* The joins of the same first sequences are the same.
LEMMA JoinsAgree ==
    ASSUME NEW A, NEW s \in Seq(A), NEW t \in Seq(A), NEW F, NEW G, Len(s) # 0,
           Len(s) <= Len(t), \A i \in 1..Len(s) : t[i] = s[i], Joins(s, F), Joins(t, G)
    PROVE  G[Len(s)] = F[Len(s)]
<1> DEFINE N == {n \in Nat : n + 1 <= Len(s) => G[n + 1] = F[n + 1]}
<1>1. Len(s) \in Nat /\ Len(t) \in Nat /\ Len(s) # 0
  BY LenProperties
<1>2. 0 \in N
  <2>1. 1 \in 1..Len(s) /\ 1 \in 1..Len(t)
    BY <1>1
  <2>2. F[1] = s[1] /\ G[1] = t[1]
    BY <2>1, JoinsStep
  <2> QED
    BY <2>1, <2>2
<1>3. ASSUME NEW n \in N PROVE n + 1 \in N
  <2> DEFINE m == (n + 1) + 1
  <2>1. CASE m <= Len(s)
    <3>1. /\ n \in Nat /\ n + 1 <= Len(s) /\ m \in 1..Len(s) /\ m \in 1..Len(t)
          /\ m # 1 /\ m - 1 = n + 1
      BY <1>1, <2>1
    <3>2. G[n + 1] = F[n + 1] /\ t[m] = s[m]
      BY <3>1
    <3> HIDE DEF m
    <3>3. F[m] = F[m - 1] \o s[m]
      BY <3>1, JoinsStep
    <3>4. G[m] = G[m - 1] \o t[m]
      BY <3>1, JoinsStep
    <3>5. G[m] = F[m]
      BY <3>1, <3>2, <3>3, <3>4
    <3> QED
      BY <3>1, <3>5 DEF m
  <2> QED
    BY <2>1
<1>4. N = Nat
  <2>1. N \in SUBSET Nat
    OBVIOUS
  <2> HIDE DEF N
  <2> QED
    BY <1>2, <1>3, <2>1, Induction
<1>5. PICK n \in Nat : n + 1 = Len(s)
  <2>1. Len(s) - 1 \in Nat /\ (Len(s) - 1) + 1 = Len(s)
    BY <1>1
  <2> QED
    BY <2>1
<1>6. n \in N
  BY <1>4
<1> QED
  BY <1>1, <1>5, <1>6

\* One more sequence.
LEMMA JoinsMore ==
    ASSUME NEW A, NEW s \in Seq(A), NEW a \in A, NEW F, Joins(s, F)
    PROVE  \E G : Joins(Append(s, a), G)
<1> DEFINE t == Append(s, a)
           Value(H, i) == IF i = 1 THEN t[i] ELSE H[i - 1] \o t[i]
           G == [i \in 1..Len(t) |-> IF i <= Len(s) THEN F[i] ELSE Value(F, i)]
<1>1. /\ Len(s) \in Nat /\ Len(t) = Len(s) + 1
      /\ \A i \in 1..Len(s) : t[i] = s[i]
  BY AppendProperties, LenProperties
<1> HIDE DEF t
<1>2. ASSUME NEW i \in 1..Len(t) PROVE G[i] = Value(G, i)
  <2>1. G[i] = Value(F, i)
    <3>1. CASE i <= Len(s)
      <4>1. i \in 1..Len(s) /\ t[i] = s[i]
        BY <1>1, <3>1
      <4> QED
        BY <3>1, <4>1, JoinsStep
    <3> QED
      BY <3>1
  <2>2. CASE i # 1
    <3>1. i \in Nat /\ i - 1 \in 1..Len(t) /\ i - 1 <= Len(s)
      BY <1>1, <2>2
    <3>2. G[i - 1] = F[i - 1]
      BY <3>1
    <3> HIDE DEF G
    <3> QED
      BY <2>1, <3>2
  <2> HIDE DEF G
  <2> QED
    BY <2>1, <2>2
<1>3. G = [i \in 1..Len(t) |-> Value(G, i)]
  <2> DEFINE H == [i \in 1..Len(t) |-> Value(G, i)]
  <2>1. \A i \in 1..Len(t) : G[i] = H[i]
    BY <1>2
  <2> HIDE DEF Value
  <2> QED
    BY <2>1
<1>4. Joins(t, G)
  BY <1>3 DEF Joins
<1> QED
  BY <1>4 DEF t

LEMMA JoinsExists ==
    ASSUME NEW A
    PROVE  \A s \in Seq(A) : \E F : Joins(s, F)
<1> DEFINE S == {s \in Seq(A) : \E F : Joins(s, F)}
<1>1. <<>> \in S
  <2> DEFINE F == [i \in 1..0 |-> <<>>]
             H == [i \in 1..0 |-> IF i = 1 THEN <<>>[i] ELSE F[i - 1] \o <<>>[i]]
  <2>1. Len(<<>>) = 0 /\ <<>> \in Seq(A)
    BY EmptySeq
  <2>2. F = H
    OBVIOUS
  <2>3. Joins(<<>>, F)
    BY <2>1, <2>2 DEF Joins
  <2> QED
    BY <2>1, <2>3
<1>2. \A s \in Seq(A), a \in A : s \in S => Append(s, a) \in S
  BY JoinsMore, AppendProperties
<1> HIDE DEF S
<1>3. \A s \in Seq(A) : s \in S
  BY <1>1, <1>2, AppendInduction
<1> QED
  BY <1>3 DEF S

LEMMA FlattenEmpty == FlattenSeq(<<>>) = <<>>
BY EmptySeq DEF FlattenSeq

LEMMA FlattenJoins ==
    ASSUME NEW A, NEW s \in Seq(A), s # <<>>
    PROVE  \E F : Joins(s, F) /\ FlattenSeq(s) = F[Len(s)]
<1>1. \E F : Joins(s, F)
  BY JoinsExists
<1>2. Len(s) # 0
  BY EmptySeq
<1> QED
  BY <1>1, <1>2, FlattenIs

\* Flattening goes sequence by sequence.
LEMMA FlattenAppend ==
    ASSUME NEW A, NEW s \in Seq(Seq(A)), NEW a \in Seq(A)
    PROVE  FlattenSeq(Append(s, a)) = FlattenSeq(s) \o a
<1> DEFINE t == Append(s, a)
<1>1. /\ t \in Seq(Seq(A)) /\ t # <<>> /\ Len(s) \in Nat /\ Len(t) = Len(s) + 1
      /\ t[Len(s) + 1] = a /\ \A i \in 1..Len(s) : t[i] = s[i]
  BY AppendProperties, LenProperties
<1> HIDE DEF t
<1>2. PICK G : Joins(t, G) /\ FlattenSeq(t) = G[Len(t)]
  BY <1>1, FlattenJoins
<1>3. Len(t) \in 1..Len(t) /\ Len(t) - 1 = Len(s)
  BY <1>1
<1>4. G[Len(t)] = IF Len(t) = 1 THEN t[Len(t)] ELSE G[Len(t) - 1] \o t[Len(t)]
  BY <1>1, <1>2, <1>3, JoinsStep
<1>5. CASE s = <<>>
  <2>1. Len(s) = 0 /\ FlattenSeq(s) = <<>>
    BY <1>5, FlattenEmpty, EmptySeq
  <2>2. FlattenSeq(t) = a
    BY <1>1, <1>2, <1>4, <2>1
  <2>3. <<>> \o a = a
    BY ConcatEmptySeq
  <2> QED
    BY <2>1, <2>2, <2>3 DEF t
<1>6. CASE s # <<>>
  <2>1. Len(s) # 0
    BY <1>6, EmptySeq
  <2>2. PICK F : Joins(s, F) /\ FlattenSeq(s) = F[Len(s)]
    BY <1>6, FlattenJoins
  <2>3. G[Len(s)] = F[Len(s)]
    <3> DEFINE B == Seq(A)
    <3>1. s \in Seq(B) /\ t \in Seq(B) /\ Len(s) <= Len(t)
      BY <1>1
    <3> HIDE DEF B
    <3> QED
      BY <1>1, <1>2, <2>1, <2>2, <3>1, JoinsAgree
  <2>4. Len(t) # 1
    BY <1>1, <2>1
  <2>5. FlattenSeq(t) = FlattenSeq(s) \o a
    BY <1>1, <1>2, <1>3, <1>4, <2>2, <2>3, <2>4
  <2> QED
    BY <2>5 DEF t
<1> QED
  BY <1>5, <1>6

LEMMA FlattenType ==
    ASSUME NEW A
    PROVE  \A s \in Seq(Seq(A)) : FlattenSeq(s) \in Seq(A)
<1> DEFINE B == Seq(A)
           S == {s \in Seq(B) : FlattenSeq(s) \in Seq(A)}
<1>1. <<>> \in S
  BY EmptySeq, FlattenEmpty
<1>2. ASSUME NEW s \in Seq(B), NEW a \in B, s \in S
      PROVE  Append(s, a) \in S
  <2>1. FlattenSeq(Append(s, a)) = FlattenSeq(s) \o a
    BY FlattenAppend
  <2>2. FlattenSeq(s) \o a \in Seq(A)
    BY <1>2, ConcatProperties
  <2>3. Append(s, a) \in Seq(B)
    BY AppendProperties
  <2> QED
    BY <2>1, <2>2, <2>3
<1>3. \A s \in Seq(B) : s \in S
  <2> HIDE DEF B, S
  <2> QED
    BY <1>1, <1>2, AppendInduction
<1> QED
  BY <1>3

\* Sequences of nothing, and all of them but one.
LEMMA FlattenNothing ==
    ASSUME NEW A
    PROVE  \A s \in Seq(Seq(A)) : (\A i \in 1..Len(s) : s[i] = <<>>) => FlattenSeq(s) = <<>>
<1> DEFINE B == Seq(A)
           None(s) == \A i \in 1..Len(s) : s[i] = <<>>
           S == {s \in Seq(B) : None(s) => FlattenSeq(s) = <<>>}
<1>1. <<>> \in S
  BY EmptySeq, FlattenEmpty
<1>2. ASSUME NEW s \in Seq(B), NEW a \in B, s \in S
      PROVE  Append(s, a) \in S
  <2> DEFINE t == Append(s, a)
  <2>1. /\ t \in Seq(B) /\ Len(t) = Len(s) + 1 /\ Len(s) \in Nat /\ t[Len(s) + 1] = a
        /\ \A i \in 1..Len(s) : t[i] = s[i]
    BY AppendProperties, LenProperties
  <2>2. FlattenSeq(t) = FlattenSeq(s) \o a
    BY FlattenAppend
  <2> HIDE DEF t
  <2>3. ASSUME None(t) PROVE FlattenSeq(t) = <<>>
    <3>1. Len(s) + 1 \in 1..Len(t) /\ \A i \in 1..Len(s) : i \in 1..Len(t)
      BY <2>1
    <3>2. a = <<>> /\ None(s)
      BY <2>1, <2>3, <3>1
    <3>3. FlattenSeq(s) = <<>> /\ <<>> \in Seq(A)
      BY <1>2, <3>2, EmptySeq
    <3>4. <<>> \o <<>> = <<>>
      BY <3>3, ConcatEmptySeq
    <3> QED
      BY <2>2, <3>2, <3>3, <3>4
  <2> HIDE DEF None
  <2>4. t \in S
    BY <2>1, <2>3
  <2> QED
    BY <2>4 DEF t
<1>3. \A s \in Seq(B) : s \in S
  <2> HIDE DEF B, S
  <2> QED
    BY <1>1, <1>2, AppendInduction
<1> QED
  BY <1>3

LEMMA FlattenOne ==
    ASSUME NEW A
    PROVE  \A s \in Seq(Seq(A)) : \A j \in 1..Len(s) :
              (\A i \in 1..Len(s) : i # j => s[i] = <<>>) => FlattenSeq(s) = s[j]
<1> DEFINE B == Seq(A)
           One(s, j) == \A i \in 1..Len(s) : i # j => s[i] = <<>>
           S == {s \in Seq(B) : \A j \in 1..Len(s) : One(s, j) => FlattenSeq(s) = s[j]}
<1>1. <<>> \in S
  BY EmptySeq
<1>2. ASSUME NEW s \in Seq(B), NEW a \in B, s \in S
      PROVE  Append(s, a) \in S
  <2> DEFINE t == Append(s, a)
  <2>1. /\ t \in Seq(B) /\ Len(t) = Len(s) + 1 /\ Len(s) \in Nat /\ t[Len(s) + 1] = a
        /\ \A i \in 1..Len(s) : t[i] = s[i]
    BY AppendProperties, LenProperties
  <2>2. FlattenSeq(t) = FlattenSeq(s) \o a
    BY FlattenAppend
  <2> HIDE DEF t
  <2>3. ASSUME NEW j \in 1..Len(t), One(t, j) PROVE FlattenSeq(t) = t[j]
    <3>1. Len(s) + 1 \in 1..Len(t) /\ \A i \in 1..Len(s) : i \in 1..Len(t) /\ i # Len(s) + 1
      BY <2>1
    <3>2. CASE j = Len(s) + 1
      <4>1. \A i \in 1..Len(s) : s[i] = <<>>
        BY <2>1, <2>3, <3>1, <3>2
      <4>2. FlattenSeq(s) = <<>>
        BY <4>1, FlattenNothing
      <4>3. <<>> \o a = a
        BY ConcatEmptySeq
      <4> QED
        BY <2>1, <2>2, <3>2, <4>2, <4>3
    <3>3. CASE j # Len(s) + 1
      <4>1. a = <<>> /\ j \in 1..Len(s)
        BY <2>1, <2>3, <3>1, <3>3
      <4>2. \A i \in 1..Len(s) : i # j => s[i] = <<>>
        BY <2>1, <2>3, <3>1
      <4>3. FlattenSeq(s) = s[j] /\ t[j] = s[j] /\ s[j] \in B
        BY <1>2, <2>1, <4>1, <4>2, ElementOfSeq
      <4>4. s[j] \o <<>> = s[j]
        BY <4>3, ConcatEmptySeq
      <4> QED
        BY <2>2, <4>1, <4>3, <4>4
    <3> QED
      BY <3>2, <3>3
  <2> HIDE DEF One
  <2>4. t \in S
    BY <2>1, <2>3
  <2> QED
    BY <2>4 DEF t
<1>3. \A s \in Seq(B) : s \in S
  <2> HIDE DEF B, S
  <2> QED
    BY <1>1, <1>2, AppendInduction
<1> QED
  BY <1>3

\* One of them longer by one: what they make is longer by one.
LEMMA FlattenLonger ==
    ASSUME NEW A
    PROVE  \A s \in Seq(Seq(A)) : \A r \in Seq(Seq(A)) : \A j \in 1..Len(s) :
              /\ Len(r) = Len(s)
              /\ \A i \in 1..Len(s) : i # j => r[i] = s[i]
              /\ Len(r[j]) = Len(s[j]) + 1
              => Len(FlattenSeq(r)) = Len(FlattenSeq(s)) + 1
<1> DEFINE B == Seq(A)
           Longer(r, s, j) == /\ Len(r) = Len(s)
                              /\ \A i \in 1..Len(s) : i # j => r[i] = s[i]
                              /\ Len(r[j]) = Len(s[j]) + 1
           S == {s \in Seq(B) : \A r \in Seq(B) : \A j \in 1..Len(s) :
                    Longer(r, s, j) => Len(FlattenSeq(r)) = Len(FlattenSeq(s)) + 1}
<1>1. <<>> \in S
  BY EmptySeq
<1>2. ASSUME NEW s \in Seq(B), NEW a \in B, s \in S
      PROVE  Append(s, a) \in S
  <2> DEFINE t == Append(s, a)
  <2>1. /\ t \in Seq(B) /\ Len(t) = Len(s) + 1 /\ Len(s) \in Nat /\ t[Len(s) + 1] = a
        /\ \A i \in 1..Len(s) : t[i] = s[i]
    BY AppendProperties, LenProperties
  <2>2. Len(FlattenSeq(t)) = Len(FlattenSeq(s)) + Len(a) /\ Len(FlattenSeq(s)) \in Nat /\ Len(a) \in Nat
    BY FlattenAppend, FlattenType, ConcatProperties, LenProperties
  <2> HIDE DEF t
  <2>3. ASSUME NEW u \in Seq(B), NEW j \in 1..Len(t), Longer(u, t, j)
        PROVE  Len(FlattenSeq(u)) = Len(FlattenSeq(t)) + 1
    <3>1. PICK r \in Seq(B), b \in B : u = Append(r, b)
      <4>1. u # <<>>
        BY <2>1, <2>3, EmptySeq
      <4> HIDE DEF B
      <4> QED
        BY <4>1, SequenceEmptyOrAppend
    <3>2. /\ Len(u) = Len(r) + 1 /\ Len(r) \in Nat /\ u[Len(r) + 1] = b
          /\ \A i \in 1..Len(r) : u[i] = r[i]
      BY <3>1, AppendProperties, LenProperties
    <3>3. Len(FlattenSeq(u)) = Len(FlattenSeq(r)) + Len(b) /\ Len(FlattenSeq(r)) \in Nat /\ Len(b) \in Nat
      BY <3>1, FlattenAppend, FlattenType, ConcatProperties, LenProperties
    <3>4. Len(r) = Len(s) /\ \A i \in 1..Len(s) : i \in 1..Len(t) /\ i # Len(s) + 1
      BY <2>1, <2>3, <3>2
    <3>5. CASE j = Len(s) + 1
      <4>1. \A i \in 1..Len(s) : r[i] = s[i]
        BY <2>1, <2>3, <3>2, <3>4, <3>5
      <4>2. r = s
        BY <3>4, <4>1, SeqEqual
      <4>3. Len(b) = Len(a) + 1
        BY <2>1, <2>3, <3>2, <3>4, <3>5
      <4> QED
        BY <2>2, <3>3, <4>2, <4>3
    <3>6. CASE j # Len(s) + 1
      <4>1. j \in 1..Len(s)
        BY <2>1, <3>6
      <4>2. Len(s) + 1 \in 1..Len(t)
        BY <2>1
      <4>3. b = a
        <5>1. u[Len(s) + 1] = t[Len(s) + 1]
          BY <2>3, <3>6, <4>2
        <5>2. u[Len(s) + 1] = b
          BY <3>2, <3>4
        <5> QED
          BY <2>1, <5>1, <5>2
      <4>4. Longer(r, s, j)
        <5>1. \A i \in 1..Len(s) : r[i] = u[i] /\ s[i] = t[i]
          BY <2>1, <3>2, <3>4
        <5>2. \A i \in 1..Len(s) : i # j => u[i] = t[i]
          BY <2>3, <3>4
        <5>3. Len(r[j]) = Len(s[j]) + 1
          BY <2>3, <4>1, <5>1
        <5> QED
          BY <3>4, <5>1, <5>2, <5>3
      <4>5. Len(FlattenSeq(r)) = Len(FlattenSeq(s)) + 1
        BY <1>2, <4>1, <4>4
      <4> QED
        BY <2>2, <3>3, <4>3, <4>5
    <3> QED
      BY <3>5, <3>6
  <2> HIDE DEF Longer
  <2>4. t \in S
    BY <2>1, <2>3
  <2> QED
    BY <2>4 DEF t
<1>3. \A s \in Seq(B) : s \in S
  <2> HIDE DEF B, S
  <2> QED
    BY <1>1, <1>2, AppendInduction
<1> QED
  BY <1>3

\* One more where there was nothing, and nothing after it.
LEMMA FlattenLast ==
    ASSUME NEW A
    PROVE  \A s \in Seq(Seq(A)) : \A r \in Seq(Seq(A)) : \A j \in 1..Len(s) :
              /\ Len(r) = Len(s)
              /\ \A i \in 1..Len(s) : i # j => r[i] = s[i]
              /\ \A i \in 1..Len(s) : i >= j => s[i] = <<>>
              => FlattenSeq(r) = FlattenSeq(s) \o r[j]
<1> DEFINE B == Seq(A)
           More(r, s, j) == /\ Len(r) = Len(s)
                            /\ \A i \in 1..Len(s) : i # j => r[i] = s[i]
                            /\ \A i \in 1..Len(s) : i >= j => s[i] = <<>>
           S == {s \in Seq(B) : \A r \in Seq(B) : \A j \in 1..Len(s) :
                    More(r, s, j) => FlattenSeq(r) = FlattenSeq(s) \o r[j]}
<1>1. <<>> \in S
  BY EmptySeq
<1>2. ASSUME NEW s \in Seq(B), NEW a \in B, s \in S
      PROVE  Append(s, a) \in S
  <2> DEFINE t == Append(s, a)
  <2>1. /\ t \in Seq(B) /\ Len(t) = Len(s) + 1 /\ Len(s) \in Nat /\ t[Len(s) + 1] = a
        /\ \A i \in 1..Len(s) : t[i] = s[i]
    BY AppendProperties, LenProperties
  <2>2. FlattenSeq(t) = FlattenSeq(s) \o a /\ FlattenSeq(s) \in Seq(A)
    BY FlattenAppend, FlattenType
  <2> HIDE DEF t
  <2>3. ASSUME NEW u \in Seq(B), NEW j \in 1..Len(t), More(u, t, j)
        PROVE  FlattenSeq(u) = FlattenSeq(t) \o u[j]
    <3>1. PICK r \in Seq(B), b \in B : u = Append(r, b)
      <4>1. u # <<>>
        BY <2>1, <2>3, EmptySeq
      <4> HIDE DEF B
      <4> QED
        BY <4>1, SequenceEmptyOrAppend
    <3>2. /\ Len(u) = Len(r) + 1 /\ Len(r) \in Nat /\ u[Len(r) + 1] = b
          /\ \A i \in 1..Len(r) : u[i] = r[i]
      BY <3>1, AppendProperties, LenProperties
    <3>3. FlattenSeq(u) = FlattenSeq(r) \o b /\ FlattenSeq(r) \in Seq(A)
      BY <3>1, FlattenAppend, FlattenType
    <3>4. Len(r) = Len(s) /\ \A i \in 1..Len(s) : i \in 1..Len(t) /\ i # Len(s) + 1
      BY <2>1, <2>3, <3>2
    <3>5. Len(s) + 1 \in 1..Len(t) /\ Len(s) + 1 >= j
      BY <2>1
    <3>6. a = <<>>
      BY <2>1, <2>3, <3>5
    <3>7. FlattenSeq(t) = FlattenSeq(s)
      BY <2>2, <3>6, ConcatEmptySeq
    <3>8. CASE j = Len(s) + 1
      <4>1. \A i \in 1..Len(s) : r[i] = s[i]
        BY <2>1, <2>3, <3>2, <3>4, <3>8
      <4>2. r = s
        BY <3>4, <4>1, SeqEqual
      <4>3. u[j] = b
        BY <3>2, <3>4, <3>8
      <4> QED
        BY <3>3, <3>7, <4>2, <4>3
    <3>9. CASE j # Len(s) + 1
      <4>1. j \in 1..Len(s)
        BY <2>1, <3>9
      <4>2. b = a
        <5>1. u[Len(s) + 1] = t[Len(s) + 1]
          BY <2>3, <3>5, <3>9
        <5>2. u[Len(s) + 1] = b
          BY <3>2, <3>4
        <5> QED
          BY <2>1, <5>1, <5>2
      <4>3. \A i \in 1..Len(s) : r[i] = u[i] /\ s[i] = t[i]
        BY <2>1, <3>2, <3>4
      <4>4. More(r, s, j)
        <5>1. \A i \in 1..Len(s) : i # j => u[i] = t[i]
          BY <2>3, <3>4
        <5>2. \A i \in 1..Len(s) : i >= j => t[i] = <<>>
          BY <2>3, <3>4
        <5> QED
          BY <3>4, <4>3, <5>1, <5>2
      <4>5. FlattenSeq(r) = FlattenSeq(s) \o r[j]
        BY <1>2, <4>1, <4>4
      <4>6. FlattenSeq(u) = FlattenSeq(r)
        BY <3>3, <3>6, <4>2, ConcatEmptySeq
      <4> QED
        BY <3>7, <4>1, <4>3, <4>5, <4>6
    <3> QED
      BY <3>8, <3>9
  <2> HIDE DEF More
  <2>4. t \in S
    BY <2>1, <2>3
  <2> QED
    BY <2>4 DEF t
<1>3. \A s \in Seq(B) : s \in S
  <2> HIDE DEF B, S
  <2> QED
    BY <1>1, <1>2, AppendInduction
<1> QED
  BY <1>3

\* A function on the first numbers is a sequence.
LEMMA FirstNumbers ==
    ASSUME NEW B, NEW n \in Nat, NEW e \in [1..n -> B]
    PROVE  e \in Seq(B) /\ Len(e) = n
<1>1. e \in Seq(B)
  BY IsASeq
<1>2. DOMAIN e = 1..n /\ DOMAIN e = 1..Len(e) /\ Len(e) \in Nat
  BY <1>1, LenProperties
<1> QED
  BY <1>1, <1>2

\* What is selected from each of them
Each(s, T) == [i \in 1..Len(s) |-> OnlyOf(s[i], T)]

LEMMA EachType ==
    ASSUME NEW A, NEW s \in Seq(Seq(A)), NEW T
    PROVE  /\ Each(s, T) \in Seq(Seq(A)) /\ Len(Each(s, T)) = Len(s)
           /\ \A i \in 1..Len(s) : Each(s, T)[i] = OnlyOf(s[i], T)
<1> DEFINE B == Seq(A)
           e == Each(s, T)
<1>1. Len(s) \in Nat /\ \A i \in 1..Len(s) : s[i] \in B
  BY LenProperties, ElementOfSeq
<1>2. \A i \in 1..Len(s) : OnlyOf(s[i], T) \in B
  BY <1>1, OnlyOfSeq
<1>3. e = [i \in 1..Len(s) |-> OnlyOf(s[i], T)]
  BY DEF Each
<1> HIDE DEF e, B
<1>4. e \in [1..Len(s) -> B] /\ \A i \in 1..Len(s) : e[i] = OnlyOf(s[i], T)
  BY <1>2, <1>3
<1>5. e \in Seq(B) /\ Len(e) = Len(s)
  BY <1>1, <1>4, FirstNumbers
<1> QED
  BY <1>4, <1>5 DEF e, B

LEMMA EachAppend ==
    ASSUME NEW A, NEW s \in Seq(Seq(A)), NEW a \in Seq(A), NEW T
    PROVE  Each(Append(s, a), T) = Append(Each(s, T), OnlyOf(a, T))
<1> DEFINE B == Seq(A)
           t == Append(s, a)
           e == Each(s, T)
           b == OnlyOf(a, T)
<1>1. /\ t \in Seq(B) /\ Len(t) = Len(s) + 1 /\ Len(s) \in Nat /\ t[Len(s) + 1] = a
      /\ \A i \in 1..Len(s) : t[i] = s[i]
  BY AppendProperties, LenProperties
<1>2. e \in Seq(B) /\ Len(e) = Len(s) /\ \A i \in 1..Len(s) : e[i] = OnlyOf(s[i], T)
  BY EachType
<1>3. b \in B
  BY OnlyOfSeq
<1>4. /\ Append(e, b) \in Seq(B) /\ Len(Append(e, b)) = Len(s) + 1
      /\ Append(e, b)[Len(s) + 1] = b /\ \A i \in 1..Len(s) : Append(e, b)[i] = e[i]
  <2> HIDE DEF B, e, b
  <2>1. /\ Append(e, b) \in Seq(B) /\ Len(Append(e, b)) = Len(e) + 1
        /\ Append(e, b)[Len(e) + 1] = b /\ \A i \in 1..Len(e) : Append(e, b)[i] = e[i]
    BY <1>2, <1>3, AppendProperties
  <2> QED
    BY <1>2, <2>1
<1> HIDE DEF t
<1>5. /\ Each(t, T) \in Seq(B) /\ Len(Each(t, T)) = Len(t)
      /\ \A i \in 1..Len(t) : Each(t, T)[i] = OnlyOf(t[i], T)
  BY <1>1, EachType
<1> HIDE DEF e
<1>6. ASSUME NEW i \in 1..Len(t) PROVE Each(t, T)[i] = Append(e, b)[i]
  <2>1. CASE i = Len(s) + 1
    BY <1>1, <1>4, <1>5, <2>1
  <2>2. CASE i # Len(s) + 1
    <3>1. i \in 1..Len(s)
      BY <1>1, <2>2
    <3> QED
      BY <1>1, <1>2, <1>4, <1>5, <3>1
  <2> QED
    BY <2>1, <2>2
<1> HIDE DEF b, B
<1>7. Each(t, T) = Append(e, b)
  BY <1>1, <1>4, <1>5, <1>6, SeqEqual
<1> QED
  BY <1>7 DEF t, e, b

\* Selecting from the whole is selecting from each.
LEMMA OnlyOfFlatten ==
    ASSUME NEW A, NEW T
    PROVE  \A s \in Seq(Seq(A)) : OnlyOf(FlattenSeq(s), T) = FlattenSeq(Each(s, T))
<1> DEFINE B == Seq(A)
           S == {s \in Seq(B) : OnlyOf(FlattenSeq(s), T) = FlattenSeq(Each(s, T))}
<1>1. <<>> \in S
  <2>1. <<>> \in Seq(B) /\ Len(<<>>) = 0
    BY EmptySeq
  <2>2. Each(<<>>, T) = <<>>
    <3>1. Each(<<>>, T) \in Seq(B) /\ Len(Each(<<>>, T)) = 0
      BY <2>1, EachType
    <3> HIDE DEF B
    <3> QED
      BY <3>1, EmptySeq
  <2>3. OnlyOf(FlattenSeq(<<>>), T) = FlattenSeq(Each(<<>>, T))
    BY <2>2, FlattenEmpty, OnlyOfEmpty
  <2> QED
    BY <2>1, <2>3
<1>2. ASSUME NEW s \in Seq(B), NEW a \in B, s \in S
      PROVE  Append(s, a) \in S
  <2>1. FlattenSeq(Append(s, a)) = FlattenSeq(s) \o a /\ FlattenSeq(s) \in Seq(A)
    BY FlattenAppend, FlattenType
  <2>2. OnlyOf(FlattenSeq(s) \o a, T) = OnlyOf(FlattenSeq(s), T) \o OnlyOf(a, T)
    BY <2>1, OnlyOfConcat
  <2>3. Each(s, T) \in Seq(Seq(A)) /\ OnlyOf(a, T) \in Seq(A)
    BY EachType, OnlyOfSeq
  <2>4. Each(Append(s, a), T) = Append(Each(s, T), OnlyOf(a, T))
    BY EachAppend
  <2>5. FlattenSeq(Append(Each(s, T), OnlyOf(a, T))) = FlattenSeq(Each(s, T)) \o OnlyOf(a, T)
    BY <2>3, FlattenAppend
  <2>6. Append(s, a) \in Seq(B)
    BY AppendProperties
  <2>7. OnlyOf(FlattenSeq(Append(s, a)), T) = FlattenSeq(Each(Append(s, a), T))
    BY <1>2, <2>1, <2>2, <2>4, <2>5
  <2> QED
    BY <2>6, <2>7
<1>3. \A s \in Seq(B) : s \in S
  <2> HIDE DEF B, S
  <2> QED
    BY <1>1, <1>2, AppendInduction
<1> QED
  BY <1>3

-----------------------------------------------------------------------------
(* The plan of UI actions *)

\* The actions sorted by their number
ByNumber(s) == [n \in 1..MaxActions |-> OnlyOf(s, Numbered(n - 1))]

LEMMA ByNumberType ==
    ASSUME NEW s \in Seq(Actions)
    PROVE  /\ ByNumber(s) \in Seq(Seq(Actions)) /\ Len(ByNumber(s)) = MaxActions
           /\ \A n \in 1..MaxActions : ByNumber(s)[n] = OnlyOf(s, Numbered(n - 1))
<1> DEFINE B == Seq(Actions)
           e == ByNumber(s)
<1>1. MaxActions \in Nat
  BY ShapesAssumption
<1>2. \A n \in 1..MaxActions : OnlyOf(s, Numbered(n - 1)) \in B
  BY OnlyOfSeq
<1>3. e = [n \in 1..MaxActions |-> OnlyOf(s, Numbered(n - 1))]
  BY DEF ByNumber
<1> HIDE DEF e, B
<1>4. e \in [1..MaxActions -> B] /\ \A n \in 1..MaxActions : e[n] = OnlyOf(s, Numbered(n - 1))
  BY <1>2, <1>3
<1>5. e \in Seq(B) /\ Len(e) = MaxActions
  BY <1>1, <1>4, FirstNumbers
<1> QED
  BY <1>4, <1>5 DEF e, B

\* One more action goes to the others of its number.
LEMMA ByNumberAppend ==
    ASSUME NEW s \in Seq(Actions), NEW a \in Actions, NEW n \in 1..MaxActions
    PROVE  ByNumber(Append(s, a))[n] =
              IF a.executionOrder = n - 1 THEN Append(ByNumber(s)[n], a) ELSE ByNumber(s)[n]
<1>1. Append(s, a) \in Seq(Actions)
  BY AppendProperties
<1>2. a \in Numbered(n - 1) <=> a.executionOrder = n - 1
  BY DEF Numbered, Actions
<1>3. OnlyOf(Append(s, a), Numbered(n - 1)) =
        IF a \in Numbered(n - 1) THEN Append(OnlyOf(s, Numbered(n - 1)), a) ELSE OnlyOf(s, Numbered(n - 1))
  BY OnlyOfAppend
<1> QED
  BY <1>1, <1>2, <1>3, ByNumberType

\* Sorting loses nothing: there are as many actions as before.
LEMMA SortedLength ==
    \A s \in Seq(Actions) :
        (\A i \in 1..Len(s) : s[i].executionOrder < MaxActions) =>
            Len(FlattenSeq(ByNumber(s))) = Len(s)
<1> DEFINE Bounded(s) == \A i \in 1..Len(s) : s[i].executionOrder < MaxActions
           S == {s \in Seq(Actions) : Bounded(s) => Len(FlattenSeq(ByNumber(s))) = Len(s)}
<1>1. <<>> \in S
  <2>1. <<>> \in Seq(Actions) /\ Len(<<>>) = 0
    BY EmptySeq
  <2>2. /\ ByNumber(<<>>) \in Seq(Seq(Actions)) /\ Len(ByNumber(<<>>)) = MaxActions
        /\ \A n \in 1..MaxActions : ByNumber(<<>>)[n] = <<>>
    BY <2>1, ByNumberType, OnlyOfEmpty
  <2>3. FlattenSeq(ByNumber(<<>>)) = <<>>
    BY <2>2, FlattenNothing
  <2> QED
    BY <2>1, <2>3
<1>2. ASSUME NEW s \in Seq(Actions), NEW a \in Actions, s \in S
      PROVE  Append(s, a) \in S
  <2> DEFINE t == Append(s, a)
             j == a.executionOrder + 1
  <2>1. /\ t \in Seq(Actions) /\ Len(t) = Len(s) + 1 /\ Len(s) \in Nat /\ t[Len(s) + 1] = a
        /\ \A i \in 1..Len(s) : t[i] = s[i]
    BY AppendProperties, LenProperties
  <2>2. \A n \in 1..MaxActions : ByNumber(t)[n] =
            IF a.executionOrder = n - 1 THEN Append(ByNumber(s)[n], a) ELSE ByNumber(s)[n]
    BY ByNumberAppend
  <2> HIDE DEF t
  <2>3. ASSUME Bounded(t) PROVE Len(FlattenSeq(ByNumber(t))) = Len(t)
    <3>1. Len(s) + 1 \in 1..Len(t) /\ \A i \in 1..Len(s) : i \in 1..Len(t)
      BY <2>1
    <3>2. a.executionOrder < MaxActions /\ Bounded(s)
      BY <2>1, <2>3, <3>1
    <3>3. Len(FlattenSeq(ByNumber(s))) = Len(s)
      BY <1>2, <3>2
    <3>4. j \in 1..MaxActions /\ \A n \in 1..MaxActions : a.executionOrder = n - 1 <=> n = j
      BY <3>2, ShapesAssumption DEF Actions
    <3> HIDE DEF j
    <3>5. /\ ByNumber(s) \in Seq(Seq(Actions)) /\ Len(ByNumber(s)) = MaxActions
          /\ ByNumber(t) \in Seq(Seq(Actions)) /\ Len(ByNumber(t)) = MaxActions
      BY <2>1, ByNumberType
    <3>6. /\ ByNumber(t)[j] = Append(ByNumber(s)[j], a)
          /\ \A n \in 1..MaxActions : n # j => ByNumber(t)[n] = ByNumber(s)[n]
      BY <2>2, <3>4
    <3>7. Len(ByNumber(t)[j]) = Len(ByNumber(s)[j]) + 1
      <4>1. ByNumber(s)[j] \in Seq(Actions)
        BY <3>4, ByNumberType, OnlyOfSeq
      <4> QED
        BY <3>6, <4>1, AppendProperties
    <3>8. Len(FlattenSeq(ByNumber(t))) = Len(FlattenSeq(ByNumber(s))) + 1
      BY <3>4, <3>5, <3>6, <3>7, FlattenLonger
    <3> QED
      BY <2>1, <3>3, <3>8
  <2> HIDE DEF Bounded
  <2>4. t \in S
    BY <2>1, <2>3
  <2> QED
    BY <2>4 DEF t
<1>3. \A s \in Seq(Actions) : s \in S
  <2> HIDE DEF S
  <2> QED
    BY <1>1, <1>2, AppendInduction
<1> QED
  BY <1>3

\* What is numbered in its order is sorted already.
LEMMA SortedAlready ==
    \A s \in Seq(Actions) :
        Len(s) <= MaxActions /\ (\A i \in 1..Len(s) : s[i].executionOrder = i - 1) =>
            FlattenSeq(ByNumber(s)) = s
<1> DEFINE Counted(s) == Len(s) <= MaxActions /\ \A i \in 1..Len(s) : s[i].executionOrder = i - 1
           S == {s \in Seq(Actions) : Counted(s) => FlattenSeq(ByNumber(s)) = s}
<1>1. <<>> \in S
  <2>1. <<>> \in Seq(Actions) /\ Len(<<>>) = 0
    BY EmptySeq
  <2>2. /\ ByNumber(<<>>) \in Seq(Seq(Actions)) /\ Len(ByNumber(<<>>)) = MaxActions
        /\ \A n \in 1..MaxActions : ByNumber(<<>>)[n] = <<>>
    BY <2>1, ByNumberType, OnlyOfEmpty
  <2>3. FlattenSeq(ByNumber(<<>>)) = <<>>
    BY <2>2, FlattenNothing
  <2> QED
    BY <2>1, <2>3
<1>2. ASSUME NEW s \in Seq(Actions), NEW a \in Actions, s \in S
      PROVE  Append(s, a) \in S
  <2> DEFINE t == Append(s, a)
             j == Len(s) + 1
  <2>1. /\ t \in Seq(Actions) /\ Len(t) = Len(s) + 1 /\ Len(s) \in Nat /\ t[Len(s) + 1] = a
        /\ \A i \in 1..Len(s) : t[i] = s[i]
    BY AppendProperties, LenProperties
  <2>2. \A n \in 1..MaxActions : ByNumber(t)[n] =
            IF a.executionOrder = n - 1 THEN Append(ByNumber(s)[n], a) ELSE ByNumber(s)[n]
    BY ByNumberAppend
  <2> HIDE DEF t
  <2>3. ASSUME Counted(t) PROVE FlattenSeq(ByNumber(t)) = t
    <3>1. Len(s) + 1 \in 1..Len(t) /\ \A i \in 1..Len(s) : i \in 1..Len(t)
      BY <2>1
    <3>2. /\ a.executionOrder = Len(s) /\ Len(s) + 1 <= MaxActions /\ MaxActions \in Nat
          /\ \A i \in 1..Len(s) : s[i].executionOrder = i - 1
      BY <2>1, <2>3, <3>1, ShapesAssumption
    <3>3. FlattenSeq(ByNumber(s)) = s
      BY <1>2, <2>1, <3>2
    <3>4. j \in 1..MaxActions /\ \A n \in 1..MaxActions : a.executionOrder = n - 1 <=> n = j
      BY <2>1, <3>2
    <3>5. /\ ByNumber(s) \in Seq(Seq(Actions)) /\ Len(ByNumber(s)) = MaxActions
          /\ ByNumber(t) \in Seq(Seq(Actions)) /\ Len(ByNumber(t)) = MaxActions
      BY <2>1, ByNumberType
    <3>6. ASSUME NEW n \in 1..MaxActions, n >= j PROVE ByNumber(s)[n] = <<>>
      <4>1. \A i \in 1..Len(s) : s[i] \notin Numbered(n - 1)
        BY <2>1, <3>2, <3>6 DEF Numbered
      <4>2. OnlyOf(s, Numbered(n - 1)) = <<>>
        BY <4>1, OnlyOfAll
      <4> QED
        BY <4>2, ByNumberType
    <3> HIDE DEF j
    <3>7. /\ ByNumber(t)[j] = <<a>>
          /\ \A n \in 1..MaxActions : n # j => ByNumber(t)[n] = ByNumber(s)[n]
      <4>1. ByNumber(s)[j] = <<>> /\ ByNumber(t)[j] = Append(ByNumber(s)[j], a)
        <5>1. j >= j
          BY <3>4
        <5>2. ByNumber(s)[j] = <<>>
          BY <3>4, <3>6, <5>1
        <5> QED
          BY <2>2, <3>4, <5>2
      <4>2. Append(<<>>, a) = <<a>>
        OBVIOUS
      <4> QED
        BY <2>2, <3>4, <4>1, <4>2
    <3>8. FlattenSeq(ByNumber(t)) = FlattenSeq(ByNumber(s)) \o ByNumber(t)[j]
      BY <3>4, <3>5, <3>6, <3>7, FlattenLast
    <3>9. Append(s, a) = s \o <<a>>
      BY AppendIsConcat
    <3> QED
      BY <3>3, <3>7, <3>8, <3>9 DEF t
  <2> HIDE DEF Counted
  <2>4. t \in S
    BY <2>1, <2>3
  <2> QED
    BY <2>4 DEF t
<1>3. \A s \in Seq(Actions) : s \in S
  <2> HIDE DEF S
  <2> QED
    BY <1>1, <1>2, AppendInduction
<1> QED
  BY <1>3

Collectors == [of: Members, actions: Seq(Actions)]

LEMMA ListsType ==
    ASSUME NEW cs \in Seq(Collectors)
    PROVE  /\ Lists(cs) \in Seq(Seq(Actions)) /\ Len(Lists(cs)) = Len(cs)
           /\ Len(cs) \in Nat /\ DOMAIN cs = 1..Len(cs)
           /\ \A i \in 1..Len(cs) :
                /\ cs[i] \in Collectors /\ cs[i].of \in Members /\ cs[i].actions \in Seq(Actions)
                /\ Lists(cs)[i] = cs[i].actions
<1> DEFINE B == Seq(Actions)
           e == Lists(cs)
<1>1. Len(cs) \in Nat /\ DOMAIN cs = 1..Len(cs) /\ \A i \in 1..Len(cs) : cs[i] \in Collectors
  BY LenProperties, ElementOfSeq
<1>2. \A i \in 1..Len(cs) : cs[i].of \in Members /\ cs[i].actions \in B
  BY <1>1 DEF Collectors
<1>3. e = [i \in 1..Len(cs) |-> cs[i].actions]
  BY <1>1 DEF Lists
<1> HIDE DEF e, B
<1>4. e \in [1..Len(cs) -> B] /\ \A i \in 1..Len(cs) : e[i] = cs[i].actions
  BY <1>2, <1>3
<1>5. e \in Seq(B) /\ Len(e) = Len(cs)
  BY <1>1, <1>4, FirstNumbers
<1> QED
  BY <1>1, <1>2, <1>4, <1>5 DEF e, B

LEMMA NothingGathered == Gathered(<<>>, <<>>)
<1> DEFINE e == <<>>
<1>1. e \in Seq(Collectors) /\ Len(e) = 0 /\ DOMAIN e = {}
  BY EmptySeq
<1>2. Lists(e) = <<>>
  BY DEF Lists
<1>3. FlattenSeq(Lists(e)) = e /\ 0 <= MaxActions
  BY <1>2, FlattenEmpty, ShapesAssumption
<1> HIDE DEF e
<1>4. Gathered(e, e)
  BY <1>1, <1>3 DEF Gathered
<1> QED
  BY <1>4 DEF e

\* A collector of a member that has none, before anything is proposed.
LEMMA OneMoreCollector ==
    ASSUME NEW cs \in Seq(Collectors), NEW m \in Members, NEW c, NEW p, p = <<>>,
           Gathered(cs, p), \A i \in DOMAIN cs : cs[i].of # m,
           c = [of |-> m, actions |-> p]
    PROVE  Gathered(Append(cs, c), p)
<1> DEFINE ds == Append(cs, c)
<1>1. /\ p \in Seq(Actions) /\ Len(p) = 0 /\ DOMAIN p = {} /\ c \in Collectors
      /\ \A T : OnlyOf(p, T) = p
  BY EmptySeq, OnlyOfEmpty DEF Collectors
<1>2. c.of = m /\ c.actions = p
  OBVIOUS
<1>3. /\ ds \in Seq(Collectors) /\ Len(ds) = Len(cs) + 1 /\ Len(cs) \in Nat /\ ds[Len(cs) + 1] = c
      /\ \A i \in 1..Len(cs) : ds[i] = cs[i]
  BY <1>1, AppendProperties, LenProperties
<1>4. DOMAIN cs = 1..Len(cs) /\ DOMAIN ds = 1..Len(ds)
  BY <1>3, LenProperties
<1>5. Lists(ds) = Append(Lists(cs), p)
  <2>1. /\ Lists(cs) \in Seq(Seq(Actions)) /\ Len(Lists(cs)) = Len(cs)
        /\ \A i \in 1..Len(cs) : Lists(cs)[i] = cs[i].actions
    BY ListsType
  <2> HIDE DEF ds
  <2>2. /\ Lists(ds) \in Seq(Seq(Actions)) /\ Len(Lists(ds)) = Len(ds)
        /\ \A i \in 1..Len(ds) : Lists(ds)[i] = ds[i].actions
    BY <1>3, ListsType
  <2> DEFINE B == Seq(Actions)
             e == Append(Lists(cs), p)
  <2>3. /\ e \in Seq(B) /\ Len(e) = Len(cs) + 1 /\ e[Len(cs) + 1] = p
        /\ \A i \in 1..Len(cs) : e[i] = cs[i].actions
    <3>1. Lists(cs) \in Seq(B) /\ p \in B
      BY <1>1, <2>1
    <3> HIDE DEF B
    <3> QED
      BY <2>1, <3>1, AppendProperties
  <2> HIDE DEF B, e
  <2>4. ASSUME NEW i \in 1..Len(ds) PROVE Lists(ds)[i] = e[i]
    <3>1. CASE i = Len(cs) + 1
      BY <1>2, <1>3, <2>2, <2>3, <3>1
    <3>2. CASE i # Len(cs) + 1
      <4>1. i \in 1..Len(cs)
        BY <1>3, <3>2
      <4> QED
        BY <1>3, <2>2, <2>3, <4>1
    <3> QED
      BY <3>1, <3>2
  <2>5. Lists(ds) \in Seq(B)
    BY <2>2 DEF B
  <2>6. Lists(ds) = e
    BY <1>3, <2>2, <2>3, <2>4, <2>5, SeqEqual
  <2> QED
    BY <2>6 DEF e
<1>6. Len(FlattenSeq(Lists(ds))) = Len(p)
  <2>1. Lists(cs) \in Seq(Seq(Actions))
    BY ListsType
  <2>2. FlattenSeq(Lists(ds)) = FlattenSeq(Lists(cs)) \o p /\ FlattenSeq(Lists(cs)) \in Seq(Actions)
    BY <1>1, <1>5, <2>1, FlattenAppend, FlattenType
  <2>3. Len(FlattenSeq(Lists(ds))) = Len(FlattenSeq(Lists(cs))) + Len(p)
    BY <1>1, <2>2, ConcatProperties
  <2> QED
    BY <1>1, <2>3 DEF Gathered
<1> HIDE DEF ds
<1>7. \A i \in DOMAIN ds :
        \/ i \in DOMAIN cs /\ ds[i] = cs[i]
        \/ i = Len(cs) + 1 /\ ds[i] = c
  BY <1>3, <1>4
<1>8. \A i, j \in DOMAIN ds : ds[i].of = ds[j].of => i = j
  BY <1>2, <1>7 DEF Gathered
<1>9. \A i \in DOMAIN ds : ds[i].actions = p
  BY <1>1, <1>2, <1>7 DEF Gathered
<1>10. /\ \A i \in DOMAIN ds : ds[i].actions = OnlyOf(p, By(ds[i].of)) /\ DOMAIN ds[i].actions = {}
       /\ Len(p) <= MaxActions
  BY <1>1, <1>9 DEF Gathered
<1> QED
  BY <1>1, <1>6, <1>8, <1>10 DEF Gathered, ds

\* An action is appended to the list of its member.
LEMMA OneMoreAction ==
    ASSUME NEW cs \in Seq(Collectors), NEW p \in Seq(Actions), Gathered(cs, p), Len(p) < MaxActions,
           NEW i \in DOMAIN cs, NEW a,
           a = [by |-> cs[i].of, executionOrder |-> Len(cs[i].actions)],
           NEW ds \in Seq(Collectors), Len(ds) = Len(cs),
           \A j \in DOMAIN cs : j # i => ds[j] = cs[j],
           ds[i].of = cs[i].of, ds[i].actions = Append(cs[i].actions, a)
    PROVE  Gathered(ds, Append(p, a))
<1> DEFINE q == Append(p, a)
<1>1. /\ DOMAIN cs = 1..Len(cs) /\ DOMAIN ds = 1..Len(cs) /\ Len(cs) \in Nat
      /\ \A j \in 1..Len(cs) : cs[j].of \in Members /\ cs[j].actions \in Seq(Actions)
  BY ListsType
<1>2. a \in Actions /\ a.by = cs[i].of /\ a.executionOrder = Len(cs[i].actions)
  <2>1. Len(cs[i].actions) \in Nat
    BY <1>1, LenProperties
  <2> QED
    BY <1>1, <2>1 DEF Actions
<1>3. /\ q \in Seq(Actions) /\ Len(q) = Len(p) + 1 /\ Len(p) \in Nat /\ q[Len(p) + 1] = a
      /\ \A k \in 1..Len(p) : q[k] = p[k]
      /\ DOMAIN p = 1..Len(p) /\ DOMAIN q = 1..Len(p) + 1
  <2>1. /\ q \in Seq(Actions) /\ Len(q) = Len(p) + 1 /\ Len(p) \in Nat /\ q[Len(p) + 1] = a
        /\ \A k \in 1..Len(p) : q[k] = p[k]
    BY <1>2, AppendProperties, LenProperties
  <2>2. DOMAIN p = 1..Len(p) /\ DOMAIN q = 1..Len(q)
    BY <2>1, LenProperties
  <2> QED
    BY <2>1, <2>2
<1>4. \A j \in DOMAIN cs : ds[j].of = cs[j].of
  OBVIOUS
<1>5. \A m : OnlyOf(q, By(m)) = IF m = cs[i].of THEN Append(OnlyOf(p, By(m)), a) ELSE OnlyOf(p, By(m))
  <2>1. \A m : a \in By(m) <=> m = cs[i].of
    BY <1>2 DEF By, Actions
  <2>2. \A m : OnlyOf(q, By(m)) = IF a \in By(m) THEN Append(OnlyOf(p, By(m)), a) ELSE OnlyOf(p, By(m))
    BY <1>2, OnlyOfAppend
  <2> QED
    BY <2>1, <2>2
<1> HIDE DEF q
<1>6. ASSUME NEW j \in DOMAIN ds
      PROVE  /\ ds[j].actions = OnlyOf(q, By(ds[j].of))
             /\ \A k \in DOMAIN ds[j].actions :
                  ds[j].actions[k] = [by |-> ds[j].of, executionOrder |-> k - 1]
  <2>1. /\ j \in DOMAIN cs /\ cs[j].actions = OnlyOf(p, By(cs[j].of))
        /\ \A k \in DOMAIN cs[j].actions :
             cs[j].actions[k] = [by |-> cs[j].of, executionOrder |-> k - 1]
    BY <1>1 DEF Gathered
  <2>2. CASE j = i
    <3> DEFINE old == cs[i].actions
    <3>1. /\ old \in Seq(Actions) /\ Len(old) \in Nat /\ DOMAIN old = 1..Len(old)
          /\ Append(old, a) \in Seq(Actions) /\ Len(Append(old, a)) = Len(old) + 1
          /\ \A k \in 1..Len(old) : Append(old, a)[k] = old[k]
          /\ Append(old, a)[Len(old) + 1] = a
      BY <1>1, <1>2, AppendProperties, LenProperties
    <3>2. DOMAIN Append(old, a) = 1..Len(old) + 1
      BY <3>1, LenProperties
    <3>3. ds[j].actions = Append(old, a) /\ ds[j].of = cs[i].of
      BY <2>2
    <3>4. Append(old, a) = OnlyOf(q, By(cs[i].of))
      BY <1>5, <2>1, <2>2
    <3>5. a = [by |-> cs[i].of, executionOrder |-> Len(old)]
      OBVIOUS
    <3> HIDE DEF old
    <3>6. ASSUME NEW k \in 1..Len(old) + 1
          PROVE  Append(old, a)[k] = [by |-> cs[i].of, executionOrder |-> k - 1]
      <4>1. CASE k = Len(old) + 1
        <5>1. k - 1 = Len(old)
          BY <3>1, <4>1
        <5> QED
          BY <3>1, <3>5, <4>1, <5>1
      <4>2. CASE k # Len(old) + 1
        <5>1. k \in 1..Len(old)
          BY <3>1, <4>2
        <5> QED
          BY <2>1, <2>2, <3>1, <5>1 DEF old
      <4> QED
        BY <4>1, <4>2
    <3> QED
      BY <3>2, <3>3, <3>4, <3>6
  <2>3. CASE j # i
    <3>1. cs[j].of # cs[i].of /\ ds[j] = cs[j]
      BY <1>1, <2>3 DEF Gathered
    <3> QED
      BY <1>5, <2>1, <3>1
  <2> QED
    BY <2>2, <2>3
<1>7. ASSUME NEW k \in DOMAIN q PROVE \E j \in DOMAIN ds : ds[j].of = q[k].by
  <2>1. CASE k = Len(p) + 1
    BY <1>1, <1>2, <1>3, <1>4, <2>1
  <2>2. CASE k # Len(p) + 1
    <3>1. k \in DOMAIN p /\ q[k] = p[k]
      BY <1>3, <2>2
    <3>2. PICK j \in DOMAIN cs : cs[j].of = p[k].by
      BY <3>1 DEF Gathered
    <3> QED
      BY <1>1, <1>4, <3>1, <3>2
  <2> QED
    BY <2>1, <2>2
<1>8. \A j, k \in DOMAIN ds : ds[j].of = ds[k].of => j = k
  BY <1>1, <1>4 DEF Gathered
<1>9. Len(FlattenSeq(Lists(ds))) = Len(q)
  <2>1. /\ Lists(cs) \in Seq(Seq(Actions)) /\ Len(Lists(cs)) = Len(cs)
        /\ \A j \in 1..Len(cs) : Lists(cs)[j] = cs[j].actions
    BY ListsType
  <2>2. /\ Lists(ds) \in Seq(Seq(Actions)) /\ Len(Lists(ds)) = Len(cs)
        /\ \A j \in 1..Len(cs) : Lists(ds)[j] = ds[j].actions
    BY ListsType
  <2>3. \A j \in 1..Len(cs) : j # i => Lists(ds)[j] = Lists(cs)[j]
    BY <1>1, <2>1, <2>2
  <2>4. Len(Lists(ds)[i]) = Len(Lists(cs)[i]) + 1
    <3>1. Lists(ds)[i] = Append(Lists(cs)[i], a) /\ Lists(cs)[i] \in Seq(Actions)
      BY <1>1, <2>1, <2>2
    <3> QED
      BY <1>2, <3>1, AppendProperties
  <2>5. Len(FlattenSeq(Lists(ds))) = Len(FlattenSeq(Lists(cs))) + 1
    BY <1>1, <2>1, <2>2, <2>3, <2>4, FlattenLonger
  <2> QED
    BY <1>3, <2>5 DEF Gathered
<1>10. Len(q) <= MaxActions
  BY <1>3, ShapesAssumption
<1>11. Gathered(ds, q)
  BY <1>6, <1>7, <1>8, <1>9, <1>10 DEF Gathered
<1> QED
  BY <1>11 DEF q

\* The plan holds what was proposed, the actions of a member in their order.
LEMMA PlanHolds ==
    ASSUME NEW cs \in Seq(Collectors), NEW p \in Seq(Actions), Gathered(cs, p),
           NEW r, r = FlattenSeq(ByNumber(FlattenSeq(Lists(cs))))
    PROVE  /\ r \in Seq(Actions) /\ Len(r) = Len(p)
           /\ \A m \in Members : OnlyOf(r, By(m)) = OnlyOf(p, By(m))
<1> DEFINE lists == Lists(cs)
           all == FlattenSeq(lists)
<1>1. /\ lists \in Seq(Seq(Actions)) /\ Len(lists) = Len(cs)
      /\ Len(cs) \in Nat /\ DOMAIN cs = 1..Len(cs)
      /\ \A i \in 1..Len(cs) :
           cs[i].of \in Members /\ cs[i].actions \in Seq(Actions) /\ lists[i] = cs[i].actions
  BY ListsType
<1>2. Len(p) \in Nat /\ DOMAIN p = 1..Len(p) /\ Len(p) <= MaxActions /\ MaxActions \in Nat
  BY LenProperties, ShapesAssumption DEF Gathered
<1>3. all \in Seq(Actions)
  BY <1>1, FlattenType
<1>4. ASSUME NEW i \in 1..Len(cs)
      PROVE  /\ Len(lists[i]) <= Len(p) /\ Len(lists[i]) \in Nat
             /\ \A k \in 1..Len(lists[i]) :
                  lists[i][k] = [by |-> cs[i].of, executionOrder |-> k - 1]
  <2>1. /\ cs[i].actions = OnlyOf(p, By(cs[i].of))
        /\ \A k \in DOMAIN cs[i].actions :
             cs[i].actions[k] = [by |-> cs[i].of, executionOrder |-> k - 1]
    BY <1>1 DEF Gathered
  <2>2. lists[i] = cs[i].actions /\ cs[i].actions \in Seq(Actions)
    BY <1>1
  <2>3. Len(OnlyOf(p, By(cs[i].of))) <= Len(p)
    BY OnlyOfSeq
  <2>4. DOMAIN cs[i].actions = 1..Len(cs[i].actions) /\ Len(cs[i].actions) \in Nat
    BY <2>2, LenProperties
  <2> HIDE DEF lists
  <2> QED
    BY <2>1, <2>2, <2>3, <2>4
<1> HIDE DEF lists
<1>5. \A i \in 1..Len(all) : all[i].executionOrder < MaxActions
  <2> DEFINE Small == {a \in Actions : a.executionOrder < MaxActions}
             C == Seq(Small)
  <2>1. ASSUME NEW i \in 1..Len(cs) PROVE lists[i] \in C
    <3>1. ASSUME NEW k \in 1..Len(lists[i]) PROVE lists[i][k] \in Small
      <4>1. lists[i][k] = [by |-> cs[i].of, executionOrder |-> k - 1]
        BY <1>4
      <4>2. k - 1 \in Nat /\ k - 1 < MaxActions /\ cs[i].of \in Members
        BY <1>1, <1>2, <1>4
      <4> QED
        BY <4>1, <4>2 DEF Actions
    <3>2. lists[i] \in [1..Len(lists[i]) -> Small]
      <4>1. lists[i] \in [1..Len(lists[i]) -> Actions]
        BY <1>1, LenProperties
      <4> HIDE DEF Small
      <4> QED
        BY <3>1, <4>1
    <3>3. Len(lists[i]) \in Nat
      BY <1>4
    <3> HIDE DEF Small
    <3> QED
      BY <3>2, <3>3, FirstNumbers
  <2>2. lists \in Seq(C)
    <3>1. lists \in [1..Len(cs) -> C]
      <4>1. lists \in [1..Len(lists) -> Seq(Actions)]
        BY <1>1, LenProperties
      <4> HIDE DEF C
      <4> QED
        BY <1>1, <2>1, <4>1
    <3> HIDE DEF C
    <3> QED
      BY <1>1, <3>1, FirstNumbers
  <2>3. all \in Seq(Small)
    <3> HIDE DEF Small
    <3> QED
      BY <2>2, FlattenType
  <2>4. \A i \in 1..Len(all) : all[i] \in Small
    <3> HIDE DEF Small, all
    <3> QED
      BY <2>3, ElementOfSeq
  <2> QED
    BY <2>4
<1> HIDE DEF all
<1>6. r \in Seq(Actions)
  BY <1>3, ByNumberType, FlattenType DEF all, lists
<1>7. Len(r) = Len(p)
  <2>1. r = FlattenSeq(ByNumber(all)) /\ Len(all) = Len(p)
    BY DEF all, lists, Gathered
  <2> QED
    BY <1>3, <1>5, <2>1, SortedLength
<1>8. ASSUME NEW m \in Members PROVE OnlyOf(r, By(m)) = OnlyOf(p, By(m))
  <2> DEFINE q == OnlyOf(p, By(m))
  <2>1. q \in Seq(Actions) /\ Len(q) <= Len(p)
    BY OnlyOfSeq
  <2>2. /\ Each(lists, By(m)) \in Seq(Seq(Actions)) /\ Len(Each(lists, By(m))) = Len(cs)
        /\ \A i \in 1..Len(cs) :
             Each(lists, By(m))[i] = IF cs[i].of = m THEN cs[i].actions ELSE <<>>
    <3>1. /\ Each(lists, By(m)) \in Seq(Seq(Actions)) /\ Len(Each(lists, By(m))) = Len(cs)
          /\ \A i \in 1..Len(cs) : Each(lists, By(m))[i] = OnlyOf(lists[i], By(m))
      BY <1>1, EachType
    <3>2. ASSUME NEW i \in 1..Len(cs)
          PROVE  OnlyOf(lists[i], By(m)) = IF cs[i].of = m THEN cs[i].actions ELSE <<>>
      <4>1. ASSUME NEW k \in 1..Len(lists[i]) PROVE lists[i][k] \in By(m) <=> cs[i].of = m
        <5>1. lists[i][k] = [by |-> cs[i].of, executionOrder |-> k - 1] /\ k - 1 \in Nat
          BY <1>4
        <5> QED
          BY <5>1 DEF By
      <4>2. lists[i] = cs[i].actions /\ lists[i] \in Seq(Actions)
        BY <1>1
      <4> QED
        BY <4>1, <4>2, OnlyOfAll
    <3> QED
      BY <3>1, <3>2
  <2>3. FlattenSeq(Each(lists, By(m))) = q
    <3>1. CASE \E j \in 1..Len(cs) : cs[j].of = m
      <4>1. PICK j \in 1..Len(cs) : cs[j].of = m
        BY <3>1
      <4>2. \A i \in 1..Len(cs) : i # j => Each(lists, By(m))[i] = <<>>
        BY <1>1, <2>2, <4>1 DEF Gathered
      <4>3. FlattenSeq(Each(lists, By(m))) = cs[j].actions
        BY <2>2, <4>1, <4>2, FlattenOne
      <4> QED
        BY <1>1, <4>1, <4>3 DEF Gathered
    <3>2. CASE \A j \in 1..Len(cs) : cs[j].of # m
      <4>1. FlattenSeq(Each(lists, By(m))) = <<>>
        BY <2>2, <3>2, FlattenNothing
      <4>2. \A k \in 1..Len(p) : p[k] \notin By(m)
        BY <1>1, <1>2, <3>2 DEF Gathered, By
      <4>3. q = <<>>
        BY <4>2, OnlyOfAll
      <4> QED
        BY <4>1, <4>3
    <3> QED
      BY <3>1, <3>2
  <2>4. OnlyOf(all, By(m)) = q
    BY <1>1, <2>3, OnlyOfFlatten DEF all
  <2>5. \A k \in 1..Len(q) : q[k].executionOrder = k - 1
    <3>1. CASE \E j \in 1..Len(cs) : cs[j].of = m
      <4>1. PICK j \in 1..Len(cs) : cs[j].of = m
        BY <3>1
      <4>2. q = lists[j]
        BY <1>1, <4>1 DEF Gathered
      <4>3. ASSUME NEW k \in 1..Len(lists[j]) PROVE lists[j][k].executionOrder = k - 1
        <5>1. lists[j][k] = [by |-> cs[j].of, executionOrder |-> k - 1]
          BY <1>4
        <5> QED
          BY <5>1
      <4> QED
        BY <4>2, <4>3
    <3>2. CASE \A j \in 1..Len(cs) : cs[j].of # m
      <4>1. \A k \in 1..Len(p) : p[k] \notin By(m)
        BY <1>1, <1>2, <3>2 DEF Gathered, By
      <4>2. q = <<>>
        BY <4>1, OnlyOfAll
      <4> QED
        BY <4>2, EmptySeq
    <3> QED
      BY <3>1, <3>2
  <2> HIDE DEF q
  <2>6. FlattenSeq(ByNumber(q)) = q
    BY <1>2, <2>1, <2>5, LenProperties, SortedAlready
  <2>7. Each(ByNumber(all), By(m)) = ByNumber(q)
    <3>1. /\ ByNumber(all) \in Seq(Seq(Actions)) /\ Len(ByNumber(all)) = MaxActions
          /\ \A n \in 1..MaxActions : ByNumber(all)[n] = OnlyOf(all, Numbered(n - 1))
      BY <1>3, ByNumberType
    <3>2. /\ ByNumber(q) \in Seq(Seq(Actions)) /\ Len(ByNumber(q)) = MaxActions
          /\ \A n \in 1..MaxActions : ByNumber(q)[n] = OnlyOf(q, Numbered(n - 1))
      BY <2>1, ByNumberType
    <3>3. /\ Each(ByNumber(all), By(m)) \in Seq(Seq(Actions)) /\ Len(Each(ByNumber(all), By(m))) = MaxActions
          /\ \A n \in 1..MaxActions :
               Each(ByNumber(all), By(m))[n] = OnlyOf(ByNumber(all)[n], By(m))
      BY <3>1, EachType
    <3>4. \A n \in 1..MaxActions :
            OnlyOf(OnlyOf(all, Numbered(n - 1)), By(m)) = OnlyOf(OnlyOf(all, By(m)), Numbered(n - 1))
      BY <1>3, OnlyOfTwice
    <3>5. \A n \in 1..MaxActions : Each(ByNumber(all), By(m))[n] = ByNumber(q)[n]
      BY <2>4, <3>1, <3>2, <3>3, <3>4
    <3> DEFINE B == Seq(Actions)
               e == Each(ByNumber(all), By(m))
               f == ByNumber(q)
    <3>6. e \in Seq(B) /\ f \in Seq(B) /\ Len(e) = MaxActions /\ Len(f) = MaxActions
      BY <3>2, <3>3
    <3>7. \A n \in 1..MaxActions : e[n] = f[n]
      BY <3>5
    <3> HIDE DEF B, e, f
    <3>8. e = f
      BY <3>6, <3>7, SeqEqual
    <3> QED
      BY <3>8 DEF e, f
  <2>8. OnlyOf(r, By(m)) = FlattenSeq(Each(ByNumber(all), By(m)))
    <3>1. r = FlattenSeq(ByNumber(all)) /\ ByNumber(all) \in Seq(Seq(Actions))
      BY <1>3, ByNumberType DEF all, lists
    <3> QED
      BY <3>1, OnlyOfFlatten
  <2> QED
    BY <2>6, <2>7, <2>8 DEF q
<1> QED
  BY <1>6, <1>7, <1>8

-----------------------------------------------------------------------------
(* Types *)

LEMMA AggregateIs ==
    _aggregate_ui_action_plan = FlattenSeq(ByNumber(FlattenSeq(Lists(collectors))))
BY DEF _aggregate_ui_action_plan, ByNumber, Lists

LEMMA AggregateType ==
    ASSUME TypeOK
    PROVE  _aggregate_ui_action_plan \in Seq(Actions)
<1>1. collectors \in Seq(Collectors)
  BY DEF TypeOK, Collectors
<1>2. FlattenSeq(Lists(collectors)) \in Seq(Actions)
  BY <1>1, ListsType, FlattenType
<1>3. ByNumber(FlattenSeq(Lists(collectors))) \in Seq(Seq(Actions))
  BY <1>2, ByNumberType
<1> QED
  BY <1>3, AggregateIs, FlattenType

\* The collector of one more action.
LEMMA ProposedType ==
    ASSUME TypeOK, NEW i \in DOMAIN collectors, propose_ui_action(i)
    PROVE  LET a == [by |-> collectors[i].of, executionOrder |-> Len(collectors[i].actions)] IN
           /\ a \in Actions /\ proposed' = Append(proposed, a)
           /\ collectors' \in Seq(Collectors) /\ Len(collectors') = Len(collectors)
           /\ \A j \in DOMAIN collectors : j # i => collectors'[j] = collectors[j]
           /\ collectors'[i].of = collectors[i].of
           /\ collectors'[i].actions = Append(collectors[i].actions, a)
<1> DEFINE c == collectors[i]
           a == [by |-> c.of, executionOrder |-> Len(c.actions)]
           d == [c EXCEPT !.actions = Append(c.actions, a)]
<1>1. /\ collectors \in Seq(Collectors) /\ i \in 1..Len(collectors)
      /\ DOMAIN collectors = 1..Len(collectors)
  BY LenProperties DEF TypeOK, Collectors
<1>2. c \in Collectors /\ c.of \in Members /\ c.actions \in Seq(Actions)
  BY <1>1, ListsType
<1>3. a \in Actions
  <2>1. Len(c.actions) \in Nat
    BY <1>2, LenProperties
  <2> QED
    BY <1>2, <2>1 DEF Actions
<1>4. collectors' = [collectors EXCEPT ![i] = d] /\ proposed' = Append(proposed, a)
  BY DEF propose_ui_action
<1>5. d = [of |-> c.of, actions |-> Append(c.actions, a)]
  <2> HIDE DEF c, a
  <2> QED
    BY <1>2 DEF Collectors
<1>6. d \in Collectors /\ d.of = c.of /\ d.actions = Append(c.actions, a)
  <2>1. Append(c.actions, a) \in Seq(Actions)
    BY <1>2, <1>3, AppendProperties
  <2> HIDE DEF a, d, c
  <2> QED
    BY <1>2, <1>5, <2>1 DEF Collectors
<1> HIDE DEF d
<1>7. /\ collectors' \in Seq(Collectors) /\ Len(collectors') = Len(collectors)
      /\ \A j \in 1..Len(collectors) : collectors'[j] = IF j = i THEN d ELSE collectors[j]
  BY <1>1, <1>4, <1>6, ExceptSeq
<1> QED
  BY <1>1, <1>3, <1>4, <1>6, <1>7

LEMMA TypeStep == TypeOK /\ Connected /\ Control' /\ Said' /\ [Next]_vars => TypeOK'
<1> SUFFICES ASSUME TypeOK, Connected, Control', Said', [Next]_vars
             PROVE  TypeOK'
  OBVIOUS
<1>1. pc' \in PC /\ stream' \in BOOLEAN /\ events' \in Seq({"event", "error", "metrics", "plan"})
  BY DEF Control, Said
<1> USE <1>1 DEF TypeOK, PC, Go, Yield
<1>2. ASSUME NEW s \in Shapes, NEW streamed \in BOOLEAN, Start(s, streamed)
      PROVE  TypeOK'
  <2>1. runs' \in 0..MaxRuns
    BY <1>2, ShapesAssumption DEF Start
  <2>2. s \in Seq(Members \cup {Leader})
    BY ShapesAssumption
  <2>3. /\ <<>> \in Seq([of: Members, actions: Seq(Actions)])
        /\ <<>> \in Seq(Actions)
    BY EmptySeq
  <2> QED
    BY <1>2, <2>1, <2>2, <2>3 DEF Start
<1>3. CASE __aenter__
  <2>1. todo # <<>> /\ Head(todo) \in Members \cup {Leader}
    BY <1>3, HeadTailProperties DEF __aenter__
  <2>2. Head(todo) # Leader => Append(stack, Head(todo)) \in Seq(Members)
    BY <2>1, AppendProperties
  <2>3. stack' \in Seq(Members)
    BY <1>3, <2>1, <2>2 DEF __aenter__
  <2> QED
    BY <1>3, <2>3 DEF __aenter__
<1>4. CASE _build_agno_agent
  <2>0. todo # <<>>
    BY <1>4 DEF _build_agno_agent, Connected
  <2>1. Head(todo) \in Members \cup {Leader} /\ Tail(todo) \in Seq(Members \cup {Leader})
    BY <2>0, HeadTailProperties
  <2>2. collectors' \in Seq(Collectors)
    <3>1. collectors \in Seq(Collectors) /\ <<>> \in Seq(Actions)
      BY EmptySeq DEF Collectors
    <3>2. Head(todo) # Leader => [of |-> Head(todo), actions |-> <<>>] \in Collectors
      BY <2>1, <3>1 DEF Collectors
    <3>3. CASE collectors' = collectors
      BY <3>1, <3>3
    <3>4. CASE Head(todo) # Leader /\ collectors' = Append(collectors, [of |-> Head(todo), actions |-> <<>>])
      BY <3>1, <3>2, <3>4, AppendProperties
    <3> QED
      BY <1>4, <3>3, <3>4 DEF _build_agno_agent
  <2> QED
    BY <1>4, <2>1, <2>2 DEF _build_agno_agent, Collectors
<1>5. CASE __aexit__
  <2>1. Front(stack) \in Seq(Members)
    <3>1. Len(stack) \in Nat /\ \A i \in 1..Len(stack) - 1 : stack[i] \in Members
      BY LenProperties, ElementOfSeq
    <3>2. SubSeq(stack, 1, Len(stack) - 1) \in Seq(Members)
      BY <3>1, SubSeqProperties
    <3> QED
      BY <3>2 DEF Front
  <2> QED
    BY <1>5, <2>1 DEF __aexit__
<1>6. CASE Plan
  <2>1. plan' \in Seq(Actions)
    BY <1>6, AggregateType DEF Plan
  <2> QED
    BY <1>6, <2>1 DEF Plan
<1>7. ASSUME NEW i \in DOMAIN collectors, propose_ui_action(i)
      PROVE  TypeOK'
  <2> DEFINE a == [by |-> collectors[i].of, executionOrder |-> Len(collectors[i].actions)]
  <2>1. a \in Actions /\ proposed' = Append(proposed, a) /\ collectors' \in Seq(Collectors)
    BY <1>7, ProposedType
  <2>2. proposed' \in Seq(Actions)
    <3> HIDE DEF a
    <3> QED
      BY <2>1, AppendProperties
  <2>3. UNCHANGED <<runs, shape, stream, pc, then, todo, stack, plan, events, outcome>>
    BY <1>7 DEF propose_ui_action
  <2> QED
    BY <2>1, <2>2, <2>3 DEF Collectors
<1>8. CASE Catch \/ Reraise
  BY <1>8 DEF Catch, Reraise
<1>9. CASE Unwound \/ Resume
  BY <1>9 DEF Unwound, Resume
<1>10. CASE Metrics
  BY <1>10 DEF Metrics
<1>11. CASE Return \/ Finalize \/ Gone
  BY <1>11 DEF Return, Finalize, Gone
<1>12. CASE Event \/ Ends
  BY <1>12 DEF Event, Ends
<1>13. CASE Raise
  BY <1>13 DEF Raise
<1>14. CASE Close \/ Abandon \/ Cancel
  BY <1>14 DEF Close, Abandon, Cancel
<1>15. CASE UNCHANGED vars
  BY <1>15 DEF vars
<1> QED
  BY <1>2, <1>3, <1>4, <1>5, <1>6, <1>7, <1>8, <1>9, <1>10, <1>11, <1>12, <1>13, <1>14, <1>15
     DEF Next, Own

-----------------------------------------------------------------------------
(* The members *)

\* Selecting from a sequence of one element.
LEMMA OnlyOfSingle ==
    ASSUME NEW A, NEW h \in A, NEW T
    PROVE  OnlyOf(Append(<<>>, h), T) = IF h \in T THEN Append(<<>>, h) ELSE <<>>
<1>1. ASSUME NEW e \in Seq(A), OnlyOf(e, T) = e
      PROVE  OnlyOf(Append(e, h), T) = IF h \in T THEN Append(e, h) ELSE e
  <2>1. OnlyOf(Append(e, h), T) = IF h \in T THEN Append(OnlyOf(e, T), h) ELSE OnlyOf(e, T)
    BY OnlyOfAppend
  <2> QED
    BY <1>1, <2>1
<1>2. <<>> \in Seq(A) /\ OnlyOf(<<>>, T) = <<>>
  BY EmptySeq, OnlyOfEmpty
<1> QED
  BY ONLY <1>1, <1>2, Zenon

\* Selecting from the front.
LEMMA OnlyOfHead ==
    ASSUME NEW A, NEW s \in Seq(A), s # <<>>, NEW T
    PROVE  OnlyOf(s, T) = IF Head(s) \in T THEN <<Head(s)>> \o OnlyOf(Tail(s), T) ELSE OnlyOf(Tail(s), T)
<1> DEFINE h == Head(s)
           t == Tail(s)
           one == <<h>>
<1>1. /\ h \in A /\ t \in Seq(A) /\ Len(t) = Len(s) - 1 /\ Len(s) \in Nat \ {0}
      /\ h = s[1] /\ \A i \in 1..Len(t) : t[i] = s[i + 1]
  BY HeadTailProperties, EmptySeq, LenProperties
<1>2. one \in Seq(A) /\ Len(one) = 1 /\ one[1] = h /\ one = Append(<<>>, h)
  BY <1>1
<1>3. OnlyOf(one, T) = IF h \in T THEN one ELSE <<>>
  <2>1. OnlyOf(Append(<<>>, h), T) = IF h \in T THEN Append(<<>>, h) ELSE <<>>
    BY <1>1, OnlyOfSingle
  <2> QED
    BY <1>2, <2>1
<1> HIDE DEF h, t, one
<1>4. s = one \o t
  <2>1. /\ one \o t \in Seq(A) /\ Len(one \o t) = Len(s)
        /\ \A i \in 1..Len(s) : (one \o t)[i] = IF i <= 1 THEN one[i] ELSE t[i - 1]
    BY <1>1, <1>2, ConcatProperties
  <2>2. \A i \in 1..Len(s) : (one \o t)[i] = s[i]
    BY <1>1, <1>2, <2>1
  <2> QED
    BY <2>1, <2>2, SeqEqual
<1>5. OnlyOf(s, T) = OnlyOf(one, T) \o OnlyOf(t, T)
  BY <1>1, <1>2, <1>4, OnlyOfConcat
<1>6. <<>> \o OnlyOf(t, T) = OnlyOf(t, T)
  BY <1>1, OnlyOfSeq, ConcatEmptySeq
<1>7. OnlyOf(s, T) = IF h \in T THEN one \o OnlyOf(t, T) ELSE OnlyOf(t, T)
  BY <1>3, <1>5, <1>6
<1> QED
  BY <1>7 DEF h, t, one

\* The session of the next member is opened.
LEMMA EnterConnects ==
    ASSUME TypeOK, Connected, __aenter__
    PROVE  stack' \o OnlyOf(Tail(todo), Members) = OnlyOf(shape, Members)
<1> DEFINE A == Members \cup {Leader}
           h == Head(todo)
           rest == OnlyOf(Tail(todo), Members)
<1>1. /\ todo \in Seq(A) /\ todo # <<>> /\ stack \in Seq(Members) /\ Leader \notin Members
      /\ stack \o OnlyOf(todo, Members) = OnlyOf(shape, Members)
      /\ stack' = IF h = Leader THEN stack ELSE Append(stack, h)
  BY ShapesAssumption DEF TypeOK, Connected, __aenter__
<1>2. h \in A /\ Tail(todo) \in Seq(A)
  BY <1>1, HeadTailProperties
<1>3. OnlyOf(todo, Members) = IF h \in Members THEN <<h>> \o rest ELSE rest
  BY <1>1, OnlyOfHead
<1>4. CASE h = Leader
  BY <1>1, <1>3, <1>4
<1>5. CASE h # Leader
  <2>1. rest \in Seq(A) /\ stack \in Seq(A)
    <3>1. rest \in Seq(A)
      BY <1>2, OnlyOfSeq
    <3>2. stack \in Seq(A)
      BY <1>1, SeqMonotonic
    <3> QED
      BY <3>1, <3>2
  <2> HIDE DEF h, rest, A
  <2>2. <<h>> \in Seq(A) /\ Append(stack, h) = stack \o <<h>>
    BY <1>2, <2>1, AppendIsConcat
  <2>3. (stack \o <<h>>) \o rest = stack \o (<<h>> \o rest)
    BY <2>1, <2>2, ConcatAssociative
  <2>4. h \in Members
    BY <1>2, <1>5 DEF A
  <2>5. stack' \o rest = OnlyOf(shape, Members)
    BY <1>1, <1>3, <1>5, <2>2, <2>3, <2>4
  <2> QED
    BY <2>5 DEF rest
<1> QED
  BY <1>4, <1>5

LEMMA ConnectedStep == TypeOK /\ Control /\ Sessions /\ Connected /\ [Next]_vars => Connected'
<1> SUFFICES ASSUME TypeOK, Control, Sessions, Connected, [Next]_vars
             PROVE  Connected'
  OBVIOUS
<1>1. ASSUME UNCHANGED <<shape, stack>>, pc' \notin {"connect", "build"},
             Next_step' = "run" => Next_step = "run"
      PROVE  Connected'
  BY <1>1 DEF Connected
<1> USE DEF Go, Yield, Next_step
<1>2. ASSUME NEW s \in Shapes, NEW streamed \in BOOLEAN, Start(s, streamed)
      PROVE  Connected'
  <2>1. stack' = <<>> /\ shape' = s /\ todo' = s /\ pc' = "connect"
    BY <1>2 DEF Start, Sessions, NothingLeftOpen
  <2>2. OnlyOf(s, Members) \in Seq(Members \cup {Leader})
    BY ShapesAssumption, OnlyOfSeq
  <2>3. <<>> \o OnlyOf(s, Members) = OnlyOf(s, Members)
    BY <2>2, ConcatEmptySeq
  <2> QED
    BY <2>1, <2>3 DEF Connected
<1>3. CASE __aenter__
  <2>1. stack' \o OnlyOf(Tail(todo), Members) = OnlyOf(shape, Members)
    BY <1>3, EnterConnects
  <2>2. todo # <<>> /\ todo' = todo /\ shape' = shape /\ pc' = "build"
    BY <1>3 DEF __aenter__
  <2> QED
    BY <2>1, <2>2 DEF Connected
<1>4. CASE _build_agno_agent
  <2>1. /\ stack' = stack /\ shape' = shape /\ todo' = Tail(todo)
        /\ stack \o OnlyOf(todo', Members) = OnlyOf(shape, Members)
        /\ pc' = IF todo' = <<>> THEN "run" ELSE "connect"
    BY <1>4 DEF _build_agno_agent, Connected
  <2>2. stack \o <<>> = stack
    BY ConcatEmptySeq DEF TypeOK
  <2>3. todo' = <<>> => stack = OnlyOf(shape, Members)
    BY <2>1, <2>2, OnlyOfEmpty
  <2> QED
    BY <2>1, <2>3 DEF Connected
<1>5. CASE Catch \/ Reraise
  BY <1>1, <1>5 DEF Catch, Reraise
<1>6. CASE __aexit__
  BY <1>6 DEF __aexit__, Connected, Control
<1>7. CASE Unwound \/ Resume
  BY <1>1, <1>7 DEF Unwound, Resume, Control
<1>8. CASE Metrics
  BY <1>1, <1>8 DEF Metrics
<1>9. CASE Plan
  BY <1>1, <1>9 DEF Plan
<1>10. CASE Return \/ Finalize \/ Gone
  BY <1>1, <1>10 DEF Return, Finalize, Gone
<1>11. ASSUME NEW i \in DOMAIN collectors, propose_ui_action(i)
       PROVE  Connected'
  BY <1>1, <1>11 DEF propose_ui_action
<1>12. CASE Event \/ Ends
  BY <1>1, <1>12 DEF Event, Ends
<1>13. CASE Raise
  BY <1>1, <1>13 DEF Raise
<1>14. CASE Close \/ Abandon \/ Cancel
  BY <1>1, <1>14 DEF Close, Abandon, Cancel
<1>15. CASE UNCHANGED vars
  BY <1>15 DEF vars, Connected
<1> QED
  BY <1>2, <1>3, <1>4, <1>5, <1>6, <1>7, <1>8, <1>9, <1>10, <1>11, <1>12, <1>13, <1>14, <1>15
     DEF Next, Own

\* A shape has no member twice.
LEMMA MemberOnce ==
    ASSUME NEW s \in Shapes, NEW i \in DOMAIN s, NEW j \in DOMAIN s, s[i] = s[j], s[i] \in Members
    PROVE  i = j
<1> DEFINE at == {k \in DOMAIN s : s[k] = s[i]}
<1>1. Cardinality(at) <= 1
  BY ShapesAssumption
<1>2. IsFiniteSet(at) /\ Cardinality(at) \in Nat
  <2>1. s \in Seq(Members \cup {Leader})
    BY ShapesAssumption
  <2>2. Len(s) \in Nat /\ DOMAIN s = 1..Len(s)
    BY <2>1, LenProperties
  <2>3. IsFiniteSet(DOMAIN s)
    BY <2>2, FS_Interval
  <2> QED
    BY <2>3, FS_Subset, FS_CardinalityType
<1>3. i \in at /\ j \in at
  OBVIOUS
<1> HIDE DEF at
<1>4. Cardinality(at) # 0
  BY <1>2, <1>3, FS_EmptySet
<1>5. Cardinality(at) = 1
  BY <1>1, <1>2, <1>4
<1>6. PICK x : at = {x}
  BY <1>2, <1>5, FS_Singleton
<1> QED
  BY <1>3, <1>6

LEMMA ToBuildStep == TypeOK /\ Control /\ Connected /\ ToBuild /\ [Next]_vars => ToBuild'
<1> SUFFICES ASSUME TypeOK, Control, Connected, ToBuild, [Next]_vars
             PROVE  ToBuild'
  OBVIOUS
<1>1. ASSUME UNCHANGED <<todo, collectors, proposed>>, pc' \notin {"connect", "build"}
      PROVE  ToBuild'
  BY <1>1 DEF ToBuild
<1> USE DEF Go, Yield
<1>2. ASSUME NEW s \in Shapes, NEW streamed \in BOOLEAN, Start(s, streamed)
      PROVE  ToBuild'
  <2>1. todo' = s /\ collectors' = <<>> /\ proposed' = <<>>
    BY <1>2 DEF Start
  <2>2. \A i, j \in DOMAIN s : s[i] = s[j] /\ s[i] \in Members => i = j
    BY MemberOnce
  <2>3. DOMAIN collectors' = {}
    BY <2>1
  <2> QED
    BY <2>1, <2>2, <2>3 DEF ToBuild
<1>3. CASE __aenter__
  BY <1>3 DEF __aenter__, ToBuild
<1>4. CASE _build_agno_agent
  <2> DEFINE A == Members \cup {Leader}
  <2>1. todo \in Seq(A) /\ todo # <<>> /\ todo' = Tail(todo) /\ proposed' = proposed
    BY <1>4 DEF _build_agno_agent, Connected, TypeOK
  <2>2. /\ Tail(todo) \in Seq(A) /\ Len(Tail(todo)) = Len(todo) - 1 /\ Len(todo) \in Nat \ {0}
        /\ \A i \in 1..Len(Tail(todo)) : Tail(todo)[i] = todo[i + 1]
        /\ Head(todo) = todo[1] /\ Head(todo) \in A
    BY <2>1, HeadTailProperties, EmptySeq
  <2>3. DOMAIN todo = 1..Len(todo) /\ DOMAIN todo' = 1..Len(todo) - 1
    BY <2>1, <2>2, LenProperties
  <2>4. \A i \in DOMAIN todo' : todo'[i] = todo[i + 1] /\ i + 1 \in DOMAIN todo /\ i + 1 # 1
    BY <2>1, <2>2, <2>3
  <2>5. 1 \in DOMAIN todo
    BY <2>2, <2>3
  <2>6. \A i, j \in DOMAIN todo' : todo'[i] = todo'[j] /\ todo'[i] \in Members => i = j
    <3>1. ASSUME NEW i \in DOMAIN todo', NEW j \in DOMAIN todo', todo'[i] = todo'[j], todo'[i] \in Members
          PROVE  i = j
      <4>1. i + 1 = j + 1
        BY <2>4, <3>1 DEF ToBuild
      <4> QED
        BY <2>2, <2>3, <4>1
    <3> QED
      BY <3>1
  <2>7. \A i \in DOMAIN collectors, j \in DOMAIN todo' : collectors[i].of # todo'[j]
    BY <2>4 DEF ToBuild
  <2>8. \A i \in DOMAIN collectors', j \in DOMAIN todo' : collectors'[i].of # todo'[j]
    <3>1. CASE collectors' = collectors
      BY <2>7, <3>1
    <3>2. CASE /\ Head(todo) # Leader
               /\ collectors' = Append(collectors, [of |-> Head(todo), actions |-> <<>>])
      <4> DEFINE c == [of |-> Head(todo), actions |-> <<>>]
      <4>1. c \in Collectors /\ c.of = todo[1]
        BY <2>2, <3>2, EmptySeq DEF Collectors
      <4>2. collectors \in Seq(Collectors)
        BY DEF TypeOK, Collectors
      <4> HIDE DEF c
      <4>3. /\ collectors' \in Seq(Collectors) /\ Len(collectors') = Len(collectors) + 1
            /\ collectors'[Len(collectors) + 1] = c /\ Len(collectors) \in Nat
            /\ \A i \in 1..Len(collectors) : collectors'[i] = collectors[i]
        BY <3>2, <4>1, <4>2, AppendProperties, LenProperties DEF c
      <4>4. DOMAIN collectors = 1..Len(collectors) /\ DOMAIN collectors' = 1..Len(collectors')
        BY <4>2, <4>3, LenProperties
      <4>5. \A i \in DOMAIN collectors' :
              \/ i \in DOMAIN collectors /\ collectors'[i] = collectors[i]
              \/ collectors'[i] = c
        BY <4>3, <4>4
      <4>6. \A j \in DOMAIN todo' : todo[1] # todo'[j]
        <5>1. todo[1] \in Members
          BY <2>2, <3>2
        <5> QED
          BY <2>4, <2>5, <5>1 DEF ToBuild
      <4> QED
        BY <2>7, <4>1, <4>5, <4>6
    <3> QED
      BY <1>4, <3>1, <3>2 DEF _build_agno_agent
  <2>9. proposed' = <<>>
    BY <1>4, <2>1 DEF _build_agno_agent, ToBuild
  <2> QED
    BY <2>6, <2>8, <2>9 DEF ToBuild
<1>5. CASE Catch \/ Reraise
  BY <1>1, <1>5 DEF Catch, Reraise
<1>6. CASE __aexit__
  BY <1>1, <1>6 DEF __aexit__
<1>7. CASE Unwound \/ Resume
  BY <1>1, <1>7 DEF Unwound, Resume, Control
<1>8. CASE Metrics
  BY <1>1, <1>8 DEF Metrics
<1>9. CASE Plan
  BY <1>1, <1>9 DEF Plan
<1>10. CASE Return \/ Finalize \/ Gone
  BY <1>1, <1>10 DEF Return, Finalize, Gone
<1>11. ASSUME NEW i \in DOMAIN collectors, propose_ui_action(i)
       PROVE  ToBuild'
  <2>1. pc' = "run" /\ todo' = todo
    BY <1>11 DEF propose_ui_action
  <2>2. /\ collectors \in Seq(Collectors) /\ collectors' \in Seq(Collectors)
        /\ Len(collectors') = Len(collectors)
        /\ \A j \in DOMAIN collectors : j # i => collectors'[j] = collectors[j]
        /\ collectors'[i].of = collectors[i].of
    BY <1>11, ProposedType DEF TypeOK, Collectors
  <2>3. DOMAIN collectors' = DOMAIN collectors
    BY <2>2, LenProperties
  <2>4. \A j \in DOMAIN collectors : collectors'[j].of = collectors[j].of
    BY <2>2
  <2> QED
    BY <2>1, <2>3, <2>4 DEF ToBuild
<1>12. CASE Event \/ Ends
  BY <1>1, <1>12 DEF Event, Ends
<1>13. CASE Raise
  BY <1>1, <1>13 DEF Raise
<1>14. CASE Close \/ Abandon \/ Cancel
  BY <1>1, <1>14 DEF Close, Abandon, Cancel
<1>15. CASE UNCHANGED vars
  BY <1>15 DEF vars, ToBuild
<1> QED
  BY <1>2, <1>3, <1>4, <1>5, <1>6, <1>7, <1>8, <1>9, <1>10, <1>11, <1>12, <1>13, <1>14, <1>15
     DEF Next, Own

-----------------------------------------------------------------------------
(* The plan *)

\* A step that proposes nothing and makes no plan keeps the one there is.
LEMMA PlanStays ==
    ASSUME Planned, UNCHANGED <<collectors, proposed, plan>>,
           plan # NoPlan => Next_step' \in {"return", "over", "gone", "dropped"},
           Next_step' = "return" => plan # NoPlan,
           Next_step' \notin {"over", "gone", "dropped"} => outcome' = "none",
           outcome' # outcome => \/ outcome' = "returned" /\ plan # NoPlan
                                 \/ outcome' \in {"raised", "cancelled"} /\ plan = NoPlan
                                 \/ outcome' \in {"none", "abandoned"}
    PROVE  Planned'
<1>1. PlanIsOfThisRun'
  BY DEF Planned, PlanIsOfThisRun
<1>2. Gathered(collectors, proposed)'
  BY DEF Planned
<1> QED
  BY <1>1, <1>2 DEF Planned

LEMMA PlannedStep == TypeOK /\ Control /\ Connected /\ ToBuild /\ Planned /\ [Next]_vars => Planned'
<1> SUFFICES ASSUME TypeOK, Control, Connected, ToBuild, Planned, [Next]_vars
             PROVE  Planned'
  OBVIOUS
<1>1. /\ plan # NoPlan => Next_step \in {"return", "over", "gone", "dropped"}
      /\ Next_step = "return" => plan # NoPlan
      /\ Next_step \notin {"over", "gone", "dropped"} => outcome = "none"
      /\ Gathered(collectors, proposed) /\ collectors \in Seq(Collectors) /\ proposed \in Seq(Actions)
      /\ outcome = "returned" => plan # NoPlan
      /\ outcome \in {"raised", "cancelled"} => plan = NoPlan
  BY DEF Planned, PlanIsOfThisRun, TypeOK, Collectors
<1> USE DEF Go, Yield, Next_step
<1>2. ASSUME NEW s \in Shapes, NEW streamed \in BOOLEAN, Start(s, streamed)
      PROVE  Planned'
  <2>1. collectors' = <<>> /\ proposed' = <<>> /\ plan' = NoPlan /\ outcome' = "none" /\ pc' = "connect"
    BY <1>2 DEF Start
  <2>2. Gathered(collectors, proposed)'
    BY <2>1, NothingGathered
  <2> QED
    BY <2>1, <2>2 DEF Planned, PlanIsOfThisRun
<1>3. CASE __aenter__
  BY <1>1, <1>3, PlanStays DEF __aenter__
<1>4. CASE _build_agno_agent
  <2>1. /\ pc = "build" /\ pc' \in {"run", "connect"} /\ proposed = <<>> /\ plan = NoPlan
        /\ UNCHANGED <<plan, outcome, proposed>> /\ outcome = "none" /\ todo # <<>>
    BY <1>1, <1>4 DEF _build_agno_agent, ToBuild, Connected
  <2>2. Gathered(collectors, proposed)'
    <3>1. CASE collectors' = collectors
      BY <1>1, <2>1, <3>1
    <3>2. CASE /\ Head(todo) # Leader
               /\ collectors' = Append(collectors, [of |-> Head(todo), actions |-> <<>>])
      <4> DEFINE A == Members \cup {Leader}
                 m == Head(todo)
                 c == [of |-> m, actions |-> proposed]
      <4>1. m \in Members /\ m = todo[1] /\ 1 \in DOMAIN todo
        <5>1. todo \in Seq(A)
          BY DEF TypeOK
        <5>2. Len(todo) \in Nat \ {0} /\ Head(todo) = todo[1] /\ Head(todo) \in A
          BY <2>1, <5>1, HeadTailProperties, EmptySeq
        <5>3. DOMAIN todo = 1..Len(todo)
          BY <5>1, LenProperties
        <5> QED
          BY <3>2, <5>2, <5>3
      <4>2. \A i \in DOMAIN collectors : collectors[i].of # m
        BY <4>1 DEF ToBuild
      <4>3. collectors' = Append(collectors, c)
        BY <2>1, <3>2
      <4>4. c = [of |-> m, actions |-> proposed]
        OBVIOUS
      <4> HIDE DEF m, c
      <4>5. Gathered(Append(collectors, c), proposed)
        BY <1>1, <2>1, <4>1, <4>2, <4>4, OneMoreCollector
      <4> QED
        BY <2>1, <4>3, <4>5
    <3> QED
      BY <1>4, <3>1, <3>2 DEF _build_agno_agent
  <2> QED
    BY <2>1, <2>2 DEF Planned, PlanIsOfThisRun
<1>5. CASE Catch
  BY <1>1, <1>5, PlanStays DEF Catch
<1>6. CASE Reraise
  BY <1>1, <1>6, PlanStays DEF Reraise
<1>7. CASE __aexit__
  BY <1>1, <1>7, PlanStays DEF __aexit__
<1>8. CASE Unwound \/ Resume
  BY <1>1, <1>8, PlanStays DEF Unwound, Resume, Control
<1>9. CASE Metrics
  BY <1>1, <1>9, PlanStays DEF Metrics
<1>10. CASE Plan
  <2>1. /\ plan' = _aggregate_ui_action_plan /\ collectors' = collectors /\ proposed' = proposed
        /\ Next_step' = "return" /\ outcome' = "none"
    BY <1>1, <1>10 DEF Plan
  <2>2. /\ plan' \in Seq(Actions) /\ Len(plan') = Len(proposed)
        /\ \A m \in Members : OnlyOf(plan', By(m)) = OnlyOf(proposed, By(m))
    BY <1>1, <2>1, AggregateIs, PlanHolds
  <2>3. PlanIsOfThisRun' /\ plan' # NoPlan
    BY <2>1, <2>2, PlanAssumption DEF PlanIsOfThisRun
  <2>4. Gathered(collectors, proposed)'
    BY <1>1, <2>1
  <2> HIDE DEF Next_step
  <2> QED
    BY <2>1, <2>3, <2>4 DEF Planned
<1>11. CASE Return
  BY <1>1, <1>11, PlanStays DEF Return
<1>12. CASE Finalize \/ Gone
  BY <1>1, <1>12, PlanStays DEF Finalize, Gone, Control
<1>13. ASSUME NEW i \in DOMAIN collectors, propose_ui_action(i)
       PROVE  Planned'
  <2> DEFINE a == [by |-> collectors[i].of, executionOrder |-> Len(collectors[i].actions)]
  <2>1. /\ pc = "run" /\ pc' = pc /\ UNCHANGED <<plan, outcome>> /\ Len(proposed) < MaxActions
        /\ plan = NoPlan /\ outcome = "none"
    BY <1>1, <1>13 DEF propose_ui_action
  <2>2. /\ proposed' = Append(proposed, a)
        /\ collectors' \in Seq(Collectors) /\ Len(collectors') = Len(collectors)
        /\ \A j \in DOMAIN collectors : j # i => collectors'[j] = collectors[j]
        /\ collectors'[i].of = collectors[i].of
        /\ collectors'[i].actions = Append(collectors[i].actions, a)
    BY <1>13, ProposedType
  <2>3. a = [by |-> collectors[i].of, executionOrder |-> Len(collectors[i].actions)]
    OBVIOUS
  <2> HIDE DEF a
  <2>4. Gathered(collectors', Append(proposed, a))
    BY <1>1, <1>13, <2>1, <2>2, <2>3, OneMoreAction
  <2> QED
    BY <2>1, <2>2, <2>4 DEF Planned, PlanIsOfThisRun
<1>14. CASE Event \/ Ends
  BY <1>1, <1>14, PlanStays DEF Event, Ends
<1>15. CASE Raise
  BY <1>1, <1>15, PlanStays DEF Raise
<1>16. CASE Close \/ Abandon
  BY <1>1, <1>16, PlanStays DEF Close, Abandon
<1>17. CASE Cancel
  <2>1. Next_step \notin {"return", "over", "gone", "dropped"}
    BY <1>17 DEF Cancel, Control
  <2>2. /\ UNCHANGED <<collectors, proposed, plan>> /\ plan = NoPlan
        /\ Next_step' = "gone" /\ outcome' = "cancelled"
    BY <1>1, <1>17, <2>1 DEF Cancel
  <2> QED
    BY <2>2, PlanStays
<1>18. CASE UNCHANGED vars
  BY <1>1, <1>18, PlanStays DEF vars
<1> QED
  BY <1>2, <1>3, <1>4, <1>5, <1>6, <1>7, <1>8, <1>9, <1>10, <1>11, <1>12, <1>13, <1>14, <1>15, <1>16,
     <1>17, <1>18 DEF Next, Own

-----------------------------------------------------------------------------
(* Theorems *)

\* The inductive invariant: where the run stands, its sessions and its events, the
\* members it still has to build and the actions its collectors hold.
THEOREM InvHolds == Spec => []Inv
<1>1. Init => Inv
  <2> SUFFICES ASSUME Init
               PROVE  Inv
    OBVIOUS
  <2>1. /\ events \in Seq({"event", "error", "metrics", "plan"}) /\ Len(events) = 0
        /\ DOMAIN events = 1..0 /\ DOMAIN todo = {} /\ DOMAIN collectors = {}
    BY EmptySeq DEF Init
  <2>2. Said
    BY <2>1 DEF Init, Said, Quiet, StreamEndsOnce, Next_step
  <2>3. Control /\ Sessions
    BY DEF Init, Control, Sessions, NothingLeftOpen, Next_step, PC
  <2>4. TypeOK
    <3>1. /\ 0 \in 0..MaxRuns
          /\ todo \in Seq(Members \cup {Leader}) /\ stack \in Seq(Members)
          /\ collectors \in Seq([of: Members, actions: Seq(Actions)]) /\ proposed \in Seq(Actions)
      BY EmptySeq, ShapesAssumption DEF Init
    <3> QED
      BY <2>1, <3>1 DEF Init, TypeOK, PC
  <2>5. Connected /\ ToBuild
    BY <2>1 DEF Init, Connected, ToBuild, Next_step
  <2>6. Planned
    BY NothingGathered DEF Init, Planned, PlanIsOfThisRun, Next_step
  <2> QED
    BY <2>2, <2>3, <2>4, <2>5, <2>6 DEF Inv
<1>2. Inv /\ [Next]_vars => Inv'
  BY ControlStep, SessionsStep, SaidStep, TypeStep, ConnectedStep, ToBuildStep, PlannedStep DEF Inv
<1> QED
  BY <1>1, <1>2, PTL DEF Spec

\* Every variable keeps its type; the plan of a run is a sequence of its actions.
THEOREM TypeCorrect == Spec => []TypeOK
<1>1. Inv => TypeOK
  BY DEF Inv
<1> QED
  BY <1>1, InvHolds, PTL

\* However a run ends (returned, raised, cancelled, closed or dropped and closed
\* later), its exit stack has closed every session, for any number of members.
THEOREM NoSessionLeft == Spec => []NothingLeftOpen
<1>1. Inv => NothingLeftOpen
  BY DEF Inv, Sessions
<1> QED
  BY <1>1, InvHolds, PTL

\* Agno runs with the sessions of all members open, in their order, and no session
\* is open when the run is over, for any shapes.
THEOREM SessionsFollow == Spec => []SessionsFollowTheRun
<1>1. Inv => SessionsFollowTheRun
  BY DEF Inv, Sessions, Connected, SessionsFollowTheRun, Next_step
<1> QED
  BY <1>1, InvHolds, PTL

\* The plan of a run has every action that was proposed in it once, those of a
\* member in the order it proposed them, for any number of members and actions.
THEOREM PlanIsComplete == Spec => []PlanIsOfThisRun
<1>1. Inv => PlanIsOfThisRun
  BY DEF Inv, Planned
<1> QED
  BY <1>1, InvHolds, PTL

\* A stream that raises has announced it in its last event and told no usage and no
\* plan, one that returns has told its plan, and nothing Agno says comes after them,
\* its own error events included, for any number of events and members.
THEOREM StreamEnds == Spec => []StreamEndsOnce
<1>1. Inv => StreamEndsOnce
  BY DEF Inv, Said
<1> QED
  BY <1>1, InvHolds, PTL
=============================================================================
