------------------------ MODULE QuotaCounters_proofs ------------------------
(***************************************************************************)
(* The overshoot of a limit, and that usage is charged once, for any       *)
(* policies, callers, turns and usage.                                     *)
(*                                                                         *)
(* Every turn in flight is counted against a limit as if it were going to  *)
(* use MaxUsage, from the moment its admission cannot stop it any more     *)
(* (Pending): the counter and all of this together stay within the bound.  *)
(*                                                                         *)
(* What is charged and what is still outstanding are sums over finite      *)
(* sets, whose laws are proved by induction on these sets.                 *)
(***************************************************************************)
EXTENDS QuotaCounters, FiniteSetTheorems, TLAPS

\* The turn may still increase the counter of p for period b without another
\* look at it: it has the increment before it, or was let through, or is being
\* checked against something other than the present counter and limit.
MayCharge(t, p, b) ==
    \/ turn[t].pc = "counting" /\ p \in turn[t].owes /\ Key(t, p) = b
    \/ /\ b = period[Clock[p]]
       /\ Applies(turn[t].caller, p)
       /\ \/ turn[t].pc \in {"running", "recording", "selecting"}
          \/ /\ turn[t].pc = "checking"
             /\ ~ /\ p \in turn[t].owes
                  /\ Key(t, p) = b
                  /\ turn[t].limit[p] <= Ceiling(p, b)

Pending(p, b) == {t \in Turns : MayCharge(t, p, b)}

Within(c, pending, ceiling) ==
    c + MaxUsage * Cardinality(pending) < ceiling + MaxUsage * Cardinality(Turns)

PendingFits ==
    \A p \in Policies, b \in Periods : Within(counter[p][b], Pending(p, b), Ceiling(p, b))

\* Nothing is charged to a period that has not begun.
FutureIsEmpty ==
    /\ \A p \in Policies, b \in Periods : b > period[Clock[p]] => counter[p][b] = 0
    /\ \A t \in Turns, k \in Clocks : turn[t].now[k] <= period[k]

Inv == TypeOK /\ FutureIsEmpty /\ PendingFits

-----------------------------------------------------------------------------
(* Counting *)

\* Cardinalities of sets of turns are numbers, and ordered.
LEMMA TurnSets ==
    ASSUME NEW big \in SUBSET Turns, NEW small \in SUBSET big
    PROVE  /\ Cardinality(big) \in Nat /\ Cardinality(small) \in Nat
           /\ Cardinality(small) <= Cardinality(big)
           /\ Cardinality(big) <= Cardinality(Turns) /\ Cardinality(Turns) \in Nat
<1>1. IsFiniteSet(Turns)
  BY PolicyAssumption
<1>2. IsFiniteSet(big) /\ Cardinality(big) <= Cardinality(Turns)
  BY <1>1, FS_Subset
<1>3. IsFiniteSet(small) /\ Cardinality(small) <= Cardinality(big)
  BY <1>2, FS_Subset
<1> QED
  BY <1>1, <1>2, <1>3, FS_CardinalityType

\* Products with MaxUsage are numbers and keep the order; one factor more is
\* one MaxUsage more.
LEMMA Products ==
    ASSUME NEW m \in Nat, NEW n \in Nat, m <= n
    PROVE  /\ MaxUsage * m \in Nat /\ MaxUsage * n \in Nat
           /\ MaxUsage * m <= MaxUsage * n
           /\ MaxUsage * (m + 1) = MaxUsage * m + MaxUsage
<1>1. MaxUsage \in Nat
  BY UsageAssumption
<1> QED
  BY <1>1

\* The bound does not suffer when turns stop being pending or the ceiling rises.
LEMMA Shrinks ==
    ASSUME NEW big \in SUBSET Turns, NEW small \in SUBSET big,
           NEW c \in Nat, NEW low \in Nat, NEW high \in Nat, low <= high,
           Within(c, big, low)
    PROVE  Within(c, small, high)
<1>1. MaxUsage * Cardinality(small) <= MaxUsage * Cardinality(big)
      /\ MaxUsage * Cardinality(small) \in Nat /\ MaxUsage * Cardinality(big) \in Nat
      /\ MaxUsage * Cardinality(Turns) \in Nat
  BY TurnSets, Products
<1> QED
  BY <1>1 DEF Within

\* A counter below its ceiling leaves room for every turn there is.
LEMMA Below ==
    ASSUME NEW pending \in SUBSET Turns, NEW c \in Nat, NEW ceiling \in Nat, c < ceiling
    PROVE  Within(c, pending, ceiling)
<1>1. MaxUsage * Cardinality(pending) <= MaxUsage * Cardinality(Turns)
      /\ MaxUsage * Cardinality(pending) \in Nat /\ MaxUsage * Cardinality(Turns) \in Nat
  BY TurnSets, Products
<1> QED
  BY <1>1 DEF Within

\* A turn that increases a counter gives up the MaxUsage kept for it.
LEMMA Charges ==
    ASSUME NEW pending \in SUBSET Turns, NEW t \in pending,
           NEW rest \in SUBSET (pending \ {t}),
           NEW c \in Nat, NEW n \in 0..MaxUsage, NEW ceiling \in Nat,
           Within(c, pending, ceiling)
    PROVE  Within(c + n, rest, ceiling)
<1>1. IsFiniteSet(pending)
  BY PolicyAssumption, FS_Subset
<1>2. Cardinality(pending \ {t}) = Cardinality(pending) - 1
  BY <1>1, FS_RemoveElement
<1>3. /\ Cardinality(pending) \in Nat /\ Cardinality(pending \ {t}) \in Nat
      /\ Cardinality(rest) \in Nat /\ Cardinality(Turns) \in Nat
      /\ Cardinality(rest) <= Cardinality(pending \ {t})
  BY TurnSets
<1>4. MaxUsage * Cardinality(pending) = MaxUsage * Cardinality(pending \ {t}) + MaxUsage
  <2>1. Cardinality(pending) = Cardinality(pending \ {t}) + 1
    BY <1>2, <1>3
  <2> QED
    BY <1>3, <2>1, Products
<1>5. /\ MaxUsage * Cardinality(rest) <= MaxUsage * Cardinality(pending \ {t})
      /\ MaxUsage * Cardinality(rest) \in Nat
      /\ MaxUsage * Cardinality(pending \ {t}) \in Nat
      /\ MaxUsage * Cardinality(Turns) \in Nat
  BY <1>3, Products
<1> QED
  BY <1>4, <1>5, UsageAssumption DEF Within

-----------------------------------------------------------------------------
(* Values *)

\* Every ceiling is a positive number.
LEMMA CeilingType ==
    ASSUME TypeOK, NEW p \in Policies, NEW b \in Periods
    PROVE  Ceiling(p, b) \in Nat /\ floor[p][b] < Ceiling(p, b)
           /\ policy[p].limit <= Ceiling(p, b)
<1>1. policy[p] \in QuotaPolicy
  BY DEF TypeOK
<1>2. policy[p].limit \in Nat
  <2>1. policy[p].limit \in Limits \cup {0}
    BY <1>1 DEF QuotaPolicy
  <2>2. Limits \cup {0} \subseteq Nat
    BY PolicyAssumption
  <2> QED
    BY <2>1, <2>2, Zenon
<1>3. floor[p][b] \in Nat
  <2>1. floor[p] \in [Periods -> Nat]
    BY DEF TypeOK
  <2> QED
    BY <2>1
<1> QED
  BY <1>2, <1>3 DEF Ceiling

\* The state a turn is in when there is none.
LEMMA IdleType == Idle \in LocalState
<1>1. (CHOOSE c \in Callers : TRUE) \in Callers
  BY PolicyAssumption
<1>2. 0 \in Periods /\ NoUsage \in [Slots -> 0..MaxUsage]
  BY UsageAssumption DEF Periods, NoUsage
<1> QED
  BY <1>1, <1>2 DEF Idle, LocalState, Usage

\* While the policies stay, the same ones apply to everybody.
LEMMA SamePolicies ==
    ASSUME UNCHANGED policy, NEW c, NEW p
    PROVE  Applies(c, p)' <=> Applies(c, p)
<1>1. Best(c, Slot[p])' = Best(c, Slot[p])
  BY DEF Best, Matches, Beats
<1> QED
  BY <1>1 DEF Applies

-----------------------------------------------------------------------------
(* Steps of one turn *)

\* A turn that changes its own state, and no policy, period, floor or counter,
\* keeps the invariant if it becomes pending only where the counter is below
\* the ceiling.
LEMMA TurnKeeps ==
    ASSUME Inv, TypeOK', NEW t \in Turns, NEW state \in LocalState,
           Becomes(t, state), UNCHANGED <<counter, policy, period, floor>>,
           \A k \in Clocks : state.now[k] <= period[k],
           \A p \in Policies, b \in Periods :
              MayCharge(t, p, b)' => MayCharge(t, p, b) \/ counter[p][b] < Ceiling(p, b)
    PROVE  Inv'
<1>1. turn' = [turn EXCEPT ![t] = state] /\ turn \in [Turns -> LocalState]
  BY DEF Inv, TypeOK, Becomes
<1>2. FutureIsEmpty'
  BY <1>1 DEF Inv, FutureIsEmpty
<1>3. ASSUME NEW p \in Policies, NEW b \in Periods
      PROVE  Within(counter[p][b], Pending(p, b), Ceiling(p, b))'
  <2>1. Ceiling(p, b)' = Ceiling(p, b) /\ counter[p][b]' = counter[p][b]
    BY DEF Ceiling
  <2>2. ASSUME NEW u \in Turns \ {t}
        PROVE  MayCharge(u, p, b)' <=> MayCharge(u, p, b)
    <3>1. turn'[u] = turn[u]
      BY <1>1
    <3>2. Applies(turn[u].caller, p)' <=> Applies(turn[u].caller, p)
      BY <3>1, SamePolicies
    <3> QED
      BY <2>1, <3>1, <3>2 DEF MayCharge, Key
  <2>3. /\ counter[p][b] \in Nat /\ Ceiling(p, b) \in Nat
        /\ Pending(p, b) \in SUBSET Turns /\ Pending(p, b)' \in SUBSET Turns
        /\ Within(counter[p][b], Pending(p, b), Ceiling(p, b))
    <3>1. counter[p] \in [Periods -> Nat]
      BY DEF Inv, TypeOK
    <3> QED
      BY <3>1, CeilingType DEF Inv, PendingFits, Pending
  <2>4. CASE counter[p][b] < Ceiling(p, b)
    <3>1. Within(counter[p][b], Pending(p, b)', Ceiling(p, b))
      BY <2>3, <2>4, Below
    <3> QED
      BY <2>1, <3>1 DEF Within
  <2>5. CASE ~(counter[p][b] < Ceiling(p, b))
    <3>1. Pending(p, b)' \in SUBSET Pending(p, b)
      BY <2>2, <2>5 DEF Pending
    <3>2. Within(counter[p][b], Pending(p, b)', Ceiling(p, b))
      <4>1. Ceiling(p, b) <= Ceiling(p, b)
        BY <2>3
      <4> QED
        BY <2>3, <3>1, <4>1, Shrinks
    <3> QED
      BY <2>1, <3>2 DEF Within
  <2> QED
    BY <2>4, <2>5
<1> QED
  BY <1>2, <1>3 DEF Inv, PendingFits

\* TypeOK survives a turn's change of its own state when the counters stay.
LEMMA TurnTypes ==
    ASSUME TypeOK, NEW t \in Turns, NEW state \in LocalState, Becomes(t, state),
           UNCHANGED <<counter, policy, period, floor, edits>>,
           rows' \in [Slots -> Nat], unwritten' \in [Slots -> Nat], calls' \in Nat, faults' \in Nat
    PROVE  TypeOK'
<1>1. turn' \in [Turns -> LocalState]
  BY DEF TypeOK, Becomes
<1> QED
  BY <1>1 DEF TypeOK

\* The local state of a turn, field by field.
LEMMA Fields ==
    ASSUME TypeOK, NEW t \in Turns
    PROVE  /\ turn[t] \in LocalState
           /\ turn[t].caller \in Callers /\ turn[t].owes \subseteq Policies
           /\ turn[t].limit \in [Policies -> Nat] /\ turn[t].now \in [Clocks -> Periods]
           /\ turn[t].used \in [Slots -> 0..MaxUsage]
<1>1. turn[t] \in LocalState
  BY DEF TypeOK
<1> QED
  BY <1>1 DEF LocalState, Usage

\* Ending a turn, wherever it was, keeps the invariant.
LEMMA BecomesIdle ==
    ASSUME Inv, NEW t \in Turns, Becomes(t, Idle),
           UNCHANGED <<counter, policy, period, floor, edits>>,
           rows' \in [Slots -> Nat], unwritten' \in [Slots -> Nat], calls' \in Nat, faults' \in Nat
    PROVE  Inv'
<1>1. TypeOK'
  BY IdleType, TurnTypes DEF Inv
<1>2. turn'[t] = Idle
  BY DEF Becomes, Inv, TypeOK
<1>3. \A p \in Policies, b \in Periods : ~MayCharge(t, p, b)'
  BY <1>2 DEF MayCharge, Idle
<1>4. \A k \in Clocks : Idle.now[k] <= period[k]
  <2>1. \A k \in Clocks : period[k] \in Nat
    BY DEF Inv, TypeOK, Periods
  <2> QED
    BY <2>1 DEF Idle
<1> QED
  BY <1>1, <1>3, <1>4, IdleType, TurnKeeps

\* A new turn has all its checks before it.
LEMMA SelectPoliciesInv ==
    ASSUME Inv, NEW t \in Turns, SelectPolicies(t)
    PROVE  Inv'
<1>1. PICK c \in Callers :
        Becomes(t, [pc |-> "checking", caller |-> c, owes |-> effective_policies(c),
                    limit |-> [p \in Policies |-> policy[p].limit], now |-> period,
                    used |-> NoUsage])
  BY DEF SelectPolicies
<1> DEFINE state == [pc |-> "checking", caller |-> c, owes |-> effective_policies(c),
                     limit |-> [p \in Policies |-> policy[p].limit], now |-> period,
                     used |-> NoUsage]
<1>2. state \in LocalState
  <2>1. \A p \in Policies : policy[p].limit \in Nat
    <3>1. \A p \in Policies : policy[p].limit \in Limits \cup {0}
      BY DEF Inv, TypeOK, QuotaPolicy
    <3>2. Limits \cup {0} \subseteq Nat
      BY PolicyAssumption
    <3> QED
      BY <3>1, <3>2, Zenon
  <2>2. effective_policies(c) \subseteq Policies
    BY DEF effective_policies
  <2>3. NoUsage \in [Slots -> 0..MaxUsage] /\ period \in [Clocks -> Periods]
    BY UsageAssumption DEF Inv, TypeOK, NoUsage
  <2> QED
    BY <2>1, <2>2, <2>3 DEF LocalState, Usage
<1>3. TypeOK'
  <2>1. calls' \in Nat
    BY DEF SelectPolicies, Inv, TypeOK
  <2>2. UNCHANGED <<counter, policy, period, floor, edits>>
        /\ rows' \in [Slots -> Nat] /\ unwritten' \in [Slots -> Nat] /\ faults' \in Nat
    BY DEF SelectPolicies, others, Inv, TypeOK
  <2> QED
    BY <1>1, <1>2, <2>1, <2>2, TurnTypes DEF Inv
<1>4. turn'[t] = state
  BY <1>1 DEF Becomes, Inv, TypeOK
<1>5. ASSUME NEW p \in Policies, NEW b \in Periods
      PROVE  ~MayCharge(t, p, b)'
  <2>1. UNCHANGED <<counter, policy, period, floor>>
    BY DEF SelectPolicies, others
  <2>2. turn'[t].pc = "checking" /\ turn'[t].caller = c /\ turn'[t].now = period
        /\ turn'[t].owes = effective_policies(c) /\ turn'[t].limit[p] = policy[p].limit
    BY <1>4
  <2>3. Applies(turn[t].caller, p)' <=> Applies(c, p)
    BY <2>1, <2>2, SamePolicies
  <2>4. Applies(c, p) => p \in effective_policies(c)
    BY DEF effective_policies
  <2>5. policy[p].limit <= Ceiling(p, b) /\ Ceiling(p, b)' = Ceiling(p, b)
    BY <2>1, CeilingType DEF Inv, Ceiling
  <2> QED
    BY <2>1, <2>2, <2>3, <2>4, <2>5 DEF MayCharge, Key
<1>6. \A k \in Clocks : state.now[k] <= period[k]
  BY DEF Inv, TypeOK, Periods
<1>7. UNCHANGED <<counter, policy, period, floor>>
  BY DEF SelectPolicies, others
<1> QED
  BY <1>1, <1>2, <1>3, <1>5, <1>6, <1>7, TurnKeeps

\* A turn that passes a check found the counter below the limit it knows.
LEMMA CheckCounterInv ==
    ASSUME Inv, NEW t \in Turns, NEW q \in Policies, CheckCounter(t, q)
    PROVE  Inv'
<1>1. UNCHANGED <<counter, policy, period, floor, edits>>
      /\ rows' \in [Slots -> Nat] /\ unwritten' \in [Slots -> Nat] /\ calls' \in Nat /\ faults' \in Nat
  BY DEF CheckCounter, others, Inv, TypeOK
<1>2. PICK current \in Reads(t, q) :
        Becomes(t, IF current < turn[t].limit[q]
                   THEN [turn[t] EXCEPT !.owes = @ \ {q}] ELSE Idle)
  BY DEF CheckCounter
<1>3. turn[t].pc = "checking"
  BY DEF CheckCounter
<1>4. CASE ~(current < turn[t].limit[q])
  BY <1>1, <1>4, <1>2, BecomesIdle
<1>5. CASE current < turn[t].limit[q]
  <2> DEFINE state == [turn[t] EXCEPT !.owes = @ \ {q}]
  <2>1. Becomes(t, state) /\ turn[t].pc = "checking"
    BY <1>5, <1>2, <1>3
  <2>2. state \in LocalState
    BY Fields DEF LocalState, Usage, Inv
  <2>3. TypeOK'
    BY <1>1, <2>1, <2>2, TurnTypes DEF Inv
  <2>4. turn'[t] = state
    BY <2>1 DEF Becomes, Inv, TypeOK
  <2>5. /\ state.pc = "checking" /\ state.caller = turn[t].caller
        /\ state.now = turn[t].now /\ state.limit = turn[t].limit
        /\ state.owes = turn[t].owes \ {q}
    BY <2>1, Fields DEF LocalState, Usage, Inv
  <2>6. ASSUME NEW p \in Policies, NEW b \in Periods, MayCharge(t, p, b)'
        PROVE  MayCharge(t, p, b) \/ counter[p][b] < Ceiling(p, b)
    <3>1. Applies(turn[t].caller, p)' <=> Applies(turn[t].caller, p)
      BY <1>1, <2>4, <2>5, SamePolicies
    <3>2. Ceiling(p, b)' = Ceiling(p, b)
      BY <1>1 DEF Ceiling
    <3>3. CASE p # q
      BY <1>1, <2>1, <2>4, <2>5, <2>6, <3>1, <3>2, <3>3 DEF MayCharge, Key
    <3>4. CASE p = q
      <4>1. b = period[Clock[p]] /\ Applies(turn[t].caller, p)
        BY <1>1, <2>4, <2>5, <2>6, <3>1 DEF MayCharge
      <4>2. CASE p \in turn[t].owes /\ Key(t, p) = b /\ turn[t].limit[p] <= Ceiling(p, b)
        <5>1. counter[p][b] \in Nat /\ turn[t].limit[p] \in Nat /\ Ceiling(p, b) \in Nat
          <6>1. counter[p] \in [Periods -> Nat]
            BY DEF Inv, TypeOK
          <6> QED
            BY <6>1, Fields, CeilingType DEF Inv
        <5>2. current = counter[p][b]
          <6>1. Clock[p] \in Clocks
            BY PolicyAssumption
          <6>2. period[Clock[p]] \in Nat
            BY <6>1 DEF Inv, TypeOK, Periods
          <6> QED
            BY <1>2, <3>4, <4>1, <4>2, <6>2 DEF Reads
        <5> QED
          BY <1>5, <3>4, <4>2, <5>1, <5>2
      <4>3. CASE ~(p \in turn[t].owes /\ Key(t, p) = b /\ turn[t].limit[p] <= Ceiling(p, b))
        BY <2>1, <4>1, <4>3 DEF MayCharge
      <4> QED
        BY <4>2, <4>3
    <3> QED
      BY <3>3, <3>4
  <2>7. \A k \in Clocks : state.now[k] <= period[k]
    BY <2>5 DEF Inv, FutureIsEmpty
  <2> QED
    BY <1>1, <2>1, <2>2, <2>3, <2>6, <2>7, TurnKeeps
<1> QED
  BY <1>4, <1>5

\* Once admitted, a turn counts with every policy that applies to its caller
\* until it is counted itself; these steps only go along that way.
LEMMA RunningInv ==
    ASSUME Inv, NEW t \in Turns,
           Admit(t) \/ Completes(t) \/ InsertUsage(t) \/ SelectCounters(t)
    PROVE  Inv'
<1>1. UNCHANGED <<counter, policy, period, floor, edits>>
      /\ calls' \in Nat /\ faults' \in Nat
  <2>1. calls \in Nat /\ faults \in Nat
    BY DEF Inv, TypeOK
  <2>2. CASE Admit(t) \/ Completes(t)
    BY <2>1, <2>2 DEF Admit, Completes, Usage, others
  <2>3. CASE InsertUsage(t)
    BY <2>1, <2>3 DEF InsertUsage, others
  <2>4. CASE SelectCounters(t)
    BY <2>1, <2>4 DEF SelectCounters, others
  <2> QED
    BY <2>2, <2>3, <2>4
<1>2. rows' \in [Slots -> Nat] /\ unwritten' \in [Slots -> Nat]
  <2>1. Plus(rows, turn[t].used) \in [Slots -> Nat] /\ Plus(unwritten, turn[t].used) \in [Slots -> Nat]
    <3>1. \A s \in Slots : turn[t].used[s] \in Nat
      BY Fields, UsageAssumption DEF Inv
    <3>2. rows \in [Slots -> Nat] /\ unwritten \in [Slots -> Nat]
      BY DEF Inv, TypeOK
    <3> QED
      BY <3>1, <3>2 DEF Plus
  <2>2. rows' \in {rows, Plus(rows, turn[t].used)}
        /\ unwritten' \in {unwritten, Plus(unwritten, turn[t].used)}
    BY DEF Admit, Completes, Usage, InsertUsage, SelectCounters
  <2> QED
    BY <2>1, <2>2 DEF Inv, TypeOK
<1>3. PICK state \in LocalState :
        /\ Becomes(t, state)
        /\ state.caller = turn[t].caller
        /\ \A k \in Clocks : state.now[k] <= period[k]
        /\ \/ turn[t].pc = "checking" /\ turn[t].owes = {} /\ state.pc = "running"
           \/ turn[t].pc = "running" /\ state.pc = "recording"
           \/ turn[t].pc = "recording" /\ state.pc = "selecting"
           \/ /\ turn[t].pc = "selecting" /\ state.pc = "counting" /\ state.now = period
              /\ state.owes \subseteq effective_policies(turn[t].caller)
  <2>1. \A k \in Clocks : turn[t].now[k] <= period[k] /\ 0 <= period[k] /\ period[k] <= period[k]
    BY DEF Inv, FutureIsEmpty, TypeOK, Periods
  <2>2. CASE Admit(t)
    <3> DEFINE state == [Idle EXCEPT !.pc = "running", !.caller = turn[t].caller]
    <3>1. state \in LocalState /\ state.caller = turn[t].caller /\ state.pc = "running"
      BY IdleType, Fields DEF LocalState, Usage, Inv
    <3>2. \A k \in Clocks : state.now[k] = 0
      BY DEF Idle
    <3> QED
      BY <2>1, <2>2, <3>1, <3>2 DEF Admit
  <2>3. CASE Completes(t)
    <3>1. PICK used \in [Slots -> 0..MaxUsage] :
            Becomes(t, [turn[t] EXCEPT !.pc = "recording", !.used = used])
      BY <2>3 DEF Completes, Usage
    <3> DEFINE state == [turn[t] EXCEPT !.pc = "recording", !.used = used]
    <3>2. state \in LocalState /\ state.caller = turn[t].caller /\ state.pc = "recording"
          /\ state.now = turn[t].now
      BY Fields DEF LocalState, Usage, Inv
    <3> QED
      BY <2>1, <2>3, <3>1, <3>2 DEF Completes, Usage
  <2>4. CASE InsertUsage(t)
    <3> DEFINE state == [turn[t] EXCEPT !.pc = "selecting"]
    <3>1. state \in LocalState /\ state.caller = turn[t].caller /\ state.pc = "selecting"
          /\ state.now = turn[t].now
      BY Fields DEF LocalState, Usage, Inv
    <3> QED
      BY <2>1, <2>4, <3>1 DEF InsertUsage
  <2>5. CASE SelectCounters(t)
    <3> DEFINE due == {p \in effective_policies(turn[t].caller) : turn[t].used[Slot[p]] # 0}
               state == [turn[t] EXCEPT !.pc = "counting", !.owes = due, !.now = period]
    <3>1. due \subseteq Policies /\ due \subseteq effective_policies(turn[t].caller)
      BY DEF effective_policies
    <3>2. period \in [Clocks -> Periods]
      BY DEF Inv, TypeOK
    <3>3. state \in LocalState /\ state.caller = turn[t].caller /\ state.pc = "counting"
          /\ state.now = period /\ state.owes = due
      BY <3>1, <3>2, Fields DEF LocalState, Usage, Inv
    <3>4. Becomes(t, state) /\ turn[t].pc = "selecting"
      BY <2>5 DEF SelectCounters
    <3> HIDE DEF due, state
    <3> QED
      BY <2>1, <3>1, <3>3, <3>4
  <2> QED
    BY <2>2, <2>3, <2>4, <2>5
<1>4. TypeOK'
  BY <1>1, <1>2, <1>3, TurnTypes DEF Inv
<1>5. turn'[t] = state
  BY <1>3 DEF Becomes, Inv, TypeOK
<1>6. ASSUME NEW p \in Policies, NEW b \in Periods, MayCharge(t, p, b)'
      PROVE  MayCharge(t, p, b)
  <2>1. Applies(turn[t].caller, p)' <=> Applies(turn[t].caller, p)
    BY <1>1, <1>3, <1>5, SamePolicies
  <2>2. p \in effective_policies(turn[t].caller) => Applies(turn[t].caller, p)
    BY DEF effective_policies
  <2> QED
    BY <1>1, <1>3, <1>5, <1>6, <2>1, <2>2 DEF MayCharge, Key
<1> QED
  BY <1>1, <1>3, <1>4, <1>6, TurnKeeps

\* An increment comes out of what was kept for it.
LEMMA IncrementCounterInv ==
    ASSUME Inv, NEW t \in Turns, NEW q \in Policies, IncrementCounter(t, q)
    PROVE  Inv'
<1> DEFINE state == [turn[t] EXCEPT !.owes = @ \ {q}]
           key == turn[t].now[Clock[q]]
<1>1. /\ UNCHANGED <<policy, period, floor, rows, unwritten, edits, calls, faults>>
      /\ turn[t].pc = "counting" /\ q \in turn[t].owes
      /\ turn' = [turn EXCEPT ![t] = state]
      /\ counter' = [counter EXCEPT ![q][key] = @ + turn[t].used[Slot[q]]]
  BY DEF IncrementCounter, others, Becomes, Key
<1>2. /\ counter \in [Policies -> [Periods -> Nat]] /\ turn \in [Turns -> LocalState]
      /\ Clock[q] \in Clocks /\ turn[t].used[Slot[q]] \in 0..MaxUsage /\ turn[t].used[Slot[q]] \in Nat
      /\ key \in Periods /\ key <= period[Clock[q]] /\ period[Clock[q]] \in Nat
  <2>1. Clock[q] \in Clocks /\ Slot[q] \in Slots
    BY PolicyAssumption
  <2>2. turn[t].now \in [Clocks -> Periods] /\ turn[t].used \in [Slots -> 0..MaxUsage]
    BY Fields DEF Inv
  <2>3. counter \in [Policies -> [Periods -> Nat]] /\ turn \in [Turns -> LocalState]
        /\ period \in [Clocks -> Periods]
    BY DEF Inv, TypeOK
  <2>4. turn[t].used[Slot[q]] \in 0..MaxUsage /\ turn[t].used[Slot[q]] \in Nat
    BY <2>1, <2>2, UsageAssumption
  <2>5. key \in Periods /\ period[Clock[q]] \in Nat
    BY <2>1, <2>2, <2>3, UsageAssumption DEF Periods
  <2>6. key <= period[Clock[q]]
    BY <2>1 DEF Inv, FutureIsEmpty
  <2> QED
    BY <2>1, <2>3, <2>4, <2>5, <2>6
<1>3. state \in LocalState /\ state.pc = turn[t].pc /\ state.caller = turn[t].caller
      /\ state.now = turn[t].now /\ state.owes = turn[t].owes \ {q}
  BY Fields DEF LocalState, Usage, Inv
<1>4. turn'[t] = state /\ turn' \in [Turns -> LocalState]
      /\ \A u \in Turns \ {t} : turn'[u] = turn[u]
  BY <1>1, <1>2, <1>3
<1>5. /\ counter' \in [Policies -> [Periods -> Nat]]
      /\ counter'[q][key] = counter[q][key] + turn[t].used[Slot[q]]
      /\ \A p \in Policies, b \in Periods : p # q \/ b # key => counter'[p][b] = counter[p][b]
  BY <1>1, <1>2
<1> HIDE DEF state, key
<1>6. TypeOK'
  BY <1>1, <1>4, <1>5 DEF Inv, TypeOK
<1>7. FutureIsEmpty'
  <2>1. \A p \in Policies, b \in Periods : b > period[Clock[p]] => counter'[p][b] = 0
    BY <1>2, <1>5 DEF Inv, FutureIsEmpty, Periods
  <2>2. \A u \in Turns, k \in Clocks : turn'[u].now[k] <= period[k]
    BY <1>3, <1>4 DEF Inv, FutureIsEmpty
  <2> QED
    BY <1>1, <2>1, <2>2 DEF FutureIsEmpty
<1>8. ASSUME NEW p \in Policies, NEW b \in Periods
      PROVE  Within(counter[p][b], Pending(p, b), Ceiling(p, b))'
  <2>1. Ceiling(p, b)' = Ceiling(p, b)
    BY <1>1 DEF Ceiling
  <2>2. Pending(p, b)' \in SUBSET Pending(p, b)
    <3>1. ASSUME NEW u \in Turns, MayCharge(u, p, b)'
          PROVE  MayCharge(u, p, b)
      <4>1. turn'[u].pc = turn[u].pc /\ turn'[u].caller = turn[u].caller
            /\ turn'[u].now = turn[u].now
        BY <1>3, <1>4
      <4>2. turn'[u].pc = "counting" => turn'[u].owes \subseteq turn[u].owes
        BY <1>3, <1>4
      <4>3. turn'[u].pc # "counting" => turn'[u] = turn[u]
        BY <1>1, <1>3, <1>4
      <4>4. Applies(turn[u].caller, p)' <=> Applies(turn[u].caller, p)
        BY <1>1, <4>1, SamePolicies
      <4> QED
        BY <1>1, <2>1, <3>1, <4>1, <4>2, <4>3, <4>4 DEF MayCharge, Key
    <3> QED
      BY <3>1 DEF Pending
  <2>3. /\ counter[p][b] \in Nat /\ Ceiling(p, b) \in Nat
        /\ Pending(p, b) \in SUBSET Turns
        /\ Within(counter[p][b], Pending(p, b), Ceiling(p, b))
    <3>1. counter[p] \in [Periods -> Nat]
      BY <1>2
    <3> QED
      BY <3>1, CeilingType DEF Inv, PendingFits, Pending
  <2>4. CASE p = q /\ b = key
    <3>1. t \in Pending(p, b) /\ t \notin Pending(p, b)'
      <4>1. MayCharge(t, p, b)
        BY <1>1, <2>4 DEF MayCharge, Key, key
      <4>2. ~MayCharge(t, p, b)'
        BY <1>1, <1>3, <1>4, <2>4 DEF MayCharge
      <4> QED
        BY <4>1, <4>2 DEF Pending
    <3>2. Pending(p, b)' \in SUBSET (Pending(p, b) \ {t})
      BY <2>2, <3>1
    <3>3. Within(counter[p][b] + turn[t].used[Slot[q]], Pending(p, b)', Ceiling(p, b))
      BY <1>2, <2>3, <3>1, <3>2, Charges
    <3> QED
      BY <1>5, <2>1, <2>4, <3>3 DEF Within
  <2>5. CASE ~(p = q /\ b = key)
    <3>1. Within(counter[p][b], Pending(p, b)', Ceiling(p, b))
      <4>1. Ceiling(p, b) <= Ceiling(p, b)
        BY <2>3
      <4> QED
        BY <2>2, <2>3, <4>1, Shrinks
    <3>2. counter'[p][b] = counter[p][b]
      BY <1>5, <2>5
    <3> QED
      BY <2>1, <3>1, <3>2 DEF Within
  <2> QED
    BY <2>4, <2>5
<1> QED
  BY <1>6, <1>7, <1>8 DEF Inv, PendingFits

-----------------------------------------------------------------------------
(* Policies and periods *)

\* A change of policies starts every counter whose policy now limits somebody
\* else, or to something else, anew from its present value.
LEMMA ChangeInv ==
    ASSUME Inv, NEW q \in Policies, NEW row \in QuotaPolicy, Change(q, row)
    PROVE  Inv'
<1>1. /\ UNCHANGED <<period, counter, turn, rows, unwritten, calls, faults>>
      /\ policy' = [policy EXCEPT ![q] = row] /\ edits' = edits + 1
      /\ floor' = [p \in Policies |-> IF Governs(p)' = Governs(p) THEN floor[p] ELSE counter[p]]
  BY DEF Change
<1>2. TypeOK'
  <2>1. policy' \in [Policies -> QuotaPolicy] /\ edits' \in Nat
    BY <1>1 DEF Inv, TypeOK
  <2>2. \A p \in Policies : floor[p] \in [Periods -> Nat] /\ counter[p] \in [Periods -> Nat]
    BY DEF Inv, TypeOK
  <2>3. floor' \in [Policies -> [Periods -> Nat]]
    BY <1>1, <2>2
  <2> QED
    BY <1>1, <2>1, <2>3 DEF Inv, TypeOK
<1>3. FutureIsEmpty'
  BY <1>1 DEF Inv, FutureIsEmpty
<1>4. ASSUME NEW p \in Policies, NEW b \in Periods
      PROVE  Within(counter[p][b], Pending(p, b), Ceiling(p, b))'
  <2>1. counter[p][b] \in Nat /\ Ceiling(p, b)' \in Nat /\ floor'[p][b] < Ceiling(p, b)'
    <3>1. counter[p] \in [Periods -> Nat]
      BY DEF Inv, TypeOK
    <3>2. Ceiling(p, b)' \in Nat /\ floor'[p][b] < Ceiling(p, b)'
      <4>1. policy'[p].limit \in Nat
        <5>1. policy'[p].limit \in Limits \cup {0}
          BY <1>2 DEF TypeOK, QuotaPolicy
        <5>2. Limits \cup {0} \subseteq Nat
          BY PolicyAssumption
        <5> QED
          BY <5>1, <5>2, Zenon
      <4>2. floor'[p] \in [Periods -> Nat]
        BY <1>2 DEF TypeOK
      <4>3. floor'[p][b] \in Nat
        BY <4>2
      <4> QED
        BY <4>1, <4>3 DEF Ceiling
    <3> QED
      BY <3>1, <3>2
  <2>2. CASE Governs(p)' # Governs(p)
    <3>1. floor'[p] = counter[p]
      BY <1>1, <2>2
    <3>2. Pending(p, b)' \in SUBSET Turns
      BY DEF Pending
    <3>3. Within(counter[p][b], Pending(p, b)', Ceiling(p, b)')
      BY <2>1, <3>1, <3>2, Below
    <3> QED
      BY <1>1, <3>3 DEF Within
  <2>3. CASE Governs(p)' = Governs(p)
    <3>1. floor'[p] = floor[p]
      BY <1>1, <2>3
    <3>2. policy'[p].limit = policy[p].limit
      BY <2>3 DEF Governs
    <3>3. Ceiling(p, b)' = Ceiling(p, b)
      BY <3>1, <3>2 DEF Ceiling
    <3>4. \A c \in Callers : Applies(c, p)' <=> Applies(c, p)
      <4>1. {c \in Callers : Applies(c, p)}' = {c \in Callers : Applies(c, p)}
        BY <2>3 DEF Governs
      <4> QED
        BY <4>1
    <3>5. \A u \in Turns : MayCharge(u, p, b)' <=> MayCharge(u, p, b)
      <4>1. \A u \in Turns : turn[u].caller \in Callers
        BY Fields DEF Inv
      <4>2. \A u \in Turns : Applies(turn[u].caller, p)' <=> Applies(turn[u].caller, p)
        BY <1>1, <3>4, <4>1
      <4> QED
        BY <1>1, <3>3, <4>2 DEF MayCharge, Key
    <3>6. Pending(p, b)' = Pending(p, b)
      BY <3>5 DEF Pending
    <3> QED
      BY <1>1, <3>3, <3>6 DEF Inv, PendingFits, Within
  <2> QED
    BY <2>2, <2>3
<1> QED
  BY <1>2, <1>3, <1>4 DEF Inv, PendingFits

\* The counters of a new period are empty, whoever was let through before; the
\* old ones get nothing any more but increments already decided.
LEMMA PeriodEndsInv ==
    ASSUME Inv, NEW k \in Clocks, PeriodEnds(k)
    PROVE  Inv'
<1>1. /\ UNCHANGED <<policy, counter, turn, rows, unwritten, floor, edits, calls, faults>>
      /\ period' = [period EXCEPT ![k] = @ + 1] /\ period[k] < MaxPeriods
  BY DEF PeriodEnds
<1>2. /\ period \in [Clocks -> Periods] /\ period' \in [Clocks -> Periods]
      /\ \A z \in Clocks : period[z] \in Nat /\ period'[z] \in Nat /\ period[z] <= period'[z]
  BY <1>1, UsageAssumption DEF Inv, TypeOK, Periods
<1>3. TypeOK'
  BY <1>1, <1>2 DEF Inv, TypeOK
<1>4. FutureIsEmpty'
  <2>1. ASSUME NEW p \in Policies, NEW b \in Periods, b > period'[Clock[p]]
        PROVE  counter[p][b] = 0
    <3>1. Clock[p] \in Clocks /\ b \in Nat
      BY PolicyAssumption DEF Periods
    <3>2. b > period[Clock[p]]
      BY <1>2, <2>1, <3>1
    <3> QED
      BY <3>2 DEF Inv, FutureIsEmpty
  <2>2. ASSUME NEW u \in Turns, NEW z \in Clocks
        PROVE  turn[u].now[z] <= period'[z]
    <3>1. turn[u].now[z] \in Nat /\ turn[u].now[z] <= period[z]
      <4>1. turn[u].now \in [Clocks -> Periods]
        BY Fields DEF Inv
      <4> QED
        BY <4>1 DEF Inv, FutureIsEmpty, Periods
    <3> QED
      BY <1>2, <3>1
  <2> QED
    BY <1>1, <2>1, <2>2 DEF FutureIsEmpty
<1>5. ASSUME NEW p \in Policies, NEW b \in Periods
      PROVE  Within(counter[p][b], Pending(p, b), Ceiling(p, b))'
  <2>1. Ceiling(p, b)' = Ceiling(p, b)
    BY <1>1 DEF Ceiling
  <2>2. /\ counter[p][b] \in Nat /\ Ceiling(p, b) \in Nat /\ 0 < Ceiling(p, b)
        /\ Pending(p, b) \in SUBSET Turns /\ Pending(p, b)' \in SUBSET Turns
        /\ Within(counter[p][b], Pending(p, b), Ceiling(p, b))
        /\ Clock[p] \in Clocks /\ b \in Nat
    <3>1. counter[p] \in [Periods -> Nat] /\ floor[p] \in [Periods -> Nat]
      BY DEF Inv, TypeOK
    <3>2. counter[p][b] \in Nat /\ floor[p][b] \in Nat
      BY <3>1
    <3>3. Ceiling(p, b) \in Nat /\ floor[p][b] < Ceiling(p, b)
      BY CeilingType DEF Inv
    <3>4. 0 < Ceiling(p, b)
      BY <3>2, <3>3
    <3>5. Pending(p, b) \in SUBSET Turns /\ Pending(p, b)' \in SUBSET Turns
      BY DEF Pending
    <3>6. Within(counter[p][b], Pending(p, b), Ceiling(p, b))
      BY DEF Inv, PendingFits
    <3>7. Clock[p] \in Clocks /\ b \in Nat
      BY PolicyAssumption, UsageAssumption DEF Periods
    <3> QED
      BY <3>2, <3>3, <3>4, <3>5, <3>6, <3>7
  <2>3. CASE b > period[Clock[p]]
    <3>1. counter[p][b] = 0
      BY <2>3 DEF Inv, FutureIsEmpty
    <3>2. Within(counter[p][b], Pending(p, b)', Ceiling(p, b))
      BY <2>2, <3>1, Below
    <3> QED
      BY <1>1, <2>1, <3>2 DEF Within
  <2>4. CASE ~(b > period[Clock[p]])
    <3>1. b = period'[Clock[p]] => b = period[Clock[p]]
      BY <1>2, <2>2, <2>4
    <3>2. \A u \in Turns : MayCharge(u, p, b)' => MayCharge(u, p, b)
      <4>1. \A u \in Turns : Applies(turn[u].caller, p)' <=> Applies(turn[u].caller, p)
        BY <1>1, SamePolicies
      <4> QED
        BY <1>1, <2>1, <3>1, <4>1 DEF MayCharge, Key
    <3>3. Pending(p, b)' \in SUBSET Pending(p, b)
      BY <3>2 DEF Pending
    <3>4. Within(counter[p][b], Pending(p, b)', Ceiling(p, b))
      <4>1. Ceiling(p, b) <= Ceiling(p, b)
        BY <2>2
      <4> QED
        BY <2>2, <3>3, <4>1, Shrinks
    <3> QED
      BY <1>1, <2>1, <3>4 DEF Within
  <2> QED
    BY <2>3, <2>4
<1> QED
  BY <1>3, <1>4, <1>5 DEF Inv, PendingFits

-----------------------------------------------------------------------------
(* Theorems *)

\* No counter, no turn and no policy: the invariant holds at first.
LEMMA InitInv ==
    ASSUME Init
    PROVE  Inv
<1>1. 0 \in Periods /\ 0 \in Nat
  BY UsageAssumption DEF Periods
<1>2. TypeOK
  <2>1. [live |-> "absent", enabled |-> FALSE, limit |-> 0, priority |-> 0] \in QuotaPolicy
    BY DEF QuotaPolicy
  <2> QED
    BY <1>1, <2>1, IdleType DEF Init, TypeOK, NoUsage
<1>3. FutureIsEmpty
  BY <1>1, PolicyAssumption DEF Init, FutureIsEmpty, Idle
<1>4. ASSUME NEW p \in Policies, NEW b \in Periods
      PROVE  Within(counter[p][b], Pending(p, b), Ceiling(p, b))
  <2>1. counter[p][b] = 0 /\ floor[p][b] = 0
    BY DEF Init
  <2>2. Pending(p, b) \in SUBSET Turns /\ Ceiling(p, b) \in Nat /\ 0 < Ceiling(p, b)
    BY <1>2, <2>1, CeilingType DEF Pending
  <2> QED
    BY <2>1, <2>2, Below
<1> QED
  BY <1>2, <1>3, <1>4 DEF Inv, PendingFits

\* One action at a time.
LEMMA NextInv ==
    ASSUME Inv, [Next]_vars
    PROVE  Inv'
<1>1. CASE UNCHANGED vars
  <2>1. UNCHANGED <<policy, period, counter, turn, rows, unwritten, floor, edits, calls, faults>>
    BY <1>1 DEF vars
  <2>2. TypeOK' /\ FutureIsEmpty'
    BY <2>1 DEF Inv, TypeOK, FutureIsEmpty
  <2>3. ASSUME NEW p \in Policies, NEW b \in Periods
        PROVE  Within(counter[p][b], Pending(p, b), Ceiling(p, b))'
    <3>1. Ceiling(p, b)' = Ceiling(p, b)
      BY <2>1 DEF Ceiling
    <3>2. \A u \in Turns : Applies(turn[u].caller, p)' <=> Applies(turn[u].caller, p)
      BY <2>1, SamePolicies
    <3>3. Pending(p, b)' = Pending(p, b)
      BY <2>1, <3>1, <3>2 DEF Pending, MayCharge, Key
    <3> QED
      BY <2>1, <3>1, <3>3 DEF Inv, PendingFits, Within
  <2> QED
    BY <2>2, <2>3 DEF Inv, PendingFits
<1>2. CASE PolicyEdits
  <2>1. PICK q \in Policies :
          create_quota_policy(q) \/ update_quota_policy(q) \/ delete_quota_policy(q)
    BY <1>2 DEF PolicyEdits
  <2>2. \E row \in QuotaPolicy : Change(q, row)
    <3>1. CASE create_quota_policy(q) \/ update_quota_policy(q)
      <4>1. PICK enabled \in BOOLEAN, l \in Limits, priority \in Priorities :
              Change(q, [live |-> "live", enabled |-> enabled, limit |-> l,
                         priority |-> priority])
        BY <3>1 DEF create_quota_policy, update_quota_policy
      <4>2. [live |-> "live", enabled |-> enabled, limit |-> l, priority |-> priority]
              \in QuotaPolicy
        BY DEF QuotaPolicy
      <4> QED
        BY <4>1, <4>2
    <3>2. CASE delete_quota_policy(q)
      <4>1. [policy[q] EXCEPT !.live = "deleted"] \in QuotaPolicy
        <5>1. policy[q] \in QuotaPolicy
          BY DEF Inv, TypeOK
        <5> QED
          BY <5>1 DEF QuotaPolicy
      <4> QED
        BY <3>2, <4>1 DEF delete_quota_policy
    <3> QED
      BY <2>1, <3>1, <3>2
  <2> QED
    BY <2>2, ChangeInv
<1>3. CASE \E k \in Clocks : PeriodEnds(k)
  BY <1>3, PeriodEndsInv
<1>4. ASSUME NEW t \in Turns, Turn(t)
      PROVE  Inv'
  <2>1. CASE SelectPolicies(t)
    BY <2>1, SelectPoliciesInv
  <2>2. CASE \E p \in Policies : CheckCounter(t, p)
    BY <2>2, CheckCounterInv
  <2>3. CASE Admit(t) \/ Completes(t) \/ InsertUsage(t) \/ SelectCounters(t)
    BY <2>3, RunningInv
  <2>4. CASE \E p \in Policies : IncrementCounter(t, p)
    BY <2>4, IncrementCounterInv
  <2>5. CASE Fails(t) \/ Recorded(t) \/ Breaks(t)
    <3>1. calls \in Nat /\ faults \in Nat /\ rows \in [Slots -> Nat]
          /\ unwritten \in [Slots -> Nat]
      BY DEF Inv, TypeOK
    <3>2. /\ Becomes(t, Idle) /\ UNCHANGED <<counter, policy, period, floor, edits>>
          /\ rows' \in [Slots -> Nat] /\ unwritten' \in [Slots -> Nat] /\ calls' \in Nat /\ faults' \in Nat
      <4>1. CASE Fails(t) \/ Recorded(t)
        BY <3>1, <4>1 DEF Fails, Recorded, others
      <4>2. CASE Breaks(t)
        BY <3>1, <4>2 DEF Breaks, others
      <4> QED
        BY <2>5, <4>1, <4>2
    <3> QED
      BY <3>2, BecomesIdle
  <2> QED
    BY <1>4, <2>1, <2>2, <2>3, <2>4, <2>5 DEF Turn
<1> QED
  BY <1>1, <1>2, <1>3, <1>4 DEF Next

\* The invariant of the counters, the turns in flight and the periods.
THEOREM InvHolds == Spec => []Inv
<1> QED
  BY InitInv, NextInv, PTL DEF Spec

\* The types of the policies, the counters and the turns.
THEOREM TypeCorrect == Spec => []TypeOK
<1>1. Inv => TypeOK
  BY DEF Inv
<1> QED
  BY <1>1, InvHolds, PTL

\* A limit is exceeded by at most what the turns in flight use, for any number
\* of turns, policies and periods and any changes of the policies.
THEOREM Overshoot == Spec => []OvershootIsBounded
<1>1. ASSUME Inv PROVE OvershootIsBounded
  <2>1. ASSUME NEW p \in Policies, NEW b \in Periods
        PROVE  counter[p][b] < Ceiling(p, b) + MaxUsage * Cardinality(Turns)
    <3>1. counter[p] \in [Periods -> Nat] /\ Ceiling(p, b) \in Nat
      BY <1>1, CeilingType DEF Inv, TypeOK
    <3>2. Within(counter[p][b], Pending(p, b), Ceiling(p, b))
      BY <1>1 DEF Inv, PendingFits
    <3>3. Pending(p, b) \in SUBSET Turns
      BY DEF Pending
    <3>4. MaxUsage * Cardinality(Pending(p, b)) \in Nat /\ MaxUsage * Cardinality(Turns) \in Nat
      BY <3>3, TurnSets, Products
    <3> QED
      BY <3>1, <3>2, <3>4 DEF Within
  <2> QED
    BY <2>1 DEF OvershootIsBounded
<1> QED
  BY <1>1, InvHolds, PTL

-----------------------------------------------------------------------------
(* Sums *)

\* A set of numbers with 0 and the successor of each of its members has them all.
LEMMA Induction ==
    ASSUME NEW S \in SUBSET Nat, 0 \in S, \A n \in S : n + 1 \in S
    PROVE  S = Nat
<1> SUFFICES ASSUME Nat \ S # {} PROVE FALSE
  OBVIOUS
<1>1. PICK n \in Nat \ S : \A m \in Nat \ S : <<m, n>> \notin OpToRel(<, Nat)
  BY NatLessThanWellFounded, WFMin
<1>2. \A m \in Nat \ S : ~(m < n)
  BY <1>1 DEF OpToRel
<1>3. n \in Nat /\ n # 0
  OBVIOUS
<1>4. n - 1 \in Nat /\ n - 1 < n /\ (n - 1) + 1 = n
  BY <1>3
<1> QED
  BY <1>2, <1>4

\* Every subset of a finite set can be reached by removing elements one by one.
LEMMA SetInduction ==
    ASSUME NEW D, IsFiniteSet(D), NEW T,
           \A s \in SUBSET D : (\A x \in s : s \ {x} \in T) => s \in T
    PROVE  \A s \in SUBSET D : s \in T
<1> DEFINE N == {n \in Nat : \A s \in SUBSET D : Cardinality(s) = n => s \in T}
<1>1. \A s \in SUBSET D : IsFiniteSet(s) /\ Cardinality(s) \in Nat
  BY FS_Subset, FS_CardinalityType
<1>2. 0 \in N
  <2>1. ASSUME NEW s \in SUBSET D, Cardinality(s) = 0 PROVE s \in T
    BY <1>1, <2>1, FS_EmptySet
  <2> QED
    BY <2>1
<1>3. ASSUME NEW n \in N PROVE n + 1 \in N
  <2>1. ASSUME NEW s \in SUBSET D, Cardinality(s) = n + 1, NEW x \in s PROVE s \ {x} \in T
    <3>1. Cardinality(s \ {x}) = n
      BY <1>1, <2>1, FS_RemoveElement
    <3> QED
      BY <3>1
  <2> QED
    BY <2>1
<1>4. N = Nat
  <2> HIDE DEF N
  <2>1. N \in SUBSET Nat
    BY DEF N
  <2> QED
    BY <1>2, <1>3, <2>1, Induction
<1> QED
  BY <1>1, <1>4

\* What SumFunction folds with: the sums over the subsets of the domain
Partial(f, F) ==
    F = [s \in SUBSET DOMAIN f |->
            IF s = {} THEN 0 ELSE LET x == CHOOSE x \in s : TRUE IN f[x] + F[s \ {x}]]

\* SumFunction is the last value of such a function.
LEMMA SumIs ==
    ASSUME NEW f
    PROVE  SumFunction(f) = (CHOOSE F : Partial(f, F))[DOMAIN f]
BY DEF SumFunction, SumFunctionOnSet, FoldFunctionOnSet, MapThenFoldSet, Partial

\* It exists: it can be extended from the sets of n elements to those of one more.
LEMMA PartialExists ==
    ASSUME NEW f, IsFiniteSet(DOMAIN f)
    PROVE  \E F : Partial(f, F)
<1> DEFINE D == DOMAIN f
           Value(F, s) == IF s = {} THEN 0 ELSE f[CHOOSE x \in s : TRUE] + F[s \ {CHOOSE x \in s : TRUE}]
           UpTo(n, F) == \A s \in SUBSET D : Cardinality(s) <= n => F[s] = Value(F, s)
           N == {n \in Nat : \E F : UpTo(n, F)}
<1>1. \A s \in SUBSET D : IsFiniteSet(s) /\ Cardinality(s) \in Nat
  BY FS_Subset, FS_CardinalityType
<1>2. 0 \in N
  <2> DEFINE F == [s \in SUBSET D |-> 0]
  <2>1. \A s \in SUBSET D : Cardinality(s) <= 0 => s = {}
    BY <1>1, FS_EmptySet
  <2>2. UpTo(0, F)
    BY <2>1
  <2> QED
    BY <2>2
<1>3. ASSUME NEW n \in N PROVE n + 1 \in N
  <2>1. PICK F : UpTo(n, F)
    BY <1>3
  <2> DEFINE G == [s \in SUBSET D |-> IF Cardinality(s) <= n THEN F[s] ELSE Value(F, s)]
  <2>2. ASSUME NEW s \in SUBSET D, Cardinality(s) <= n + 1
        PROVE  G[s] = Value(G, s)
    <3>1. CASE s = {}
      <4>1. Cardinality(s) <= n
        BY <3>1, FS_EmptySet
      <4> QED
        BY <2>1, <3>1, <4>1
    <3>2. CASE s # {}
      <4> DEFINE x == CHOOSE x \in s : TRUE
                 rest == s \ {x}
      <4>1. x \in s
        BY <3>2
      <4>2. rest \in SUBSET D /\ Cardinality(rest) = Cardinality(s) - 1
        BY <1>1, <4>1, FS_RemoveElement
      <4>3. n \in Nat /\ Cardinality(s) \in Nat
        BY <1>1
      <4>4. Cardinality(rest) <= n
        BY <2>2, <4>2, <4>3
      <4>5. G[rest] = F[rest]
        BY <4>2, <4>4
      <4>6. G[s] = Value(F, s)
        BY <2>1
      <4> HIDE DEF G
      <4> QED
        BY <4>5, <4>6
    <3> QED
      BY <3>1, <3>2
  <2>3. UpTo(n + 1, G)
    BY <2>2
  <2>4. n + 1 \in Nat
    BY <1>3
  <2> HIDE DEF UpTo, G
  <2> QED
    BY <2>3, <2>4
<1>4. N = Nat
  <2>1. N \in SUBSET Nat
    OBVIOUS
  <2> HIDE DEF N
  <2> QED
    BY <1>2, <1>3, <2>1, Induction
<1>5. PICK F : UpTo(Cardinality(D), F)
  <2>1. Cardinality(D) \in N
    BY <1>1, <1>4
  <2> QED
    BY <2>1
<1> DEFINE G == [s \in SUBSET D |-> F[s]]
<1>6. \A s \in SUBSET D : G[s] = Value(G, s)
  <2> SUFFICES ASSUME NEW s \in SUBSET D PROVE G[s] = Value(G, s)
    OBVIOUS
  <2>1. Cardinality(s) <= Cardinality(D)
    BY FS_Subset
  <2>2. F[s] = Value(F, s)
    BY <1>5, <2>1
  <2> QED
    BY <2>2
<1>7. G = [s \in SUBSET D |-> Value(G, s)]
  <2> DEFINE H == [s \in SUBSET D |-> Value(G, s)]
  <2>1. \A s \in SUBSET D : G[s] = H[s]
    BY <1>6
  <2> HIDE DEF Value
  <2> QED
    BY <2>1
<1>8. Partial(f, G)
  BY <1>7 DEF Partial
<1> QED
  BY <1>8

\* Its values are numbers, and the order of the summands does not matter.
LEMMA PartialSum ==
    ASSUME NEW f, IsFiniteSet(DOMAIN f), \A x \in DOMAIN f : f[x] \in Nat,
           NEW F, Partial(f, F)
    PROVE  \A s \in SUBSET DOMAIN f : F[s] \in Nat /\ \A x \in s : F[s] = f[x] + F[s \ {x}]
<1> DEFINE D == DOMAIN f
           Nats == {s \in SUBSET D : F[s] \in Nat}
           Sums == {s \in SUBSET D : \A x \in s : F[s] = f[x] + F[s \ {x}]}
<1>1. ASSUME NEW s \in SUBSET D, s # {}
      PROVE  \E c \in s : F[s] = f[c] + F[s \ {c}]
  <2>1. F[s] = f[CHOOSE x \in s : TRUE] + F[s \ {CHOOSE x \in s : TRUE}]
    BY <1>1 DEF Partial
  <2>2. (CHOOSE x \in s : TRUE) \in s
    BY <1>1
  <2> QED
    BY <2>1, <2>2
<1>2. \A s \in SUBSET D : s \in Nats
  <2>1. ASSUME NEW s \in SUBSET D, \A x \in s : s \ {x} \in Nats
        PROVE  s \in Nats
    <3>1. CASE s = {}
      BY <3>1 DEF Partial
    <3>2. CASE s # {}
      <4>1. PICK c \in s : F[s] = f[c] + F[s \ {c}]
        BY <1>1, <3>2
      <4>2. F[s \ {c}] \in Nat /\ f[c] \in Nat
        BY <2>1
      <4> QED
        BY <4>1, <4>2
    <3> QED
      BY <3>1, <3>2
  <2> HIDE DEF Nats
  <2> QED
    BY <2>1, SetInduction
<1>3. \A s \in SUBSET D : s \in Sums
  <2>1. ASSUME NEW s \in SUBSET D, \A y \in s : s \ {y} \in Sums, NEW x \in s
        PROVE  F[s] = f[x] + F[s \ {x}]
    <3>1. PICK c \in s : F[s] = f[c] + F[s \ {c}]
      BY <1>1
    <3>2. CASE x # c
      <4> DEFINE rest == (s \ {c}) \ {x}
      <4>1. F[s \ {c}] = f[x] + F[rest]
        BY <2>1, <3>2
      <4>2. F[s \ {x}] = f[c] + F[rest]
        <5>1. rest = (s \ {x}) \ {c}
          OBVIOUS
        <5> QED
          BY <2>1, <3>2, <5>1
      <4>3. f[x] \in Nat /\ f[c] \in Nat /\ F[rest] \in Nat
        BY <1>2
      <4> QED
        BY <3>1, <4>1, <4>2, <4>3
    <3> QED
      BY <3>1, <3>2
  <2>2. ASSUME NEW s \in SUBSET D, \A y \in s : s \ {y} \in Sums
        PROVE  s \in Sums
    BY <2>1, <2>2
  <2> HIDE DEF Sums
  <2> QED
    BY <2>2, SetInduction
<1> QED
  BY <1>2, <1>3

\* Without one of the summands the sums of the others are what they were.
LEMMA PartialRest ==
    ASSUME NEW f, IsFiniteSet(DOMAIN f), \A x \in DOMAIN f : f[x] \in Nat,
           NEW x \in DOMAIN f, NEW F, Partial(f, F),
           NEW G, Partial([y \in DOMAIN f \ {x} |-> f[y]], G)
    PROVE  \A s \in SUBSET (DOMAIN f \ {x}) : F[s] = G[s]
<1> DEFINE E == DOMAIN f \ {x}
           g == [y \in E |-> f[y]]
           T == {s \in SUBSET E : F[s] = G[s]}
<1>1. IsFiniteSet(E) /\ DOMAIN g = E /\ \A y \in E : g[y] = f[y]
  BY FS_RemoveElement
<1>2. ASSUME NEW s \in SUBSET E, \A y \in s : s \ {y} \in T
      PROVE  F[s] = G[s]
  <2>1. s \in SUBSET DOMAIN f /\ s \in SUBSET DOMAIN g
    BY <1>1
  <2>2. CASE s = {}
    BY <2>1, <2>2 DEF Partial
  <2>3. CASE s # {}
    <3>1. PICK y \in s : TRUE
      BY <2>3
    <3>2. F[s] = f[y] + F[s \ {y}]
      BY <2>1, PartialSum
    <3>3. G[s] = g[y] + G[s \ {y}]
      <4>1. \A z \in DOMAIN g : g[z] \in Nat
        BY <1>1
      <4> HIDE DEF g
      <4> QED
        BY <1>1, <2>1, <4>1, PartialSum DEF g
    <3> QED
      BY <1>1, <1>2, <3>2, <3>3
  <2> QED
    BY <2>2, <2>3
<1>3. ASSUME NEW s \in SUBSET E, \A y \in s : s \ {y} \in T
      PROVE  s \in T
  BY <1>2, <1>3
<1>4. \A s \in SUBSET E : s \in T
  <2> HIDE DEF T
  <2> QED
    BY <1>1, <1>3, SetInduction
<1> QED
  BY <1>4

\* A sum of numbers is a number, and each summand can be split off.
LEMMA SumSplit ==
    ASSUME NEW f, IsFiniteSet(DOMAIN f), \A x \in DOMAIN f : f[x] \in Nat
    PROVE  /\ SumFunction(f) \in Nat
           /\ \A x \in DOMAIN f :
                SumFunction(f) = f[x] + SumFunction([y \in DOMAIN f \ {x} |-> f[y]])
<1> DEFINE F == CHOOSE F : Partial(f, F)
<1>1. Partial(f, F) /\ SumFunction(f) = F[DOMAIN f]
  <2>1. \E G : Partial(f, G)
    BY PartialExists
  <2> QED
    BY <2>1, SumIs
<1> HIDE DEF F
<1>2. SumFunction(f) \in Nat
  BY <1>1, PartialSum
<1>3. ASSUME NEW x \in DOMAIN f
      PROVE  SumFunction(f) = f[x] + SumFunction([y \in DOMAIN f \ {x} |-> f[y]])
  <2> DEFINE g == [y \in DOMAIN f \ {x} |-> f[y]]
             G == CHOOSE G : Partial(g, G)
  <2>1. DOMAIN g = DOMAIN f \ {x} /\ IsFiniteSet(DOMAIN g)
    BY FS_RemoveElement
  <2>2. Partial(g, G) /\ SumFunction(g) = G[DOMAIN f \ {x}]
    <3>1. \E H : Partial(g, H)
      <4> HIDE DEF g
      <4> QED
        BY <2>1, PartialExists
    <3>2. SumFunction(g) = G[DOMAIN g]
      <4> HIDE DEF g
      <4> QED
        BY SumIs
    <3> HIDE DEF g
    <3> QED
      BY <2>1, <3>1, <3>2
  <2> HIDE DEF G
  <2>3. F[DOMAIN f \ {x}] = G[DOMAIN f \ {x}]
    BY <1>1, <2>2, PartialRest
  <2>4. F[DOMAIN f] = f[x] + F[DOMAIN f \ {x}]
    BY <1>1, PartialSum
  <2> HIDE DEF g
  <2>5. SumFunction(f) = f[x] + SumFunction(g)
    BY <1>1, <2>2, <2>3, <2>4
  <2> QED
    BY <2>5 DEF g
<1> QED
  BY <1>2, <1>3

\* A sum of nothing, or of zeros, is zero.
LEMMA SumOfZeros ==
    ASSUME NEW f, IsFiniteSet(DOMAIN f), \A x \in DOMAIN f : f[x] = 0
    PROVE  SumFunction(f) = 0
<1> DEFINE F == CHOOSE F : Partial(f, F)
           T == {s \in SUBSET DOMAIN f : F[s] = 0}
<1>1. Partial(f, F) /\ SumFunction(f) = F[DOMAIN f]
  <2>1. \E G : Partial(f, G)
    BY PartialExists
  <2> QED
    BY <2>1, SumIs
<1> HIDE DEF F
<1>2. ASSUME NEW s \in SUBSET DOMAIN f, \A x \in s : s \ {x} \in T
      PROVE  s \in T
  <2>1. CASE s = {}
    BY <1>1, <2>1 DEF Partial
  <2>2. CASE s # {}
    <3>1. PICK x \in s : TRUE
      BY <2>2
    <3>2. F[s] = f[x] + F[s \ {x}]
      BY <1>1, PartialSum
    <3> QED
      BY <1>2, <3>1, <3>2
  <2> QED
    BY <2>1, <2>2
<1>3. \A s \in SUBSET DOMAIN f : s \in T
  <2> HIDE DEF T
  <2> QED
    BY <1>2, SetInduction
<1> QED
  BY <1>1, <1>3

-----------------------------------------------------------------------------
(* Whatever was used is charged at most once *)

\* A turn that increases counters has one left per slot at most.
OnePerSlot ==
    \A t \in Turns : turn[t].pc = "counting" =>
        \A p, q \in turn[t].owes : Slot[p] = Slot[q] => p = q

ChargeInv == OnePerSlot /\ ChargedOnce

\* What turn t alone has still to be charged in slot s, and all the others have.
Own(t, s) == IF t \in Owing(s) THEN turn[t].used[s] ELSE 0

OfOthers(t, s) == SumFunction([u \in Owing(s) \ {t} |-> turn[u].used[s]])

\* What is outstanding is outstanding for a given turn or for another one.
LEMMA OutstandingSplit ==
    ASSUME TypeOK, NEW t \in Turns, NEW s \in Slots
    PROVE  /\ Own(t, s) \in Nat /\ OfOthers(t, s) \in Nat
           /\ Outstanding(s) = Own(t, s) + OfOthers(t, s)
<1> DEFINE used == [u \in Owing(s) |-> turn[u].used[s]]
           others_ == [u \in Owing(s) \ {t} |-> turn[u].used[s]]
<1>1. /\ Owing(s) \in SUBSET Turns /\ IsFiniteSet(Owing(s)) /\ IsFiniteSet(Owing(s) \ {t})
      /\ \A u \in Turns : turn[u].used[s] \in Nat
  <2>1. Owing(s) \in SUBSET Turns
    BY DEF Owing
  <2>2. IsFiniteSet(Turns)
    BY PolicyAssumption
  <2>3. \A u \in Turns : turn[u].used[s] \in 0..MaxUsage
    BY Fields
  <2> QED
    BY <2>1, <2>2, <2>3, FS_Subset, UsageAssumption
<1>2. Outstanding(s) \in Nat /\ Outstanding(s) = SumFunction(used)
  <2>1. DOMAIN used = Owing(s) /\ \A u \in Owing(s) : used[u] \in Nat
    BY <1>1
  <2>2. Outstanding(s) = SumFunction(used)
    BY DEF Outstanding
  <2> HIDE DEF used
  <2> QED
    BY <1>1, <2>1, <2>2, SumSplit
<1>3. OfOthers(t, s) \in Nat
  <2>1. DOMAIN others_ = Owing(s) \ {t} /\ \A u \in Owing(s) \ {t} : others_[u] \in Nat
    BY <1>1
  <2>2. OfOthers(t, s) = SumFunction(others_)
    BY DEF OfOthers
  <2> HIDE DEF others_
  <2> QED
    BY <1>1, <2>1, <2>2, SumSplit
<1>4. CASE t \in Owing(s)
  <2>1. /\ DOMAIN used = Owing(s) /\ \A u \in Owing(s) : used[u] \in Nat
        /\ used[t] = turn[t].used[s]
        /\ [u \in DOMAIN used \ {t} |-> used[u]] = others_
    BY <1>1, <1>4
  <2>2. OfOthers(t, s) = SumFunction(others_)
    BY DEF OfOthers
  <2> HIDE DEF used, others_
  <2>3. SumFunction(used) = used[t] + SumFunction([u \in DOMAIN used \ {t} |-> used[u]])
    BY <1>1, <1>4, <2>1, SumSplit
  <2>4. SumFunction(used) = turn[t].used[s] + OfOthers(t, s)
    BY <2>1, <2>2, <2>3
  <2> QED
    BY <1>1, <1>2, <1>3, <1>4, <2>4 DEF Own
<1>5. CASE t \notin Owing(s)
  <2>1. Owing(s) \ {t} = Owing(s)
    BY <1>5
  <2> QED
    BY <1>2, <1>3, <1>5, <2>1 DEF Own, OfOthers, Outstanding
<1> QED
  BY <1>4, <1>5

\* A step of a turn does not touch what the others have outstanding.
LEMMA OthersStay ==
    ASSUME TypeOK, NEW t \in Turns, NEW s, NEW state, Becomes(t, state)
    PROVE  OfOthers(t, s)' = OfOthers(t, s)
<1>1. \A u \in Turns \ {t} : turn'[u] = turn[u]
  BY DEF TypeOK, Becomes
<1>2. (Owing(s) \ {t})' = Owing(s) \ {t}
  BY <1>1 DEF Owing
<1>3. \A u \in Owing(s) \ {t} : turn'[u].used[s] = turn[u].used[s]
  BY <1>1 DEF Owing
<1> QED
  BY <1>2, <1>3 DEF OfOthers

\* The counters of a slot but for one
OtherCounters(c, k, s) == SumFunction([j \in Keys(s) \ {k} |-> c[j[1]][j[2]]])

\* A slot has finitely many counters, their sum is a number, and it is what one
\* of them says and all the others do.
LEMMA ChargedSplit ==
    ASSUME NEW c \in [Policies -> [Periods -> Nat]], NEW s \in Slots
    PROVE  LET sum == SumFunction([k \in Keys(s) |-> c[k[1]][k[2]]])
           IN  /\ sum \in Nat
               /\ \A k \in Keys(s) : /\ OtherCounters(c, k, s) \in Nat
                                     /\ sum = c[k[1]][k[2]] + OtherCounters(c, k, s)
<1>1. IsFiniteSet(Keys(s)) /\ \A k \in Keys(s) : c[k[1]][k[2]] \in Nat
  <2>1. IsFiniteSet(Periods) /\ IsFiniteSet(Policies)
    BY PolicyAssumption, UsageAssumption, FS_Interval DEF Periods
  <2>2. IsFiniteSet({p \in Policies : Slot[p] = s})
    BY <2>1, FS_Subset
  <2>3. IsFiniteSet(Keys(s))
    BY <2>1, <2>2, FS_Product DEF Keys
  <2> QED
    BY <2>3 DEF Keys
<1> DEFINE all == [k \in Keys(s) |-> c[k[1]][k[2]]]
<1>2. DOMAIN all = Keys(s) /\ \A k \in Keys(s) : all[k] = c[k[1]][k[2]]
  OBVIOUS
<1>3. SumFunction(all) \in Nat
  <2> HIDE DEF all
  <2> QED
    BY <1>1, <1>2, SumSplit
<1>4. ASSUME NEW k \in Keys(s)
      PROVE  /\ OtherCounters(c, k, s) \in Nat
             /\ SumFunction(all) = c[k[1]][k[2]] + OtherCounters(c, k, s)
  <2> DEFINE rest == [j \in Keys(s) \ {k} |-> c[j[1]][j[2]]]
  <2>1. /\ DOMAIN rest = Keys(s) \ {k} /\ \A j \in Keys(s) \ {k} : rest[j] \in Nat
        /\ [j \in DOMAIN all \ {k} |-> all[j]] = rest
        /\ OtherCounters(c, k, s) = SumFunction(rest)
    BY <1>1 DEF OtherCounters
  <2>2. IsFiniteSet(DOMAIN rest)
    BY <1>1, <2>1, FS_RemoveElement
  <2> HIDE DEF all, rest
  <2>3. SumFunction(rest) \in Nat
    BY <2>1, <2>2, SumSplit
  <2>4. SumFunction(all) = all[k] + SumFunction([j \in DOMAIN all \ {k} |-> all[j]])
    BY <1>1, <1>2, SumSplit
  <2> QED
    BY <1>2, <2>1, <2>3, <2>4
<1> QED
  BY <1>3, <1>4

\* A step of a turn that leaves the counters alone keeps the bound, if the turn
\* owes no more than before but for what is recorded with the step.
LEMMA TurnCharges ==
    ASSUME TypeOK, TypeOK', ChargedOnce, NEW t \in Turns, NEW state, Becomes(t, state),
           UNCHANGED counter,
           \A s \in Slots :
              Own(t, s)' + rows[s] + unwritten[s] <= Own(t, s) + rows'[s] + unwritten'[s]
    PROVE  ChargedOnce'
<1> SUFFICES ASSUME NEW s \in Slots
             PROVE  (Charged(s) + Outstanding(s) <= rows[s] + unwritten[s])'
  BY DEF ChargedOnce
<1>1. Charged(s)' = Charged(s)
  BY DEF Charged
<1>2. Charged(s) \in Nat
  BY ChargedSplit DEF Charged, TypeOK
<1>3. /\ Own(t, s) \in Nat /\ OfOthers(t, s) \in Nat
      /\ Outstanding(s) = Own(t, s) + OfOthers(t, s)
  BY OutstandingSplit
<1>4. /\ Own(t, s)' \in Nat
      /\ Outstanding(s)' = Own(t, s)' + OfOthers(t, s)
  <2>1. (Own(t, s) \in Nat /\ Outstanding(s) = Own(t, s) + OfOthers(t, s))'
    BY OutstandingSplit, PTL
  <2> QED
    BY <2>1, OthersStay
<1>5. /\ rows[s] \in Nat /\ unwritten[s] \in Nat /\ rows'[s] \in Nat /\ unwritten'[s] \in Nat
  BY DEF TypeOK
<1>6. Charged(s) + Outstanding(s) <= rows[s] + unwritten[s]
  BY DEF ChargedOnce
<1> QED
  BY <1>1, <1>2, <1>3, <1>4, <1>5, <1>6

\* No turn is in two states at once: what it owes it owes where it counts.
LEMMA OwnFields ==
    ASSUME TypeOK, NEW t \in Turns, NEW s \in Slots
    PROVE  /\ Own(t, s) \in 0..MaxUsage
           /\ turn[t].pc \notin {"selecting", "counting"} => Own(t, s) = 0
           /\ turn[t].pc = "selecting" => Own(t, s) = turn[t].used[s]
           /\ turn[t].pc = "counting" =>
                Own(t, s) = IF \E p \in turn[t].owes : Slot[p] = s THEN turn[t].used[s] ELSE 0
<1>1. turn[t].used[s] \in 0..MaxUsage /\ 0 \in 0..MaxUsage
  BY Fields, UsageAssumption
<1> QED
  BY <1>1 DEF Own, Owing

\* An increment moves the usage of the turn from outstanding to charged, in the
\* slot of the policy and nowhere else.
LEMMA IncrementCharges ==
    ASSUME Inv, Inv', ChargeInv, NEW t \in Turns, NEW q \in Policies, IncrementCounter(t, q)
    PROVE  ChargedOnce'
<1> DEFINE state == [turn[t] EXCEPT !.owes = @ \ {q}]
           key == turn[t].now[Clock[q]]
           n == turn[t].used[Slot[q]]
<1>1. /\ TypeOK /\ TypeOK' /\ UNCHANGED <<rows, unwritten>>
      /\ turn[t].pc = "counting" /\ q \in turn[t].owes /\ turn[t].owes \subseteq Policies
      /\ Becomes(t, state) /\ turn'[t] = state
      /\ Slot[q] \in Slots /\ n \in Nat /\ key \in Periods
      /\ \A p \in turn[t].owes : Slot[p] = Slot[q] => p = q
  <2>1. Clock[q] \in Clocks /\ Slot[q] \in Slots
    BY PolicyAssumption
  <2>2. n \in 0..MaxUsage /\ key \in Periods /\ turn[t].owes \subseteq Policies
    BY <2>1, Fields DEF Inv
  <2> QED
    BY <2>1, <2>2, UsageAssumption
       DEF Inv, TypeOK, IncrementCounter, Becomes, ChargeInv, OnePerSlot
<1>2. /\ turn'[t].pc = "counting" /\ turn'[t].used = turn[t].used
      /\ turn'[t].owes = turn[t].owes \ {q}
  <2>1. turn[t] \in LocalState
    BY <1>1 DEF TypeOK
  <2> QED
    BY <1>1, <2>1 DEF LocalState
<1>3. /\ counter'[q][key] = counter[q][key] + n
      /\ \A p \in Policies, b \in Periods : p # q \/ b # key => counter'[p][b] = counter[p][b]
      /\ counter[q][key] \in Nat
  <2>1. /\ counter \in [Policies -> [Periods -> Nat]]
        /\ counter' = [counter EXCEPT ![q][key] = @ + n]
    BY <1>1 DEF IncrementCounter, TypeOK, Key
  <2> HIDE DEF key, n
  <2> QED
    BY <1>1, <2>1
<1> HIDE DEF state
<1> SUFFICES ASSUME NEW s \in Slots
             PROVE  (Charged(s) + Outstanding(s) <= rows[s] + unwritten[s])'
  BY DEF ChargedOnce
<1>4. /\ Own(t, s) \in Nat /\ OfOthers(t, s) \in Nat
      /\ Outstanding(s) = Own(t, s) + OfOthers(t, s)
  BY <1>1, OutstandingSplit
<1>5. Own(t, s)' \in Nat /\ Outstanding(s)' = Own(t, s)' + OfOthers(t, s)
  <2>1. (Own(t, s) \in Nat /\ Outstanding(s) = Own(t, s) + OfOthers(t, s))'
    BY <1>1, OutstandingSplit, PTL
  <2> QED
    BY <1>1, <2>1, OthersStay
<1>6. Charged(s) \in Nat /\ Charged(s) + Outstanding(s) <= rows[s] + unwritten[s]
  BY <1>1, ChargedSplit DEF ChargeInv, ChargedOnce, Charged, TypeOK
<1>7. rows[s] \in Nat /\ unwritten[s] \in Nat
  BY <1>1 DEF TypeOK
<1>8. CASE s = Slot[q]
  <2>1. PICK k \in Keys(s) : k = <<q, key>>
    BY <1>1, <1>8 DEF Keys
  <2>2. /\ OtherCounters(counter, k, s) \in Nat
        /\ Charged(s) = counter[q][key] + OtherCounters(counter, k, s)
    <3>1. counter \in [Policies -> [Periods -> Nat]]
      BY <1>1 DEF TypeOK
    <3> QED
      BY <2>1, <3>1, ChargedSplit DEF Charged
  <2>3. Charged(s)' = counter'[q][key] + OtherCounters(counter', k, s)
    <3>1. counter' \in [Policies -> [Periods -> Nat]]
      BY <1>1 DEF TypeOK
    <3> QED
      BY <2>1, <3>1, ChargedSplit DEF Charged
  <2>4. OtherCounters(counter', k, s) = OtherCounters(counter, k, s)
    <3>1. \A j \in Keys(s) \ {k} : counter'[j[1]][j[2]] = counter[j[1]][j[2]]
      BY <1>3, <2>1 DEF Keys
    <3> QED
      BY <3>1 DEF OtherCounters
  <2>5. Own(t, s) = n
    BY <1>1, <1>8, OwnFields
  <2>6. Own(t, s)' = 0
    <3>1. \A p \in turn'[t].owes : Slot[p] # s
      BY <1>1, <1>2, <1>8
    <3> QED
      BY <1>2, <3>1 DEF Own, Owing
  <2> QED
    <3>1. rows' = rows /\ unwritten' = unwritten /\ n \in Nat
      BY <1>1
    <3> HIDE DEF n, key
    <3>2. /\ Outstanding(s) = n + OfOthers(t, s) /\ Outstanding(s)' = OfOthers(t, s)
          /\ OfOthers(t, s) \in Nat
      BY <1>4, <1>5, <2>5, <2>6
    <3>3. /\ Charged(s) = counter[q][key] + OtherCounters(counter, k, s)
          /\ Charged(s)' = counter[q][key] + n + OtherCounters(counter, k, s)
          /\ counter[q][key] \in Nat /\ OtherCounters(counter, k, s) \in Nat
      BY <1>3, <2>2, <2>3, <2>4
    <3> QED
      BY <1>6, <1>7, <3>1, <3>2, <3>3
<1>9. CASE s # Slot[q]
  <2>1. Charged(s)' = Charged(s)
    <3>1. \A j \in Keys(s) : counter'[j[1]][j[2]] = counter[j[1]][j[2]]
      BY <1>3, <1>9 DEF Keys
    <3> QED
      BY <3>1 DEF Charged
  <2>2. Own(t, s)' = Own(t, s)
    <3>1. (\E p \in turn'[t].owes : Slot[p] = s) <=> (\E p \in turn[t].owes : Slot[p] = s)
      BY <1>2, <1>9
    <3> QED
      BY <1>1, <1>2, <3>1 DEF Own, Owing
  <2> QED
    BY <1>1, <1>4, <1>5, <1>6, <1>7, <2>1, <2>2
<1> QED
  BY <1>8, <1>9

\* One policy per slot is effective (_select_effective_policies).
LEMMA OneApplies ==
    ASSUME NEW c, NEW p, NEW q, Applies(c, p), Applies(c, q), Slot[p] = Slot[q]
    PROVE  p = q
BY DEF Applies

\* A step of turn t that leaves the counters alone and is not yet, or no longer,
\* or for the first time at the increments.
LEMMA TurnKeepsCharge ==
    ASSUME Inv, Inv', ChargeInv, NEW t \in Turns, NEW state, Becomes(t, state),
           UNCHANGED counter,
           state.pc = "counting" => \A p, q \in state.owes : Slot[p] = Slot[q] => p = q,
           \A s \in Slots :
              Own(t, s)' + rows[s] + unwritten[s] <= Own(t, s) + rows'[s] + unwritten'[s]
    PROVE  ChargeInv'
<1>1. turn'[t] = state /\ \A u \in Turns \ {t} : turn'[u] = turn[u]
  BY DEF Becomes, Inv, TypeOK
<1>2. OnePerSlot'
  BY <1>1 DEF ChargeInv, OnePerSlot
<1>3. ChargedOnce'
  BY TurnCharges DEF Inv, ChargeInv
<1> QED
  BY <1>2, <1>3 DEF ChargeInv

\* Before it is recorded, and once it is over, a turn has nothing to charge.
LEMMA NothingToCharge ==
    ASSUME Inv, Inv', ChargeInv, NEW t \in Turns, NEW state, Becomes(t, state),
           UNCHANGED <<counter, rows, unwritten>>, state.pc \notin {"selecting", "counting"}
    PROVE  ChargeInv'
<1>1. turn'[t] = state
  BY DEF Becomes, Inv, TypeOK
<1>2. ASSUME NEW s \in Slots
      PROVE  Own(t, s)' + rows[s] + unwritten[s] <= Own(t, s) + rows'[s] + unwritten'[s]
  <2>1. Own(t, s)' = 0
    BY <1>1 DEF Own, Owing
  <2>2. Own(t, s) \in 0..MaxUsage
    BY OwnFields DEF Inv
  <2>3. rows[s] \in Nat /\ unwritten[s] \in Nat /\ rows' = rows /\ unwritten' = unwritten
    BY DEF Inv, TypeOK
  <2> QED
    BY <2>1, <2>2, <2>3, UsageAssumption
<1> QED
  BY <1>2, TurnKeepsCharge

\* The usage of a turn becomes due with its row, or with the record that there is none.
LEMMA InsertCharges ==
    ASSUME Inv, Inv', ChargeInv, NEW t \in Turns, InsertUsage(t)
    PROVE  ChargeInv'
<1> DEFINE state == [turn[t] EXCEPT !.pc = "selecting"]
<1>1. /\ turn[t].pc = "recording" /\ Becomes(t, state) /\ UNCHANGED counter
      /\ \/ rows' = Plus(rows, turn[t].used) /\ unwritten' = unwritten
         \/ rows' = rows /\ unwritten' = Plus(unwritten, turn[t].used)
  BY DEF InsertUsage
<1>2. state.pc = "selecting" /\ state.used = turn[t].used /\ turn'[t] = state
  BY <1>1 DEF Inv, TypeOK, LocalState, Becomes
<1>3. ASSUME NEW s \in Slots
      PROVE  Own(t, s)' + rows[s] + unwritten[s] <= Own(t, s) + rows'[s] + unwritten'[s]
  <2>1. turn[t].used[s] \in 0..MaxUsage /\ rows[s] \in Nat /\ unwritten[s] \in Nat
    BY Fields DEF Inv, TypeOK
  <2>2. Own(t, s)' = turn[t].used[s] /\ Own(t, s) = 0
    BY <1>1, <1>2 DEF Own, Owing
  <2>3. rows'[s] + unwritten'[s] = rows[s] + unwritten[s] + turn[t].used[s]
    BY <1>1, <2>1, UsageAssumption DEF Plus
  <2>4. rows'[s] \in Nat /\ unwritten'[s] \in Nat
    BY DEF Inv, TypeOK
  <2> QED
    BY <2>1, <2>2, <2>3, <2>4, UsageAssumption
<1> HIDE DEF state
<1> QED
  BY <1>1, <1>2, <1>3, TurnKeepsCharge

\* Of what is due in a slot, one policy gets all or none does.
LEMMA SelectCharges ==
    ASSUME Inv, Inv', ChargeInv, NEW t \in Turns, SelectCounters(t)
    PROVE  ChargeInv'
<1> DEFINE due == {p \in effective_policies(turn[t].caller) : turn[t].used[Slot[p]] # 0}
           state == [turn[t] EXCEPT !.pc = "counting", !.owes = due, !.now = period]
<1>1. /\ turn[t].pc = "selecting" /\ Becomes(t, state)
      /\ UNCHANGED <<counter, rows, unwritten>>
  BY DEF SelectCounters
<1>2. /\ state.pc = "counting" /\ state.used = turn[t].used /\ state.owes = due
      /\ turn'[t] = state
  BY <1>1 DEF Inv, TypeOK, LocalState, Becomes
<1>3. \A p, q \in due : Slot[p] = Slot[q] => p = q
  BY OneApplies DEF effective_policies
<1>4. ASSUME NEW s \in Slots
      PROVE  Own(t, s)' + rows[s] + unwritten[s] <= Own(t, s) + rows'[s] + unwritten'[s]
  <2>1. turn[t].used[s] \in 0..MaxUsage /\ rows[s] \in Nat /\ unwritten[s] \in Nat
    BY Fields DEF Inv, TypeOK
  <2>2. Own(t, s)' \in {0, turn[t].used[s]}
    BY <1>2 DEF Own
  <2>3. Own(t, s) = turn[t].used[s]
    BY <1>1 DEF Own, Owing
  <2> QED
    BY <1>1, <2>1, <2>2, <2>3, UsageAssumption
<1> HIDE DEF state, due
<1> QED
  BY <1>1, <1>2, <1>3, <1>4, TurnKeepsCharge

\* One increment less to do.
LEMMA IncrementKeepsCharge ==
    ASSUME Inv, Inv', ChargeInv, NEW t \in Turns, NEW q \in Policies, IncrementCounter(t, q)
    PROVE  ChargeInv'
<1>1. ChargedOnce'
  BY IncrementCharges
<1>2. turn' = [turn EXCEPT ![t] = [turn[t] EXCEPT !.owes = @ \ {q}]] /\ turn[t].pc = "counting"
  BY DEF IncrementCounter, Becomes
<1>3. /\ turn'[t].owes = turn[t].owes \ {q}
      /\ \A u \in Turns \ {t} : turn'[u] = turn[u]
  BY <1>2 DEF Inv, TypeOK, LocalState
<1>4. OnePerSlot'
  BY <1>2, <1>3 DEF ChargeInv, OnePerSlot
<1> QED
  BY <1>1, <1>4 DEF ChargeInv

\* Nothing changes that the sums are made of.
LEMMA SameCharge ==
    ASSUME ChargeInv, UNCHANGED <<turn, counter, rows, unwritten>>
    PROVE  ChargeInv'
<1>1. OnePerSlot'
  BY DEF ChargeInv, OnePerSlot
<1>2. \A s \in Slots : Charged(s)' = Charged(s) /\ Outstanding(s)' = Outstanding(s)
  BY DEF Charged, Outstanding, Owing
<1>3. ChargedOnce'
  BY <1>2 DEF ChargeInv, ChargedOnce
<1> QED
  BY <1>1, <1>3 DEF ChargeInv

\* One action at a time.
LEMMA ChargeStep ==
    ASSUME Inv, Inv', ChargeInv, [Next]_vars
    PROVE  ChargeInv'
<1>1. CASE UNCHANGED vars
  BY <1>1, SameCharge DEF vars
<1>2. CASE PolicyEdits \/ \E c \in Clocks : PeriodEnds(c)
  <2>1. UNCHANGED <<turn, counter, rows, unwritten>>
    BY <1>2 DEF PolicyEdits, create_quota_policy, update_quota_policy, delete_quota_policy,
                Change, PeriodEnds
  <2> QED
    BY <2>1, SameCharge
<1>3. ASSUME NEW t \in Turns, Turn(t) PROVE ChargeInv'
  <2>1. CASE SelectPolicies(t) \/ (\E p \in Policies : CheckCounter(t, p)) \/ Admit(t)
             \/ Completes(t) \/ Fails(t) \/ Recorded(t) \/ Breaks(t)
    <3>1. turn[t] \in LocalState /\ UNCHANGED <<counter, rows, unwritten>>
      BY <2>1 DEF Inv, TypeOK, SelectPolicies, CheckCounter, Admit, Completes, Fails,
                  Recorded, Breaks
    <3>2. \E state : Becomes(t, state) /\ state.pc \notin {"selecting", "counting"}
      <4>1. Idle.pc = "idle"
        BY DEF Idle
      <4>2. CASE SelectPolicies(t)
        BY <4>2 DEF SelectPolicies
      <4>3. CASE \E p \in Policies : CheckCounter(t, p)
        <5>1. PICK p \in Policies : CheckCounter(t, p)
          BY <4>3
        <5>2. \/ Becomes(t, Idle)
              \/ Becomes(t, [turn[t] EXCEPT !.owes = @ \ {p}]) /\ turn[t].pc = "checking"
          BY <5>1 DEF CheckCounter
        <5>3. turn[t].pc = "checking" => [turn[t] EXCEPT !.owes = @ \ {p}].pc = "checking"
          BY <3>1 DEF LocalState
        <5> QED
          BY <4>1, <5>2, <5>3
      <4>4. CASE Admit(t)
        <5> DEFINE state == [Idle EXCEPT !.pc = "running", !.caller = turn[t].caller]
        <5>1. state.pc = "running" /\ Becomes(t, state)
          BY <4>4 DEF Admit, Idle
        <5> HIDE DEF state
        <5> QED
          BY <5>1
      <4>5. CASE Completes(t)
        <5>1. PICK used \in Usage : Becomes(t, [turn[t] EXCEPT !.pc = "recording", !.used = used])
          BY <4>5 DEF Completes
        <5>2. [turn[t] EXCEPT !.pc = "recording", !.used = used].pc = "recording"
          BY <3>1 DEF LocalState
        <5> QED
          BY <5>1, <5>2
      <4>6. CASE Fails(t) \/ Recorded(t) \/ Breaks(t)
        BY <4>1, <4>6 DEF Fails, Recorded, Breaks
      <4> QED
        BY <2>1, <4>2, <4>3, <4>4, <4>5, <4>6
    <3> QED
      BY <3>1, <3>2, NothingToCharge
  <2> QED
    BY <1>3, <2>1, InsertCharges, SelectCharges, IncrementKeepsCharge DEF Turn
<1> QED
  BY <1>1, <1>2, <1>3 DEF Next

\* Nothing is used and nothing charged at first.
LEMMA ChargeInit ==
    ASSUME Init
    PROVE  ChargeInv
<1>1. OnePerSlot
  BY DEF Init, OnePerSlot, Idle
<1>2. ASSUME NEW s \in Slots
      PROVE  Charged(s) + Outstanding(s) <= rows[s] + unwritten[s]
  <2>1. rows[s] = 0 /\ unwritten[s] = 0
    BY DEF Init, NoUsage
  <2>2. Charged(s) = 0
    <3> DEFINE all == [k \in Keys(s) |-> counter[k[1]][k[2]]]
    <3>1. IsFiniteSet(Periods) /\ IsFiniteSet({p \in Policies : Slot[p] = s})
      BY PolicyAssumption, UsageAssumption, FS_Interval, FS_Subset DEF Periods
    <3>2. IsFiniteSet(Keys(s))
      BY <3>1, FS_Product DEF Keys
    <3>3. DOMAIN all = Keys(s) /\ \A k \in Keys(s) : all[k] = 0
      BY DEF Init, Keys
    <3>4. Charged(s) = SumFunction(all)
      BY DEF Charged
    <3> HIDE DEF all
    <3> QED
      BY <3>2, <3>3, <3>4, SumOfZeros
  <2>3. Outstanding(s) = 0
    <3> DEFINE none == [t \in Owing(s) |-> turn[t].used[s]]
    <3>1. Owing(s) = {}
      BY DEF Owing, Init, Idle
    <3>2. DOMAIN none = {} /\ Outstanding(s) = SumFunction(none)
      BY <3>1 DEF Outstanding
    <3> HIDE DEF none
    <3> QED
      BY <3>2, FS_EmptySet, SumOfZeros
  <2> QED
    BY <2>1, <2>2, <2>3
<1> QED
  BY <1>1, <1>2 DEF ChargeInv, ChargedOnce

\* Usage is charged to one policy per slot and once, for any policies, edits,
\* periods and turns (record_usage, _select_effective_policies).
THEOREM ChargedAtMostOnce == Spec => []ChargedOnce
<1>1. ChargeInv => ChargedOnce
  BY DEF ChargeInv
<1> QED
  BY <1>1, ChargeInit, ChargeStep, InvHolds, PTL DEF Spec
=============================================================================
