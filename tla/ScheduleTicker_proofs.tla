----------------------- MODULE ScheduleTicker_proofs ------------------------
(***************************************************************************)
(* Theorems about ScheduleTicker for every number of schedules and         *)
(* replicas and for all time constants: the types, that an enabled         *)
(* schedule is planned, and that a lock which lasts for one turn over all  *)
(* schedules keeps an occurrence from being fired twice.                   *)
(***************************************************************************)
EXTENDS ScheduleTicker, Integers, FiniteSetTheorems, TLAPS

\* The rows of workflow_schedules.
Schedule == [state: {"absent", "live", "deleted"}, enabled: BOOLEAN,
             every: Timing, planned: BOOLEAN, next: 0..MaxGap]

\* The next occurrence is a later one and within the bound.
LEMMA NextRunAt ==
    ASSUME NEW every \in Timing, NEW next \in compute_next_run_at(every)
    PROVE  next \in 1..MaxGap
BY TimeAssumption DEF compute_next_run_at, Timing, Cron

\* A time to live or to the next occurrence never becomes negative.
LEMMA CountDownType ==
    ASSUME NEW max \in Nat, NEW n \in 0..max
    PROVE  CountDown(n) \in 0..max
BY DEF CountDown

\* Of a schedule that requests never shared: at most one is at work on it, and one that
\* has sent nothing yet still agrees with the row it has read.
RequestIsAlone ==
    \A s \in Schedules \ overlapped : \A r \in Requests : s \in request[r].on =>
        /\ \A q \in Requests : s \in request[q].on => q = r
        /\ sched[s].state # "absent"
        /\ ~request[r].locks => sched[s].enabled = request[r].enabled

Planned == EnabledIsPlanned /\ RequestIsAlone

Inv == TypeOK /\ Planned

\* Nothing is scheduled at first.
LEMMA InitInv == Init => Inv
<1>1. Cron \in Timing /\ 0 \in 0..MaxGap /\ 0 \in 0..LockTTL /\ 0 \in 0..MaxFaults
  BY TimeAssumption DEF Cron, Timing
<1> QED
  BY <1>1 DEF Init, Inv, Planned, TypeOK, EnabledIsPlanned, RequestIsAlone, NoRequest, PC

\* A schedule is created planned; no request knows it yet.
LEMMA CreateStep ==
    ASSUME TypeOK, NEW s \in Schedules, create(s)
    PROVE  TypeOK' /\ (Planned => Planned')
<1>1. PICK enabled \in BOOLEAN, every \in Timing, next \in 1..MaxGap :
        sched' = [sched EXCEPT ![s] = [state |-> "live", enabled |-> enabled, every |-> every,
                                       planned |-> TRUE, next |-> next]]
  BY NextRunAt DEF create
<1>2. next \in 0..MaxGap /\ sched \in [Schedules -> Schedule]
  BY TimeAssumption DEF TypeOK, Schedule
<1>3. UNCHANGED <<request, overlapped, tickerVars>> /\ sched[s].state = "absent"
  BY DEF create
<1>4. sched' \in [Schedules -> Schedule]
  BY <1>1, <1>2 DEF Schedule
<1>5. TypeOK'
  BY <1>3, <1>4 DEF TypeOK, Schedule, tickerVars
<1>6. Planned => Planned'
  BY <1>1, <1>2, <1>3 DEF TypeOK, Planned, EnabledIsPlanned, RequestIsAlone
<1> QED
  BY <1>5, <1>6 DEF Planned

\* A deleted schedule keeps its flags.
LEMMA DeleteStep ==
    ASSUME TypeOK, NEW s \in Schedules, delete(s)
    PROVE  TypeOK' /\ (Planned => Planned')
<1>1. sched \in [Schedules -> Schedule] /\ sched' = [sched EXCEPT ![s].state = "deleted"]
  BY DEF TypeOK, Schedule, delete
<1>2. /\ sched' \in [Schedules -> Schedule]
      /\ \A t \in Schedules :
            /\ sched'[t].enabled = sched[t].enabled /\ sched'[t].planned = sched[t].planned
            /\ sched'[t].state \in {sched[t].state, "deleted"}
  BY <1>1 DEF Schedule
<1>3. TypeOK'
  BY <1>2 DEF TypeOK, Schedule, delete, tickerVars
<1>4. Planned => EnabledIsPlanned'
  BY <1>2 DEF Planned, EnabledIsPlanned, delete
<1>5. Planned => RequestIsAlone'
  BY <1>2 DEF Planned, RequestIsAlone, delete
<1> QED
  BY <1>3, <1>4, <1>5 DEF Planned

\* A request that starts writes nothing others see.
LEMMA RequestStarts ==
    ASSUME TypeOK, NEW r \in Requests, NEW s \in Schedules,
           update_columns(r, s) \/ trigger_reads(r, s)
    PROVE  TypeOK' /\ (Planned => Planned')
<1>1. /\ UNCHANGED <<sched, tickerVars>> /\ sched[s].state = "live"
      /\ sched \in [Schedules -> Schedule] /\ request[r].on = {}
  BY DEF update_columns, trigger_reads, TypeOK, Schedule
<1>2. PICK locks \in BOOLEAN, enabled \in BOOLEAN, every \in Timing :
        /\ request' = [request EXCEPT ![r] = [on |-> {s}, locks |-> locks, enabled |-> enabled,
                                             every |-> every, planned |-> sched[s].planned]]
        /\ ~locks => enabled = sched[s].enabled
  <2>1. sched[s].enabled \in BOOLEAN /\ sched[s].every \in Timing
    BY <1>1 DEF Schedule
  <2> QED
    BY <2>1 DEF update_columns, trigger_reads, Loaded, Sees
<1>3. /\ overlapped' = overlapped \cup {x \in {s} : \E q \in Requests \ {r} : x \in request[q].on}
      /\ overlapped' \in SUBSET Schedules
  BY DEF update_columns, trigger_reads, Overlaps, TypeOK
<1>4. TypeOK'
  BY <1>1, <1>2, <1>3 DEF TypeOK, Schedule, tickerVars
<1>5. Planned => RequestIsAlone'
  <2>1. request'[r] = [on |-> {s}, locks |-> request'[r].locks, enabled |-> request'[r].enabled,
                       every |-> request'[r].every, planned |-> sched[s].planned]
    BY <1>2 DEF TypeOK
  <2>2. \A q \in Requests \ {r} : request'[q] = request[q]
    BY <1>2 DEF TypeOK
  <2>3. request'[r].on = {s} /\ (~request'[r].locks => request'[r].enabled = sched[s].enabled)
    BY <1>2 DEF TypeOK
  <2>4. ASSUME Planned, NEW x \in Schedules \ overlapped', NEW q \in Requests, x \in request'[q].on
        PROVE  /\ \A other \in Requests : x \in request'[other].on => other = q
               /\ sched[x].state # "absent"
               /\ ~request'[q].locks => sched[x].enabled = request'[q].enabled
    <3>1. x \notin overlapped
      BY <1>3
    <3>2. CASE x = s
      <4>1. \A other \in Requests \ {r} : x \notin request[other].on
        BY <1>3, <3>2
      <4> QED
        BY <1>1, <2>2, <2>3, <2>4, <3>2, <4>1
    <3>3. CASE x # s
      <4>1. q # r /\ (\A other \in Requests : x \in request'[other].on => other # r)
        BY <2>3, <2>4, <3>3
      <4> QED
        BY <2>2, <2>4, <3>1, <4>1 DEF Planned, RequestIsAlone
    <3> QED
      BY <3>2, <3>3
  <2> QED
    BY <1>1, <2>4 DEF RequestIsAlone
<1>6. Planned => EnabledIsPlanned'
  BY <1>1, <1>3 DEF Planned, EnabledIsPlanned
<1> QED
  BY <1>4, <1>5, <1>6 DEF Planned

\* A request that was alone plans the schedule if it leaves it enabled.
LEMMA UpdateNextRunAtStep ==
    ASSUME TypeOK, NEW r \in Requests, update_next_run_at(r)
    PROVE  TypeOK' /\ (Planned => Planned')
<1> DEFINE sent == request[r].enabled \/ request[r].planned
<1>1. PICK s \in request[r].on, next \in compute_next_run_at(request[r].every) :
        sched' = [sched EXCEPT
              ![s].enabled = IF request[r].locks THEN request[r].enabled ELSE @,
              ![s].every = IF request[r].locks THEN request[r].every ELSE @,
              ![s].planned = IF sent THEN request[r].enabled ELSE @,
              ![s].next = IF request[r].enabled THEN next ELSE IF sent THEN 0 ELSE @]
  BY DEF update_next_run_at
<1>2. /\ s \in Schedules /\ sched \in [Schedules -> Schedule] /\ next \in 0..MaxGap /\ 0 \in 0..MaxGap
      /\ request[r].every \in Timing /\ request[r].enabled \in BOOLEAN /\ request[r].planned \in BOOLEAN
      /\ request[r].locks \in BOOLEAN
  <2>1. request[r].every \in Timing /\ s \in Schedules
    BY DEF TypeOK
  <2> QED
    BY <2>1, NextRunAt, TimeAssumption DEF TypeOK, Schedule
<1>3. sched'[s] = [sched[s] EXCEPT
              !.enabled = IF request[r].locks THEN request[r].enabled ELSE @,
              !.every = IF request[r].locks THEN request[r].every ELSE @,
              !.planned = IF sent THEN request[r].enabled ELSE @,
              !.next = IF request[r].enabled THEN next ELSE IF sent THEN 0 ELSE @]
  BY <1>1, <1>2
<1>4. sched[s] \in Schedule
  BY <1>2
<1> HIDE DEF sent
<1>5. /\ sched'[s].state = sched[s].state
      /\ sched'[s].enabled = (IF request[r].locks THEN request[r].enabled ELSE sched[s].enabled)
      /\ sched'[s].planned = (IF sent THEN request[r].enabled ELSE sched[s].planned)
      /\ sched'[s] \in Schedule
  BY <1>2, <1>3, <1>4 DEF Schedule
<1>6. \A t \in Schedules \ {s} : sched'[t] = sched[t]
  BY <1>1, <1>2
<1>7. request' = [request EXCEPT ![r] = NoRequest] /\ UNCHANGED <<overlapped, tickerVars>>
  BY DEF update_next_run_at
<1>8. TypeOK'
  <2>1. sched' \in [Schedules -> Schedule]
    BY <1>1, <1>2, <1>5, <1>6
  <2>2. Cron \in Timing
    BY DEF Timing
  <2> QED
    BY <1>7, <2>1, <2>2 DEF TypeOK, Schedule, tickerVars, NoRequest
<1>9. Planned /\ s \notin overlapped => (sched'[s].enabled => request[r].enabled)
  BY <1>2, <1>5 DEF Planned, RequestIsAlone
<1>10. Planned /\ s \notin overlapped => (sched'[s].enabled => sched'[s].planned)
  BY <1>5, <1>9 DEF sent
<1>11. Planned => EnabledIsPlanned'
  BY <1>6, <1>7, <1>10 DEF Planned, EnabledIsPlanned
<1>12. Planned => RequestIsAlone'
  <2>1. request'[r].on = {} /\ \A q \in Requests \ {r} : request'[q] = request[q]
    BY <1>7 DEF TypeOK, NoRequest
  <2> QED
    BY <1>6, <1>7, <2>1 DEF Planned, RequestIsAlone
<1> QED
  BY <1>8, <1>11, <1>12 DEF Planned

\* A request that is rolled back leaves nothing.
LEMMA AbortsStep ==
    ASSUME TypeOK, NEW r \in Requests, aborts(r)
    PROVE  TypeOK' /\ (Planned => Planned')
<1>1. Cron \in Timing
  BY DEF Timing
<1>2. /\ UNCHANGED <<sched, overlapped, tickerVars>>
      /\ request'[r].on = {} /\ \A q \in Requests \ {r} : request'[q] = request[q]
  BY DEF aborts, TypeOK, NoRequest
<1>3. TypeOK'
  BY <1>1 DEF aborts, TypeOK, NoRequest, tickerVars
<1>4. Planned => Planned'
  BY <1>2 DEF Planned, EnabledIsPlanned, RequestIsAlone
<1> QED
  BY <1>3, <1>4

\* record_fired plans the schedule again, whatever happened to it meanwhile.
LEMMA RecordFiredStep ==
    ASSUME TypeOK, NEW p \in Replicas, RecordFired(p)
    PROVE  TypeOK' /\ (Planned => Planned')
<1>1. PICK s \in current[p], next \in compute_next_run_at(fresh[p]) :
        /\ sched' = [sched EXCEPT ![s].planned = TRUE, ![s].next = next]
        /\ handled' = [q \in Replicas |->
              IF q # p /\ pc[q] \in {"fire", "refetch", "run"} THEN handled[q] \cup {s} ELSE handled[q]]
  BY DEF RecordFired
<1>2. s \in Schedules /\ fresh[p] \in Timing /\ sched \in [Schedules -> Schedule]
  BY DEF TypeOK, Schedule
<1>3. next \in 0..MaxGap
  BY <1>2, NextRunAt, TimeAssumption
<1>4. sched'[s] = [sched[s] EXCEPT !.planned = TRUE, !.next = next]
  BY <1>1, <1>2
<1>5. /\ sched'[s] \in Schedule /\ sched'[s].planned = TRUE
      /\ sched'[s].state = sched[s].state /\ sched'[s].enabled = sched[s].enabled
  BY <1>2, <1>3, <1>4 DEF Schedule
<1>6. \A other \in Schedules \ {s} : sched'[other] = sched[other]
  BY <1>1, <1>2
<1>7. sched' \in [Schedules -> Schedule]
  BY <1>1, <1>2, <1>5, <1>6
<1>8. handled' \in [Replicas -> SUBSET Schedules]
  BY <1>1, <1>2 DEF TypeOK
<1>9. Planned => EnabledIsPlanned'
  BY <1>5, <1>6 DEF Planned, EnabledIsPlanned, RecordFired
<1>10. Planned => RequestIsAlone'
  <2>1. \A x \in Schedules : sched'[x].state = sched[x].state /\ sched'[x].enabled = sched[x].enabled
    BY <1>5, <1>6
  <2>2. UNCHANGED <<request, overlapped>>
    BY DEF RecordFired
  <2> QED
    BY <2>1, <2>2 DEF Planned, RequestIsAlone
<1>11. TypeOK'
  <2>1. fresh' \in [Replicas -> Timing]
    BY DEF TypeOK, RecordFired, Timing
  <2>2. /\ pc' \in [Replicas -> PC] /\ current' \in [Replicas -> SUBSET Schedules]
        /\ clock' \in [Replicas -> Nat]
    BY DEF TypeOK, RecordFired, PC
  <2> QED
    BY <1>7, <1>8, <2>1, <2>2 DEF TypeOK, RecordFired, Schedule
<1> QED
  BY <1>9, <1>10, <1>11 DEF Planned

\* The other steps of a replica do not write the schedules.
LEMMA ReplicaStep ==
    ASSUME TypeOK, NEW p \in Replicas,
           \/ Poll(p) \/ (\E s \in Schedules : TryLock(p, s)) \/ Refetch(p)
           \/ EndTick(p) \/ WakeUp(p) \/ Restart(p) \/ RunConflict(p) \/ Crash(p)
    PROVE  TypeOK' /\ UNCHANGED <<sched, request, overlapped>>
<1>1. CASE Poll(p)
  BY <1>1 DEF TypeOK, Poll, PC
<1>2. ASSUME NEW s \in Schedules, TryLock(p, s) PROVE TypeOK' /\ UNCHANGED <<sched, request, overlapped>>
  <2>1. LockTTL \in 0..LockTTL
    BY TimeAssumption
  <2>2. lock' \in [Schedules -> 0..LockTTL]
    BY <1>2, <2>1 DEF TypeOK, TryLock
  <2>3. pc' \in [Replicas -> PC]
    BY <1>2 DEF TypeOK, TryLock, PC
  <2>4. current' \in [Replicas -> SUBSET Schedules]
    BY <1>2 DEF TypeOK, TryLock
  <2>5. /\ due' \in [Replicas -> SUBSET Schedules]
        /\ clock' \in [Replicas -> Nat]
        /\ UNCHANGED <<request, overlapped, sched, fresh, handled, faults>>
    BY <1>2 DEF TypeOK, TryLock
  <2> QED
    BY <2>2, <2>3, <2>4, <2>5 DEF TypeOK
<1>3. CASE Refetch(p)
  BY <1>3 DEF TypeOK, Refetch, PC
<1>4. CASE EndTick(p)
  BY <1>4 DEF TypeOK, EndTick, PC
<1>5. CASE WakeUp(p)
  BY <1>5 DEF TypeOK, WakeUp, PC
<1>6. CASE Restart(p)
  BY <1>6 DEF TypeOK, Restart, PC
<1>7. ASSUME faults < MaxFaults, faults' = faults + 1, TypeOK
      PROVE  faults' \in 0..MaxFaults
  BY <1>7, TimeAssumption DEF TypeOK
<1>8. CASE RunConflict(p)
  <2>1. Cron \in Timing
    BY DEF Timing
  <2> QED
    BY <1>8, <2>1 DEF TypeOK, RunConflict, PC
<1>9. CASE Crash(p)
  <2>1. /\ UNCHANGED <<request, overlapped, sched, lock>>
        /\ faults' \in 0..MaxFaults /\ Cron \in Timing
    BY <1>7, <1>9 DEF Crash, Timing
  <2>2. /\ pc' \in [Replicas -> PC]
        /\ due' \in [Replicas -> SUBSET Schedules]
        /\ current' \in [Replicas -> SUBSET Schedules]
        /\ clock' \in [Replicas -> Nat]
        /\ handled' \in [Replicas -> SUBSET Schedules]
        /\ fresh' \in [Replicas -> Timing]
    BY <1>9, <2>1 DEF TypeOK, Crash, PC
  <2> QED
    BY <2>1, <2>2 DEF TypeOK
<1> QED
  BY <1>1, <1>2, <1>3, <1>4, <1>5, <1>6, <1>8, <1>9

\* The passing of time changes no flag of a schedule.
LEMMA PassStep ==
    ASSUME TypeOK, Pass
    PROVE  TypeOK' /\ (Planned => Planned')
<1>1. sched \in [Schedules -> Schedule] /\ MaxGap \in Nat /\ LockTTL \in Nat
  BY TimeAssumption DEF TypeOK, Schedule
<1>2. ASSUME NEW s \in Schedules
      PROVE  /\ sched'[s] \in Schedule
             /\ sched'[s].state = sched[s].state /\ sched'[s].enabled = sched[s].enabled
             /\ sched'[s].planned = sched[s].planned
  <2>1. sched'[s] = [sched[s] EXCEPT !.next = CountDown(sched[s].next)]
    BY DEF Pass
  <2>2. CountDown(sched[s].next) \in 0..MaxGap
    BY <1>1, CountDownType DEF Schedule
  <2> QED
    BY <1>1, <2>1, <2>2 DEF Schedule
<1>3. sched' \in [Schedules -> Schedule]
  BY <1>2 DEF Pass
<1>4. lock' \in [Schedules -> 0..LockTTL]
  BY <1>1, CountDownType DEF TypeOK, Pass
<1>5. clock' \in [Replicas -> Nat]
  BY DEF TypeOK, Pass
<1>6. TypeOK'
  BY <1>3, <1>4, <1>5 DEF TypeOK, Pass, Schedule
<1>7. Planned => EnabledIsPlanned'
  BY <1>2 DEF Planned, EnabledIsPlanned, Pass
<1>8. Planned => RequestIsAlone'
  BY <1>2 DEF Planned, RequestIsAlone, Pass
<1> QED
  BY <1>6, <1>7, <1>8 DEF Planned

\* Every step keeps the types; requests that do not overlap keep the rest.
LEMMA InvStep == TypeOK /\ [Next]_vars => TypeOK' /\ (Planned => Planned')
<1> SUFFICES ASSUME TypeOK, [Next]_vars
             PROVE  TypeOK' /\ (Planned => Planned')
  OBVIOUS
<1>1. CASE Service
  BY <1>1, CreateStep, DeleteStep, RequestStarts, UpdateNextRunAtStep, AbortsStep
     DEF Service, Serve
<1>2. ASSUME NEW p \in Replicas, Step(p) \/ RunConflict(p) \/ Crash(p)
      PROVE  TypeOK' /\ (Planned => Planned')
  <2>1. CASE RecordFired(p)
    BY <2>1, RecordFiredStep
  <2>2. CASE ~RecordFired(p)
    <3>1. TypeOK' /\ UNCHANGED <<sched, request, overlapped>>
      BY <1>2, <2>2, ReplicaStep DEF Step
    <3> QED
      BY <3>1 DEF Planned, EnabledIsPlanned, RequestIsAlone
  <2> QED
    BY <2>1, <2>2
<1>3. CASE Pass
  BY <1>3, PassStep
<1>4. CASE UNCHANGED vars
  BY <1>4 DEF TypeOK, Planned, EnabledIsPlanned, RequestIsAlone, vars
<1> QED
  BY <1>1, <1>2, <1>3, <1>4 DEF Next

\* Rows, locks and clocks keep their types and bounds, however many requests
\* there are (compute_next_run_at, _try_acquire_lock, run_ticker_loop).
THEOREM TypeCorrect == Spec => []TypeOK
<1>1. Init => TypeOK
  BY InitInv DEF Inv
<1>2. TypeOK /\ [Next]_vars => TypeOK'
  BY InvStep
<1> QED
  BY <1>1, <1>2, PTL DEF Spec

\* An enabled schedule has a next occurrence unless two requests worked on it at the
\* same time (create, update, record_fired of a run and of a trigger), for any number
\* of schedules, replicas and requests and any timing.  Of two that overlap, the later
\* one can plan the schedule from what the earlier one has overwritten.
THEOREM EnabledHasNextRun == Spec => []EnabledIsPlanned
<1>1. Inv => EnabledIsPlanned
  BY DEF Inv, Planned
<1>2. Inv /\ [Next]_vars => Inv'
  BY InvStep DEF Inv
<1> QED
  BY <1>1, <1>2, InitInv, PTL DEF Spec
-----------------------------------------------------------------------------
(* Every occurrence fires once.  A lock outlives the run it was taken for,   *)
(* and then the rest of every list that was polled before that run ended.    *)

\* The longest a replica spends on one entry of its list.
PerEntry == 2 * MaxLag + MaxRun

\* Every request, run and step of a replica may take as long as it may, and the
\* lock lasts for one turn over all schedules.
LockIsLong == IsFiniteSet(Schedules) /\ LockTTL > Cardinality(Schedules) * PerEntry

\* The time an entry may have cost replica p so far; the next one, if p is between
\* two entries, has used up all of it but the lag before its lock.
Spent(p) ==
    IF pc[p] = "refetch" THEN clock[p]
    ELSE IF pc[p] = "run" THEN MaxLag + clock[p]
    ELSE MaxLag + MaxRun + clock[p]

Budget(p) == Cardinality(due[p]) * PerEntry

Places(p) ==
    /\ pc[p] \notin {"fire", "refetch", "run"} => due[p] = {}
    /\ pc[p] \notin {"refetch", "run"} => current[p] = {}
    /\ pc[p] \in {"refetch", "run"} => \E s \in Schedules : current[p] = {s} /\ s \notin due[p]
    /\ pc[p] \in {"fire", "refetch"} => clock[p] <= MaxLag
    /\ pc[p] = "run" => clock[p] <= MaxRun

\* The lock of the current entry, and of an entry of the list that another replica
\* has handled meanwhile, lasts long enough.
LockLasts(p) ==
    /\ \A s \in current[p] : lock[s] >= LockTTL - Spent(p) /\ s \notin handled[p]
    /\ \A s \in due[p] \cap handled[p] : lock[s] > Budget(p) - Spent(p)

Alone == \A p, q \in Replicas : p # q => current[p] \cap current[q] = {}

LockInv ==
    /\ \A p \in Replicas : Places(p) /\ LockLasts(p)
    /\ Alone

LEMMA Products ==
    ASSUME NEW m \in Nat, NEW n \in Nat, NEW k \in Nat
    PROVE  /\ m * k \in Nat
           /\ (m + 1) * k = m * k + k
           /\ m <= n => m * k <= n * k
<1>1. m * k \in Nat /\ (m + 1) * k = m * k + k
  OBVIOUS
<1>2. m <= n => m * k <= n * k
  OBVIOUS
<1> QED
  BY <1>1, <1>2

LEMMA Times == MaxLag \in Nat /\ MaxRun \in Nat /\ LockTTL \in Nat /\ PerEntry \in Nat
BY TimeAssumption DEF PerEntry

\* What a list costs, at most: an entry less for one that is not in it.
LEMMA BudgetBound ==
    ASSUME LockIsLong, TypeOK, NEW p \in Replicas
    PROVE  /\ Budget(p) \in Nat
           /\ Budget(p) < LockTTL
           /\ \A s \in Schedules \ due[p] : Budget(p) + PerEntry < LockTTL
           /\ \A s \in due[p] : Budget(p) >= PerEntry
<1> DEFINE N == Cardinality(Schedules)
           n == Cardinality(due[p])
<1>1. IsFiniteSet(Schedules) /\ due[p] \subseteq Schedules
  BY DEF LockIsLong, TypeOK
<1>2. IsFiniteSet(due[p]) /\ n \in Nat /\ N \in Nat /\ n <= N
  BY <1>1, FS_Subset, FS_CardinalityType
<1>3. \A s \in Schedules \ due[p] : n + 1 <= N
  <2>1. ASSUME NEW s \in Schedules \ due[p] PROVE n + 1 <= N
    <3>1. due[p] # Schedules
      OBVIOUS
    <3>2. n # N
      BY <1>1, <3>1, FS_Subset
    <3> QED
      BY <1>2, <3>2
  <2> QED
    BY <2>1
<1>4. \A s \in due[p] : n >= 1
  BY <1>2, FS_EmptySet
<1> HIDE DEF n, N
<1>5. n * PerEntry \in Nat /\ n * PerEntry <= N * PerEntry /\ N * PerEntry \in Nat
  BY <1>2, Products, Times
<1>6. (n + 1) * PerEntry = n * PerEntry + PerEntry
  BY <1>2, Products, Times
<1>7. n + 1 <= N => (n + 1) * PerEntry <= N * PerEntry
  BY <1>2, Products, Times
<1>8. n >= 1 => PerEntry <= n * PerEntry
  <2>1. 1 * PerEntry = PerEntry
    BY Times
  <2> QED
    BY <1>2, <2>1, Products, Times
<1>9. N * PerEntry < LockTTL /\ Budget(p) = n * PerEntry
  BY Times DEF LockIsLong, N, n, Budget
<1> QED
  BY <1>3, <1>4, <1>5, <1>6, <1>7, <1>8, <1>9, Times

\* An entry off the list takes its share of the time with it.
LEMMA BudgetShrinks ==
    ASSUME LockIsLong, TypeOK, NEW p \in Replicas, NEW s \in due[p], due'[p] = due[p] \ {s}
    PROVE  Budget(p)' = Budget(p) - PerEntry
<1>1. IsFiniteSet(due[p])
  BY FS_Subset DEF LockIsLong, TypeOK
<1>2. Cardinality(due[p] \ {s}) \in Nat /\ Cardinality(due[p]) = Cardinality(due[p] \ {s}) + 1
  <2>1. IsFiniteSet(due[p] \ {s}) /\ Cardinality(due[p] \ {s}) = Cardinality(due[p]) - 1
    BY <1>1, FS_RemoveElement
  <2>2. Cardinality(due[p] \ {s}) \in Nat /\ Cardinality(due[p]) \in Nat
    BY <1>1, <2>1, FS_CardinalityType
  <2> QED
    BY <2>1, <2>2
<1>3. PerEntry' = PerEntry
  BY DEF PerEntry
<1> QED
  BY <1>2, <1>3, Products, Times DEF Budget

\* A replica that takes no step keeps its promises while no lock is shortened.
LEMMA Undisturbed ==
    ASSUME LockIsLong, TypeOK, TypeOK', NEW q \in Replicas, Places(q), LockLasts(q),
           pc'[q] = pc[q], due'[q] = due[q], current'[q] = current[q], clock'[q] = clock[q],
           handled'[q] = handled[q], \A s \in Schedules : lock'[s] >= lock[s]
    PROVE  Places(q)' /\ LockLasts(q)'
<1>1. Spent(q)' = Spent(q) /\ Budget(q)' = Budget(q) /\ Spent(q) \in Nat /\ Budget(q) \in Nat
  BY Times, BudgetBound DEF Spent, Budget, PerEntry, TypeOK
<1>2. /\ \A s \in Schedules : lock[s] \in Nat /\ lock'[s] \in Nat
      /\ current[q] \subseteq Schedules /\ due[q] \subseteq Schedules
  BY Times DEF TypeOK
<1>3. Places(q)'
  BY DEF Places
<1>4. LockLasts(q)'
  BY <1>1, <1>2, Times DEF LockLasts
<1> QED
  BY <1>3, <1>4

\* A list just read, and none read.
LEMMA OffTheList ==
    ASSUME LockIsLong, TypeOK, LockInv, NEW p \in Replicas,
           Poll(p) \/ EndTick(p) \/ WakeUp(p) \/ Restart(p)
    PROVE  /\ Places(p)' /\ LockLasts(p)'
           /\ current' = current /\ lock' = lock
           /\ \A q \in Replicas \ {p} :
                /\ pc'[q] = pc[q] /\ due'[q] = due[q] /\ clock'[q] = clock[q]
                /\ handled'[q] = handled[q]
<1> USE DEF LockInv, Places, LockLasts, TypeOK
<1>1. CASE Poll(p)
  BY <1>1, Times DEF Poll
<1>2. CASE EndTick(p)
  BY <1>2, Times DEF EndTick
<1>3. CASE WakeUp(p)
  BY <1>3, Times DEF WakeUp
<1>4. CASE Restart(p)
  BY <1>4, Times DEF Restart
<1> QED
  BY <1>1, <1>2, <1>3, <1>4

\* A replica that gets a lock is alone with the schedule, and nobody has handled it
\* since the list was read: in both cases the lock would still be there.
LEMMA TryLockStep ==
    ASSUME LockIsLong, TypeOK, TypeOK', LockInv, NEW p \in Replicas, NEW s \in Schedules,
           TryLock(p, s)
    PROVE  LockInv'
<1>1. /\ pc[p] = "fire" /\ s \in due[p] /\ due' = [due EXCEPT ![p] = @ \ {s}]
      /\ clock' = [clock EXCEPT ![p] = 0] /\ UNCHANGED handled
      /\ current[p] = {} /\ clock[p] \in 0..MaxLag
  BY Times DEF TryLock, LockInv, Places, TypeOK
<1>2. /\ Budget(p)' = Budget(p) - PerEntry /\ Budget(p) \in Nat
      /\ Budget(p) < LockTTL /\ Budget(p) >= PerEntry
  BY <1>1, BudgetShrinks, BudgetBound DEF TypeOK
<1>3. /\ Spent(p) = MaxLag + MaxRun + clock[p]
      /\ \A t \in due[p] \cap handled[p] : lock[t] > Budget(p) - Spent(p)
      /\ lock \in [Schedules -> Nat]
  <2>1. lock \in [Schedules -> Nat]
    BY Times DEF TypeOK
  <2>2. Spent(p) = MaxLag + MaxRun + clock[p]
    BY <1>1 DEF Spent
  <2> QED
    BY <2>1, <2>2 DEF LockInv, LockLasts
<1>4. due'[p] = due[p] \ {s} /\ clock'[p] = 0 /\ due[p] \subseteq Schedules
  BY <1>1 DEF TypeOK
<1>5. CASE lock[s] = 0 /\ lock' = [lock EXCEPT ![s] = LockTTL] /\ pc' = [pc EXCEPT ![p] = "refetch"]
           /\ current' = [current EXCEPT ![p] = {s}]
  <2>1. pc'[p] = "refetch" /\ current'[p] = {s} /\ lock'[s] = LockTTL
    BY <1>5 DEF TypeOK
  <2>2. Spent(p)' = 0
    BY <1>4, <2>1 DEF Spent
  <2>3. s \notin handled[p]
    BY <1>1, <1>2, <1>3, <1>5, Times DEF PerEntry
  <2>4. \A t \in due'[p] \cap handled[p] : lock'[t] > Budget(p)' - Spent(p)'
    BY <1>1, <1>2, <1>3, <1>4, <1>5, <2>2, Times DEF PerEntry
  <2>5. Places(p)' /\ LockLasts(p)'
    BY <1>1, <1>4, <2>1, <2>2, <2>3, <2>4, Times DEF Places, LockLasts
  <2>6. \A q \in Replicas \ {p} : s \notin current[q]
    <3>1. ASSUME NEW q \in Replicas, s \in current[q] PROVE FALSE
      <4>1. lock[s] >= LockTTL - Spent(q) /\ Places(q)
        BY <3>1 DEF LockInv, LockLasts
      <4>2. Spent(q) <= MaxLag + MaxRun
        BY <3>1, <4>1, Times DEF Places, Spent, TypeOK
      <4>3. LockTTL > PerEntry /\ Spent(q) \in Nat
        BY <1>2, Times DEF Spent, TypeOK
      <4> QED
        BY <1>3, <1>5, <4>1, <4>2, <4>3, Times DEF PerEntry
    <3> QED
      BY <3>1
  <2>7. Alone'
    BY <1>5, <2>1, <2>6 DEF LockInv, Alone, TypeOK
  <2>8. \A q \in Replicas \ {p} : Places(q)' /\ LockLasts(q)'
    <3>1. \A t \in Schedules : lock'[t] >= lock[t]
      BY <1>3, <1>5, Times
    <3> QED
      BY <1>1, <1>5, <3>1, Undisturbed DEF LockInv, TypeOK
  <2> QED
    BY <2>5, <2>7, <2>8 DEF LockInv
<1>6. CASE lock[s] > 0 /\ UNCHANGED <<lock, pc, current>>
  <2>1. Spent(p)' = MaxLag + MaxRun
    BY <1>1, <1>4, <1>6, Times DEF Spent
  <2>2. \A t \in due'[p] \cap handled[p] : lock'[t] > Budget(p)' - Spent(p)'
    BY <1>1, <1>2, <1>3, <1>4, <1>6, <2>1, Times DEF PerEntry
  <2>3. Places(p)' /\ LockLasts(p)'
    BY <1>1, <1>4, <1>6, <2>1, <2>2, Times DEF Places, LockLasts
  <2>4. \A q \in Replicas \ {p} : Places(q)' /\ LockLasts(q)'
    <3>1. \A t \in Schedules : lock'[t] >= lock[t]
      BY <1>3, <1>6
    <3> QED
      BY <1>1, <1>6, <3>1, Undisturbed DEF LockInv, TypeOK
  <2> QED
    BY <1>6, <2>3, <2>4 DEF LockInv, Alone
<1> QED
  BY <1>5, <1>6 DEF TryLock

\* Between the lock and the run, and between the run and the next entry.
LEMMA EntryStep ==
    ASSUME LockIsLong, TypeOK, TypeOK', LockInv, NEW p \in Replicas,
           Refetch(p) \/ RunConflict(p) \/ RecordFired(p)
    PROVE  /\ Places(p)' /\ LockLasts(p)'
           /\ lock' = lock /\ current'[p] \subseteq current[p]
           /\ \A q \in Replicas \ {p} :
                /\ pc'[q] = pc[q] /\ due'[q] = due[q] /\ current'[q] = current[q]
                /\ clock'[q] = clock[q]
<1>1. /\ UNCHANGED <<lock, due>> /\ clock' = [clock EXCEPT ![p] = 0]
      /\ handled'[p] = handled[p]
      /\ \/ pc[p] = "refetch" /\ pc' = [pc EXCEPT ![p] = "run"] /\ current' = current
         \/ /\ pc[p] \in {"refetch", "run"} /\ pc' = [pc EXCEPT ![p] = "fire"]
            /\ current' = [current EXCEPT ![p] = {}]
  <2>1. CASE Refetch(p)
    BY <2>1 DEF Refetch
  <2>2. CASE RunConflict(p)
    BY <2>2 DEF RunConflict
  <2>3. CASE RecordFired(p)
    <3>1. handled'[p] = handled[p]
      BY <2>3 DEF RecordFired, TypeOK
    <3> QED
      BY <2>3, <3>1 DEF RecordFired
  <2> QED
    BY <2>1, <2>2, <2>3
<1>2. /\ Places(p) /\ LockLasts(p) /\ clock[p] \in Nat
      /\ pc \in [Replicas -> PC] /\ clock \in [Replicas -> Nat]
      /\ current \in [Replicas -> SUBSET Schedules]
  BY DEF LockInv, TypeOK
<1>3. pc'[p] \in {"run", "fire"} /\ clock'[p] = 0 /\ current'[p] \subseteq current[p]
  BY <1>1, <1>2
<1>4. Places(p)'
  BY <1>1, <1>2, Times DEF Places
<1>5. Spent(p)' >= Spent(p) /\ Spent(p)' \in Nat /\ Spent(p) \in Nat
  BY <1>1, <1>2, Times DEF Places, Spent
<1>6. Budget(p)' = Budget(p) /\ Budget(p) \in Nat
  BY <1>1, BudgetBound DEF Budget, PerEntry
<1>7. \A s \in Schedules : lock[s] \in Nat
  BY Times DEF TypeOK
<1>8. LockLasts(p)'
  <2>1. current[p] \subseteq Schedules /\ due[p] \subseteq Schedules
    BY DEF TypeOK
  <2>2. \A s \in current'[p] : lock'[s] >= LockTTL - Spent(p)' /\ s \notin handled'[p]
    BY <1>1, <1>2, <1>3, <1>5, <1>7, <2>1, Times DEF LockLasts
  <2>3. \A s \in due'[p] \cap handled'[p] : lock'[s] > Budget(p)' - Spent(p)'
    BY <1>1, <1>2, <1>5, <1>6, <1>7, <2>1, Times DEF LockLasts
  <2> QED
    BY <2>2, <2>3 DEF LockLasts
<1> QED
  BY <1>1, <1>2, <1>3, <1>4, <1>8

\* Whoever has this schedule in his list will find its lock taken.
LEMMA RecordFiredLocks ==
    ASSUME LockIsLong, TypeOK, TypeOK', LockInv, NEW p \in Replicas, RecordFired(p),
           NEW q \in Replicas \ {p}
    PROVE  LockLasts(q)'
<1>1. PICK s \in current[p] :
        handled' = [r \in Replicas |->
              IF r # p /\ pc[r] \in {"fire", "refetch", "run"} THEN handled[r] \cup {s} ELSE handled[r]]
  BY DEF RecordFired
<1>2. /\ UNCHANGED <<lock, due>> /\ pc'[q] = pc[q] /\ current'[q] = current[q]
      /\ clock'[q] = clock[q] /\ handled'[q] \subseteq handled[q] \cup {s} /\ pc[p] = "run"
  BY <1>1 DEF RecordFired, TypeOK
<1>3. /\ Spent(q)' = Spent(q) /\ Budget(q)' = Budget(q) /\ Spent(q) \in Nat
      /\ lock \in [Schedules -> 0..LockTTL] /\ s \in Schedules
  BY <1>2, Times DEF Spent, Budget, PerEntry, TypeOK
<1>4. lock[s] >= LockTTL - (MaxLag + MaxRun)
  BY <1>2, <1>3, Times DEF LockInv, LockLasts, Places, Spent, TypeOK
<1>5. s \notin current[q]
  BY <1>1 DEF LockInv, Alone
<1>6. \A t \in current'[q] : lock'[t] >= LockTTL - Spent(q)' /\ t \notin handled'[q]
  BY <1>2, <1>3, <1>5 DEF LockInv, LockLasts
<1>7. ASSUME s \in due[q] PROVE lock[s] > Budget(q) - Spent(q)
  <2>1. pc[q] \in {"fire", "refetch", "run"} /\ due[q] \subseteq Schedules
    BY <1>7 DEF LockInv, Places, TypeOK
  <2>2. CASE pc[q] = "fire"
    <3>1. Spent(q) >= MaxLag + MaxRun /\ Budget(q) < LockTTL /\ Budget(q) \in Nat
      BY <2>2, BudgetBound, Times DEF Spent, TypeOK
    <3> QED
      BY <1>3, <1>4, <3>1, Times
  <2>3. CASE pc[q] # "fire"
    <3>1. PICK t \in Schedules : current[q] = {t} /\ t \notin due[q]
      BY <2>1, <2>3 DEF LockInv, Places
    <3>2. Budget(q) + PerEntry < LockTTL /\ Budget(q) \in Nat
      BY <3>1, BudgetBound
    <3> QED
      BY <1>3, <1>4, <3>2, Times DEF PerEntry
  <2> QED
    BY <2>2, <2>3
<1>8. \A t \in due'[q] \cap handled'[q] : lock'[t] > Budget(q)' - Spent(q)'
  BY <1>2, <1>3, <1>7 DEF LockInv, LockLasts
<1> QED
  BY <1>6, <1>8 DEF LockLasts

\* A crash leaves the lock and forgets the rest.
LEMMA CrashStep ==
    ASSUME TypeOK, LockInv, NEW p \in Replicas, Crash(p)
    PROVE  /\ Places(p)' /\ LockLasts(p)'
           /\ UNCHANGED lock /\ current'[p] = {}
           /\ \A q \in Replicas \ {p} :
                /\ pc'[q] = pc[q] /\ due'[q] = due[q] /\ current'[q] = current[q]
                /\ clock'[q] = clock[q]
BY DEF Crash, LockInv, Places, LockLasts, TypeOK

\* The time that passes is taken off the locks and off what is left to do alike.
LEMMA PassKeepsLocks ==
    ASSUME LockIsLong, TypeOK, TypeOK', LockInv, Pass
    PROVE  LockInv'
<1>1. UNCHANGED <<pc, due, current, handled>>
  BY DEF Pass
<1>2. Alone'
  BY <1>1 DEF LockInv, Alone
<1>3. ASSUME NEW p \in Replicas PROVE Places(p)' /\ LockLasts(p)'
  <2>1. CASE ~Timed(p) \/ pc[p] = "sleep"
    BY <1>1, <2>1 DEF LockInv, Places, LockLasts, Timed
  <2>2. CASE Timed(p) /\ pc[p] # "sleep"
    <3>1. clock[p] < Limit(p) /\ clock'[p] = clock[p] + 1 /\ clock[p] \in Nat
      BY <2>2 DEF Pass, TypeOK
    <3>2. pc[p] \in {"fire", "refetch", "run"}
      BY <2>2 DEF Timed, TypeOK, PC
    <3>3. Limit(p) = IF pc[p] = "run" THEN MaxRun ELSE MaxLag
      BY <3>2 DEF Limit
    <3>4. Places(p)'
      BY <1>1, <3>1, <3>2, <3>3, Times DEF LockInv, Places
    <3>5. Spent(p)' = Spent(p) + 1 /\ Spent(p) \in Nat
      BY <1>1, <3>1, Times DEF Spent
    <3>6. Budget(p)' = Budget(p) /\ Budget(p) \in Nat /\ Budget(p) < LockTTL
      BY <1>1, BudgetBound DEF Budget, PerEntry
    <3>7. \A s \in Schedules : lock[s] \in Nat /\ lock'[s] = CountDown(lock[s])
      BY Times DEF Pass, TypeOK
    <3>8. \A s \in current[p] : lock'[s] >= LockTTL - Spent(p)'
      <4>1. ASSUME NEW s \in current[p] PROVE lock'[s] >= LockTTL - Spent(p)'
        <5>1. lock[s] >= LockTTL - Spent(p) /\ s \in Schedules /\ lock[s] \in Nat
          BY <3>7 DEF LockInv, LockLasts, TypeOK
        <5>2. lock'[s] >= lock[s] - 1 /\ lock'[s] \in Nat
          BY <3>7, <5>1 DEF CountDown
        <5> QED
          BY <3>5, <5>1, <5>2, Times
      <4> QED
        BY <4>1
    <3>9. \A s \in due[p] \cap handled[p] : lock'[s] > Budget(p)' - Spent(p)'
      <4>1. ASSUME NEW s \in due[p] \cap handled[p] PROVE lock'[s] > Budget(p)' - Spent(p)'
        <5>1. lock[s] > Budget(p) - Spent(p) /\ s \in Schedules /\ lock[s] \in Nat
          BY <3>7 DEF LockInv, LockLasts, TypeOK
        <5>2. lock'[s] >= lock[s] - 1 /\ lock'[s] \in Nat
          BY <3>7, <5>1 DEF CountDown
        <5> QED
          BY <3>5, <3>6, <5>1, <5>2
      <4> QED
        BY <4>1
    <3> QED
      BY <1>1, <3>4, <3>8, <3>9 DEF LockInv, LockLasts
  <2> QED
    BY <2>1, <2>2
<1> QED
  BY <1>2, <1>3 DEF LockInv

LEMMA LockStep == LockIsLong /\ TypeOK /\ TypeOK' /\ LockInv /\ [Next]_vars => LockInv'
<1> SUFFICES ASSUME LockIsLong, TypeOK, TypeOK', LockInv, [Next]_vars
             PROVE  LockInv'
  OBVIOUS
<1> USE DEF LockInv
<1>1. \A s \in Schedules : lock[s] >= lock[s]
  BY Times DEF TypeOK
<1>2. CASE Service \/ UNCHANGED vars
  <2>1. UNCHANGED tickerVars
    BY <1>2 DEF Service, Serve, create, delete, update_columns, trigger_reads, update_next_run_at,
                aborts, vars, tickerVars
  <2> QED
    BY <1>1, <2>1, Undisturbed DEF Alone, tickerVars
<1>3. ASSUME NEW p \in Replicas, Step(p) \/ RunConflict(p) \/ Crash(p) PROVE LockInv'
  <2>1. CASE Poll(p) \/ EndTick(p) \/ WakeUp(p) \/ Restart(p)
    BY <1>1, <2>1, OffTheList, Undisturbed DEF Alone
  <2>2. ASSUME NEW s \in Schedules, TryLock(p, s) PROVE LockInv'
    BY <2>2, TryLockStep
  <2>3. CASE Refetch(p) \/ RunConflict(p)
    <3>1. UNCHANGED handled
      BY <2>3 DEF Refetch, RunConflict
    <3>2. Alone'
      BY <2>3, EntryStep DEF Alone
    <3> QED
      BY <1>1, <2>3, <3>1, <3>2, EntryStep, Undisturbed
  <2>4. CASE RecordFired(p)
    <3>1. Alone'
      BY <2>4, EntryStep DEF Alone
    <3>2. ASSUME NEW q \in Replicas \ {p} PROVE Places(q)' /\ LockLasts(q)'
      BY <2>4, EntryStep, RecordFiredLocks DEF Places
    <3> QED
      BY <2>4, <3>1, <3>2, EntryStep
  <2>5. CASE Crash(p)
    <3>1. Alone'
      BY <2>5, CrashStep DEF Alone
    <3>2. ASSUME NEW q \in Replicas \ {p} PROVE Places(q)' /\ LockLasts(q)'
      BY <1>1, <2>5, CrashStep, Undisturbed DEF Crash, TypeOK
    <3> QED
      BY <2>5, <3>1, <3>2, CrashStep
  <2> QED
    BY <1>3, <2>1, <2>2, <2>3, <2>4, <2>5 DEF Step
<1>4. CASE Pass
  BY <1>4, PassKeepsLocks
<1> QED
  BY <1>2, <1>3, <1>4 DEF Next

\* Several replicas may run the ticker: if a lock outlasts one turn over all schedules,
\* with every step of it as slow as it may be, nobody runs a schedule beside another
\* replica or for an occurrence another one has handled (_try_acquire_lock, _fire_one),
\* through crashes that leave locks behind, failing runs, and any PUTs and triggers.
THEOREM FiresOnce ==
    ASSUME LockIsLong
    PROVE  Spec => []OccurrenceFiresOnce
<1>1. Init => LockInv
  BY DEF Init, LockInv, Places, LockLasts, Alone
<1>2. TypeOK /\ LockInv => OccurrenceFiresOnce
  <2> SUFFICES ASSUME TypeOK, LockInv, NEW p \in Replicas, pc[p] = "run"
               PROVE  /\ current[p] \cap handled[p] = {}
                      /\ \A q \in Replicas \ {p} : pc[q] = "run" => current[q] # current[p]
    BY DEF OccurrenceFiresOnce
  <2> QED
    BY DEF LockInv, LockLasts, Places, Alone
<1>3. TypeOK /\ TypeOK' /\ LockInv /\ [Next]_vars => LockInv'
  BY LockStep
<1> QED
  BY <1>1, <1>2, <1>3, TypeCorrect, PTL DEF Spec
=============================================================================
