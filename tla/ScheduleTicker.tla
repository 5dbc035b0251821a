--------------------------- MODULE ScheduleTicker ---------------------------
(***************************************************************************)
(* The workflow scheduler: WorkflowScheduleService (app/schedule/service)  *)
(* and the polling loop every replica of the application runs              *)
(* (app/schedule/ticker.py), coordinated by a Redis lock per schedule that *)
(* expires and is never released.                                          *)
(*                                                                         *)
(* Time is relative and discrete.  next counts down to next_run_at (0: it  *)
(* has arrived), lock counts down to the expiry of the Redis key (0: there *)
(* is none).  MaxRun bounds how long one workflow run takes and MaxLag how *)
(* long a replica needs between two of its own steps; the code bounds      *)
(* neither, so the runs of this module choose them on both sides of        *)
(* LOCK_TTL.                                                               *)
(*                                                                         *)
(* POST /schedules/{id}/trigger runs a schedule in the session of its      *)
(* request, outside the lock, and records that like the ticker does.       *)
(* Requests are the PUTs and triggers in flight: both read the row, and    *)
(* write next_run_at from what they have read.                             *)
(*                                                                         *)
(* The outcome columns (last_status, last_error, last_run_at and           *)
(* last_workflow_run_id) are written with next_run_at and read by nobody   *)
(* here; they are left out.                                                *)
(***************************************************************************)
EXTENDS Naturals, FiniteSets

CONSTANTS
    Schedules,
    Replicas,
    Requests,    \* PUT and trigger requests in flight
    Intervals,   \* interval_seconds an INTERVAL schedule may have
    MaxGap,      \* bound: farthest next occurrence of a CRON schedule
    LockTTL,     \* WORKFLOW_SCHEDULER_LOCK_TTL_SECONDS
    TickSleep,   \* WORKFLOW_SCHEDULER_TICK_SECONDS
    MaxRun,      \* bound: duration of a run
    MaxLag,      \* bound: delay between two steps of a replica
    MaxFaults    \* bound: replica crashes

ASSUME TimeAssumption ==
    /\ Intervals \subseteq 1..MaxGap
    /\ MaxGap \in Nat \ {0} /\ LockTTL \in Nat \ {0} /\ TickSleep \in Nat \ {0}
    /\ MaxRun \in Nat /\ MaxLag \in Nat /\ MaxFaults \in Nat

VARIABLES
    sched,     \* workflow_schedules rows, as committed
    request,   \* what each request has read, or flushed, of a row in its transaction
    lock,      \* Redis: seconds left of workflow_schedule:lock:{id}
    pc,        \* where each replica's loop is
    due,       \* schedules of the list it polled that are still to be fired
    current,   \* schedules it is in _fire_one for (none or one)
    fresh,     \* timing of the row it re-fetched for the current one
    clock,     \* time spent in its present step
    handled,   \* history: schedules another replica fired since it polled
    overlapped, \* history: schedules that two requests worked on at a time
    faults

vars == <<sched, request, lock, pc, due, current, fresh, clock, handled, overlapped, faults>>

Cron == 0   \* the interval of a CRON schedule

Timing == Intervals \cup {Cron}

PC == {"poll", "fire", "refetch", "run", "sleep", "down"}

TypeOK ==
    /\ sched \in [Schedules -> [state: {"absent", "live", "deleted"}, enabled: BOOLEAN,
                                every: Timing, planned: BOOLEAN, next: 0..MaxGap]]
    /\ request \in [Requests -> [on: SUBSET Schedules, locks: BOOLEAN, enabled: BOOLEAN,
                             every: Timing, planned: BOOLEAN]]
    /\ lock \in [Schedules -> 0..LockTTL]
    /\ pc \in [Replicas -> PC]
    /\ due \in [Replicas -> SUBSET Schedules]
    /\ current \in [Replicas -> SUBSET Schedules]
    /\ fresh \in [Replicas -> Timing]
    /\ clock \in [Replicas -> Nat]
    /\ handled \in [Replicas -> SUBSET Schedules]
    /\ overlapped \in SUBSET Schedules
    /\ faults \in 0..MaxFaults

NoRequest == [on |-> {}, locks |-> FALSE, enabled |-> FALSE, every |-> Cron, planned |-> FALSE]

Init ==
    /\ sched = [s \in Schedules |-> [state |-> "absent", enabled |-> FALSE, every |-> Cron,
                                     planned |-> FALSE, next |-> 0]]
    /\ request = [r \in Requests |-> NoRequest]
    /\ lock = [s \in Schedules |-> 0]
    /\ pc = [p \in Replicas |-> "poll"]
    /\ due = [p \in Replicas |-> {}]
    /\ current = [p \in Replicas |-> {}]
    /\ fresh = [p \in Replicas |-> Cron]
    /\ clock = [p \in Replicas |-> 0]
    /\ handled = [p \in Replicas |-> {}]
    /\ overlapped = {}
    /\ faults = 0

-----------------------------------------------------------------------------
(* WorkflowScheduleService *)

compute_next_run_at_mut(every) == IF every = Cron THEN 0..MaxGap ELSE {every + 1}

\* How far off the next occurrence can be: a CRON expression names some later instant.
compute_next_run_at(every) == IF every = Cron THEN 1..MaxGap ELSE {every}

tickerVars == <<lock, pc, due, current, fresh, clock, handled, faults>>

\* Some PUT has flushed an UPDATE of the row and not committed.
RowLocked(s) == \E r \in Requests : s \in request[r].on /\ request[r].locks

\* A request starts on a row that another one is working on.
Overlaps(r, s) ==
    overlapped' = overlapped \cup {x \in {s} : \E q \in Requests \ {r} : x \in request[q].on}

\* next_run_at is computed even for a schedule created disabled.
create(s) ==
    /\ sched[s].state = "absent"
    /\ \E enabled \in BOOLEAN, every \in Timing : \E next \in compute_next_run_at(every) :
        sched' = [sched EXCEPT ![s] = [state |-> "live", enabled |-> enabled, every |-> every,
                                       planned |-> TRUE, next |-> next]]
    /\ UNCHANGED <<request, overlapped, tickerVars>>

\* What a request sees of the row in its transaction.
Sees(s, locks, enabled, every) ==
    [on |-> {s}, locks |-> locks, enabled |-> enabled, every |-> every,
     planned |-> sched[s].planned]

\* It has sent nothing.
Loaded(s) == Sees(s, FALSE, sched[s].enabled, sched[s].every)

\* update, up to the repository's refresh, when it names a column of the timing
\* (otherwise it leaves all of them alone).  Values equal to those loaded send no
\* UPDATE and lock nothing; the type of a schedule cannot change.
update_columns(r, s) ==
    /\ request[r].on = {}
    /\ sched[s].state = "live"
    /\ \/ request' = [request EXCEPT ![r] = Loaded(s)]
       \/ /\ ~RowLocked(s)
          /\ \E enabled \in BOOLEAN, every \in Timing :
              /\ (every = Cron) = (sched[s].every = Cron)
              /\ request' = [request EXCEPT ![r] =
                    Sees(s, TRUE, enabled, every)]
    /\ Overlaps(r, s)
    /\ UNCHANGED <<sched, tickerVars>>

\* trigger_schedule_now reads the row, enabled or not, and runs the workflow.
trigger_reads(r, s) ==
    /\ request[r].on = {}
    /\ sched[s].state = "live"
    /\ request' = [request EXCEPT ![r] = Loaded(s)]
    /\ Overlaps(r, s)
    /\ UNCHANGED <<sched, tickerVars>>

update_next_run_at_mut(r) ==
    /\ \E s \in request[r].on :
        /\ request[r].locks \/ ~RowLocked(s)
        /\ sched' = [sched EXCEPT ![s].enabled = IF request[r].locks THEN request[r].enabled ELSE @,
                                  ![s].every = IF request[r].locks THEN request[r].every ELSE @,
                                  ![s].planned = @ /\ request[r].enabled]
    /\ request' = [request EXCEPT ![r] = NoRequest]
    /\ UNCHANGED <<overlapped, tickerVars>>

\* The rest of update, or record_fired of a trigger whose run returned, and the
\* commit.  next_run_at follows from what the request has read, and is not sent if
\* it was and stays NULL.
update_next_run_at(r) ==
    LET sent == request[r].enabled \/ request[r].planned IN
    /\ \E s \in request[r].on, next \in compute_next_run_at(request[r].every) :
        /\ request[r].locks \/ ~RowLocked(s)
        /\ sched' = [sched EXCEPT
              ![s].enabled = IF request[r].locks THEN request[r].enabled ELSE @,
              ![s].every = IF request[r].locks THEN request[r].every ELSE @,
              ![s].planned = IF sent THEN request[r].enabled ELSE @,
              ![s].next = IF request[r].enabled THEN next ELSE IF sent THEN 0 ELSE @]
    /\ request' = [request EXCEPT ![r] = NoRequest]
    /\ UNCHANGED <<overlapped, tickerVars>>

\* An invalid cron expression, a triggered run that raises, a client gone, a
\* crash: rollback.
aborts(r) ==
    /\ request[r].on # {}
    /\ request' = [request EXCEPT ![r] = NoRequest]
    /\ UNCHANGED <<sched, overlapped, tickerVars>>

delete(s) ==
    /\ sched[s].state = "live"
    /\ ~RowLocked(s)
    /\ sched' = [sched EXCEPT ![s].state = "deleted"]
    /\ UNCHANGED <<request, overlapped, tickerVars>>

-----------------------------------------------------------------------------
(* run_ticker_loop and _fire_one *)

IsDue(s) ==
    /\ sched[s].state = "live"
    /\ sched[s].enabled
    /\ sched[s].planned
    /\ sched[s].next = 0

Poll_mut(p) ==
    /\ pc[p] = "poll"
    /\ due' = [due EXCEPT ![p] = {s \in Schedules :
            sched[s].state = "live" /\ ~sched[s].enabled /\ sched[s].planned /\ sched[s].next = 0}]
    /\ handled' = [handled EXCEPT ![p] = {}]
    /\ pc' = [pc EXCEPT ![p] = "fire"]
    /\ clock' = [clock EXCEPT ![p] = 0]
    /\ UNCHANGED <<request, overlapped, sched, lock, current, fresh, faults>>

\* list_due, in a session of its own
Poll(p) ==
    /\ pc[p] = "poll"
    /\ due' = [due EXCEPT ![p] = {s \in Schedules : IsDue(s)}]
    /\ handled' = [handled EXCEPT ![p] = {}]
    /\ pc' = [pc EXCEPT ![p] = "fire"]
    /\ clock' = [clock EXCEPT ![p] = 0]
    /\ UNCHANGED <<request, overlapped, sched, lock, current, fresh, faults>>

TryLock_mut(p, s) ==
    /\ pc[p] = "fire"
    /\ s \in due[p]
    /\ due' = [due EXCEPT ![p] = @ \ {s}]
    /\ clock' = [clock EXCEPT ![p] = 0]
    /\ lock' = [lock EXCEPT ![s] = LockTTL]
    /\ pc' = [pc EXCEPT ![p] = "refetch"]
    /\ current' = [current EXCEPT ![p] = {s}]
    /\ UNCHANGED <<request, overlapped, sched, fresh, handled, faults>>

\* SET key NX EX ttl: the loser skips the schedule.
TryLock(p, s) ==
    /\ pc[p] = "fire"
    /\ s \in due[p]
    /\ due' = [due EXCEPT ![p] = @ \ {s}]
    /\ clock' = [clock EXCEPT ![p] = 0]
    /\ \/ /\ lock[s] = 0
          /\ lock' = [lock EXCEPT ![s] = LockTTL]
          /\ pc' = [pc EXCEPT ![p] = "refetch"]
          /\ current' = [current EXCEPT ![p] = {s}]
       \/ /\ lock[s] > 0
          /\ UNCHANGED <<lock, pc, current>>
    /\ UNCHANGED <<request, overlapped, sched, fresh, handled, faults>>

\* The row is read again; only enabled is looked at, not next_run_at.
Refetch(p) ==
    /\ pc[p] = "refetch"
    /\ \E s \in current[p] :
        \/ /\ sched[s].state = "live" /\ sched[s].enabled
           /\ fresh' = [fresh EXCEPT ![p] = sched[s].every]
           /\ pc' = [pc EXCEPT ![p] = "run"]
           /\ current' = current
        \/ /\ sched[s].state # "live" \/ ~sched[s].enabled
           /\ pc' = [pc EXCEPT ![p] = "fire"]
           /\ current' = [current EXCEPT ![p] = {}]
           /\ fresh' = fresh
    /\ clock' = [clock EXCEPT ![p] = 0]
    /\ UNCHANGED <<request, overlapped, sched, lock, due, handled, faults>>

\* run_workflow returned or raised, record_fired, commit.  The new next_run_at
\* comes from the row as it was before the run, enabled and of that timing, whatever
\* it says by now.
RecordFired(p) ==
    /\ pc[p] = "run"
    /\ \E s \in current[p], next \in compute_next_run_at(fresh[p]) :
        /\ ~RowLocked(s)
        /\ sched' = [sched EXCEPT ![s].planned = TRUE, ![s].next = next]
        /\ handled' = [q \in Replicas |->
              IF q # p /\ pc[q] \in {"fire", "refetch", "run"} THEN handled[q] \cup {s} ELSE handled[q]]
    /\ pc' = [pc EXCEPT ![p] = "fire"]
    /\ current' = [current EXCEPT ![p] = {}]
    /\ fresh' = [fresh EXCEPT ![p] = Cron]
    /\ clock' = [clock EXCEPT ![p] = 0]
    /\ UNCHANGED <<request, overlapped, lock, due, faults>>

\* A database error inside run_workflow: record_fired fails on the broken
\* session too, everything is rolled back and the loop goes on.  It may happen to
\* every run of a schedule.
RunConflict(p) ==
    /\ pc[p] = "run"
    /\ pc' = [pc EXCEPT ![p] = "fire"]
    /\ current' = [current EXCEPT ![p] = {}]
    /\ fresh' = [fresh EXCEPT ![p] = Cron]
    /\ clock' = [clock EXCEPT ![p] = 0]
    /\ UNCHANGED <<request, overlapped, sched, lock, due, handled, faults>>

EndTick(p) ==
    /\ pc[p] = "fire"
    /\ due[p] = {}
    /\ pc' = [pc EXCEPT ![p] = "sleep"]
    /\ clock' = [clock EXCEPT ![p] = 0]
    /\ handled' = [handled EXCEPT ![p] = {}]
    /\ UNCHANGED <<request, overlapped, sched, lock, due, current, fresh, faults>>

WakeUp(p) ==
    /\ pc[p] = "sleep"
    /\ clock[p] >= TickSleep
    /\ pc' = [pc EXCEPT ![p] = "poll"]
    /\ clock' = [clock EXCEPT ![p] = 0]
    /\ UNCHANGED <<request, overlapped, sched, lock, due, current, fresh, handled, faults>>

\* A crash, or the lifespan cancelling the task: nothing is committed, the
\* Redis key stays.
Crash(p) ==
    /\ pc[p] # "down"
    /\ faults < MaxFaults
    /\ faults' = faults + 1
    /\ pc' = [pc EXCEPT ![p] = "down"]
    /\ due' = [due EXCEPT ![p] = {}]
    /\ current' = [current EXCEPT ![p] = {}]
    /\ fresh' = [fresh EXCEPT ![p] = Cron]
    /\ handled' = [handled EXCEPT ![p] = {}]
    /\ clock' = [clock EXCEPT ![p] = 0]
    /\ UNCHANGED <<request, overlapped, sched, lock>>

Restart(p) ==
    /\ pc[p] = "down"
    /\ pc' = [pc EXCEPT ![p] = "poll"]
    /\ UNCHANGED <<request, overlapped, sched, lock, due, current, fresh, clock, handled, faults>>

-----------------------------------------------------------------------------
(* Time *)

Limit(p) ==
    CASE pc[p] = "run" -> MaxRun
      [] pc[p] = "sleep" -> TickSleep
      [] OTHER -> MaxLag

Timed(p) == pc[p] \notin {"poll", "down"}

CountDown(n) == IF n = 0 THEN 0 ELSE n - 1

Pass ==
    /\ \A p \in Replicas : Timed(p) => clock[p] < Limit(p)
    /\ clock' = [p \in Replicas |-> IF Timed(p) THEN clock[p] + 1 ELSE 0]
    /\ lock' = [s \in Schedules |-> CountDown(lock[s])]
    /\ sched' = [s \in Schedules |-> [sched[s] EXCEPT !.next = CountDown(@)]]
    /\ UNCHANGED <<request, overlapped, pc, due, current, fresh, handled, faults>>

-----------------------------------------------------------------------------

Serve(r) ==
    \/ \E s \in Schedules : update_columns(r, s) \/ trigger_reads(r, s)
    \/ update_next_run_at(r) \/ aborts(r)

Service ==
    \/ \E s \in Schedules : create(s) \/ delete(s)
    \/ \E r \in Requests : Serve(r)

Step(p) ==
    \/ Poll(p) \/ (\E s \in Schedules : TryLock(p, s)) \/ Refetch(p) \/ RecordFired(p)
    \/ EndTick(p) \/ WakeUp(p) \/ Restart(p)

Next ==
    \/ Service
    \/ \E p \in Replicas : Step(p) \/ RunConflict(p) \/ Crash(p)
    \/ Pass

Spec == Init /\ [][Next]_vars

\* Time passes, a replica's loop runs, a crashed replica is started again, a run
\* and a request end, one way or the other; crashes need not happen.  Row locks are
\* granted in the order they are asked for, so record_fired is not overtaken for
\* ever.
Fairness ==
    /\ WF_vars(Pass)
    /\ \A p \in Replicas : WF_vars(Step(p)) /\ WF_vars(RecordFired(p) \/ RunConflict(p))
    /\ \A r \in Requests : WF_vars(update_next_run_at(r))

FairSpec == Spec /\ Fairness

-----------------------------------------------------------------------------
(* Properties *)

\* An enabled schedule has a next_run_at, however runs, triggers, crashes and
\* conflicts interleave: one without it would never be polled again.  PUTs and
\* triggers that overlap are outside it: one that has read the schedule disabled
\* writes NULL over the next_run_at of the one that enabled it meanwhile, although
\* update recomputes it when a schedule is enabled again.
EnabledIsPlanned ==
    \A s \in Schedules \ overlapped :
        sched[s].state = "live" /\ sched[s].enabled => sched[s].planned

\* A replica runs a schedule only for an occurrence nobody else handled since
\* it polled, and never while another one runs it: the lock makes it safe to
\* run the ticker on several replicas.
OccurrenceFiresOnce ==
    \A p \in Replicas : pc[p] = "run" =>
        /\ current[p] \cap handled[p] = {}
        /\ \A q \in Replicas \ {p} : pc[q] = "run" => current[q] # current[p]

Runs(s) == \E p \in Replicas : pc[p] = "run" /\ s \in current[p]

\* A schedule that is due is run (or changed by its owner), again and again until
\* record_fired has advanced it: neither a lost lock nor a crash with the lock held
\* leaves it unattended.  A failing run does not leave it due; one that breaks its
\* session does, and if all of them do it is due for ever.
DueIsServed ==
    \A s \in Schedules :
        /\ IsDue(s) ~> ~IsDue(s) \/ Runs(s)
        /\ <>[][\A p \in Replicas : ~RunConflict(p)]_vars => (IsDue(s) ~> ~IsDue(s))
=============================================================================
