--------------------------- MODULE QuotaCounters ----------------------------
(***************************************************************************)
(* Usage limits (app/services/quota_service.py): policies in Postgres,     *)
(* counters in Redis and the usage rows of finished turns.                 *)
(*                                                                         *)
(* A turn reads the counters when it is admitted and increases them when   *)
(* it has ended, one await per policy in both cases; policies change and   *)
(* periods end meanwhile.  A slot is a pair (metric, period); at most one  *)
(* policy per slot is enforced for a caller, who is a user with his groups *)
(* and the model of the turn.                                              *)
(*                                                                         *)
(* A policy is known by its scope, model and slot, as its counter is.  The *)
(* unique constraint lets several rows pass that have all this in common,  *)
(* if they are for all models; they act as the best of them, so one more   *)
(* or less of these is a change of that one.                               *)
(*                                                                         *)
(* Keys carry the number of the period, so a counter is never reset: a     *)
(* later period has another one.  Here a counter keeps the sum of what was *)
(* charged, though its key expires after its period.                       *)
(***************************************************************************)
EXTENDS Integers, FiniteSets, Functions

CONSTANTS
    Turns,       \* turns that can be in flight at once
    Callers,
    Policies,    \* what quota_policies may have a row for
    AllModels,   \* those whose model_id is NULL
    Slots,
    Slot,        \* metric and period of each policy
    Clocks,      \* day, month, and each width of a window
    Clock,       \* which of them ends the periods of each policy
    Rank,        \* scope_rank: USER 0, GROUP 1, GLOBAL 2
    Covers,      \* callers its scope and its model match
    Limits,      \* limit_value a policy may have
    Priorities,
    MaxUsage,    \* most that one turn adds to a counter
    MaxPeriods,  \* bound: periods of each clock that end
    MaxEdits,    \* bound: changes of policies
    MaxCalls,    \* bound: turns started
    MaxFaults    \* bound: deaths, failing inserts and Redis errors

ASSUME PolicyAssumption ==
    /\ IsFiniteSet(Turns) /\ IsFiniteSet(Policies) /\ Callers # {}
    /\ Slot \in [Policies -> Slots] /\ Clock \in [Policies -> Clocks]
    /\ Rank \in [Policies -> 0..2]
    /\ Covers \in [Policies -> SUBSET Callers]
    /\ Limits \subseteq Nat
    /\ Priorities \subseteq Int
ASSUME UsageAssumption == MaxUsage \in Nat /\ MaxPeriods \in Nat

VARIABLES
    policy,     \* quota_policies
    period,     \* number of the present period of each clock
    counter,    \* Redis: counter of each policy in each period
    turn,       \* local state of each turn
    rows,       \* sum of quota_usage_events, in the metric of each slot
    unwritten,  \* history: usage whose row could not be inserted
    floor,      \* history: each counter when what its policy governs last changed
    edits, calls, faults

vars == <<policy, period, counter, turn, rows, unwritten, floor, edits, calls, faults>>

Periods == 0..MaxPeriods

QuotaPolicy == [live: {"absent", "live", "deleted"}, enabled: BOOLEAN,
                limit: Limits \cup {0}, priority: Priorities \cup {0}]

\* What the metrics of a turn add up to; nothing, if Agno has none in a known shape.
Usage == [Slots -> 0..MaxUsage]

LocalState ==
    [pc: {"idle", "checking", "running", "recording", "selecting", "counting"},
     caller: Callers,
     owes: SUBSET Policies,        \* policies whose counter is still to be read or increased
     limit: [Policies -> Nat],     \* each limit_value as it was when the turn read it
     now: [Clocks -> Periods],     \* the periods when it looked at the clock
     used: Usage]                  \* what it consumed, in the metric of each slot

NoUsage == [s \in Slots |-> 0]

Idle == [pc |-> "idle", caller |-> CHOOSE c \in Callers : TRUE, owes |-> {},
         limit |-> [p \in Policies |-> 0], now |-> [c \in Clocks |-> 0],
         used |-> NoUsage]

TypeOK ==
    /\ policy \in [Policies -> QuotaPolicy]
    /\ period \in [Clocks -> Periods]
    /\ counter \in [Policies -> [Periods -> Nat]]
    /\ turn \in [Turns -> LocalState]
    /\ rows \in [Slots -> Nat]
    /\ unwritten \in [Slots -> Nat]
    /\ floor \in [Policies -> [Periods -> Nat]]
    /\ edits \in Nat /\ calls \in Nat /\ faults \in Nat

Init ==
    /\ policy = [p \in Policies |-> [live |-> "absent", enabled |-> FALSE,
                                     limit |-> 0, priority |-> 0]]
    /\ period = [c \in Clocks |-> 0]
    /\ counter = [p \in Policies |-> [b \in Periods |-> 0]]
    /\ turn = [t \in Turns |-> Idle]
    /\ rows = NoUsage
    /\ unwritten = NoUsage
    /\ floor = counter
    /\ edits = 0 /\ calls = 0 /\ faults = 0

(* Definitions named ..._mut are plausible bugs of the definition that follows *)
(* them; nothing uses them except the mutants PROJECT.json lists.              *)

-----------------------------------------------------------------------------
(* Which policies apply *)

\* list_matching
Matches(c, p) == policy[p].live = "live" /\ policy[p].enabled /\ c \in Covers[p]

\* The more specific scope, then the higher priority, then the stricter limit.
Beats(p, q) ==
    \/ Rank[p] < Rank[q]
    \/ /\ Rank[p] = Rank[q]
       /\ \/ policy[p].priority > policy[q].priority
          \/ policy[p].priority = policy[q].priority /\ policy[p].limit < policy[q].limit

Best(c, s) ==
    {p \in Policies : /\ Matches(c, p) /\ Slot[p] = s
                      /\ \A q \in Policies : Matches(c, q) /\ Slot[q] = s => ~Beats(q, p)}

Applies_mut(c, p) == Matches(c, p)

\* What equals a policy in all respects loses to the first row the table returns.
First(rowsReturned) == CHOOSE p \in rowsReturned : TRUE

Applies(c, p) == p \in Best(c, Slot[p]) /\ p = First(Best(c, Slot[p]))

\* _select_effective_policies: one per slot
effective_policies(c) == {p \in Policies : Applies(c, p)}

-----------------------------------------------------------------------------
(* POST, PUT and DELETE of /quota/policies *)

\* Whom a policy limits, and to what.
Governs(p) == [limit |-> policy[p].limit, callers |-> {c \in Callers : Applies(c, p)}]

Change(p, row) ==
    /\ edits < MaxEdits
    /\ edits' = edits + 1
    /\ policy' = [policy EXCEPT ![p] = row]
    /\ floor' = [q \in Policies |-> IF Governs(q)' = Governs(q) THEN floor[q] ELSE counter[q]]
    /\ UNCHANGED <<period, counter, turn, rows, unwritten, calls, faults>>

\* A soft-deleted row of one model still occupies its unique key.
create_quota_policy(p) ==
    /\ \/ policy[p].live = "absent"
       \/ policy[p].live = "deleted" /\ p \in AllModels
    /\ \E enabled \in BOOLEAN, l \in Limits, priority \in Priorities :
        Change(p, [live |-> "live", enabled |-> enabled, limit |-> l, priority |-> priority])

update_quota_policy(p) ==
    /\ policy[p].live = "live"
    /\ \E enabled \in BOOLEAN, l \in Limits, priority \in Priorities :
        Change(p, [live |-> "live", enabled |-> enabled, limit |-> l, priority |-> priority])

delete_quota_policy(p) ==
    /\ policy[p].live = "live"
    /\ Change(p, [policy[p] EXCEPT !.live = "deleted"])

\* A day, a month or a window ends.
PeriodEnds(c) ==
    /\ period[c] < MaxPeriods
    /\ period' = [period EXCEPT ![c] = @ + 1]
    /\ UNCHANGED <<policy, counter, turn, rows, unwritten, floor, edits, calls, faults>>

-----------------------------------------------------------------------------
(* A turn *)

others == <<policy, period, floor, edits>>

Becomes(t, state) == turn' = [turn EXCEPT ![t] = state]

\* The period the turn has in mind for p: the key of the counter.
Key(t, p) == turn[t].now[Clock[p]]

\* What redis.get returns: the key of a period that is over may have expired.
Reads(t, p) ==
    {counter[p][Key(t, p)]} \cup {n \in {0} : Key(t, p) < period[Clock[p]]}

\* The policies are read, then the clock; the counters come one by one.
SelectPolicies(t) ==
    /\ turn[t].pc = "idle"
    /\ calls < MaxCalls
    /\ calls' = calls + 1
    /\ \E c \in Callers :
        Becomes(t, [pc |-> "checking", caller |-> c, owes |-> effective_policies(c),
                    limit |-> [p \in Policies |-> policy[p].limit], now |-> period,
                    used |-> NoUsage])
    /\ UNCHANGED <<counter, rows, unwritten, faults, others>>

CheckCounter_mut(t, p) ==
    /\ turn[t].pc = "checking"
    /\ p \in turn[t].owes
    /\ \E current \in Reads(t, p) :
        Becomes(t, IF current <= turn[t].limit[p]
                   THEN [turn[t] EXCEPT !.owes = @ \ {p}] ELSE Idle)
    /\ UNCHANGED <<counter, rows, unwritten, calls, faults, others>>

\* assert_within_quota reads one counter: it is below its limit, or the turn is
\* refused.
CheckCounter(t, p) ==
    /\ turn[t].pc = "checking"
    /\ p \in turn[t].owes
    /\ \E current \in Reads(t, p) :
        Becomes(t, IF current < turn[t].limit[p]
                   THEN [turn[t] EXCEPT !.owes = @ \ {p}] ELSE Idle)
    /\ UNCHANGED <<counter, rows, unwritten, calls, faults, others>>

Admit(t) ==
    /\ turn[t].pc = "checking"
    /\ turn[t].owes = {}
    /\ Becomes(t, [Idle EXCEPT !.pc = "running", !.caller = turn[t].caller])
    /\ UNCHANGED <<counter, rows, unwritten, calls, faults, others>>

\* The engine has answered.
Completes(t) ==
    /\ turn[t].pc = "running"
    /\ \E used \in Usage :
        Becomes(t, [turn[t] EXCEPT !.pc = "recording", !.used = used])
    /\ UNCHANGED <<counter, rows, unwritten, calls, faults, others>>

\* A failed or cancelled turn is not recorded.
Fails(t) ==
    /\ turn[t].pc = "running"
    /\ Becomes(t, Idle)
    /\ UNCHANGED <<counter, rows, unwritten, calls, faults, others>>

Plus(sums, used) == [s \in Slots |-> sums[s] + used[s]]

\* record_usage: the row, in a commit of its own; if it cannot be written, the
\* counters are increased all the same.
InsertUsage(t) ==
    /\ turn[t].pc = "recording"
    /\ Becomes(t, [turn[t] EXCEPT !.pc = "selecting"])
    /\ \/ rows' = Plus(rows, turn[t].used) /\ UNCHANGED <<unwritten, faults>>
       \/ /\ faults < MaxFaults
          /\ faults' = faults + 1
          /\ unwritten' = Plus(unwritten, turn[t].used)
          /\ rows' = rows
    /\ UNCHANGED <<counter, calls, others>>

\* The policies and the clock are read again.
SelectCounters(t) ==
    /\ turn[t].pc = "selecting"
    /\ Becomes(t, [turn[t] EXCEPT
            !.pc = "counting",
            !.owes = {p \in effective_policies(turn[t].caller) : turn[t].used[Slot[p]] # 0},
            !.now = period])
    /\ UNCHANGED <<counter, rows, unwritten, calls, faults, others>>

IncrementCounter_mut(t, p) ==
    /\ turn[t].pc = "counting"
    /\ p \in turn[t].owes
    /\ counter' = [counter EXCEPT ![p][Key(t, p)] = @ - turn[t].used[Slot[p]]]
    /\ Becomes(t, [turn[t] EXCEPT !.owes = @ \ {p}])
    /\ UNCHANGED <<rows, unwritten, calls, faults, others>>

\* incrbyfloat
IncrementCounter(t, p) ==
    /\ turn[t].pc = "counting"
    /\ p \in turn[t].owes
    /\ counter' = [counter EXCEPT ![p][Key(t, p)] = @ + turn[t].used[Slot[p]]]
    /\ Becomes(t, [turn[t] EXCEPT !.owes = @ \ {p}])
    /\ UNCHANGED <<rows, unwritten, calls, faults, others>>

Recorded(t) ==
    /\ turn[t].pc = "counting"
    /\ turn[t].owes = {}
    /\ Becomes(t, Idle)
    /\ UNCHANGED <<counter, rows, unwritten, calls, faults, others>>

\* A death anywhere, an error while the policies are read again, or a Redis
\* error that leaves the rest of the counters as they are.
Breaks(t) ==
    /\ turn[t].pc # "idle"
    /\ faults < MaxFaults
    /\ faults' = faults + 1
    /\ Becomes(t, Idle)
    /\ UNCHANGED <<counter, rows, unwritten, calls, others>>

-----------------------------------------------------------------------------

PolicyEdits ==
    \E p \in Policies :
        create_quota_policy(p) \/ update_quota_policy(p) \/ delete_quota_policy(p)

Turn(t) ==
    \/ SelectPolicies(t) \/ (\E p \in Policies : CheckCounter(t, p)) \/ Admit(t)
    \/ Completes(t) \/ Fails(t) \/ InsertUsage(t) \/ SelectCounters(t)
    \/ (\E p \in Policies : IncrementCounter(t, p)) \/ Recorded(t) \/ Breaks(t)

Next == PolicyEdits \/ (\E c \in Clocks : PeriodEnds(c)) \/ (\E t \in Turns : Turn(t))

Spec == Init /\ [][Next]_vars

-----------------------------------------------------------------------------
(* Properties *)

\* Where the limit of a policy stands: its limit_value, unless more was used
\* already when somebody last changed whom it limits, or to what.
Ceiling(p, b) == IF policy[p].limit > floor[p][b] THEN policy[p].limit ELSE floor[p][b] + 1

\* Admission reads a counter that is increased only when a turn ends.  However
\* many turns pass, however policies and periods change between their two
\* looks, a limit is exceeded by at most what the turns in flight use.
OvershootIsBounded ==
    \A p \in Policies, b \in Periods :
        counter[p][b] < Ceiling(p, b) + MaxUsage * Cardinality(Turns)

Keys(s) == {p \in Policies : Slot[p] = s} \X Periods

Charged(s) == SumFunction([k \in Keys(s) |-> counter[k[1]][k[2]]])

\* Turns whose usage is still to be charged in slot s
Owing(s) ==
    {t \in Turns : \/ turn[t].pc = "selecting"
                   \/ turn[t].pc = "counting" /\ \E p \in turn[t].owes : Slot[p] = s}

Outstanding(s) == SumFunction([t \in Owing(s) |-> turn[t].used[s]])

\* Whatever a turn used is charged at most once per metric and period, to one policy:
\* the counters never get ahead of the usage rows by more than the rows that could
\* not be written, though policies and periods change while a turn is recorded.  So
\* where several policies match, the counters of the others stand still: record_usage
\* does not increase every matching one, as its docstring says, and a limit across
\* all models does not count what a policy of one model is charged for, as QuotaPolicy
\* says.
ChargedOnce == \A s \in Slots : Charged(s) + Outstanding(s) <= rows[s] + unwritten[s]
=============================================================================
