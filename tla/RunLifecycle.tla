---------------------------- MODULE RunLifecycle ----------------------------
(***************************************************************************)
(* What the audit tables promise a reader of a run, whichever service      *)
(* writes it: GET /runs/{id} and the event tail of app/api/v1/runs.py for  *)
(* an agent run, workflow_runs and workflow_events for a workflow run.     *)
(*                                                                         *)
(* status and log are what is committed.  A run appears, PENDING or        *)
(* already finished when it was executed in one transaction; it moves      *)
(* forward only; its log only grows; an outcome is final and freezes both. *)
(***************************************************************************)
EXTENDS Naturals, Sequences

CONSTANTS
    Runs,
    Pending,    \* the status a run is created with
    Running,
    Outcomes    \* the final statuses

VARIABLES
    status,
    log

vars == <<status, log>>

Extends(longer, shorter) ==
    /\ Len(shorter) <= Len(longer)
    /\ \A i \in 1..Len(shorter) : longer[i] = shorter[i]

OnlyRun(r) ==
    \A other \in Runs \ {r} : status'[other] = status[other] /\ log'[other] = log[other]

Init ==
    /\ status = [r \in Runs |-> "none"]
    /\ log = [r \in Runs |-> <<>>]

Appear(r) ==
    /\ status[r] = "none"
    /\ status'[r] \in {Pending} \cup Outcomes
    /\ OnlyRun(r)

Start(r) ==
    /\ status[r] = Pending
    /\ status'[r] = Running
    /\ log'[r] = log[r]
    /\ OnlyRun(r)

Record(r) ==
    /\ status[r] = Running
    /\ status'[r] = Running
    /\ Extends(log'[r], log[r])
    /\ OnlyRun(r)

Finish(r) ==
    /\ status[r] = Running
    /\ status'[r] \in Outcomes
    /\ Extends(log'[r], log[r])
    /\ OnlyRun(r)

Next == \E r \in Runs : Appear(r) \/ Start(r) \/ Record(r) \/ Finish(r)

Spec == Init /\ [][Next]_vars
=============================================================================
