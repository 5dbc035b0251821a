----------------------------- MODULE NestedRuns -----------------------------
(***************************************************************************)
(* One request that runs agents whose tools may start workflows            *)
(* (WorkflowSkillService), whose agents have such tools again.  The        *)
(* request is a chat turn, plain or streamed, a run of a workflow or of an *)
(* execution plan (ExecutionEngineService).  The runs nest: each is a      *)
(* frame of one stack, and all of them write into the session of the       *)
(* request.  The guard of enter_workflow_trigger is two context variables. *)
(* A frame is between two steps ("next") or awaits an agent ("agent").     *)
(* Tool calls come one after another.  Whether an engine run fails is open *)
(* (a step of a plan that names an agent always does, its team being       *)
(* looked up by the empty code).                                           *)
(***************************************************************************)
EXTENDS Naturals, Sequences

CONSTANTS
    Workflows,
    Roots,           \* what a request may be
    Steps,           \* steps of a workflow
    Triggers,        \* workflows the agents of a frame have a skill for
    maxTriggerDepth, \* of the skill of each workflow
    MaxGlobalDepth,  \* _MAX_GLOBAL_DEPTH
    PlanSteps,       \* max_retries + 1 of each step of the plan
    MaxCalls         \* bound: calls of a trigger tool in one run of an agent

Forms == {"chat", "stream", "plan"}

Runs == Workflows \cup Forms

ASSUME NestedRunsAssumption ==
    /\ Roots \subseteq Runs
    /\ Forms \cap Workflows = {}
    /\ Steps \in [Workflows -> Nat \ {0}]
    /\ Triggers \in [Runs -> SUBSET Workflows]
    /\ maxTriggerDepth \in [Workflows -> Nat]
    /\ MaxGlobalDepth \in Nat
    /\ PlanSteps \in Seq(Nat \ {0})
    /\ PlanSteps # <<>>
    /\ MaxCalls \in Nat

VARIABLES
    pc,        \* "idle", "run", then how the request ended
    stack,     \* the frames, the request's first
    depth,     \* _depth_var
    visited,   \* _visited_var
    rows,      \* WorkflowRun and ExecutionPlanRun rows in the session
    broken,    \* a database error has invalidated the session's transaction
    db,        \* the rows committed
    told       \* runs whose completion a model was told of

vars == <<pc, stack, depth, visited, rows, broken, db, told>>

\* A row counts the attempts of each of its steps.
StepRow == [status: {"RUNNING", "RETRYING", "COMPLETED", "FAILED"}, attempts: Nat]

Row == [of: Runs, status: {"RUNNING", "COMPLETED", "FAILED"}, steps: Seq(StepRow)]

\* depth and visited are what the frame's exit resets the context to.
Frame == [of: Runs, phase: {"next", "agent"}, calls: 0..MaxCalls,
          row: Nat, depth: Nat, visited: SUBSET Workflows]

Over == {"answered", "failed"}

TypeOK ==
    /\ pc \in {"idle", "run"} \cup Over
    /\ stack \in Seq(Frame)
    /\ depth \in Nat
    /\ visited \subseteq Workflows
    /\ rows \in Seq(Row) /\ db \in Seq(Row)
    /\ broken \in BOOLEAN
    /\ told \subseteq Nat

-----------------------------------------------------------------------------

Top == stack[Len(stack)]

Nested == Len(stack) > 1

At(phase) == pc = "run" /\ ~broken /\ Top.phase = phase

TopTo(phase, calls) == stack' = [stack EXCEPT ![Len(stack)].phase = phase, ![Len(stack)].calls = calls]

\* A chat has no row of its own here (ChatTurns).
HasRow == Top.row # 0

TopRow == rows[Top.row]

StepCount(of) == IF of = "plan" THEN Len(PlanSteps) ELSE IF of \in Workflows THEN Steps[of] ELSE 1

NewRow(of) == [of |-> of, status |-> "RUNNING", steps |-> <<>>]

NewFrame(of, row) ==
    [of |-> of, phase |-> "next", calls |-> 0, row |-> row, depth |-> depth, visited |-> visited]

\* A chat turn, or the run of a plan or a workflow, which has a row.
Request(of) ==
    /\ pc = "idle"
    /\ pc' = "run"
    /\ IF of \in {"chat", "stream"}
       THEN rows' = rows /\ stack' = <<[NewFrame(of, 0) EXCEPT !.phase = "agent"]>>
       ELSE rows' = <<NewRow(of)>> /\ stack' = <<NewFrame(of, 1)>>
    /\ UNCHANGED <<depth, visited, broken, db, told>>

-----------------------------------------------------------------------------
(* Steps of the run on top *)

StepsDone == Len(TopRow.steps)

\* start_step, or the step run of a plan.
StartStep ==
    /\ At("next")
    /\ StepsDone < StepCount(Top.of)
    /\ rows' = [rows EXCEPT ![Top.row].steps = Append(@, [status |-> "RUNNING", attempts |-> 1])]
    /\ TopTo("agent", 0)
    /\ UNCHANGED <<pc, depth, visited, broken, db, told>>

\* The agent has answered.
StepCompleted ==
    /\ At("agent")
    /\ HasRow
    /\ rows' = [rows EXCEPT ![Top.row].steps[StepsDone].status = "COMPLETED"]
    /\ TopTo("next", 0)
    /\ UNCHANGED <<pc, depth, visited, broken, db, told>>

\* attempts of _execute_step_with_retry.
Attempts == IF Top.of = "plan" THEN PlanSteps[StepsDone] ELSE 1

CanRetry == HasRow /\ TopRow.steps[StepsDone].attempts < Attempts

\* Mutant: the attempt is not counted.
Retry_mut ==
    /\ At("agent")
    /\ CanRetry
    /\ rows' = [rows EXCEPT ![Top.row].steps[StepsDone].status = "RETRYING"]
    /\ TopTo("agent", 0)
    /\ UNCHANGED <<pc, depth, visited, broken, db, told>>

\* Mutant: the run takes the status of its step.
Retry_mutStatus ==
    /\ At("agent")
    /\ CanRetry
    /\ rows' = [rows EXCEPT ![Top.row].status = "RETRYING",
                            ![Top.row].steps[StepsDone].attempts = @ + 1]
    /\ TopTo("agent", 0)
    /\ UNCHANGED <<pc, depth, visited, broken, db, told>>

\* The engine failed, and the whole step is run again.
Retry ==
    /\ At("agent")
    /\ CanRetry
    /\ rows' = [rows EXCEPT ![Top.row].steps[StepsDone] =
                    [status |-> "RETRYING", attempts |-> @.attempts + 1]]
    /\ TopTo("agent", 0)
    /\ UNCHANGED <<pc, depth, visited, broken, db, told>>

-----------------------------------------------------------------------------
(* The end of a run *)

\* Mutant: the visited workflows are not reset.
Leave_mut ==
    /\ Nested
    /\ stack' = SubSeq(stack, 1, Len(stack) - 1)
    /\ depth' = Top.depth
    /\ UNCHANGED <<pc, visited, broken, db>>

\* Leaving enter_workflow_trigger, with an answer for the agent below.
Leave ==
    /\ Nested
    /\ stack' = SubSeq(stack, 1, Len(stack) - 1)
    /\ depth' = Top.depth
    /\ visited' = Top.visited
    /\ UNCHANGED <<pc, broken, db>>

End(label) ==
    /\ pc' = label
    /\ stack' = <<>>
    /\ depth' = 0 /\ visited' = {}

Commit == db' = rows /\ UNCHANGED <<rows, broken>>

Rollback == rows' = db /\ broken' = FALSE /\ UNCHANGED db

RunCompleted ==
    /\ At("next")
    /\ StepsDone = StepCount(Top.of)
    /\ LET done == [rows EXCEPT ![Top.row].status = "COMPLETED"]
       IN  \/ Leave /\ rows' = done /\ told' = told \cup {Top.row}
           \/ ~Nested /\ End("answered") /\ rows' = done /\ db' = done /\ UNCHANGED <<broken, told>>

\* Mutant: only the step is marked.
Failed_mut == [rows EXCEPT ![Top.row].steps[StepsDone].status = "FAILED"]

\* What fail_step and mark_failed leave; a plan marks its rows itself.
Failed == [rows EXCEPT ![Top.row].steps[StepsDone].status = "FAILED", ![Top.row].status = "FAILED"]

\* The engine failed: a nested run answers so, a request is rolled back by get_db.
RunFailed ==
    /\ At("agent")
    /\ HasRow
    /\ ~CanRetry
    /\ \/ Leave /\ rows' = Failed /\ UNCHANGED told
       \/ ~Nested /\ End("failed") /\ Rollback /\ UNCHANGED told

\* A streamed turn has committed what it has when it fails, and its completed run
\* before it records the usage.
Loses == IF Top.of = "stream" THEN Commit ELSE Rollback

\* Mutant: a turn is answered though its transaction is lost.
ChatEnds_mut ==
    /\ pc = "run" /\ Top.phase = "agent"
    /\ ~HasRow
    /\ \/ End("answered") /\ IF broken THEN Rollback ELSE Commit
       \/ End("failed") /\ (Commit \/ Loses)
    /\ UNCHANGED told

\* A turn ends.  record_usage has committed the session of an answered one, which may
\* still be cut before the caller has the answer; or it has rolled it back, and what
\* is read of the expired rows then raises, as after a failure of the engine.
ChatEnds ==
    /\ At("agent")
    /\ ~HasRow
    /\ \/ (End("answered") \/ End("failed")) /\ Commit
       \/ End("failed") /\ Loses
    /\ UNCHANGED told

\* A streamed turn commits with every event of its agent.
Event ==
    /\ At("agent")
    /\ Top.of = "stream"
    /\ db # rows
    /\ Commit
    /\ UNCHANGED <<pc, stack, depth, visited, told>>

-----------------------------------------------------------------------------
(* The trigger tool *)

Limit(w) == IF maxTriggerDepth[w] < MaxGlobalDepth THEN maxTriggerDepth[w] ELSE MaxGlobalDepth

Calls(w) ==
    /\ At("agent")
    /\ w \in Triggers[Top.of]
    /\ Top.calls < MaxCalls

\* Mutant: the limit is one too high.
Admitted_mut(w) == depth <= Limit(w) /\ w \notin visited

Admitted(w) == depth < Limit(w) /\ w \notin visited

\* Blocked by the guard, or refused by run_workflow before it has written a row:
\* disabled, deleted, without steps, or with a session of somebody else.
NotRun(w) ==
    /\ Calls(w)
    /\ TopTo("agent", Top.calls + 1)
    /\ UNCHANGED <<pc, depth, visited, rows, broken, db, told>>

trigger_workflow(w) ==
    /\ Calls(w)
    /\ Admitted(w)
    /\ depth' = depth + 1
    /\ visited' = visited \cup {w}
    /\ rows' = Append(rows, NewRow(w))
    /\ stack' = Append([stack EXCEPT ![Len(stack)].calls = @ + 1], NewFrame(w, Len(rows) + 1))
    /\ UNCHANGED <<pc, broken, db, told>>

-----------------------------------------------------------------------------
(* Database errors, and clients that go *)

\* A statement fails, and with it the transaction.
Breaks ==
    /\ pc = "run" /\ ~broken
    /\ broken' = TRUE
    /\ UNCHANGED <<pc, stack, depth, visited, rows, db, told>>

\* Whatever the run on top does next raises again: Agno makes it the error of
\* the tool call, and from the request it gets to get_db.
Raises ==
    /\ pc = "run" /\ broken
    /\ \/ Leave /\ UNCHANGED <<rows, told>>
       \/ ~Nested /\ End("failed") /\ Rollback /\ UNCHANGED told

Disconnect ==
    /\ pc = "run"
    /\ End("failed")
    /\ Rollback
    /\ UNCHANGED told

-----------------------------------------------------------------------------

Work ==
    \/ StartStep \/ StepCompleted \/ Retry \/ RunCompleted \/ RunFailed \/ ChatEnds \/ Event
    \/ \E w \in Workflows : NotRun(w) \/ trigger_workflow(w)
    \/ Raises

Next == Work \/ Breaks \/ Disconnect \/ \E of \in Roots : Request(of)

Init ==
    /\ pc = "idle"
    /\ stack = <<>>
    /\ depth = 0 /\ visited = {}
    /\ rows = <<>> /\ db = <<>>
    /\ broken = FALSE
    /\ told = {}

Spec == Init /\ [][Next]_vars

FairSpec == Spec /\ WF_vars(Work)

-----------------------------------------------------------------------------
(* Properties *)

Triggered == 2..Len(stack)

\* The context variables describe the chain of triggered runs, whatever was
\* started, refused, failed or broken before, so no later trigger is judged by a
\* chain it is not part of.
GuardFollowsTheChain ==
    /\ pc = "run" => depth = Len(stack) - 1
    /\ visited = {stack[i].of : i \in Triggered}

\* A triggered run is within the depth of its skill and of the platform, and never
\* below another triggered run of the same workflow.
NestingIsBounded ==
    \A i \in Triggered :
        /\ i - 1 <= Limit(stack[i].of)
        /\ \A j \in Triggered : stack[i].of = stack[j].of => i = j

\* A finished run: its steps are completed, but for the last one of a failed run, and
\* each is within its attempts.
Settled(r) ==
    /\ r.status # "RUNNING"
    /\ r.status = "COMPLETED" => Len(r.steps) = StepCount(r.of)
    /\ \A k \in 1..Len(r.steps) :
        /\ r.steps[k].status = (IF k = Len(r.steps) THEN r.status ELSE "COMPLETED")
        /\ r.steps[k].attempts <= IF r.of = "plan" THEN PlanSteps[k] ELSE 1

\* Whatever has been committed is finished, though the transaction belongs to the
\* request and a streamed turn commits it at every event.
CommittedIsSettled == \A i \in 1..Len(db) : Settled(db[i])

\* When a request is answered, the runs its models were told of are recorded as
\* completed, though some call in between may have lost the transaction.
ToldIsRecorded ==
    pc = "answered" => \A i \in told : i <= Len(db) /\ db[i].status = "COMPLETED"

\* However agents and tools call each other, a request ends.
RequestEnds == (pc = "run") ~> (pc \in Over)

\* app/core/workflow_trigger_context.py:14: "Direct or indirect cycles (A -> B -> A)
\* even within the depth cap, since a workflow_code already in the current call
\* chain is rejected outright".
NoCycle == \A i, j \in 1..Len(stack) : stack[i].of = stack[j].of => i = j
=============================================================================
