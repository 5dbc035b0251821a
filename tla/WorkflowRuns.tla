---------------------------- MODULE WorkflowRuns ----------------------------
(***************************************************************************)
(* One Workflow definition (app/services/workflow_registry.py) and the     *)
(* runs of it (app/services/workflow_execution_service.py, driving         *)
(* app/agno_runtime/workflow_executor.py), as the rows other sessions can  *)
(* see in Postgres.                                                        *)
(*                                                                         *)
(* A run executes in one of three ways:                                    *)
(*   "request"  POST /workflows/{id}/run and the webhook trigger: one      *)
(*              transaction, committed or rolled back by get_db;           *)
(*   "ticker"   the scheduler calls the same run_workflow in session_scope *)
(*              but swallows the error, so that a failure is committed;    *)
(*   "stream"   run_workflow_stream commits after every write.             *)
(*                                                                         *)
(* Step rows are identified by the version of the step list they belong    *)
(* to: replace_steps deletes every row and inserts new ones, so a step     *)
(* read at version v still exists if and only if v is the current version. *)
(* workflow_run_steps.workflow_step_id references workflow_steps with ON   *)
(* DELETE CASCADE, so replace_steps also deletes the step rows of every    *)
(* committed run.  An uncommitted run step holds a key-share lock on its   *)
(* workflow step, which makes replace_steps wait.                          *)
(***************************************************************************)
EXTENDS Naturals, Sequences, FiniteSets

CONSTANTS
    Runs,        \* run slots; a slot is one call of run_workflow[_stream]
    Text,        \* inputs and step outputs
    NoText,      \* SQL NULL in an output or result column
    MaxSteps,    \* bound: longest step list
    MaxVersion   \* bound: how often the step list is written

ASSUME TextAssumption == NoText \notin Text
ASSUME BoundAssumption == MaxSteps \in Nat \ {0} /\ MaxVersion \in Nat \ {0}

VARIABLES
    workflow,   \* the workflows row: enabled, deleted, version and number of its steps
    pc,         \* where each run's task is
    mode,       \* how it was started
    plan,       \* the step list it read: [version, size]
    results,    \* WorkflowContext.stepResults, in step order
    txn,        \* run rows flushed in the task's open transaction ("request", "ticker")
    db          \* run rows committed

vars == <<workflow, pc, mode, plan, results, txn, db>>

-----------------------------------------------------------------------------
(* Rows *)

Mode == {"request", "ticker", "stream"}

PC == {"idle",      \* not called yet
       "created",   \* create_run and the user message are done
       "loop",      \* WorkflowExecutor is between two steps
       "step",      \* a step is executing in the engine
       "failing",   \* a step failed, mark_failed is next
       "rejected",  \* 404, disabled or without steps
       "done",      \* returned or raised, the session is closed
       "conflict",  \* a flush met a step row that is gone: IntegrityError or StaleDataError
       "dead"}      \* the client went away or the process died

Ended == {"rejected", "done", "conflict", "dead"}

Active == {"created", "loop", "step", "failing"}

WorkflowEventType ==
    {"WorkflowStarted", "WorkflowStepStarted", "WorkflowStepCompleted",
     "WorkflowCompleted", "WorkflowFailed"}

WorkflowRunStatus == {"PENDING", "RUNNING", "COMPLETED", "FAILED"}

Terminal == {"COMPLETED", "FAILED"}

MaybeText == Text \cup {NoText}

WorkflowRunStep ==
    [status: {"RUNNING", "COMPLETED", "FAILED"}, input: Text, output: MaybeText]

WorkflowRun ==
    [status: WorkflowRunStatus \cup {"none"}, input: MaybeText, result: MaybeText,
     steps: Seq(WorkflowRunStep), events: Seq(WorkflowEventType),
     messages: Seq({"user", "assistant"})]

NoRun == [status |-> "none", input |-> NoText, result |-> NoText,
          steps |-> <<>>, events |-> <<>>, messages |-> <<>>]

Plan == [version: 0..MaxVersion, size: 0..MaxSteps]

TypeOK ==
    /\ workflow \in [enabled: BOOLEAN, deleted: BOOLEAN,
                     version: 0..MaxVersion, size: 0..MaxSteps]
    /\ pc \in [Runs -> PC]
    /\ mode \in [Runs -> Mode]
    /\ plan \in [Runs -> Plan]
    /\ results \in [Runs -> Seq(Text)]
    /\ txn \in [Runs -> WorkflowRun]
    /\ db \in [Runs -> WorkflowRun]

(* Definitions named ..._mut are plausible bugs of the definition that follows *)
(* them; nothing uses them except the mutants PROJECT.json lists.              *)

(* WorkflowRunService: what each of its methods does to the rows of a run *)

create_run(input) ==
    [status |-> "PENDING", input |-> input, result |-> NoText,
     steps |-> <<>>, events |-> <<"WorkflowStarted">>, messages |-> <<"user">>]

mark_running(row) == [row EXCEPT !.status = "RUNNING"]

mark_completed(row, result) ==
    [row EXCEPT !.status = "COMPLETED", !.result = result,
                !.events = Append(@, "WorkflowCompleted"),
                !.messages = Append(@, "assistant")]

mark_failed(row) ==
    [row EXCEPT !.status = "FAILED", !.events = Append(@, "WorkflowFailed")]

start_step(row, stepInput) ==
    [row EXCEPT !.steps = Append(@, [status |-> "RUNNING", input |-> stepInput,
                                     output |-> NoText]),
                !.events = Append(@, "WorkflowStepStarted")]

complete_step_mut(row, out) ==
    [row EXCEPT !.steps[Len(row.steps)] = [@ EXCEPT !.status = "COMPLETED", !.output = out]]

complete_step(row, out) ==
    [row EXCEPT !.steps[Len(row.steps)] = [@ EXCEPT !.status = "COMPLETED", !.output = out],
                !.events = Append(@, "WorkflowStepCompleted")]

fail_step_mut(row) == row

fail_step(row) ==
    [row EXCEPT !.steps[Len(row.steps)] = [@ EXCEPT !.status = "FAILED"]]

previous_output_mut(res, original) == original

previous_output_mut2(res, original) == IF res = <<>> THEN NoText ELSE res[Len(res)]

(* WorkflowContext.previous_output for the step after those in res *)
previous_output(res, original) ==
    IF res = <<>> THEN original ELSE res[Len(res)]

-----------------------------------------------------------------------------
(* Transactions *)

\* The run's rows as its own session sees them.
Row(r) == IF mode[r] = "stream" THEN db[r] ELSE txn[r]

Write_mut(r, row) ==
    /\ db' = [db EXCEPT ![r] = row]
    /\ txn' = [txn EXCEPT ![r] = row]

\* A flush: a stream commits it at once, the others only when they end.
Write(r, row) ==
    IF mode[r] = "stream"
    THEN db' = [db EXCEPT ![r] = row] /\ txn' = txn
    ELSE txn' = [txn EXCEPT ![r] = row] /\ db' = db

\* The transaction ends with the flush of row and is committed.
Commit(r, row) ==
    /\ db' = [db EXCEPT ![r] = row]
    /\ txn' = [txn EXCEPT ![r] = NoRun]

Rollback(r) ==
    /\ txn' = [txn EXCEPT ![r] = NoRun]
    /\ db' = db

\* The step rows the run read are still in workflow_steps.
PlanIsCurrent(r) == plan[r].version = workflow.version

\* A step's run row was inserted and not deleted by a cascade since.
StepRowExists(r) == Len(Row(r).steps) = Len(results[r]) + 1

\* Some open transaction holds a key-share lock on a current workflow step.
StepsLocked ==
    \E r \in Runs : pc[r] \in Active /\ PlanIsCurrent(r) /\ txn[r].steps # <<>>

Goto(r, label) == pc' = [pc EXCEPT ![r] = label]

-----------------------------------------------------------------------------
(* WorkflowRegistry *)

Init ==
    /\ workflow = [enabled |-> FALSE, deleted |-> FALSE, version |-> 0, size |-> 0]
    /\ pc = [r \in Runs |-> "idle"]
    /\ mode = [r \in Runs |-> "stream"]
    /\ plan = [r \in Runs |-> [version |-> 0, size |-> 0]]
    /\ results = [r \in Runs |-> <<>>]
    /\ txn = [r \in Runs |-> NoRun]
    /\ db = [r \in Runs |-> NoRun]

Exists == workflow.version > 0 /\ ~workflow.deleted

\* The code stays taken after a soft delete, so there is one creation.
create_workflow ==
    /\ workflow.version = 0
    /\ \E size \in 1..MaxSteps, enabled \in BOOLEAN :
        workflow' = [enabled |-> enabled, deleted |-> FALSE, version |-> 1, size |-> size]
    /\ UNCHANGED <<pc, mode, plan, results, txn, db>>

set_enabled ==
    /\ Exists
    /\ \E enabled \in BOOLEAN : workflow' = [workflow EXCEPT !.enabled = enabled]
    /\ UNCHANGED <<pc, mode, plan, results, txn, db>>

replace_steps_mut ==
    /\ Exists
    /\ ~StepsLocked
    /\ workflow.version < MaxVersion
    /\ \E size \in 0..MaxSteps, enabled \in BOOLEAN :
        workflow' = [workflow EXCEPT !.version = @ + 1, !.size = size, !.enabled = enabled]
    /\ db' = [r \in Runs |-> [db[r] EXCEPT !.steps = <<>>, !.result = NoText]]
    /\ UNCHANGED <<pc, mode, plan, results, txn>>

\* DELETE FROM workflow_steps cascades to the committed run steps.
replace_steps ==
    /\ Exists
    /\ ~StepsLocked
    /\ workflow.version < MaxVersion
    /\ \E size \in 0..MaxSteps, enabled \in BOOLEAN :
        workflow' = [workflow EXCEPT !.version = @ + 1, !.size = size, !.enabled = enabled]
    /\ db' = [r \in Runs |-> [db[r] EXCEPT !.steps = <<>>]]
    /\ UNCHANGED <<pc, mode, plan, results, txn>>

delete_workflow ==
    /\ Exists
    /\ workflow' = [workflow EXCEPT !.deleted = TRUE]
    /\ UNCHANGED <<pc, mode, plan, results, txn, db>>

-----------------------------------------------------------------------------
(* WorkflowExecutionService and WorkflowExecutor *)

Runnable == Exists /\ workflow.enabled /\ workflow.size > 0

Reject(r) ==
    /\ pc[r] = "idle"
    /\ ~Runnable
    /\ Goto(r, "rejected")
    /\ UNCHANGED <<workflow, mode, plan, results, txn, db>>

Begin(r) ==
    /\ pc[r] = "idle"
    /\ Runnable
    /\ plan' = [plan EXCEPT ![r] = [version |-> workflow.version, size |-> workflow.size]]
    /\ \E m \in Mode, input \in Text :
        /\ mode' = [mode EXCEPT ![r] = m]
        /\ IF m = "stream"
           THEN db' = [db EXCEPT ![r] = create_run(input)] /\ txn' = txn
           ELSE txn' = [txn EXCEPT ![r] = create_run(input)] /\ db' = db
    /\ Goto(r, "created")
    /\ UNCHANGED <<workflow, results>>

MarkRunning_mut(r) ==
    /\ pc[r] = "created"
    /\ Goto(r, "loop")
    /\ UNCHANGED <<workflow, mode, plan, results, txn, db>>

MarkRunning(r) ==
    /\ pc[r] = "created"
    /\ Write(r, mark_running(Row(r)))
    /\ Goto(r, "loop")
    /\ UNCHANGED <<workflow, mode, plan, results>>

StartStep(r) ==
    /\ pc[r] = "loop"
    /\ Len(results[r]) < plan[r].size
    /\ PlanIsCurrent(r)
    /\ Write(r, start_step(Row(r), previous_output(results[r], Row(r).input)))
    /\ Goto(r, "step")
    /\ UNCHANGED <<workflow, mode, plan, results>>

\* The engine answers, on_step_completed or the completed marker is handled.
StepCompleted(r) ==
    /\ pc[r] = "step"
    /\ StepRowExists(r)
    /\ \E out \in Text :
        /\ Write(r, complete_step(Row(r), out))
        /\ results' = [results EXCEPT ![r] = Append(@, out)]
    /\ Goto(r, "loop")
    /\ UNCHANGED <<workflow, mode, plan>>

\* The engine raises; fail_step emits no event.
StepFailed(r) ==
    /\ pc[r] = "step"
    /\ StepRowExists(r)
    /\ Write(r, fail_step(Row(r)))
    /\ Goto(r, "failing")
    /\ UNCHANGED <<workflow, mode, plan, results>>

\* Only RuntimeExecutionError marks a run failed: a foreign key that is gone at
\* start_step, or a run step that is gone at complete_step or fail_step, is not
\* one, and nothing more is written.
Conflict(r) ==
    /\ \/ pc[r] = "loop" /\ Len(results[r]) < plan[r].size /\ ~PlanIsCurrent(r)
       \/ pc[r] = "step" /\ ~StepRowExists(r)
    /\ Rollback(r)
    /\ Goto(r, "conflict")
    /\ UNCHANGED <<workflow, mode, plan, results>>

Fail_mut(r) ==
    /\ pc[r] = "failing"
    /\ IF mode[r] = "request" THEN Rollback(r) ELSE Commit(r, Row(r))
    /\ Goto(r, "done")
    /\ UNCHANGED <<workflow, mode, plan, results>>

\* mark_failed, then the exception reaches get_db ("request": rollback),
\* _fire_one ("ticker": commit) or the generator itself ("stream": commit).
Fail(r) ==
    /\ pc[r] = "failing"
    /\ IF mode[r] = "request" THEN Rollback(r) ELSE Commit(r, mark_failed(Row(r)))
    /\ Goto(r, "done")
    /\ UNCHANGED <<workflow, mode, plan, results>>

Complete(r) ==
    /\ pc[r] = "loop"
    /\ Len(results[r]) = plan[r].size
    /\ Commit(r, mark_completed(Row(r), results[r][Len(results[r])]))
    /\ Goto(r, "done")
    /\ UNCHANGED <<workflow, mode, plan, results>>

\* Cancellation (a client that stops reading the stream) and process death
\* are not Exceptions: no handler runs, the open transaction is lost.
Die(r) ==
    /\ pc[r] \in Active
    /\ Rollback(r)
    /\ Goto(r, "dead")
    /\ UNCHANGED <<workflow, mode, plan, results>>

-----------------------------------------------------------------------------

Registry == create_workflow \/ set_enabled \/ replace_steps \/ delete_workflow

Progress(r) ==
    \/ Reject(r) \/ Begin(r) \/ MarkRunning(r) \/ StartStep(r) \/ StepCompleted(r)
    \/ StepFailed(r) \/ Conflict(r) \/ Fail(r) \/ Complete(r)

Next == Registry \/ \E r \in Runs : Progress(r) \/ Die(r)

Spec == Init /\ [][Next]_vars

\* A task that was started is scheduled until it ends, and the engine answers
\* or raises; nobody is obliged to call the API.
Fairness == \A r \in Runs : WF_vars(pc[r] # "idle" /\ Progress(r))

FairSpec == Spec /\ Fairness

\* The same without deaths: what the code does by itself.
UninterruptedSpec ==
    Init /\ [][Registry \/ \E r \in Runs : Progress(r)]_vars /\ Fairness

-----------------------------------------------------------------------------
(* Properties *)

\* Every committed run step but the last is COMPLETED, and each one's recorded
\* input is the recorded output of the step before it (the run's input for the
\* first): a failure never rewrites an earlier step and no step is skipped.
StepChain ==
    \A r \in Runs : LET steps == db[r].steps IN
        \A i \in DOMAIN steps :
            /\ i < Len(steps) => steps[i].status = "COMPLETED"
            /\ steps[i].input = IF i = 1 THEN db[r].input ELSE steps[i - 1].output

\* What a finished run says of itself agrees with its step rows, unless a
\* later PUT deleted them: COMPLETED means that every step of the list it read
\* completed and the result is the last one's output, FAILED that the last
\* step started is the one that failed.
OutcomeMatchesSteps ==
    \A r \in Runs : LET row == db[r] IN
        /\ row.status = "COMPLETED" /\ row.steps # <<>> =>
            /\ Len(row.steps) = plan[r].size
            /\ row.steps[Len(row.steps)].status = "COMPLETED"
            /\ row.result = row.steps[Len(row.steps)].output
        /\ row.status = "FAILED" /\ row.steps # <<>> =>
            row.steps[Len(row.steps)].status = "FAILED"

Occurrences(seq, e) == {i \in DOMAIN seq : seq[i] = e}

\* The event log alone, which no PUT deletes, tells how far a run got: the
\* step events alternate, a terminal event is last and agrees with the status,
\* and the run steps still there are the ones the log tells of.
EventLogMatchesRun ==
    \A r \in Runs :
        LET row == db[r]
            log == row.events
            started == Cardinality(Occurrences(log, "WorkflowStepStarted"))
            completed == Cardinality(Occurrences(log, "WorkflowStepCompleted"))
        IN  row.status # "none" =>
            /\ log[1] = "WorkflowStarted"
            /\ \A i \in DOMAIN log : log[i] = "WorkflowStepCompleted" =>
                    log[i - 1] = "WorkflowStepStarted"
            /\ \A i \in DOMAIN log : log[i] \in {"WorkflowCompleted", "WorkflowFailed"} =>
                    i = Len(log)
            /\ (log[Len(log)] = "WorkflowCompleted") <=> (row.status = "COMPLETED")
            /\ (log[Len(log)] = "WorkflowFailed") <=> (row.status = "FAILED")
            /\ row.status = "COMPLETED" => started = plan[r].size /\ completed = plan[r].size
            /\ row.status = "FAILED" => started = completed + 1
            /\ row.steps # <<>> =>
                /\ started = Len(row.steps)
                /\ completed = Cardinality({i \in DOMAIN row.steps :
                                               row.steps[i].status = "COMPLETED"})

\* Once a run is COMPLETED or FAILED for other sessions, no later step of its
\* task, of another run or of the registry changes its outcome, its result, its
\* log or its transcript.  Its step rows are not append-only, whatever
\* docs/Workflow.md and models/workflow_run.py say: they stay as they are as long as
\* the step list the run read is in force, and there is none once it was replaced,
\* be it while the run was under way.
FinishedRunIsFrozen ==
    [][\A r \in Runs : db[r].status \in Terminal =>
          db'[r] = [db[r] EXCEPT !.steps = IF PlanIsCurrent(r)' THEN @ ELSE <<>>]]_vars

\* A run of run_workflow (request, webhook, ticker) becomes visible all at once:
\* nobody sees it PENDING or RUNNING, and if it did not get to its end there is
\* nothing left of it.  Of a run that failed the ticker leaves the record; of a
\* request that failed nothing is left either, whatever WorkflowExecutionService and
\* docs/Workflow.md say of failed runs and steps.
AllOrNothing ==
    \A r \in Runs : mode[r] # "stream" =>
        \/ db[r] = NoRun /\ (pc[r] = "done" => mode[r] = "request")
        \/ db[r].status = "COMPLETED" /\ pc[r] = "done"
        \/ db[r].status = "FAILED" /\ pc[r] = "done" /\ mode[r] = "ticker"

\* A run other sessions see RUNNING is marked COMPLETED or FAILED, unless its
\* task died or met a step list that was replaced under it.
RunSettles ==
    \A r \in Runs : db[r].status = "RUNNING" ~>
        db[r].status \in Terminal \/ pc[r] \in {"conflict", "dead"}

\* workflow_execution_service.py marks the run completed or failed: with no
\* death, one that was visible as RUNNING is.
RunIsMarked ==
    \A r \in Runs : db[r].status = "RUNNING" ~> db[r].status \in Terminal

\* What a reader of the audit trail relies on (RunLifecycle).
Audit == INSTANCE RunLifecycle WITH
    Pending <- "PENDING",
    Running <- "RUNNING",
    Outcomes <- Terminal,
    status <- [r \in Runs |-> db[r].status],
    log <- [r \in Runs |-> db[r].events]

\* Whatever the transaction structure, the committed rows of the runs behave
\* like the abstract run lifecycle.
ImplementsLifecycle == Audit!Spec
=============================================================================
