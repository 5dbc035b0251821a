------------------------ MODULE WorkflowRuns_proofs -------------------------
(***************************************************************************)
(* Theorems about WorkflowRuns for every set of runs and texts and every   *)
(* bound.  First what the row operations do, then the inductive invariant  *)
(* of a run, then the theorems; the event log, and its own invariant, come *)
(* last.                                                                   *)
(***************************************************************************)
EXTENDS WorkflowRuns, SequenceTheorems, FiniteSetTheorems, TLAPS

-----------------------------------------------------------------------------
(* Row operations *)

\* A new run row is well formed and has no steps.
LEMMA CreateRun ==
    ASSUME NEW input \in Text
    PROVE  /\ create_run(input) \in WorkflowRun
           /\ create_run(input).status = "PENDING"
           /\ create_run(input).input = input
           /\ create_run(input).steps = <<>>
<1>1. /\ <<>> \in Seq(WorkflowRunStep)
      /\ <<"WorkflowStarted">> \in Seq(WorkflowEventType)
      /\ <<"user">> \in Seq({"user", "assistant"})
  BY DEF WorkflowEventType
<1> QED
  BY <1>1 DEF create_run, WorkflowRun, MaybeText, WorkflowRunStatus

\* mark_running changes the status only.
LEMMA MarkRunningRow ==
    ASSUME NEW row \in WorkflowRun
    PROVE  /\ mark_running(row) \in WorkflowRun
           /\ mark_running(row).status = "RUNNING"
           /\ mark_running(row).input = row.input
           /\ mark_running(row).steps = row.steps
           /\ mark_running(row).events = row.events
BY DEF mark_running, WorkflowRun, WorkflowRunStatus

\* mark_completed leaves the step rows alone and extends the log.
LEMMA MarkCompletedRow ==
    ASSUME NEW row \in WorkflowRun, NEW result \in Text
    PROVE  /\ mark_completed(row, result) \in WorkflowRun
           /\ mark_completed(row, result).status = "COMPLETED"
           /\ mark_completed(row, result).input = row.input
           /\ mark_completed(row, result).steps = row.steps
           /\ mark_completed(row, result).result = result
           /\ mark_completed(row, result).events = Append(row.events, "WorkflowCompleted")
<1>1. /\ Append(row.events, "WorkflowCompleted") \in Seq(WorkflowEventType)
      /\ Append(row.messages, "assistant") \in Seq({"user", "assistant"})
  BY AppendProperties DEF WorkflowRun, WorkflowEventType
<1> QED
  BY <1>1 DEF mark_completed, WorkflowRun, WorkflowRunStatus, MaybeText

\* mark_failed leaves the step rows alone and extends the log.
LEMMA MarkFailedRow ==
    ASSUME NEW row \in WorkflowRun
    PROVE  /\ mark_failed(row) \in WorkflowRun
           /\ mark_failed(row).status = "FAILED"
           /\ mark_failed(row).input = row.input
           /\ mark_failed(row).steps = row.steps
           /\ mark_failed(row).events = Append(row.events, "WorkflowFailed")
<1>1. Append(row.events, "WorkflowFailed") \in Seq(WorkflowEventType)
  BY AppendProperties DEF WorkflowRun, WorkflowEventType
<1> QED
  BY <1>1 DEF mark_failed, WorkflowRun, WorkflowRunStatus

\* start_step appends one RUNNING step row.
LEMMA StartStepRow ==
    ASSUME NEW row \in WorkflowRun, NEW input \in Text
    PROVE  LET new == start_step(row, input) IN
           /\ new \in WorkflowRun
           /\ new.status = row.status
           /\ new.input = row.input
           /\ new.steps = Append(row.steps, [status |-> "RUNNING", input |-> input,
                                             output |-> NoText])
           /\ new.events = Append(row.events, "WorkflowStepStarted")
<1> DEFINE step == [status |-> "RUNNING", input |-> input, output |-> NoText]
<1>1. Append(row.events, "WorkflowStepStarted") \in Seq(WorkflowEventType)
  BY AppendProperties DEF WorkflowRun, WorkflowEventType
<1>2. step \in WorkflowRunStep
  BY DEF WorkflowRunStep, MaybeText
<1>3. Append(row.steps, step) \in Seq(WorkflowRunStep)
  BY <1>2, AppendProperties DEF WorkflowRun
<1> QED
  BY <1>1, <1>3 DEF start_step, WorkflowRun

\* complete_step and fail_step overwrite the last step row: its input, every
\* other step row and their number stay.
OnlyLastChanged(old, new) ==
    /\ Len(new) = Len(old)
    /\ Len(old) \in Nat \ {0}
    /\ \A i \in 1..Len(old) : i # Len(old) => new[i] = old[i]
    /\ new[Len(old)].input = old[Len(old)].input

\* Overwriting the last element of a non-empty sequence of step rows.
LEMMA LastStep ==
    ASSUME NEW steps \in Seq(WorkflowRunStep), steps # <<>>,
           NEW last \in WorkflowRunStep, last.input = steps[Len(steps)].input
    PROVE  LET new == [steps EXCEPT ![Len(steps)] = last]
           IN  /\ new \in Seq(WorkflowRunStep)
               /\ OnlyLastChanged(steps, new)
               /\ new[Len(steps)] = last
<1>1. Len(steps) \in Nat \ {0} /\ Len(steps) \in 1..Len(steps)
  BY EmptySeq
<1> QED
  BY <1>1, ExceptSeq DEF OnlyLastChanged

\* complete_step completes the last step row and extends the log.
LEMMA CompleteStepRow ==
    ASSUME NEW row \in WorkflowRun, row.steps # <<>>, NEW out \in Text
    PROVE  LET new == complete_step(row, out) IN
           /\ new \in WorkflowRun
           /\ new.status = row.status
           /\ new.input = row.input
           /\ OnlyLastChanged(row.steps, new.steps)
           /\ new.steps[Len(row.steps)].status = "COMPLETED"
           /\ new.steps[Len(row.steps)].output = out
           /\ new.events = Append(row.events, "WorkflowStepCompleted")
<1> DEFINE n == Len(row.steps)
<1> DEFINE last == [row.steps[n] EXCEPT !.status = "COMPLETED", !.output = out]
<1> DEFINE steps == [row.steps EXCEPT ![n] = last]
<1>1. row.steps \in Seq(WorkflowRunStep)
  BY DEF WorkflowRun
<1>2. row.steps[n] \in WorkflowRunStep
  BY <1>1, EmptySeq, ElementOfSeq
<1>3. /\ last \in WorkflowRunStep /\ last.input = row.steps[n].input
      /\ last.status = "COMPLETED" /\ last.output = out
  BY <1>2 DEF WorkflowRunStep, MaybeText
<1> HIDE DEF last
<1>4. /\ steps \in Seq(WorkflowRunStep)
      /\ OnlyLastChanged(row.steps, steps)
      /\ steps[n] = last
  BY <1>1, <1>3, LastStep
<1>5. Append(row.events, "WorkflowStepCompleted") \in Seq(WorkflowEventType)
  BY AppendProperties DEF WorkflowRun, WorkflowEventType
<1>6. complete_step(row, out) =
        [row EXCEPT !.steps = steps, !.events = Append(row.events, "WorkflowStepCompleted")]
  BY DEF complete_step, last
<1> HIDE DEF steps
<1> QED
  BY <1>3, <1>4, <1>5, <1>6 DEF WorkflowRun

\* fail_step fails the last step row and nothing else.
LEMMA FailStepRow ==
    ASSUME NEW row \in WorkflowRun, row.steps # <<>>
    PROVE  LET new == fail_step(row) IN
           /\ new \in WorkflowRun
           /\ new.status = row.status
           /\ new.input = row.input
           /\ OnlyLastChanged(row.steps, new.steps)
           /\ new.steps[Len(row.steps)].status = "FAILED"
           /\ new.events = row.events
<1> DEFINE n == Len(row.steps)
<1> DEFINE last == [row.steps[n] EXCEPT !.status = "FAILED"]
<1> DEFINE steps == [row.steps EXCEPT ![n] = last]
<1>1. row.steps \in Seq(WorkflowRunStep)
  BY DEF WorkflowRun
<1>2. row.steps[n] \in WorkflowRunStep
  BY <1>1, EmptySeq, ElementOfSeq
<1>3. /\ last \in WorkflowRunStep /\ last.input = row.steps[n].input
      /\ last.status = "FAILED"
  BY <1>2 DEF WorkflowRunStep
<1> HIDE DEF last
<1>4. /\ steps \in Seq(WorkflowRunStep)
      /\ OnlyLastChanged(row.steps, steps)
      /\ steps[n] = last
  BY <1>1, <1>3, LastStep
<1>5. fail_step(row) = [row EXCEPT !.steps = steps]
  BY DEF fail_step, last
<1> HIDE DEF steps
<1> QED
  BY <1>3, <1>4, <1>5 DEF WorkflowRun

-----------------------------------------------------------------------------
(* The inductive invariant *)

\* StepChain of one run row.
Chain(row) ==
    \A i \in DOMAIN row.steps :
        /\ i < Len(row.steps) => row.steps[i].status = "COMPLETED"
        /\ row.steps[i].input = IF i = 1 THEN row.input ELSE row.steps[i - 1].output

\* OutcomeMatchesSteps of one run row, with the size of the plan it executed.
Outcome(row, size) ==
    /\ row.status = "COMPLETED" /\ row.steps # <<>> =>
        /\ Len(row.steps) = size
        /\ row.steps[Len(row.steps)].status = "COMPLETED"
        /\ row.result = row.steps[Len(row.steps)].output
    /\ row.status = "FAILED" /\ row.steps # <<>> =>
        row.steps[Len(row.steps)].status = "FAILED"

\* The step rows record the step results: res holds the outputs of its first
\* steps, all COMPLETED.
Recorded(steps, res) ==
    \A i \in 1..Len(res) : steps[i].status = "COMPLETED" /\ steps[i].output = res[i]

\* What the variables of a running task say about the row it is writing: while
\* its plan is current nothing was deleted and the row is as far as the task is;
\* once the plan was replaced there is no step row left.
TaskInv(r) ==
    LET row == Row(r)
        steps == Row(r).steps
        res == results[r]
    IN  /\ row.input \in Text
        /\ row.status = IF pc[r] = "created" THEN "PENDING" ELSE "RUNNING"
        /\ plan[r].size > 0
        /\ plan[r].version \in 1..workflow.version
        /\ plan[r].version # workflow.version => steps = <<>>
        /\ pc[r] = "created" => res = <<>> /\ steps = <<>>
        /\ plan[r].version = workflow.version => Recorded(steps, res)
        /\ plan[r].version = workflow.version /\ pc[r] = "loop" => Len(steps) = Len(res)
        /\ plan[r].version = workflow.version /\ pc[r] \in {"step", "failing"} =>
            Len(steps) = Len(res) + 1
        /\ plan[r].version = workflow.version /\ pc[r] = "failing" =>
            steps[Len(steps)].status = "FAILED"

RunInv(r) ==
    /\ Chain(db[r]) /\ Chain(txn[r])
    /\ Outcome(db[r], plan[r].size)
    /\ pc[r] = "idle" => db[r] = NoRun /\ txn[r] = NoRun /\ results[r] = <<>>
    /\ pc[r] \in Active => TaskInv(r)
    /\ db[r].status \in Terminal => pc[r] = "done"
    /\ db[r].status \in Terminal =>
        /\ plan[r].version \in 1..workflow.version
        /\ plan[r].version # workflow.version => db[r].steps = <<>>
    /\ mode[r] # "stream" =>
        /\ db[r] = NoRun \/ (pc[r] = "done" /\ db[r].status \in Terminal)
        /\ db[r] = NoRun /\ pc[r] = "done" => mode[r] = "request"
        /\ db[r].status = "FAILED" => mode[r] = "ticker"

Inv == TypeOK /\ \A r \in Runs : RunInv(r)

-----------------------------------------------------------------------------
(* Facts about the parts of the invariant *)

\* Rows without steps chain, whatever they say.
LEMMA ChainEmpty ==
    ASSUME NEW row, row.steps = <<>>
    PROVE  Chain(row)
BY DEF Chain

\* Chain looks at the input and the steps only.
LEMMA ChainSame ==
    ASSUME NEW row, NEW new, Chain(row), new.steps = row.steps, new.input = row.input
    PROVE  Chain(new)
BY DEF Chain

\* start_step continues the chain if every earlier step completed and the new
\* one is given the previous output.
LEMMA ChainAppend ==
    ASSUME NEW row \in WorkflowRun, NEW new \in WorkflowRun, NEW res \in Seq(Text),
           NEW step \in WorkflowRunStep,
           Chain(row), Len(row.steps) = Len(res), Recorded(row.steps, res),
           new.input = row.input, new.steps = Append(row.steps, step),
           step.input = previous_output(res, row.input)
    PROVE  Chain(new)
<1> DEFINE n == Len(row.steps)
<1>1. row.steps \in Seq(WorkflowRunStep) /\ n \in Nat /\ DOMAIN row.steps = 1..n
  BY DEF WorkflowRun
<1>2. /\ Len(new.steps) = n + 1 /\ DOMAIN new.steps = 1..(n + 1)
      /\ \A i \in 1..n : new.steps[i] = row.steps[i]
      /\ new.steps[n + 1] = step
  BY <1>1, AppendProperties DEF WorkflowRun
<1>3. ASSUME NEW i \in 1..n
      PROVE  /\ new.steps[i].status = "COMPLETED"
             /\ new.steps[i].input = IF i = 1 THEN new.input ELSE new.steps[i - 1].output
  <2>1. new.steps[i].status = "COMPLETED"
    BY <1>1, <1>2 DEF Recorded
  <2>2. i # 1 => i - 1 \in 1..n
    BY <1>1
  <2> QED
    BY <1>1, <1>2, <2>1, <2>2 DEF Chain
<1>4. step.input = IF n + 1 = 1 THEN new.input ELSE new.steps[n].output
  <2>1. CASE n = 0
    <3>1. res = <<>>
      BY <2>1, EmptySeq
    <3> QED
      BY <2>1, <3>1 DEF previous_output
  <2>2. CASE n # 0
    <3>1. res # <<>> /\ n \in 1..n /\ n \in 1..Len(res)
      BY <1>1, <2>2, EmptySeq
    <3> QED
      BY <1>1, <1>2, <2>2, <3>1 DEF previous_output, Recorded
  <2> QED
    BY <2>1, <2>2
<1> QED
  BY <1>1, <1>2, <1>3, <1>4 DEF Chain

\* complete_step and fail_step keep the chain.
LEMMA ChainLast ==
    ASSUME NEW row \in WorkflowRun, NEW new \in WorkflowRun,
           Chain(row), new.input = row.input, OnlyLastChanged(row.steps, new.steps)
    PROVE  Chain(new)
<1> DEFINE n == Len(row.steps)
<1>1. /\ row.steps \in Seq(WorkflowRunStep) /\ new.steps \in Seq(WorkflowRunStep)
      /\ n \in Nat \ {0} /\ Len(new.steps) = n
      /\ DOMAIN row.steps = 1..n /\ DOMAIN new.steps = 1..n
  BY DEF WorkflowRun, OnlyLastChanged
<1>2. SUFFICES ASSUME NEW i \in 1..n
               PROVE  /\ i < n => new.steps[i].status = "COMPLETED"
                      /\ new.steps[i].input =
                            IF i = 1 THEN new.input ELSE new.steps[i - 1].output
  BY <1>1 DEF Chain
<1>3. i < n => new.steps[i].status = "COMPLETED"
  BY <1>1 DEF Chain, OnlyLastChanged
<1>4. new.steps[i].input = row.steps[i].input
  BY <1>1 DEF OnlyLastChanged
<1>5. i # 1 => i - 1 \in 1..n /\ i - 1 # n
  BY <1>1
<1>6. i # 1 => new.steps[i - 1] = row.steps[i - 1]
  BY <1>1, <1>5 DEF OnlyLastChanged
<1> QED
  BY <1>1, <1>3, <1>4, <1>6 DEF Chain

\* A run whose variables do not change keeps its invariant.
LEMMA Frame ==
    ASSUME NEW q \in Runs, RunInv(q), workflow' = workflow, pc'[q] = pc[q],
           mode'[q] = mode[q], plan'[q] = plan[q], results'[q] = results[q],
           txn'[q] = txn[q], db'[q] = db[q]
    PROVE  RunInv(q)'
BY DEF RunInv, TaskInv, Row

\* The rows of the tasks are rows.
LEMMA RowType ==
    ASSUME TypeOK, NEW r \in Runs
    PROVE  Row(r) \in WorkflowRun /\ db[r] \in WorkflowRun /\ txn[r] \in WorkflowRun
BY DEF TypeOK, Row

\* The absent run is a row like any other.
LEMMA NoRunType == NoRun \in WorkflowRun /\ NoRun.steps = <<>> /\ NoRun.status = "none"
<1>1. /\ <<>> \in Seq(WorkflowRunStep) /\ <<>> \in Seq(WorkflowEventType)
      /\ <<>> \in Seq({"user", "assistant"})
  OBVIOUS
<1> QED
  BY <1>1 DEF NoRun, WorkflowRun, MaybeText

-----------------------------------------------------------------------------
(* What a transaction's end or flush does to the rows *)

\* A flush replaces the rows of one run, where its session keeps them.
LEMMA WriteEffect ==
    ASSUME TypeOK, NEW r \in Runs, NEW row \in WorkflowRun, mode' = mode, Write(r, row)
    PROVE  /\ txn' \in [Runs -> WorkflowRun] /\ db' \in [Runs -> WorkflowRun]
           /\ Row(r)' = row
           /\ mode[r] = "stream" => db'[r] = row /\ txn'[r] = txn[r]
           /\ mode[r] # "stream" => txn'[r] = row /\ db'[r] = db[r]
           /\ \A q \in Runs \ {r} : txn'[q] = txn[q] /\ db'[q] = db[q]
BY DEF TypeOK, Write, Row

\* A commit makes the rows of one run visible and leaves others alone.
LEMMA CommitEffect ==
    ASSUME TypeOK, NEW r \in Runs, NEW row \in WorkflowRun, Commit(r, row)
    PROVE  /\ txn' \in [Runs -> WorkflowRun] /\ db' \in [Runs -> WorkflowRun]
           /\ db'[r] = row /\ txn'[r] = NoRun
           /\ \A q \in Runs \ {r} : txn'[q] = txn[q] /\ db'[q] = db[q]
BY NoRunType DEF TypeOK, Commit

\* A rollback forgets what was not committed.
LEMMA RollbackEffect ==
    ASSUME TypeOK, NEW r \in Runs, Rollback(r)
    PROVE  /\ txn' \in [Runs -> WorkflowRun] /\ db' = db
           /\ txn'[r] = NoRun
           /\ \A q \in Runs \ {r} : txn'[q] = txn[q]
BY NoRunType DEF TypeOK, Rollback

-----------------------------------------------------------------------------
(* The invariant is inductive: one lemma per action *)

\* Nobody has called anything yet.
LEMMA InitInv == Init => Inv
<1> SUFFICES ASSUME Init PROVE Inv
  OBVIOUS
<1>1. TypeOK
  <2>1. <<>> \in Seq(Text)
    OBVIOUS
  <2> QED
    BY <2>1, NoRunType, BoundAssumption DEF Init, TypeOK, Mode, PC, Plan
<1>2. ASSUME NEW r \in Runs PROVE RunInv(r)
  <2>1. Chain(NoRun)
    BY NoRunType, ChainEmpty
  <2>2. Outcome(NoRun, plan[r].size)
    BY NoRunType DEF Outcome
  <2> QED
    BY <2>1, <2>2, NoRunType DEF Init, RunInv, Active, Terminal
<1> QED
  BY <1>1, <1>2 DEF Inv

\* Changes of the workflow row that keep its step list.
LEMMA RegistryInv ==
    ASSUME Inv, create_workflow \/ set_enabled \/ delete_workflow
    PROVE  Inv'
<1> USE DEF Inv
<1>1. /\ UNCHANGED <<pc, mode, plan, results, txn, db>>
      /\ workflow.version \in 0..MaxVersion
  BY DEF TypeOK, create_workflow, set_enabled, delete_workflow
<1>2. /\ workflow' \in [enabled: BOOLEAN, deleted: BOOLEAN,
                        version: 0..MaxVersion, size: 0..MaxSteps]
      /\ workflow'.version = workflow.version \/ workflow.version = 0
  <2>1. CASE create_workflow
    <3>1. PICK size \in 1..MaxSteps, enabled \in BOOLEAN :
            workflow' = [enabled |-> enabled, deleted |-> FALSE, version |-> 1, size |-> size]
      BY <2>1 DEF create_workflow
    <3>2. 1 \in 0..MaxVersion /\ size \in 0..MaxSteps
      BY BoundAssumption
    <3> QED
      BY <2>1, <3>1, <3>2 DEF create_workflow
  <2>2. CASE set_enabled
    BY <2>2 DEF TypeOK, set_enabled
  <2>3. CASE delete_workflow
    BY <2>3 DEF TypeOK, delete_workflow
  <2> QED
    BY <2>1, <2>2, <2>3
<1>3. TypeOK'
  BY <1>1, <1>2 DEF TypeOK
<1>4. ASSUME NEW r \in Runs PROVE RunInv(r)'
  <2>1. ASSUME pc[r] \in Active PROVE TaskInv(r)'
    <3>1. TaskInv(r)
      BY <2>1 DEF RunInv
    <3>2. plan[r].version \in 1..workflow.version
      BY <3>1 DEF TaskInv
    <3>3. workflow.version # 0
      BY <3>2
    <3>4. workflow'.version = workflow.version
      BY <1>2, <3>3
    <3> QED
      BY <1>1, <3>1, <3>4 DEF TaskInv, Row
  <2>2. pc[r] \in Active => TaskInv(r)'
    BY <2>1
  <2>3. ASSUME db[r].status \in Terminal PROVE workflow'.version = workflow.version
    <3>1. plan[r].version \in 1..workflow.version
      BY <2>3 DEF RunInv
    <3>2. workflow.version # 0
      BY <3>1
    <3> QED
      BY <1>2, <3>2
  <2> QED
    BY <1>1, <2>2, <2>3 DEF RunInv
<1> QED
  BY <1>3, <1>4

\* A PUT that replaces the steps empties the step rows of every run and makes
\* every plan outdated.
LEMMA ReplaceStepsInv ==
    ASSUME Inv, replace_steps
    PROVE  Inv'
<1> USE DEF Inv
<1>1. UNCHANGED <<pc, mode, plan, results, txn>> /\ db' = [r \in Runs |-> [db[r] EXCEPT !.steps = <<>>]]
  BY DEF replace_steps
<1>2. workflow.version \in Nat /\ workflow'.version = workflow.version + 1
  <2>1. PICK size \in 0..MaxSteps, enabled \in BOOLEAN :
          workflow' = [workflow EXCEPT !.version = @ + 1, !.size = size, !.enabled = enabled]
    BY DEF replace_steps
  <2> QED
    BY <2>1 DEF TypeOK
<1>3. workflow' \in [enabled: BOOLEAN, deleted: BOOLEAN,
                     version: 0..MaxVersion, size: 0..MaxSteps]
  <2>1. PICK size \in 0..MaxSteps, enabled \in BOOLEAN :
          workflow' = [workflow EXCEPT !.version = @ + 1, !.size = size, !.enabled = enabled]
    BY DEF replace_steps
  <2>2. workflow.version + 1 \in 0..MaxVersion
    BY BoundAssumption DEF replace_steps, TypeOK
  <2> QED
    BY <2>1, <2>2 DEF TypeOK
<1>4. ASSUME NEW r \in Runs
      PROVE  /\ db'[r] \in WorkflowRun /\ db'[r].steps = <<>>
             /\ db'[r].status = db[r].status /\ db'[r].input = db[r].input
             /\ db[r].steps = <<>> => db'[r] = db[r]
  <2>1. db[r] \in WorkflowRun /\ db'[r] = [db[r] EXCEPT !.steps = <<>>]
    BY <1>1 DEF TypeOK
  <2> QED
    BY <2>1, EmptySeq DEF WorkflowRun
<1>5. TypeOK'
  BY <1>1, <1>3, <1>4 DEF TypeOK
<1>6. ASSUME NEW r \in Runs PROVE RunInv(r)'
  <2>1. Chain(db'[r]) /\ Outcome(db'[r], plan[r].size)
    BY <1>4 DEF Chain, Outcome
  <2>2. db[r] = NoRun => db'[r] = NoRun
    BY <1>4, NoRunType
  <2>3. ASSUME pc[r] \in Active PROVE TaskInv(r)'
    <3>1. TaskInv(r)
      BY <2>3 DEF RunInv
    <3>2. plan[r].version \in 1..workflow'.version /\ plan[r].version # workflow'.version
      BY <1>2, <3>1 DEF TaskInv
    <3>3. txn[r].steps = <<>> \/ mode[r] = "stream"
      BY <2>3, <3>1 DEF TaskInv, Row, replace_steps, StepsLocked, PlanIsCurrent
    <3>4. Row(r)'.steps = <<>> /\ Row(r)'.input = Row(r).input /\ Row(r)'.status = Row(r).status
      BY <1>1, <1>4, <3>3 DEF Row
    <3> QED
      BY <1>1, <3>1, <3>2, <3>4 DEF TaskInv
  <2>4. ASSUME db[r].status \in Terminal
        PROVE  plan[r].version \in 1..workflow'.version
    <3>1. plan[r].version \in 1..workflow.version
      BY <2>4 DEF RunInv
    <3> QED
      BY <1>2, <3>1
  <2>5. ASSUME mode[r] # "stream"
        PROVE  /\ db'[r] = NoRun \/ (pc[r] = "done" /\ db'[r].status \in Terminal)
               /\ db'[r] = NoRun /\ pc[r] = "done" => mode[r] = "request"
               /\ db'[r].status = "FAILED" => mode[r] = "ticker"
    <3>1. NoRun.status \notin Terminal
      BY NoRunType DEF Terminal
    <3>2. db'[r] = NoRun => db[r].status \notin Terminal
      BY <1>4, <3>1
    <3> QED
      BY <1>4, <2>2, <2>5, <3>2 DEF RunInv
  <2> QED
    BY <1>1, <1>4, <2>1, <2>2, <2>3, <2>4, <2>5 DEF RunInv
<1> QED
  BY <1>5, <1>6

\* A rejected call leaves everything but its program counter.
LEMMA RejectInv ==
    ASSUME Inv, NEW r \in Runs, Reject(r)
    PROVE  Inv'
<1> USE DEF Inv
<1>1. pc' = [pc EXCEPT ![r] = "rejected"] /\ UNCHANGED <<workflow, mode, plan, results, txn, db>>
  BY DEF Reject, Goto
<1>2. TypeOK'
  BY <1>1 DEF TypeOK, PC
<1>3. ASSUME NEW q \in Runs PROVE RunInv(q)'
  <2>1. CASE q # r
    BY <1>1, <2>1, Frame DEF TypeOK
  <2>2. CASE q = r
    <3>1. pc[q] = "idle" /\ pc'[q] = "rejected"
      BY <1>1, <2>2 DEF Reject, TypeOK
    <3> QED
      BY <1>1, <3>1, NoRunType DEF RunInv, Active, Terminal
  <2> QED
    BY <2>1, <2>2
<1> QED
  BY <1>2, <1>3

\* A run begins with a fresh row, committed or not, and the plan it just read.
LEMMA BeginInv ==
    ASSUME Inv, NEW r \in Runs, Begin(r)
    PROVE  Inv'
<1> USE DEF Inv
<1>1. PICK m \in Mode, input \in Text :
        /\ mode' = [mode EXCEPT ![r] = m]
        /\ IF m = "stream"
           THEN db' = [db EXCEPT ![r] = create_run(input)] /\ txn' = txn
           ELSE txn' = [txn EXCEPT ![r] = create_run(input)] /\ db' = db
  BY DEF Begin
<1>2. /\ pc' = [pc EXCEPT ![r] = "created"]
      /\ plan' = [plan EXCEPT ![r] = [version |-> workflow.version, size |-> workflow.size]]
      /\ UNCHANGED <<workflow, results>>
      /\ pc[r] = "idle" /\ workflow.version > 0 /\ workflow.size > 0
  BY DEF Begin, Goto, Runnable, Exists
<1>3. TypeOK'
  BY <1>1, <1>2, CreateRun DEF TypeOK, PC, Plan
<1>4. ASSUME NEW q \in Runs PROVE RunInv(q)'
  <2>1. CASE q # r
    BY <1>1, <1>2, <2>1, Frame DEF TypeOK
  <2>2. CASE q = r
    <3> DEFINE row == create_run(input)
    <3>1. /\ pc'[r] = "created" /\ mode'[r] = m /\ results'[r] = <<>>
          /\ plan'[r].version = workflow.version /\ plan'[r].size = workflow.size
          /\ db[r] = NoRun /\ txn[r] = NoRun
      BY <1>1, <1>2 DEF TypeOK, RunInv
    <3>2. /\ db'[r] = (IF m = "stream" THEN row ELSE NoRun)
          /\ txn'[r] = (IF m = "stream" THEN NoRun ELSE row)
          /\ Row(r)' = row
      BY <1>1, <3>1 DEF TypeOK, Row
    <3>3. row.steps = <<>> /\ row.status = "PENDING" /\ row.input = input
      BY CreateRun
    <3> HIDE DEF row
    <3>4. Chain(db'[r]) /\ Chain(txn'[r])
      BY <3>2, <3>3, ChainEmpty, NoRunType
    <3>5. Outcome(db'[r], plan'[r].size) /\ db'[r].status \notin Terminal
      BY <3>2, <3>3, NoRunType DEF Outcome, Terminal
    <3>6. TaskInv(r)'
      <4>1. Recorded(<<>>, <<>>)
        BY EmptySeq DEF Recorded
      <4> QED
        BY <1>2, <3>1, <3>2, <3>3, <4>1 DEF TaskInv, TypeOK
    <3> QED
      BY <2>2, <3>1, <3>2, <3>4, <3>5, <3>6, NoRunType DEF RunInv
  <2> QED
    BY <2>1, <2>2
<1> QED
  BY <1>3, <1>4

\* A flush by a running task keeps the invariant, if the new row chains and
\* suits the task's next program counter and results.
LEMMA FlushInv ==
    ASSUME Inv, NEW r \in Runs, NEW row \in WorkflowRun, NEW label \in Active \ {"created"},
           NEW res \in Seq(Text),
           pc[r] \in Active, UNCHANGED <<workflow, mode, plan>>,
           Goto(r, label), results' = [results EXCEPT ![r] = res], Write(r, row),
           Chain(row), row.status = "RUNNING", row.input = Row(r).input,
           plan[r].version # workflow.version => row.steps = <<>>,
           plan[r].version = workflow.version =>
               /\ Recorded(row.steps, res)
               /\ label = "loop" => Len(row.steps) = Len(res)
               /\ label \in {"step", "failing"} => Len(row.steps) = Len(res) + 1
               /\ label = "failing" => row.steps[Len(row.steps)].status = "FAILED"
    PROVE  Inv'
<1> USE DEF Inv
<1>1. /\ txn' \in [Runs -> WorkflowRun] /\ db' \in [Runs -> WorkflowRun]
      /\ Row(r)' = row
      /\ mode[r] = "stream" => db'[r] = row /\ txn'[r] = txn[r]
      /\ mode[r] # "stream" => txn'[r] = row /\ db'[r] = db[r]
      /\ \A q \in Runs \ {r} : txn'[q] = txn[q] /\ db'[q] = db[q]
  BY WriteEffect
<1>2. pc' = [pc EXCEPT ![r] = label] /\ label \in PC
  BY DEF Goto, Active, PC
<1>3. TypeOK'
  BY <1>1, <1>2 DEF TypeOK
<1>4. ASSUME NEW q \in Runs PROVE RunInv(q)'
  <2>1. CASE q # r
    BY <1>1, <1>2, <2>1, Frame DEF TypeOK
  <2>2. CASE q = r
    <3>1. pc'[r] = label /\ results'[r] = res /\ mode'[r] = mode[r] /\ plan'[r] = plan[r]
      BY <1>2 DEF TypeOK
    <3>2. TaskInv(r) /\ RunInv(r)
      BY DEF RunInv
    <3>3. TaskInv(r)'
      BY <1>1, <3>1, <3>2 DEF TaskInv
    <3>4. /\ mode[r] # "stream" => db'[r] = NoRun
          /\ db'[r].status \notin Terminal
      BY <1>1, <3>2, NoRunType DEF RunInv, Active, Terminal
    <3>5. Outcome(db'[r], plan[r].size)
      BY <3>4 DEF Outcome, Terminal
    <3>6. Chain(db'[r]) /\ Chain(txn'[r])
      BY <1>1, <3>2 DEF RunInv
    <3> QED
      BY <2>2, <3>1, <3>3, <3>4, <3>5, <3>6, NoRunType DEF RunInv, Active
  <2> QED
    BY <2>1, <2>2
<1> QED
  BY <1>3, <1>4

\* mark_running: the first flush after create_run.
LEMMA MarkRunningInv ==
    ASSUME Inv, NEW r \in Runs, MarkRunning(r)
    PROVE  Inv'
<1> DEFINE row == mark_running(Row(r))
<1>1. TypeOK /\ TaskInv(r) /\ Chain(Row(r)) /\ pc[r] = "created" /\ pc[r] \in Active
  BY DEF Inv, RunInv, MarkRunning, Active, Row
<1>2. results[r] = <<>> /\ Row(r).steps = <<>> /\ results' = [results EXCEPT ![r] = <<>>]
  BY <1>1 DEF TaskInv, MarkRunning, TypeOK
<1>3. /\ row \in WorkflowRun /\ row.status = "RUNNING"
      /\ row.input = Row(r).input /\ row.steps = <<>>
  BY <1>1, <1>2, RowType, MarkRunningRow
<1>4. Write(r, row) /\ Goto(r, "loop") /\ UNCHANGED <<workflow, mode, plan>>
  BY DEF MarkRunning
<1> HIDE DEF row
<1>5. Recorded(row.steps, <<>>) /\ Len(row.steps) = Len(<<>>) /\ <<>> \in Seq(Text)
  BY <1>3, EmptySeq DEF Recorded
<1>6. Chain(row) /\ "loop" \in Active \ {"created"}
  BY <1>3, ChainEmpty DEF Active
<1> QED
  BY <1>1, <1>2, <1>3, <1>4, <1>5, <1>6, FlushInv

\* start_step: the plan is current, so the row is as far as the task is and the
\* input it is given is the output of the last step row.
LEMMA StartStepInv ==
    ASSUME Inv, NEW r \in Runs, StartStep(r)
    PROVE  Inv'
<1> DEFINE input == previous_output(results[r], Row(r).input)
<1> DEFINE row == start_step(Row(r), input)
<1> DEFINE step == [status |-> "RUNNING", input |-> input, output |-> NoText]
<1>1. TypeOK /\ TaskInv(r) /\ Chain(Row(r)) /\ pc[r] = "loop" /\ pc[r] \in Active
  BY DEF Inv, RunInv, StartStep, Active, Row
<1>2. /\ plan[r].version = workflow.version /\ Recorded(Row(r).steps, results[r])
      /\ Len(Row(r).steps) = Len(results[r]) /\ results[r] \in Seq(Text)
      /\ Row(r).status = "RUNNING" /\ Row(r).input \in Text
  BY <1>1 DEF StartStep, PlanIsCurrent, TaskInv, TypeOK
<1>3. input \in Text
  BY <1>2, EmptySeq, ElementOfSeq DEF previous_output
<1>4. step \in WorkflowRunStep /\ step.input = input
  BY <1>3 DEF WorkflowRunStep, MaybeText
<1>5. Write(r, row) /\ Goto(r, "step") /\ UNCHANGED <<workflow, mode, plan, results>>
  BY DEF StartStep
<1>6. /\ row \in WorkflowRun /\ row.status = "RUNNING" /\ row.input = Row(r).input
      /\ row.steps = Append(Row(r).steps, step) /\ Row(r) \in WorkflowRun
  BY <1>1, <1>2, <1>3, RowType, StartStepRow
<1> HIDE DEF row, step
<1>7. Chain(row)
  BY <1>1, <1>2, <1>4, <1>6, ChainAppend
<1>8. /\ Len(row.steps) = Len(results[r]) + 1
      /\ Recorded(row.steps, results[r])
  <2>1. Row(r).steps \in Seq(WorkflowRunStep)
    BY <1>6 DEF WorkflowRun
  <2> QED
    BY <1>2, <1>4, <1>6, <2>1, AppendProperties DEF Recorded
<1>9. results' = [results EXCEPT ![r] = results[r]] /\ "step" \in Active \ {"created"}
  BY <1>1, <1>5 DEF TypeOK, Active
<1> HIDE DEF input
<1> QED
  BY <1>1, <1>2, <1>5, <1>6, <1>7, <1>8, <1>9, FlushInv

\* A task with a step row in progress: its plan is current and the row has one
\* step more than the task has results.
LEMMA InStep ==
    ASSUME Inv, NEW r \in Runs, pc[r] = "step", StepRowExists(r)
    PROVE  /\ TypeOK /\ TaskInv(r) /\ Chain(Row(r)) /\ Row(r) \in WorkflowRun
           /\ Row(r).steps \in Seq(WorkflowRunStep) /\ Row(r).steps # <<>>
           /\ results[r] \in Seq(Text) /\ Row(r).status = "RUNNING"
           /\ plan[r].version = workflow.version
           /\ Recorded(Row(r).steps, results[r])
           /\ Len(Row(r).steps) = Len(results[r]) + 1
<1>1. TypeOK /\ TaskInv(r) /\ Chain(Row(r)) /\ Row(r) \in WorkflowRun
  BY RowType DEF Inv, RunInv, Active, Row
<1>2. results[r] \in Seq(Text) /\ Row(r).steps \in Seq(WorkflowRunStep)
  BY <1>1 DEF TypeOK, WorkflowRun
<1>3. Len(Row(r).steps) = Len(results[r]) + 1 /\ Row(r).steps # <<>>
  BY <1>2, EmptySeq DEF StepRowExists
<1> QED
  BY <1>1, <1>2, <1>3 DEF TaskInv

\* complete_step and record_result go together.
LEMMA StepCompletedInv ==
    ASSUME Inv, NEW r \in Runs, StepCompleted(r)
    PROVE  Inv'
<1>1. PICK out \in Text :
        /\ Write(r, complete_step(Row(r), out))
        /\ results' = [results EXCEPT ![r] = Append(results[r], out)]
  BY DEF StepCompleted
<1> DEFINE row == complete_step(Row(r), out)
<1> DEFINE res == Append(results[r], out)
<1>2. pc[r] = "step" /\ StepRowExists(r) /\ Goto(r, "loop") /\ UNCHANGED <<workflow, mode, plan>>
  BY DEF StepCompleted
<1>3. /\ TaskInv(r) /\ Chain(Row(r)) /\ Row(r) \in WorkflowRun
      /\ Row(r).steps \in Seq(WorkflowRunStep) /\ Row(r).steps # <<>>
      /\ results[r] \in Seq(Text) /\ Row(r).status = "RUNNING"
      /\ plan[r].version = workflow.version
      /\ Recorded(Row(r).steps, results[r])
      /\ Len(Row(r).steps) = Len(results[r]) + 1
  BY <1>2, InStep
<1>4. /\ row \in WorkflowRun /\ row.status = "RUNNING" /\ row.input = Row(r).input
      /\ OnlyLastChanged(Row(r).steps, row.steps)
      /\ row.steps[Len(Row(r).steps)].status = "COMPLETED"
      /\ row.steps[Len(Row(r).steps)].output = out
  BY <1>3, CompleteStepRow
<1>5. Write(r, row)
  BY <1>1
<1> HIDE DEF row
<1>6. /\ res \in Seq(Text) /\ Len(res) = Len(results[r]) + 1
      /\ \A i \in 1..Len(results[r]) : res[i] = results[r][i]
      /\ res[Len(results[r]) + 1] = out
  BY <1>3, AppendProperties
<1>7. results' = [results EXCEPT ![r] = res]
  BY <1>1
<1> HIDE DEF res
<1>8. Chain(row)
  BY <1>3, <1>4, ChainLast
<1>9. Recorded(row.steps, res) /\ Len(row.steps) = Len(res)
  <2>1. Len(row.steps) = Len(res) /\ Len(results[r]) \in Nat
    BY <1>3, <1>4, <1>6 DEF OnlyLastChanged
  <2>2. \A i \in 1..Len(results[r]) : row.steps[i] = Row(r).steps[i]
    BY <1>3, <1>4, <2>1 DEF OnlyLastChanged
  <2>3. \A i \in 1..Len(results[r]) : row.steps[i].status = "COMPLETED" /\ row.steps[i].output = res[i]
    BY <1>3, <1>6, <2>2 DEF Recorded
  <2>4. \A i \in 1..Len(res) : i \in 1..Len(results[r]) \/ i = Len(Row(r).steps)
    BY <1>3, <1>6, <2>1
  <2> QED
    BY <1>3, <1>4, <1>6, <2>1, <2>3, <2>4 DEF Recorded
<1> QED
  BY <1>2, <1>3, <1>4, <1>5, <1>6, <1>7, <1>8, <1>9, FlushInv DEF Active

\* fail_step marks the last step row only.
LEMMA StepFailedInv ==
    ASSUME Inv, NEW r \in Runs, StepFailed(r)
    PROVE  Inv'
<1> DEFINE row == fail_step(Row(r))
<1>1. /\ pc[r] = "step" /\ StepRowExists(r) /\ Goto(r, "failing")
      /\ UNCHANGED <<workflow, mode, plan, results>> /\ Write(r, row)
  BY DEF StepFailed
<1>2. /\ TypeOK /\ TaskInv(r) /\ Chain(Row(r)) /\ Row(r) \in WorkflowRun
      /\ Row(r).steps \in Seq(WorkflowRunStep) /\ Row(r).steps # <<>>
      /\ results[r] \in Seq(Text) /\ Row(r).status = "RUNNING"
      /\ plan[r].version = workflow.version
      /\ Recorded(Row(r).steps, results[r])
      /\ Len(Row(r).steps) = Len(results[r]) + 1
  BY <1>1, InStep
<1>3. /\ row \in WorkflowRun /\ row.status = "RUNNING" /\ row.input = Row(r).input
      /\ OnlyLastChanged(Row(r).steps, row.steps)
      /\ row.steps[Len(Row(r).steps)].status = "FAILED"
  BY <1>2, FailStepRow
<1> HIDE DEF row
<1>4. Chain(row)
  BY <1>2, <1>3, ChainLast
<1>5. /\ Recorded(row.steps, results[r]) /\ Len(row.steps) = Len(results[r]) + 1
      /\ row.steps[Len(row.steps)].status = "FAILED"
  <2>1. Len(row.steps) = Len(Row(r).steps) /\ Len(results[r]) \in Nat
    BY <1>2, <1>3, LenProperties DEF OnlyLastChanged
  <2>2. Len(row.steps) = Len(results[r]) + 1
    BY <1>2, <2>1
  <2>3. row.steps[Len(row.steps)].status = "FAILED"
    BY <1>3, <2>1
  <2>4. ASSUME NEW i \in 1..Len(results[r])
        PROVE  row.steps[i].status = "COMPLETED" /\ row.steps[i].output = results[r][i]
    <3>1. i \in 1..Len(Row(r).steps) /\ i # Len(Row(r).steps)
      BY <1>2, <2>1
    <3>2. row.steps[i] = Row(r).steps[i]
      BY <1>3, <3>1 DEF OnlyLastChanged
    <3>3. Row(r).steps[i].status = "COMPLETED" /\ Row(r).steps[i].output = results[r][i]
      BY <1>2 DEF Recorded
    <3> QED
      BY <3>2, <3>3
  <2> QED
    BY <2>2, <2>3, <2>4 DEF Recorded
<1>6. results' = [results EXCEPT ![r] = results[r]]
  BY <1>1, <1>2 DEF TypeOK
<1> QED
  BY <1>1, <1>2, <1>3, <1>4, <1>5, <1>6, FlushInv DEF Active

\* A task that ends without a commit leaves what was committed before: nothing,
\* or the unfinished row of a stream.
LEMMA RollbackInv ==
    ASSUME Inv, NEW r \in Runs, NEW label \in {"done", "conflict", "dead"},
           pc[r] \in Active, UNCHANGED <<workflow, mode, plan, results>>,
           label = "done" => mode[r] = "request",
           Goto(r, label), Rollback(r)
    PROVE  Inv'
<1> USE DEF Inv
<1>1. /\ txn' \in [Runs -> WorkflowRun] /\ db' = db /\ txn'[r] = NoRun
      /\ \A q \in Runs \ {r} : txn'[q] = txn[q]
  BY RollbackEffect
<1>2. pc' = [pc EXCEPT ![r] = label] /\ label \in PC
  BY DEF Goto, PC
<1>3. TypeOK'
  BY <1>1, <1>2 DEF TypeOK
<1>4. ASSUME NEW q \in Runs PROVE RunInv(q)'
  <2>1. CASE q # r
    BY <1>1, <1>2, <2>1, Frame DEF TypeOK
  <2>2. CASE q = r
    <3>1. pc'[r] = label /\ db'[r] = db[r] /\ txn'[r] = NoRun
      BY <1>1, <1>2 DEF TypeOK
    <3>2. RunInv(r) /\ db[r].status \notin Terminal /\ Chain(NoRun)
      BY NoRunType, ChainEmpty DEF RunInv, Active
    <3> QED
      BY <2>2, <3>1, <3>2 DEF RunInv, Active
  <2> QED
    BY <2>1, <2>2
<1> QED
  BY <1>3, <1>4

\* A task that ends with a commit of a final row that chains and whose outcome
\* agrees with its steps.
LEMMA CommitInv ==
    ASSUME Inv, NEW r \in Runs, NEW row \in WorkflowRun,
           pc[r] \in Active, UNCHANGED <<workflow, mode, plan, results>>,
           Goto(r, "done"), Commit(r, row),
           Chain(row), Outcome(row, plan[r].size), row.status \in Terminal,
           row.status = "FAILED" => mode[r] # "request",
           plan[r].version # workflow.version => row.steps = <<>>
    PROVE  Inv'
<1> USE DEF Inv
<1>1. /\ txn' \in [Runs -> WorkflowRun] /\ db' \in [Runs -> WorkflowRun]
      /\ db'[r] = row /\ txn'[r] = NoRun
      /\ \A q \in Runs \ {r} : txn'[q] = txn[q] /\ db'[q] = db[q]
  BY CommitEffect
<1>2. pc' = [pc EXCEPT ![r] = "done"]
  BY DEF Goto
<1>3. TypeOK'
  BY <1>1, <1>2 DEF TypeOK, PC
<1>4. ASSUME NEW q \in Runs PROVE RunInv(q)'
  <2>1. CASE q # r
    BY <1>1, <1>2, <2>1, Frame DEF TypeOK
  <2>2. CASE q = r
    <3>1. pc'[r] = "done" /\ Chain(NoRun)
      BY <1>2, NoRunType, ChainEmpty DEF TypeOK
    <3>2. plan[r].version \in 1..workflow.version
      BY DEF RunInv, TaskInv
    <3>3. mode[r] \in Mode /\ NoRun.status \notin Terminal
      BY NoRunType DEF TypeOK, Terminal
    <3> QED
      BY <1>1, <2>2, <3>1, <3>2, <3>3 DEF RunInv, Active, Mode
  <2> QED
    BY <2>1, <2>2
<1> QED
  BY <1>3, <1>4

\* A conflict only loses what was not committed.
LEMMA ConflictInv == ASSUME Inv, NEW r \in Runs, Conflict(r) PROVE Inv'
BY RollbackInv DEF Conflict, Active

\* So does a death.
LEMMA DieInv == ASSUME Inv, NEW r \in Runs, Die(r) PROVE Inv'
BY RollbackInv DEF Die

\* A failed request is rolled back; the ticker and a stream commit the failure.
LEMMA FailInv ==
    ASSUME Inv, NEW r \in Runs, Fail(r)
    PROVE  Inv'
<1>1. /\ pc[r] = "failing" /\ pc[r] \in Active /\ Goto(r, "done")
      /\ UNCHANGED <<workflow, mode, plan, results>>
  BY DEF Fail, Active
<1>2. CASE mode[r] = "request"
  BY <1>1, <1>2, RollbackInv DEF Fail
<1>3. CASE mode[r] # "request"
  <2> DEFINE row == mark_failed(Row(r))
  <2>1. TypeOK /\ TaskInv(r) /\ Chain(Row(r)) /\ Row(r) \in WorkflowRun
    BY <1>1, RowType DEF Inv, RunInv, Row
  <2>2. /\ row \in WorkflowRun /\ row.status = "FAILED"
        /\ row.input = Row(r).input /\ row.steps = Row(r).steps
    BY <2>1, MarkFailedRow
  <2>3. Commit(r, row)
    BY <1>3 DEF Fail
  <2> HIDE DEF row
  <2>4. Chain(row)
    BY <2>1, <2>2, ChainSame
  <2>5. Row(r).steps # <<>> => Row(r).steps[Len(Row(r).steps)].status = "FAILED"
    BY <1>1, <2>1 DEF TaskInv
  <2>6. Outcome(row, plan[r].size) /\ row.status \in Terminal
    BY <2>2, <2>5 DEF Outcome, Terminal
  <2>7. plan[r].version # workflow.version => row.steps = <<>>
    BY <2>1, <2>2 DEF TaskInv
  <2> QED
    BY <1>1, <1>3, <2>2, <2>3, <2>4, <2>6, <2>7, CommitInv
<1> QED
  BY <1>2, <1>3

\* A completed run's row is as far as its results, unless a PUT emptied it.
LEMMA CompleteInv ==
    ASSUME Inv, NEW r \in Runs, Complete(r)
    PROVE  Inv'
<1> DEFINE n == Len(results[r])
<1> DEFINE row == mark_completed(Row(r), results[r][n])
<1>1. /\ pc[r] = "loop" /\ pc[r] \in Active /\ Goto(r, "done") /\ Commit(r, row)
      /\ UNCHANGED <<workflow, mode, plan, results>> /\ n = plan[r].size
  BY DEF Complete, Active
<1>2. TypeOK /\ TaskInv(r) /\ Chain(Row(r)) /\ Row(r) \in WorkflowRun
  BY <1>1, RowType DEF Inv, RunInv, Row
<1>3. n > 0 /\ n \in Nat /\ n \in 1..n /\ results[r] \in Seq(Text)
  BY <1>1, <1>2 DEF TaskInv, TypeOK
<1>4. results[r][n] \in Text
  BY <1>3, ElementOfSeq
<1>5. /\ row \in WorkflowRun /\ row.status = "COMPLETED" /\ row.result = results[r][n]
      /\ row.input = Row(r).input /\ row.steps = Row(r).steps
  BY <1>2, <1>4, MarkCompletedRow
<1> HIDE DEF row
<1>6. Chain(row)
  BY <1>2, <1>5, ChainSame
<1>7. Row(r).steps # <<>> =>
        /\ Len(Row(r).steps) = n
        /\ Row(r).steps[n].status = "COMPLETED"
        /\ Row(r).steps[n].output = results[r][n]
  BY <1>1, <1>2, <1>3 DEF TaskInv, Recorded
<1>8. Outcome(row, plan[r].size) /\ row.status \in Terminal
  BY <1>1, <1>5, <1>7 DEF Outcome, Terminal
<1>9. plan[r].version # workflow.version => row.steps = <<>>
  BY <1>2, <1>5 DEF TaskInv
<1> QED
  BY <1>1, <1>5, <1>6, <1>8, <1>9, CommitInv

\* Inv is inductive.
LEMMA InvPreserved == Inv /\ [Next]_vars => Inv'
<1> SUFFICES ASSUME Inv, [Next]_vars PROVE Inv'
  OBVIOUS
<1>1. CASE Registry
  BY <1>1, RegistryInv, ReplaceStepsInv DEF Registry
<1>2. ASSUME NEW r \in Runs, Progress(r) \/ Die(r) PROVE Inv'
  BY <1>2, RejectInv, BeginInv, MarkRunningInv, StartStepInv, StepCompletedInv,
     StepFailedInv, ConflictInv, FailInv, CompleteInv, DieInv DEF Progress
<1>3. CASE UNCHANGED vars
  BY <1>3 DEF Inv, vars, TypeOK, RunInv, TaskInv, Row
<1> QED
  BY <1>1, <1>2, <1>3 DEF Next

-----------------------------------------------------------------------------
(* Theorems *)

\* The invariant holds in every behaviour of the workflow runs.
THEOREM InvHolds == Spec => []Inv
<1> QED
  BY InitInv, InvPreserved, PTL DEF Spec

\* Every row, plan and result list stays well formed (WorkflowRunService never
\* passes a NULL on as a step's input, nor takes a result from an empty list).
THEOREM TypeCorrect == Spec => []TypeOK
<1>1. Inv => TypeOK
  BY DEF Inv
<1> QED
  BY <1>1, InvHolds, PTL

\* Step rows chain (start_step, complete_step, fail_step, replace_steps), for any
\* number of runs, texts, steps and replacements.
THEOREM StepsChain == Spec => []StepChain
<1>1. Inv => StepChain
  BY DEF Inv, RunInv, Chain, StepChain
<1> QED
  BY <1>1, InvHolds, PTL

\* The outcome of a run agrees with its step rows (mark_completed, mark_failed).
THEOREM OutcomeIsRight == Spec => []OutcomeMatchesSteps
<1>1. Inv => OutcomeMatchesSteps
  BY DEF Inv, RunInv, Outcome, OutcomeMatchesSteps
<1> QED
  BY <1>1, InvHolds, PTL

\* run_workflow is atomic for every observer (get_db, session_scope), and only the
\* ticker leaves a record of a failure.
THEOREM Atomic == Spec => []AllOrNothing
<1>1. Inv => AllOrNothing
  BY DEF Inv, RunInv, AllOrNothing, Terminal
<1> QED
  BY <1>1, InvHolds, PTL

-----------------------------------------------------------------------------
(* What a step does to the committed rows *)

\* What the abstract lifecycle allows to happen to one run row, or nothing.
LifecycleStep(old, new) ==
    \/ new.status = old.status /\ new.events = old.events
    \/ old.status = "none" /\ new.status \in {"PENDING"} \cup Terminal
    \/ old.status = "PENDING" /\ new.status = "RUNNING" /\ new.events = old.events
    \/ /\ old.status = "RUNNING" /\ new.status \in {"RUNNING"} \cup Terminal
       /\ Audit!Extends(new.events, old.events)

\* Appending an event extends a log, and so does adding none.
LEMMA AppendExtends ==
    ASSUME NEW log \in Seq(WorkflowEventType), NEW e \in WorkflowEventType
    PROVE  Audit!Extends(Append(log, e), log) /\ Audit!Extends(log, log)
<1>1. Len(log) \in Nat
  OBVIOUS
<1> QED
  BY <1>1, AppendProperties DEF Audit!Extends

\* A step of a task touches the committed row of its own run only, and not any
\* more when it is done.
LEMMA OwnRow ==
    ASSUME TypeOK, NEW r \in Runs, Progress(r) \/ Die(r)
    PROVE  /\ pc[r] # "done"
           /\ \A q \in Runs \ {r} : db'[q] = db[q]
<1>1. CASE Begin(r)
  BY <1>1 DEF Begin, TypeOK
<1>2. CASE Reject(r) \/ Conflict(r) \/ Die(r)
  BY <1>2 DEF Reject, Conflict, Die, Rollback, Active
<1>3. CASE MarkRunning(r) \/ StartStep(r) \/ StepCompleted(r) \/ StepFailed(r)
  BY <1>3 DEF MarkRunning, StartStep, StepCompleted, StepFailed, Write, TypeOK
<1>4. CASE Fail(r) \/ Complete(r)
  BY <1>4 DEF Fail, Complete, Commit, Rollback, TypeOK
<1> QED
  BY <1>1, <1>2, <1>3, <1>4 DEF Progress

\* A flush of a running task is a step of the lifecycle, or invisible.
LEMMA FlushStep ==
    ASSUME Inv, NEW r \in Runs, NEW row \in WorkflowRun, mode' = mode,
           pc[r] \in Active, Write(r, row), LifecycleStep(Row(r), row)
    PROVE  LifecycleStep(db[r], db'[r])
<1>1. /\ mode[r] = "stream" => db'[r] = row
      /\ mode[r] # "stream" => db'[r] = db[r]
  BY WriteEffect DEF Inv
<1> QED
  BY <1>1 DEF Row, LifecycleStep

\* The commit of a final row is a step of the lifecycle: a stream's run was
\* RUNNING, another one was not there.
LEMMA CommitStep ==
    ASSUME Inv, NEW r \in Runs, NEW row \in WorkflowRun,
           pc[r] \in Active \ {"created"}, Commit(r, row),
           row.status \in Terminal, Audit!Extends(row.events, Row(r).events)
    PROVE  LifecycleStep(db[r], db'[r])
<1>1. db'[r] = row /\ TaskInv(r)
  BY CommitEffect DEF Inv, RunInv
<1>2. CASE mode[r] = "stream"
  BY <1>1, <1>2 DEF Row, LifecycleStep, TaskInv
<1>3. CASE mode[r] # "stream"
  <2>1. db[r] = NoRun
    BY <1>3 DEF Inv, RunInv, Active
  <2> QED
    BY <1>1, <2>1, NoRunType DEF LifecycleStep
<1> QED
  BY <1>2, <1>3

\* Every step of a task is a step of its run's lifecycle, or invisible.
LEMMA TaskStep ==
    ASSUME Inv, NEW r \in Runs, Progress(r) \/ Die(r)
    PROVE  LifecycleStep(db[r], db'[r])
<1>1. /\ TypeOK /\ RunInv(r)
      /\ Row(r) \in WorkflowRun /\ Row(r).events \in Seq(WorkflowEventType)
  BY RowType DEF Inv, WorkflowRun
<1>2. CASE Begin(r)
  <2>1. PICK input \in Text : db' = db \/ db' = [db EXCEPT ![r] = create_run(input)]
    BY <1>2 DEF Begin
  <2>2. db[r] = NoRun
    BY <1>1, <1>2 DEF Begin, RunInv
  <2> QED
    BY <1>1, <2>1, <2>2, CreateRun, NoRunType DEF LifecycleStep, TypeOK
<1>3. CASE Reject(r) \/ Conflict(r) \/ Die(r)
  BY <1>3 DEF Reject, Conflict, Die, Rollback, LifecycleStep
<1>4. CASE MarkRunning(r)
  <2>1. pc[r] \in Active /\ mode' = mode /\ Write(r, mark_running(Row(r)))
    BY <1>4 DEF MarkRunning, Active
  <2>2. LifecycleStep(Row(r), mark_running(Row(r))) /\ mark_running(Row(r)) \in WorkflowRun
    BY <1>1, <1>4, <2>1, MarkRunningRow DEF LifecycleStep, RunInv, TaskInv, MarkRunning
  <2> QED
    BY <2>1, <2>2, FlushStep
<1>5. CASE StartStep(r)
  <2> DEFINE input == previous_output(results[r], Row(r).input)
  <2>1. /\ pc[r] \in Active /\ mode' = mode /\ Write(r, start_step(Row(r), input))
        /\ Row(r).status = "RUNNING" /\ Row(r).input \in Text
    BY <1>1, <1>5 DEF StartStep, Active, RunInv, TaskInv
  <2>2. input \in Text
    BY <1>1, <2>1, EmptySeq, ElementOfSeq DEF previous_output, TypeOK
  <2> HIDE DEF input
  <2>3. LifecycleStep(Row(r), start_step(Row(r), input)) /\ start_step(Row(r), input) \in WorkflowRun
    BY <1>1, <2>1, <2>2, StartStepRow, AppendExtends DEF LifecycleStep, WorkflowEventType
  <2> QED
    BY <2>1, <2>3, FlushStep
<1>6. CASE StepCompleted(r)
  <2>1. PICK out \in Text : Write(r, complete_step(Row(r), out))
    BY <1>6 DEF StepCompleted
  <2>2. pc[r] \in Active /\ mode' = mode /\ Row(r).status = "RUNNING" /\ Row(r).steps # <<>>
    BY <1>6, InStep DEF StepCompleted, Active
  <2>3. LifecycleStep(Row(r), complete_step(Row(r), out)) /\ complete_step(Row(r), out) \in WorkflowRun
    BY <1>1, <2>2, CompleteStepRow, AppendExtends DEF LifecycleStep, WorkflowEventType
  <2> QED
    BY <2>1, <2>2, <2>3, FlushStep
<1>7. CASE StepFailed(r)
  <2>1. /\ Write(r, fail_step(Row(r))) /\ pc[r] \in Active /\ mode' = mode
        /\ Row(r).status = "RUNNING" /\ Row(r).steps # <<>>
    BY <1>7, InStep DEF StepFailed, Active
  <2>2. LifecycleStep(Row(r), fail_step(Row(r))) /\ fail_step(Row(r)) \in WorkflowRun
    BY <1>1, <2>1, FailStepRow DEF LifecycleStep
  <2> QED
    BY <2>1, <2>2, FlushStep
<1>8. CASE Fail(r)
  <2>1. CASE mode[r] = "request"
    BY <1>8, <2>1 DEF Fail, Rollback, LifecycleStep
  <2>2. CASE mode[r] # "request"
    <3>1. Commit(r, mark_failed(Row(r))) /\ pc[r] \in Active \ {"created"}
      BY <1>8, <2>2 DEF Fail, Active
    <3>2. /\ mark_failed(Row(r)) \in WorkflowRun /\ mark_failed(Row(r)).status \in Terminal
          /\ Audit!Extends(mark_failed(Row(r)).events, Row(r).events)
      BY <1>1, MarkFailedRow, AppendExtends DEF Terminal, WorkflowEventType
    <3> QED
      BY <3>1, <3>2, CommitStep
  <2> QED
    BY <2>1, <2>2
<1>9. CASE Complete(r)
  <2> DEFINE result == results[r][Len(results[r])]
  <2>1. Commit(r, mark_completed(Row(r), result)) /\ pc[r] \in Active \ {"created"}
    BY <1>9 DEF Complete, Active
  <2>2. result \in Text
    <3>1. results[r] \in Seq(Text) /\ Len(results[r]) > 0
      BY <1>1, <1>9, <2>1 DEF Complete, TypeOK, RunInv, TaskInv
    <3> QED
      BY <3>1, ElementOfSeq
  <2> HIDE DEF result
  <2>3. /\ mark_completed(Row(r), result) \in WorkflowRun
        /\ mark_completed(Row(r), result).status \in Terminal
        /\ Audit!Extends(mark_completed(Row(r), result).events, Row(r).events)
    BY <1>1, <2>2, MarkCompletedRow, AppendExtends DEF Terminal, WorkflowEventType
  <2> QED
    BY <2>1, <2>3, CommitStep
<1> QED
  BY <1>2, <1>3, <1>4, <1>5, <1>6, <1>7, <1>8, <1>9 DEF Progress

-----------------------------------------------------------------------------
(* Theorems about steps *)

\* A finished run is frozen: tasks write their own row only and not when they are
\* done, and replace_steps clears step rows and nothing else; and the step rows are
\* there no longer than the step list they are of.
THEOREM FinishedIsFrozen == Spec => FinishedRunIsFrozen
<1>1. ASSUME Inv, [Next]_vars, NEW r \in Runs, db[r].status \in Terminal
      PROVE  db'[r] = [db[r] EXCEPT !.steps = IF PlanIsCurrent(r)' THEN @ ELSE <<>>]
  <2>1. /\ pc[r] = "done" /\ TypeOK /\ db[r] \in WorkflowRun
        /\ plan[r].version \in 1..workflow.version
        /\ plan[r].version # workflow.version => db[r].steps = <<>>
    BY <1>1 DEF Inv, RunInv, TypeOK
  <2>2. db[r] = [db[r] EXCEPT !.steps = db[r].steps]
    BY <2>1 DEF WorkflowRun
  <2>3. ASSUME db'[r] = db[r], plan'[r] = plan[r], workflow'.version = workflow.version
        PROVE  db'[r] = [db[r] EXCEPT !.steps = IF PlanIsCurrent(r)' THEN @ ELSE <<>>]
    BY <2>1, <2>2, <2>3 DEF PlanIsCurrent
  <2>4. CASE replace_steps
    <3>1. db'[r] = [db[r] EXCEPT !.steps = <<>>] /\ plan' = plan
      BY <2>4 DEF replace_steps
    <3>2. workflow.version \in Nat /\ workflow'.version = workflow.version + 1
      BY <2>1, <2>4 DEF replace_steps, TypeOK
    <3> QED
      BY <2>1, <3>1, <3>2 DEF PlanIsCurrent
  <2>5. CASE create_workflow \/ set_enabled \/ delete_workflow
    <3>1. UNCHANGED <<plan, db>>
      BY <2>5 DEF create_workflow, set_enabled, delete_workflow
    <3>2. ~create_workflow
      BY <2>1 DEF create_workflow
    <3>3. workflow'.version = workflow.version
      BY <2>1, <2>5, <3>2 DEF set_enabled, delete_workflow, TypeOK
    <3> QED
      BY <2>3, <3>1, <3>3
  <2>6. ASSUME NEW q \in Runs, Progress(q) \/ Die(q)
        PROVE  db'[r] = db[r] /\ plan'[r] = plan[r] /\ workflow' = workflow
    <3>1. q # r /\ db'[r] = db[r]
      BY <2>1, <2>6, OwnRow
    <3> QED
      BY <2>1, <2>6, <3>1
         DEF TypeOK, Progress, Reject, Begin, MarkRunning, StartStep, StepCompleted, StepFailed,
             Conflict, Fail, Complete, Die
  <2>7. CASE UNCHANGED vars
    BY <2>3, <2>7 DEF vars
  <2> QED
    BY <1>1, <2>3, <2>4, <2>5, <2>6, <2>7 DEF Next, Registry
<1>2. Inv /\ [Next]_vars =>
        [\A r \in Runs : db[r].status \in Terminal =>
            db'[r] = [db[r] EXCEPT !.steps = IF PlanIsCurrent(r)' THEN @ ELSE <<>>]]_vars
  BY <1>1
<1> QED
  BY <1>2, InvHolds, PTL DEF Spec, FinishedRunIsFrozen

\* The rows other sessions see implement the abstract run lifecycle.
THEOREM Refinement == Spec => ImplementsLifecycle
<1>1. Init => Audit!Init
  BY DEF Init, Audit!Init, NoRun
<1>2. Inv /\ [Next]_vars => [Audit!Next]_(Audit!vars)
  <2> SUFFICES ASSUME Inv, [Next]_vars PROVE [Audit!Next]_(Audit!vars)
    OBVIOUS
  <2>1. CASE Registry
    <3>1. \A r \in Runs : db'[r].status = db[r].status /\ db'[r].events = db[r].events
      <4>1. db' = db \/ db' = [r \in Runs |-> [db[r] EXCEPT !.steps = <<>>]]
        BY <2>1 DEF Registry, create_workflow, set_enabled, replace_steps, delete_workflow
      <4>2. \A r \in Runs : db[r] \in WorkflowRun
        BY DEF Inv, TypeOK
      <4> QED
        BY <4>1, <4>2 DEF WorkflowRun
    <3> QED
      BY <3>1 DEF Audit!vars
  <2>2. ASSUME NEW r \in Runs, Progress(r) \/ Die(r) PROVE [Audit!Next]_(Audit!vars)
    <3>1. LifecycleStep(db[r], db'[r]) /\ \A q \in Runs \ {r} : db'[q] = db[q]
      BY <2>2, TaskStep, OwnRow DEF Inv
    <3>2. CASE db'[r].status = db[r].status /\ db'[r].events = db[r].events
      BY <3>1, <3>2 DEF Audit!vars
    <3>3. Audit!OnlyRun(r)
      BY <3>1 DEF Audit!OnlyRun
    <3>4. CASE db[r].status = "none" /\ db'[r].status \in {"PENDING"} \cup Terminal
      BY <3>3, <3>4 DEF Audit!Next, Audit!Appear
    <3>5. CASE /\ db[r].status = "PENDING" /\ db'[r].status = "RUNNING"
               /\ db'[r].events = db[r].events
      BY <3>3, <3>5 DEF Audit!Next, Audit!Start
    <3>6. CASE /\ db[r].status = "RUNNING" /\ db'[r].status \in {"RUNNING"} \cup Terminal
               /\ Audit!Extends(db'[r].events, db[r].events)
      BY <3>3, <3>6 DEF Audit!Next, Audit!Record, Audit!Finish
    <3> QED
      BY <3>1, <3>2, <3>4, <3>5, <3>6 DEF LifecycleStep
  <2>3. CASE UNCHANGED vars
    BY <2>3 DEF vars, Audit!vars
  <2> QED
    BY <2>1, <2>2, <2>3 DEF Next
<1> QED
  BY <1>1, <1>2, InvHolds, PTL DEF Spec, ImplementsLifecycle, Audit!Spec

-----------------------------------------------------------------------------
(* The event log *)

Started(log) == Cardinality(Occurrences(log, "WorkflowStepStarted"))

Completed(log) == Cardinality(Occurrences(log, "WorkflowStepCompleted"))

Final == {"WorkflowCompleted", "WorkflowFailed"}

\* The log begins with the run and completes only what was started just before.
Ordered(log) ==
    /\ Len(log) > 0 /\ log[1] = "WorkflowStarted"
    /\ \A i \in DOMAIN log : log[i] = "WorkflowStepCompleted" => log[i - 1] = "WorkflowStepStarted"

Unended(log) == \A i \in DOMAIN log : log[i] \notin Final

\* The step rows that are there are those the log tells of.
Counted(row) ==
    row.steps # <<>> =>
        /\ Started(row.events) = Len(row.steps)
        /\ Completed(row.events) =
                Cardinality({i \in DOMAIN row.steps : row.steps[i].status = "COMPLETED"})

\* EventLogMatchesRun of one run row, with the size of the plan it executed.
LogMatches(row, size) ==
    row.status # "none" =>
        /\ Ordered(row.events)
        /\ \A i \in DOMAIN row.events : row.events[i] \in Final => i = Len(row.events)
        /\ row.events[Len(row.events)] = "WorkflowCompleted" <=> row.status = "COMPLETED"
        /\ row.events[Len(row.events)] = "WorkflowFailed" <=> row.status = "FAILED"
        /\ row.status = "COMPLETED" => Started(row.events) = size /\ Completed(row.events) = size
        /\ row.status = "FAILED" => Started(row.events) = Completed(row.events) + 1
        /\ Counted(row)

\* How far the log of a running task is.
TaskLog(row, label, res) ==
    /\ Ordered(row.events) /\ Unended(row.events)
    /\ Completed(row.events) = Len(res)
    /\ Started(row.events) = IF label \in {"step", "failing"} THEN Len(res) + 1 ELSE Len(res)
    /\ label = "step" => row.events[Len(row.events)] = "WorkflowStepStarted"
    /\ Counted(row)

RunLog(r) ==
    /\ LogMatches(db[r], plan[r].size)
    /\ pc[r] \in Active => TaskLog(Row(r), pc[r], results[r])

LogInv == \A r \in Runs : RunLog(r)

\* An event more is one occurrence more of it and none of any other.
LEMMA CountAppend ==
    ASSUME NEW log \in Seq(WorkflowEventType), NEW e \in WorkflowEventType, NEW f
    PROVE  /\ Cardinality(Occurrences(log, f)) \in Nat
           /\ Cardinality(Occurrences(Append(log, e), f)) =
                Cardinality(Occurrences(log, f)) + (IF e = f THEN 1 ELSE 0)
<1> DEFINE n == Len(log)
           old == Occurrences(log, f)
           new == Occurrences(Append(log, e), f)
<1>1. n \in Nat /\ DOMAIN log = 1..n /\ DOMAIN Append(log, e) = 1..(n + 1)
  BY AppendProperties
<1>2. /\ \A i \in 1..n : Append(log, e)[i] = log[i]
      /\ Append(log, e)[n + 1] = e
  BY <1>1, AppendProperties
<1>3. old \subseteq 1..n /\ n + 1 \notin old
  BY <1>1 DEF Occurrences
<1>4. IsFiniteSet(old) /\ Cardinality(old) \in Nat
  <2>1. IsFiniteSet(1..n)
    BY <1>1, FS_Interval
  <2> QED
    BY <1>3, <2>1, FS_Subset, FS_CardinalityType
<1>5. new = IF e = f THEN old \cup {n + 1} ELSE old
  BY <1>1, <1>2 DEF Occurrences
<1> HIDE DEF n, old, new
<1>6. Cardinality(new) = Cardinality(old) + (IF e = f THEN 1 ELSE 0)
  <2>1. CASE e = f
    BY <1>3, <1>4, <1>5, <2>1, FS_AddElement
  <2>2. CASE e # f
    BY <1>4, <1>5, <2>2
  <2> QED
    BY <2>1, <2>2
<1> QED
  BY <1>4, <1>6 DEF old, new

\* An event more keeps the order, if it does not complete what was not started.
LEMMA OrderedAppend ==
    ASSUME NEW log \in Seq(WorkflowEventType), NEW e \in WorkflowEventType, Ordered(log),
           e = "WorkflowStepCompleted" => log[Len(log)] = "WorkflowStepStarted"
    PROVE  LET new == Append(log, e) IN
           /\ Ordered(new) /\ new[Len(new)] = e
           /\ Unended(log) => \A i \in DOMAIN new : new[i] \in Final => i = Len(new)
           /\ Unended(log) /\ e \notin Final => Unended(new)
<1> DEFINE n == Len(log)
           new == Append(log, e)
<1>1. n \in Nat \ {0} /\ DOMAIN log = 1..n /\ DOMAIN new = 1..(n + 1) /\ Len(new) = n + 1
  BY AppendProperties DEF Ordered
<1>2. /\ \A i \in 1..n : new[i] = log[i]
      /\ new[n + 1] = e
  BY <1>1, AppendProperties
<1> HIDE DEF new
<1>3. new[1] = "WorkflowStarted"
  BY <1>1, <1>2 DEF Ordered
<1>4. ASSUME NEW i \in 1..(n + 1), new[i] = "WorkflowStepCompleted"
      PROVE  new[i - 1] = "WorkflowStepStarted"
  <2>1. i # 1 /\ i - 1 \in 1..n /\ new[i - 1] = log[i - 1]
    BY <1>1, <1>2, <1>3, <1>4
  <2>2. CASE i = n + 1
    BY <1>1, <1>2, <1>4, <2>1, <2>2
  <2>3. CASE i # n + 1
    <3>1. i \in 1..n /\ log[i] = "WorkflowStepCompleted"
      BY <1>1, <1>2, <1>4, <2>3
    <3> QED
      BY <1>1, <2>1, <3>1 DEF Ordered
  <2> QED
    BY <2>2, <2>3
<1>5. Ordered(new)
  BY <1>1, <1>3, <1>4 DEF Ordered
<1>6. Unended(log) => \A i \in 1..n : new[i] \notin Final
  BY <1>1, <1>2 DEF Unended
<1>7. Unended(log) => \A i \in DOMAIN new : new[i] \in Final => i = Len(new)
  BY <1>1, <1>6
<1>8. Unended(log) /\ e \notin Final => Unended(new)
  BY <1>1, <1>2, <1>6 DEF Unended
<1> QED
  BY <1>1, <1>2, <1>5, <1>7, <1>8 DEF new

\* As many step rows as were started, and all of them completed but perhaps the last.
LEMMA CountedRow ==
    ASSUME NEW row \in WorkflowRun, NEW n \in Nat, Completed(row.events) = n,
           \A i \in 1..n : row.steps[i].status = "COMPLETED",
           \/ Len(row.steps) = n /\ Started(row.events) = n
           \/ /\ Len(row.steps) = n + 1 /\ Started(row.events) = n + 1
              /\ row.steps[n + 1].status # "COMPLETED"
    PROVE  Counted(row)
<1>1. row.steps \in Seq(WorkflowRunStep) /\ DOMAIN row.steps = 1..Len(row.steps)
  BY DEF WorkflowRun
<1>2. {i \in DOMAIN row.steps : row.steps[i].status = "COMPLETED"} = 1..n
  BY <1>1
<1>3. Cardinality(1..n) = n
  BY FS_Interval
<1>4. Started(row.events) = Len(row.steps)
  OBVIOUS
<1> QED
  BY <1>2, <1>3, <1>4 DEF Counted

\* The log of a run that goes on agrees with its status.
LEMMA OpenMatches ==
    ASSUME NEW row \in WorkflowRun, NEW size, row.status \in {"PENDING", "RUNNING"},
           Ordered(row.events), Unended(row.events), Counted(row)
    PROVE  LogMatches(row, size)
<1>1. Len(row.events) \in DOMAIN row.events
  BY DEF Ordered, WorkflowRun
<1> QED
  BY <1>1 DEF LogMatches, Unended, Final

\* A run nothing happens to keeps its log.
LEMMA LogFrame ==
    ASSUME NEW q \in Runs, RunLog(q), pc'[q] = pc[q], mode'[q] = mode[q],
           plan'[q] = plan[q], results'[q] = results[q], txn'[q] = txn[q], db'[q] = db[q]
    PROVE  RunLog(q)'
<1>1. Row(q)' = Row(q)
  BY DEF Row
<1> QED
  BY <1>1 DEF RunLog

\* A flush by a running task.
LEMMA FlushLog ==
    ASSUME Inv, LogInv, NEW r \in Runs, NEW row \in WorkflowRun, NEW label \in Active,
           NEW res \in Seq(Text), UNCHANGED <<mode, plan>>,
           Goto(r, label), results' = [results EXCEPT ![r] = res], Write(r, row),
           row.status = "RUNNING", TaskLog(row, label, res)
    PROVE  LogInv'
<1>1. /\ Row(r)' = row
      /\ mode[r] = "stream" => db'[r] = row
      /\ mode[r] # "stream" => db'[r] = db[r]
      /\ \A q \in Runs \ {r} : txn'[q] = txn[q] /\ db'[q] = db[q]
  BY WriteEffect DEF Inv
<1>2. /\ pc'[r] = label /\ results'[r] = res
      /\ \A q \in Runs \ {r} : pc'[q] = pc[q] /\ results'[q] = results[q]
  BY DEF Goto, Inv, TypeOK
<1>3. RunLog(r)'
  <2>1. LogMatches(row, plan[r].size)
    BY OpenMatches DEF TaskLog
  <2>2. LogMatches(db'[r], plan[r].size)
    BY <1>1, <2>1 DEF LogInv, RunLog
  <2> QED
    BY <1>1, <1>2, <2>2 DEF RunLog
<1>4. ASSUME NEW q \in Runs \ {r} PROVE RunLog(q)'
  BY <1>1, <1>2, LogFrame DEF LogInv
<1> QED
  BY <1>3, <1>4 DEF LogInv

\* A task that ends: its row is the final one, or what was committed before.
LEMMA EndLog ==
    ASSUME LogInv, Inv, NEW r \in Runs, NEW label \in Ended, UNCHANGED <<mode, plan, results>>,
           Goto(r, label), LogMatches(db'[r], plan[r].size),
           \A q \in Runs \ {r} : txn'[q] = txn[q] /\ db'[q] = db[q]
    PROVE  LogInv'
<1>1. pc'[r] \notin Active /\ \A q \in Runs \ {r} : pc'[q] = pc[q]
  BY DEF Goto, Inv, TypeOK, Ended, Active
<1>2. RunLog(r)'
  BY <1>1 DEF RunLog
<1>3. ASSUME NEW q \in Runs \ {r} PROVE RunLog(q)'
  BY <1>1, LogFrame DEF LogInv
<1> QED
  BY <1>2, <1>3 DEF LogInv

\* Nobody has called anything yet.
LEMMA InitLog == Init => LogInv
BY NoRunType DEF Init, LogInv, RunLog, LogMatches, Active

\* A PUT that replaces the steps deletes step rows and no event.
LEMMA ReplaceStepsLog ==
    ASSUME Inv, LogInv, replace_steps
    PROVE  LogInv'
<1> SUFFICES ASSUME NEW r \in Runs PROVE RunLog(r)'
  BY DEF LogInv
<1>1. UNCHANGED <<pc, mode, plan, results, txn>> /\ db'[r] = [db[r] EXCEPT !.steps = <<>>]
  BY DEF replace_steps
<1>2. db[r] \in WorkflowRun /\ RunLog(r)
  BY DEF Inv, TypeOK, LogInv
<1>3. db'[r].status = db[r].status /\ db'[r].events = db[r].events /\ db'[r].steps = <<>>
  BY <1>1, <1>2 DEF WorkflowRun
<1>4. LogMatches(db'[r], plan[r].size)
  BY <1>2, <1>3 DEF RunLog, LogMatches, Counted
<1>5. ASSUME pc[r] \in Active PROVE TaskLog(Row(r)', pc[r], results[r])
  <2>1. \/ Row(r)' = Row(r)
        \/ Row(r)'.events = Row(r).events /\ Row(r)'.steps = <<>>
    BY <1>1, <1>3 DEF Row
  <2>2. TaskLog(Row(r), pc[r], results[r])
    BY <1>2, <1>5 DEF RunLog
  <2> QED
    BY <2>1, <2>2 DEF TaskLog, Counted
<1> QED
  BY <1>1, <1>4, <1>5 DEF RunLog

\* The log of a new run tells of its creation and of nothing else.
LEMMA BeginLog ==
    ASSUME Inv, LogInv, NEW r \in Runs, Begin(r)
    PROVE  LogInv'
<1>1. PICK m \in Mode, input \in Text :
        /\ mode' = [mode EXCEPT ![r] = m]
        /\ IF m = "stream"
           THEN db' = [db EXCEPT ![r] = create_run(input)] /\ txn' = txn
           ELSE txn' = [txn EXCEPT ![r] = create_run(input)] /\ db' = db
  BY DEF Begin
<1> DEFINE row == create_run(input)
<1>2. /\ row \in WorkflowRun /\ row.status = "PENDING" /\ row.steps = <<>>
      /\ row.events = <<"WorkflowStarted">>
  BY CreateRun DEF create_run
<1>3. TypeOK /\ db[r] = NoRun /\ txn[r] = NoRun /\ results[r] = <<>>
  BY DEF Inv, RunInv, Begin
<1>4. Row(r)' = row /\ (db'[r] = row \/ db'[r] = NoRun)
  BY <1>1, <1>3 DEF Row, TypeOK
<1> HIDE DEF row
<1>5. TaskLog(row, "created", <<>>)
  <2>1. \A f \in {"WorkflowStepStarted", "WorkflowStepCompleted"} : Occurrences(row.events, f) = {}
    BY <1>2 DEF Occurrences
  <2>2. Started(row.events) = 0 /\ Completed(row.events) = 0
    BY <2>1, FS_EmptySet DEF Started, Completed
  <2> QED
    BY <1>2, <2>2 DEF TaskLog, Ordered, Unended, Final, Counted
<1>6. LogMatches(db'[r], plan'[r].size)
  BY <1>2, <1>4, <1>5, NoRunType, OpenMatches DEF TaskLog, LogMatches
<1>7. pc'[r] = "created" /\ results' = results
  BY <1>3 DEF Begin, Goto, TypeOK
<1>8. RunLog(r)'
  BY <1>3, <1>4, <1>5, <1>6, <1>7 DEF RunLog
<1>9. ASSUME NEW q \in Runs \ {r} PROVE RunLog(q)'
  <2>1. /\ pc'[q] = pc[q] /\ mode'[q] = mode[q] /\ plan'[q] = plan[q] /\ results'[q] = results[q]
        /\ txn'[q] = txn[q] /\ db'[q] = db[q]
    BY <1>1, <1>3 DEF Begin, Goto, TypeOK
  <2> QED
    BY <2>1, LogFrame DEF LogInv
<1> QED
  BY <1>8, <1>9 DEF LogInv

\* The row of a running task and what its log says.
LEMMA TaskRow ==
    ASSUME Inv, LogInv, NEW r \in Runs, pc[r] \in Active
    PROVE  /\ TypeOK /\ TaskInv(r) /\ TaskLog(Row(r), pc[r], results[r])
           /\ Row(r) \in WorkflowRun /\ Row(r).events \in Seq(WorkflowEventType)
           /\ results[r] \in Seq(Text) /\ Len(results[r]) \in Nat
           /\ results' = results => results' = [results EXCEPT ![r] = results[r]]
<1>1. TypeOK /\ TaskInv(r) /\ TaskLog(Row(r), pc[r], results[r])
  BY DEF Inv, RunInv, LogInv, RunLog
<1>2. Row(r) \in WorkflowRun /\ Row(r).events \in Seq(WorkflowEventType)
  BY <1>1, RowType DEF WorkflowRun
<1> QED
  BY <1>1, <1>2, LenProperties DEF TypeOK

\* mark_running writes no event.
LEMMA MarkRunningLog ==
    ASSUME Inv, LogInv, NEW r \in Runs, MarkRunning(r)
    PROVE  LogInv'
<1> DEFINE row == mark_running(Row(r))
<1>1. /\ pc[r] = "created" /\ pc[r] \in Active /\ Goto(r, "loop") /\ Write(r, row)
      /\ UNCHANGED <<mode, plan, results>>
  BY DEF MarkRunning, Active
<1>2. /\ TaskLog(Row(r), "created", results[r]) /\ Row(r) \in WorkflowRun
      /\ results' = [results EXCEPT ![r] = results[r]] /\ results[r] \in Seq(Text)
  BY <1>1, TaskRow
<1>3. /\ row \in WorkflowRun /\ row.status = "RUNNING"
      /\ row.events = Row(r).events /\ row.steps = Row(r).steps
  BY <1>2, MarkRunningRow
<1> HIDE DEF row
<1>4. TaskLog(row, "loop", results[r]) /\ "loop" \in Active
  BY <1>2, <1>3 DEF TaskLog, Counted, Active
<1> QED
  BY <1>1, <1>2, <1>3, <1>4, FlushLog

\* start_step writes one event and one row.
LEMMA StartStepLog ==
    ASSUME Inv, LogInv, NEW r \in Runs, StartStep(r)
    PROVE  LogInv'
<1> DEFINE input == previous_output(results[r], Row(r).input)
           row == start_step(Row(r), input)
           n == Len(results[r])
<1>1. /\ pc[r] = "loop" /\ pc[r] \in Active /\ Goto(r, "step") /\ Write(r, row)
      /\ UNCHANGED <<mode, plan, results>> /\ plan[r].version = workflow.version
  BY DEF StartStep, Active, PlanIsCurrent
<1>2. /\ TaskLog(Row(r), "loop", results[r]) /\ TaskInv(r)
      /\ Row(r) \in WorkflowRun /\ Row(r).events \in Seq(WorkflowEventType)
      /\ results' = [results EXCEPT ![r] = results[r]] /\ results[r] \in Seq(Text) /\ n \in Nat
  BY <1>1, TaskRow
<1>3. /\ Recorded(Row(r).steps, results[r]) /\ Len(Row(r).steps) = n
      /\ Row(r).status = "RUNNING" /\ Row(r).input \in Text
  BY <1>1, <1>2 DEF TaskInv
<1>4. input \in Text
  BY <1>2, <1>3, EmptySeq, ElementOfSeq DEF previous_output
<1> DEFINE step == [status |-> "RUNNING", input |-> input, output |-> NoText]
<1>5. /\ row \in WorkflowRun /\ row.status = "RUNNING"
      /\ row.events = Append(Row(r).events, "WorkflowStepStarted")
      /\ row.steps = Append(Row(r).steps, step)
      /\ step \in WorkflowRunStep /\ step.status = "RUNNING"
  BY <1>2, <1>3, <1>4, StartStepRow DEF WorkflowRunStep, MaybeText
<1> HIDE DEF row, step, input
<1>6. /\ Len(row.steps) = n + 1 /\ row.steps[n + 1].status # "COMPLETED"
      /\ \A i \in 1..n : row.steps[i].status = "COMPLETED"
  <2>1. Row(r).steps \in Seq(WorkflowRunStep)
    BY <1>2 DEF WorkflowRun
  <2> QED
    BY <1>2, <1>3, <1>5, <2>1, AppendProperties DEF Recorded
<1>7. Started(row.events) = n + 1 /\ Completed(row.events) = n
  BY <1>2, <1>5, CountAppend DEF Started, Completed, TaskLog, WorkflowEventType
<1>8. Counted(row)
  BY <1>2, <1>5, <1>6, <1>7, CountedRow
<1>9. TaskLog(row, "step", results[r]) /\ "step" \in Active
  BY <1>2, <1>5, <1>7, <1>8, OrderedAppend DEF TaskLog, Active, Final, WorkflowEventType
<1> QED
  BY <1>1, <1>2, <1>5, <1>9, FlushLog

\* complete_step writes one event, and the row it completes is the last one.
LEMMA StepCompletedLog ==
    ASSUME Inv, LogInv, NEW r \in Runs, StepCompleted(r)
    PROVE  LogInv'
<1>1. PICK out \in Text : /\ Write(r, complete_step(Row(r), out))
                          /\ results' = [results EXCEPT ![r] = Append(results[r], out)]
  BY DEF StepCompleted
<1> DEFINE row == complete_step(Row(r), out)
           res == Append(results[r], out)
           n == Len(results[r])
<1>2. /\ pc[r] = "step" /\ pc[r] \in Active /\ Goto(r, "loop") /\ StepRowExists(r)
      /\ UNCHANGED <<mode, plan>>
  BY DEF StepCompleted, Active
<1>3. /\ TaskLog(Row(r), "step", results[r]) /\ Row(r).events \in Seq(WorkflowEventType)
      /\ results[r] \in Seq(Text) /\ n \in Nat
  BY <1>2, TaskRow
<1>4. /\ Row(r) \in WorkflowRun /\ Row(r).steps # <<>> /\ Row(r).status = "RUNNING"
      /\ Recorded(Row(r).steps, results[r]) /\ Len(Row(r).steps) = n + 1
  BY <1>2, InStep
<1>5. /\ row \in WorkflowRun /\ row.status = "RUNNING"
      /\ row.events = Append(Row(r).events, "WorkflowStepCompleted")
      /\ OnlyLastChanged(Row(r).steps, row.steps)
      /\ row.steps[n + 1].status = "COMPLETED"
  BY <1>4, CompleteStepRow
<1>6. Write(r, row) /\ results' = [results EXCEPT ![r] = res]
  BY <1>1
<1>7. res \in Seq(Text) /\ Len(res) = n + 1
  BY <1>3, AppendProperties
<1> HIDE DEF row, res
<1>8. Len(row.steps) = n + 1 /\ \A i \in 1..(n + 1) : row.steps[i].status = "COMPLETED"
  <2>1. /\ Len(row.steps) = n + 1
        /\ \A i \in 1..(n + 1) : i # n + 1 => row.steps[i] = Row(r).steps[i]
    BY <1>4, <1>5 DEF OnlyLastChanged
  <2>2. \A i \in 1..n : Row(r).steps[i].status = "COMPLETED"
    BY <1>4 DEF Recorded
  <2> QED
    BY <1>3, <1>5, <2>1, <2>2
<1>9. Started(row.events) = n + 1 /\ Completed(row.events) = n + 1
  BY <1>3, <1>5, CountAppend DEF Started, Completed, TaskLog, WorkflowEventType
<1>10. Counted(row)
  <2>1. n + 1 \in Nat
    BY <1>3
  <2> HIDE DEF n
  <2> QED
    BY <1>5, <1>8, <1>9, <2>1, CountedRow
<1>11. TaskLog(row, "loop", res) /\ "loop" \in Active
  BY <1>3, <1>5, <1>7, <1>9, <1>10, OrderedAppend
     DEF TaskLog, Active, Final, WorkflowEventType
<1> QED
  BY <1>2, <1>5, <1>6, <1>7, <1>11, FlushLog

\* fail_step writes no event.
LEMMA StepFailedLog ==
    ASSUME Inv, LogInv, NEW r \in Runs, StepFailed(r)
    PROVE  LogInv'
<1> DEFINE row == fail_step(Row(r))
           n == Len(results[r])
<1>1. /\ pc[r] = "step" /\ pc[r] \in Active /\ Goto(r, "failing") /\ StepRowExists(r)
      /\ UNCHANGED <<mode, plan, results>> /\ Write(r, row)
  BY DEF StepFailed, Active
<1>2. /\ TaskLog(Row(r), "step", results[r]) /\ results[r] \in Seq(Text) /\ n \in Nat
      /\ results' = [results EXCEPT ![r] = results[r]]
  BY <1>1, TaskRow
<1>3. /\ Row(r) \in WorkflowRun /\ Row(r).steps # <<>> /\ Row(r).status = "RUNNING"
      /\ Recorded(Row(r).steps, results[r]) /\ Len(Row(r).steps) = n + 1
  BY <1>1, InStep
<1>4. /\ row \in WorkflowRun /\ row.status = "RUNNING" /\ row.events = Row(r).events
      /\ OnlyLastChanged(Row(r).steps, row.steps)
      /\ row.steps[n + 1].status = "FAILED"
  BY <1>3, FailStepRow
<1> HIDE DEF row
<1>5. /\ Len(row.steps) = n + 1 /\ row.steps[n + 1].status # "COMPLETED"
      /\ \A i \in 1..n : row.steps[i].status = "COMPLETED"
  BY <1>2, <1>3, <1>4 DEF OnlyLastChanged, Recorded
<1>6. Started(row.events) = n + 1 /\ Completed(row.events) = n
  BY <1>2, <1>4 DEF TaskLog
<1>7. Counted(row)
  BY <1>2, <1>4, <1>5, <1>6, CountedRow
<1>8. TaskLog(row, "failing", results[r]) /\ "failing" \in Active
  BY <1>2, <1>4, <1>7 DEF TaskLog, Active
<1> QED
  BY <1>1, <1>2, <1>4, <1>8, FlushLog

\* Nothing is committed by a task that is rejected, meets a conflict or dies.
LEMMA RollbackLog ==
    ASSUME Inv, LogInv, NEW r \in Runs, Reject(r) \/ Conflict(r) \/ Die(r)
    PROVE  LogInv'
<1>1. PICK label \in Ended : Goto(r, label)
  BY DEF Reject, Conflict, Die, Ended
<1>2. UNCHANGED <<mode, plan, results, db>> /\ \A q \in Runs \ {r} : txn'[q] = txn[q]
  BY RollbackEffect DEF Reject, Conflict, Die, Rollback, Inv
<1>3. LogMatches(db'[r], plan[r].size)
  BY <1>2 DEF LogInv, RunLog
<1> QED
  BY <1>1, <1>2, <1>3, EndLog

\* The final row of a run that failed: its log has one start more than completions.
LEMMA FailLog ==
    ASSUME Inv, LogInv, NEW r \in Runs, Fail(r)
    PROVE  LogInv'
<1>1. /\ pc[r] = "failing" /\ pc[r] \in Active /\ Goto(r, "done") /\ "done" \in Ended
      /\ UNCHANGED <<mode, plan, results>>
  BY DEF Fail, Active, Ended
<1>2. CASE mode[r] = "request"
  <2>1. db' = db /\ \A q \in Runs \ {r} : txn'[q] = txn[q]
    BY <1>2, RollbackEffect DEF Fail, Inv
  <2>2. LogMatches(db'[r], plan[r].size)
    BY <2>1 DEF LogInv, RunLog
  <2> QED
    BY <1>1, <2>1, <2>2, EndLog
<1>3. CASE mode[r] # "request"
  <2> DEFINE row == mark_failed(Row(r))
  <2>1. /\ TypeOK /\ TaskLog(Row(r), "failing", results[r]) /\ Row(r) \in WorkflowRun
        /\ Row(r).events \in Seq(WorkflowEventType) /\ Len(results[r]) \in Nat
    BY <1>1, TaskRow
  <2>2. /\ row \in WorkflowRun /\ row.status = "FAILED" /\ row.steps = Row(r).steps
        /\ row.events = Append(Row(r).events, "WorkflowFailed")
    BY <2>1, MarkFailedRow
  <2>3. Commit(r, row)
    BY <1>3 DEF Fail
  <2> HIDE DEF row
  <2>4. db'[r] = row /\ \A q \in Runs \ {r} : txn'[q] = txn[q] /\ db'[q] = db[q]
    BY <2>1, <2>2, <2>3, CommitEffect
  <2>5. /\ Started(row.events) = Started(Row(r).events)
        /\ Completed(row.events) = Completed(Row(r).events)
    BY <2>1, <2>2, CountAppend DEF Started, Completed, WorkflowEventType
  <2>6. LogMatches(row, plan[r].size)
    <3>1. /\ Ordered(row.events) /\ row.events[Len(row.events)] = "WorkflowFailed"
          /\ \A i \in DOMAIN row.events : row.events[i] \in Final => i = Len(row.events)
      BY <2>1, <2>2, OrderedAppend DEF TaskLog, WorkflowEventType
    <3>2. Counted(row)
      BY <2>1, <2>2, <2>5 DEF TaskLog, Counted
    <3>3. Started(row.events) = Completed(row.events) + 1
      BY <2>1, <2>5 DEF TaskLog
    <3> QED
      BY <2>2, <3>1, <3>2, <3>3 DEF LogMatches
  <2> QED
    BY <1>1, <2>4, <2>6, EndLog
<1> QED
  BY <1>2, <1>3

\* The final row of a run that completed: as many starts and completions as steps.
LEMMA CompleteLog ==
    ASSUME Inv, LogInv, NEW r \in Runs, Complete(r)
    PROVE  LogInv'
<1> DEFINE n == Len(results[r])
           row == mark_completed(Row(r), results[r][n])
<1>1. /\ pc[r] = "loop" /\ pc[r] \in Active /\ Goto(r, "done") /\ "done" \in Ended
      /\ UNCHANGED <<mode, plan, results>> /\ Commit(r, row) /\ n = plan[r].size
  BY DEF Complete, Active, Ended
<1>2. /\ TypeOK /\ TaskInv(r) /\ TaskLog(Row(r), "loop", results[r]) /\ Row(r) \in WorkflowRun
      /\ Row(r).events \in Seq(WorkflowEventType) /\ results[r] \in Seq(Text) /\ n \in Nat
  BY <1>1, TaskRow
<1>3. results[r][n] \in Text
  BY <1>1, <1>2, ElementOfSeq DEF TaskInv
<1>4. /\ row \in WorkflowRun /\ row.status = "COMPLETED" /\ row.steps = Row(r).steps
      /\ row.events = Append(Row(r).events, "WorkflowCompleted")
  BY <1>2, <1>3, MarkCompletedRow
<1> HIDE DEF row
<1>5. db'[r] = row /\ \A q \in Runs \ {r} : txn'[q] = txn[q] /\ db'[q] = db[q]
  BY <1>1, <1>2, <1>4, CommitEffect
<1>6. /\ Started(row.events) = Started(Row(r).events)
      /\ Completed(row.events) = Completed(Row(r).events)
  BY <1>2, <1>4, CountAppend DEF Started, Completed, WorkflowEventType
<1>7. LogMatches(row, plan[r].size)
  <2>1. /\ Ordered(row.events) /\ row.events[Len(row.events)] = "WorkflowCompleted"
        /\ \A i \in DOMAIN row.events : row.events[i] \in Final => i = Len(row.events)
    BY <1>2, <1>4, OrderedAppend DEF TaskLog, WorkflowEventType
  <2>2. Counted(row)
    BY <1>2, <1>4, <1>6 DEF TaskLog, Counted
  <2>3. Started(row.events) = plan[r].size /\ Completed(row.events) = plan[r].size
    BY <1>1, <1>2, <1>6 DEF TaskLog
  <2> QED
    BY <1>4, <2>1, <2>2, <2>3 DEF LogMatches
<1> QED
  BY <1>1, <1>5, <1>7, EndLog

\* The log agrees with the run at every step.
LEMMA LogStep == Inv /\ LogInv /\ [Next]_vars => LogInv'
<1> SUFFICES ASSUME Inv, LogInv, [Next]_vars PROVE LogInv'
  OBVIOUS
<1>1. CASE Registry
  <2>1. CASE replace_steps
    BY <2>1, ReplaceStepsLog
  <2>2. CASE create_workflow \/ set_enabled \/ delete_workflow
    <3>1. UNCHANGED <<pc, mode, plan, results, txn, db>>
      BY <2>2 DEF create_workflow, set_enabled, delete_workflow
    <3> QED
      BY <3>1, LogFrame DEF LogInv
  <2> QED
    BY <1>1, <2>1, <2>2 DEF Registry
<1>2. ASSUME NEW r \in Runs, Progress(r) \/ Die(r) PROVE LogInv'
  BY <1>2, RollbackLog, BeginLog, MarkRunningLog, StartStepLog, StepCompletedLog,
     StepFailedLog, FailLog, CompleteLog DEF Progress
<1>3. CASE UNCHANGED vars
  BY <1>3, LogFrame DEF LogInv, vars
<1> QED
  BY <1>1, <1>2, <1>3 DEF Next

\* The event log tells how far a run got, whatever was deleted of its step rows
\* (start_step, complete_step and mark_completed emit one event each, fail_step
\* none, mark_failed the last one).
THEOREM LogTellsTheRun == Spec => []EventLogMatchesRun
<1>1. LogInv => EventLogMatchesRun
  BY DEF LogInv, RunLog, LogMatches, EventLogMatchesRun, Ordered, Counted, Started, Completed, Final
<1> QED
  BY <1>1, InitLog, LogStep, InvHolds, PTL DEF Spec
=============================================================================
