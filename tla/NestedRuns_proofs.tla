-------------------------- MODULE NestedRuns_proofs -------------------------
(***************************************************************************)
(* Theorems about NestedRuns for all workflows, skills, plans and depths.  *)
(* First what a step does to a row, then the chain of frames against the   *)
(* context variables, then the rows against the frames.                    *)
(***************************************************************************)
EXTENDS NestedRuns, SequenceTheorems, TLAPS

-----------------------------------------------------------------------------
(* Types *)

\* The frame on top of a non-empty stack.
LEMMA TopFrame ==
    ASSUME stack \in Seq(Frame), stack # <<>>
    PROVE  /\ Len(stack) \in Nat \ {0}
           /\ Len(stack) \in 1..Len(stack)
           /\ Top \in Frame
<1>1. Len(stack) \in Nat \ {0}
  BY EmptySeq
<1> QED
  BY <1>1, ElementOfSeq DEF Top

\* A frame keeps its type and its place in the chain when it goes on.
LEMMA TopToKeeps ==
    ASSUME stack \in Seq(Frame), stack # <<>>,
           NEW phase \in {"next", "agent"}, NEW calls \in 0..MaxCalls,
           TopTo(phase, calls)
    PROVE  /\ stack' \in Seq(Frame)
           /\ Len(stack') = Len(stack)
           /\ \A i \in 1..Len(stack) :
                /\ stack'[i].of = stack[i].of
                /\ stack'[i].row = stack[i].row
                /\ stack'[i].depth = stack[i].depth
                /\ stack'[i].visited = stack[i].visited
                /\ i # Len(stack) => stack'[i] = stack[i]
           /\ stack'[Len(stack)].phase = phase
<1> DEFINE top == [Top EXCEPT !.phase = phase, !.calls = calls]
<1>1. top \in Frame
  BY TopFrame DEF Frame
<1>2. stack' = [stack EXCEPT ![Len(stack)] = top]
  BY TopFrame DEF TopTo, Top, Frame
<1>3. /\ stack' \in Seq(Frame)
      /\ Len(stack') = Len(stack)
      /\ \A i \in 1..Len(stack) : stack'[i] = IF i = Len(stack) THEN top ELSE stack[i]
  BY <1>1, <1>2, TopFrame, ExceptSeq
<1>4. /\ top.of = Top.of /\ top.row = Top.row /\ top.phase = phase
      /\ top.depth = Top.depth /\ top.visited = Top.visited
  BY TopFrame DEF Frame
<1> HIDE DEF top
<1> QED
  BY <1>3, <1>4, TopFrame DEF Top

\* A sequence with one more element.
LEMMA Pushed ==
    ASSUME NEW S, NEW low \in Seq(S), NEW new \in S, NEW high, high = Append(low, new)
    PROVE  /\ high \in Seq(S) /\ Len(high) = Len(low) + 1
           /\ \A i \in 1..Len(low) : high[i] = low[i]
           /\ high[Len(low) + 1] = new
BY AppendProperties

\* Every form of a run that has rows has a number of steps.
LEMMA StepCountType == \A of \in Runs : StepCount(of) \in Nat \ {0}
BY NestedRunsAssumption, EmptySeq DEF StepCount, Runs, Forms

-----------------------------------------------------------------------------
(* The chain of triggered runs *)

\* What each frame resets the context to, and where frames are.
FramesRemember ==
    \A i \in Triggered :
        /\ stack[i].of \in Workflows
        /\ stack[i].depth = i - 2
        /\ stack[i].visited = {stack[j].of : j \in 2..(i - 1)}

Chain ==
    /\ stack \in Seq(Frame)
    /\ pc = "run" <=> stack # <<>>
    /\ stack = <<>> => depth = 0 /\ visited = {}
    /\ GuardFollowsTheChain
    /\ NestingIsBounded
    /\ FramesRemember

\* A step in which every frame keeps its place preserves the chain.
LEMMA SameFrames ==
    ASSUME Chain,
           stack' \in Seq(Frame), Len(stack') = Len(stack), stack # <<>>,
           \A i \in 1..Len(stack) :
                /\ stack'[i].of = stack[i].of
                /\ stack'[i].depth = stack[i].depth
                /\ stack'[i].visited = stack[i].visited,
           UNCHANGED <<pc, depth, visited>>
    PROVE  Chain'
<1>1. Len(stack) \in Nat \ {0} /\ Triggered' = Triggered /\ Triggered \subseteq 1..Len(stack)
  BY EmptySeq DEF Chain, Triggered
<1>2. stack' # <<>>
  BY <1>1, EmptySeq
<1>3. GuardFollowsTheChain'
  <2>1. {stack'[i].of : i \in Triggered'} = {stack[i].of : i \in Triggered}
    BY <1>1
  <2> QED
    BY <2>1 DEF Chain, GuardFollowsTheChain
<1>4. NestingIsBounded'
  BY <1>1 DEF Chain, NestingIsBounded, Limit
<1>5. FramesRemember'
  <2> SUFFICES ASSUME NEW i \in Triggered
               PROVE  /\ stack'[i].of \in Workflows
                      /\ stack'[i].depth = i - 2
                      /\ stack'[i].visited = {stack'[j].of : j \in 2..(i - 1)}
    BY <1>1 DEF FramesRemember
  <2>1. {stack'[j].of : j \in 2..(i - 1)} = {stack[j].of : j \in 2..(i - 1)}
    BY <1>1 DEF Triggered
  <2> QED
    BY <1>1, <2>1 DEF Chain, FramesRemember
<1> QED
  BY <1>2, <1>3, <1>4, <1>5 DEF Chain

\* A request that has ended leaves nothing behind.
LEMMA EndsChain ==
    ASSUME NEW label \in Over, End(label)
    PROVE  Chain'
<1>1. Triggered' = {}
  BY DEF End, Triggered
<1>2. <<>> \in Seq(Frame) /\ pc' # "run"
  BY DEF End, Over
<1> QED
  BY <1>1, <1>2 DEF Chain, End, GuardFollowsTheChain, NestingIsBounded, FramesRemember

\* Leaving the guard resets it to the chain below.
LEMMA LeavesChain ==
    ASSUME Chain, pc = "run", Leave
    PROVE  /\ Chain'
           /\ Len(stack') = Len(stack) - 1
           /\ \A i \in 1..Len(stack') : stack'[i] = stack[i]
<1>1. Len(stack) \in Nat /\ Len(stack) > 1
  BY DEF Chain, Leave, Nested
<1> DEFINE n == Len(stack) - 1
<1>2. /\ stack' \in Seq(Frame)
      /\ Len(stack') = n
      /\ \A i \in 1..n : stack'[i] = stack[i]
  <2>1. \A i \in 1..n : stack[i] \in Frame
    BY <1>1, ElementOfSeq DEF Chain
  <2> QED
    BY <1>1, <2>1, SubSeqProperties DEF Leave
<1>3. stack' # <<>> /\ pc' = "run"
  <2>1. Len(stack') # 0
    BY <1>1, <1>2
  <2>2. pc' = "run"
    BY DEF Leave
  <2> QED
    BY <2>1, <2>2, EmptySeq
<1>4. Triggered' = 2..n /\ Triggered = 2..(n + 1) /\ n + 1 \in Triggered
  BY <1>1, <1>2 DEF Triggered
<1>5. depth' = n - 1 /\ visited' = {stack[j].of : j \in 2..n}
  BY <1>1, <1>4 DEF Chain, FramesRemember, Leave, Top
<1>6. GuardFollowsTheChain'
  <2>1. {stack'[j].of : j \in 2..n} = {stack[j].of : j \in 2..n}
    BY <1>1, <1>2
  <2> QED
    BY <1>2, <1>4, <1>5, <2>1 DEF GuardFollowsTheChain
<1>7. NestingIsBounded'
  <2>1. \A i \in 2..n : i \in Triggered /\ stack'[i] = stack[i]
    BY <1>1, <1>2, <1>4
  <2>2. \A i \in 2..n : /\ i - 1 <= Limit(stack'[i].of)
                        /\ \A j \in 2..n : stack'[i].of = stack'[j].of => i = j
    BY <2>1 DEF Chain, NestingIsBounded
  <2> QED
    BY <1>4, <2>2 DEF NestingIsBounded, Limit
<1>8. FramesRemember'
  <2> SUFFICES ASSUME NEW i \in 2..n
               PROVE  /\ stack'[i].of \in Workflows
                      /\ stack'[i].depth = i - 2
                      /\ stack'[i].visited = {stack'[j].of : j \in 2..(i - 1)}
    BY <1>4 DEF FramesRemember
  <2>1. {stack'[j].of : j \in 2..(i - 1)} = {stack[j].of : j \in 2..(i - 1)}
    BY <1>1, <1>2
  <2>2. i \in Triggered /\ stack'[i] = stack[i]
    BY <1>1, <1>2, <1>4
  <2> QED
    BY <2>1, <2>2 DEF Chain, FramesRemember
<1> QED
  BY <1>2, <1>3, <1>6, <1>7, <1>8 DEF Chain

\* A tool call that is admitted extends the chain by its workflow.
LEMMA PushesChain ==
    ASSUME Chain, pc = "run", pc' = pc, rows \in Seq(Row),
           depth \in Nat, visited \subseteq Workflows,
           NEW w \in Workflows, Admitted(w), Top.calls < MaxCalls,
           depth' = depth + 1,
           visited' = visited \cup {w},
           stack' = Append([stack EXCEPT ![Len(stack)].calls = @ + 1], NewFrame(w, Len(rows) + 1))
    PROVE  /\ Chain'
           /\ Len(stack') = Len(stack) + 1
           /\ stack'[Len(stack) + 1] = NewFrame(w, Len(rows) + 1)
           /\ \A i \in 1..Len(stack) :
                /\ stack'[i].of = stack[i].of
                /\ stack'[i].row = stack[i].row
                /\ stack'[i].phase = stack[i].phase
<1> DEFINE n == Len(stack)
           top == [Top EXCEPT !.calls = @ + 1]
           new == NewFrame(w, Len(rows) + 1)
           low == [stack EXCEPT ![n] = top]
<1>1. /\ stack \in Seq(Frame) /\ stack # <<>>
      /\ n \in Nat \ {0} /\ n \in 1..n /\ Top \in Frame
  BY TopFrame DEF Chain
<1>2. top \in Frame
  <2>1. MaxCalls \in Nat
    BY NestedRunsAssumption
  <2>2. Top.calls + 1 \in 0..MaxCalls
    BY <1>1, <2>1 DEF Frame
  <2>3. \A f \in Frame, c \in 0..MaxCalls : [f EXCEPT !.calls = c] \in Frame
    BY DEF Frame
  <2> QED
    BY <1>1, <2>2, <2>3
<1>3. new \in Frame
  <2>1. MaxCalls \in Nat
    BY NestedRunsAssumption
  <2>2. Len(rows) \in Nat
    OBVIOUS
  <2> QED
    BY <2>1, <2>2 DEF NewFrame, Frame, Runs
<1>4. [stack EXCEPT ![Len(stack)].calls = @ + 1] = low
  BY <1>1 DEF Top, Frame
<1>5. /\ low \in Seq(Frame)
      /\ Len(low) = n
      /\ \A i \in 1..n : low[i] = IF i = n THEN top ELSE stack[i]
  BY <1>1, <1>2, ExceptSeq
<1>6. /\ top.of = Top.of /\ top.row = Top.row /\ top.phase = Top.phase
      /\ top.depth = Top.depth /\ top.visited = Top.visited
  BY <1>1 DEF Frame
<1> HIDE DEF top, low
<1>7. /\ stack' \in Seq(Frame)
      /\ Len(stack') = n + 1
      /\ \A i \in 1..n : stack'[i] = low[i]
      /\ stack'[n + 1] = new
  <2>1. stack' = Append(low, new)
    BY <1>4
  <2> HIDE DEF n, new
  <2> QED
    BY ONLY <2>1, <1>3, <1>5, Pushed
<1>8. \A i \in 1..n : /\ stack'[i].of = stack[i].of
                      /\ stack'[i].row = stack[i].row
                      /\ stack'[i].phase = stack[i].phase
                      /\ stack'[i].depth = stack[i].depth
                      /\ stack'[i].visited = stack[i].visited
  BY <1>1, <1>5, <1>6, <1>7 DEF Top
<1>9. new.of = w /\ new.depth = depth /\ new.visited = visited
  BY DEF NewFrame
<1> HIDE DEF new
<1>10. depth = n - 1 /\ visited = {stack[i].of : i \in 2..n}
  BY DEF Chain, GuardFollowsTheChain, Triggered
<1>11. Triggered = 2..n /\ Triggered' = 2..(n + 1)
  BY <1>7 DEF Triggered
<1>12. GuardFollowsTheChain'
  <2>1. visited' = {stack'[i].of : i \in 2..(n + 1)}
    <3>1. \A i \in 2..n : stack'[i].of = stack[i].of
      BY <1>1, <1>8
    <3>2. 2..(n + 1) = (2..n) \cup {n + 1}
      BY <1>1
    <3> QED
      BY <3>1, <3>2, <1>7, <1>9, <1>10
  <2>2. visited' = {stack'[i].of : i \in Triggered'}
    BY <2>1, <1>11
  <2>3. depth' = Len(stack') - 1
    BY <1>1, <1>7, <1>10
  <2> QED
    BY <2>2, <2>3 DEF GuardFollowsTheChain
<1>13. NestingIsBounded'
  <2> SUFFICES ASSUME NEW i \in 2..(n + 1)
               PROVE  /\ i - 1 <= Limit(stack'[i].of)
                      /\ \A j \in 2..(n + 1) : stack'[i].of = stack'[j].of => i = j
    BY <1>11 DEF NestingIsBounded, Limit
  <2>1. \A k \in 2..n : /\ stack'[k].of = stack[k].of
                        /\ stack'[k].of # w
                        /\ k - 1 <= Limit(stack[k].of)
                        /\ \A j \in 2..n : stack[k].of = stack[j].of => k = j
    BY <1>1, <1>8, <1>10, <1>11 DEF Chain, NestingIsBounded, Admitted
  <2>2. stack'[n + 1].of = w
    BY <1>7, <1>9
  <2>3. n <= Limit(w)
    <3>1. Limit(w) \in Nat
      BY NestedRunsAssumption DEF Limit
    <3> QED
      BY <3>1, <1>1, <1>10 DEF Admitted
  <2>4. \A k \in 2..(n + 1) : k = n + 1 \/ k \in 2..n
    BY <1>1
  <2> QED
    BY <1>1, <2>1, <2>2, <2>3, <2>4
<1>14. FramesRemember'
  <2> SUFFICES ASSUME NEW i \in 2..(n + 1)
               PROVE  /\ stack'[i].of \in Workflows
                      /\ stack'[i].depth = i - 2
                      /\ stack'[i].visited = {stack'[j].of : j \in 2..(i - 1)}
    BY <1>11 DEF FramesRemember
  <2>1. {stack'[j].of : j \in 2..(i - 1)} = {stack[j].of : j \in 2..(i - 1)}
    BY <1>1, <1>8
  <2>2. CASE i = n + 1
    <3>1. i - 1 = n
      BY <2>2, <1>1
    <3> QED
      BY <2>1, <2>2, <3>1, <1>1, <1>7, <1>9, <1>10
  <2>3. CASE i \in 2..n
    <3>1. i \in Triggered /\ i \in 1..n
      BY <2>3, <1>1, <1>11
    <3>2. /\ stack[i].of \in Workflows
          /\ stack[i].depth = i - 2
          /\ stack[i].visited = {stack[j].of : j \in 2..(i - 1)}
      BY <3>1 DEF Chain, FramesRemember
    <3>3. /\ stack'[i].of = stack[i].of
          /\ stack'[i].depth = stack[i].depth
          /\ stack'[i].visited = stack[i].visited
      BY <3>1, <1>8
    <3> QED
      BY <3>2, <3>3, <2>1
  <2> QED
    BY <1>1, <2>2, <2>3
<1>15. stack' # <<>>
  BY <1>1, <1>7, EmptySeq
<1> QED
  BY <1>1, <1>7, <1>8, <1>12, <1>13, <1>14, <1>15 DEF Chain, new

\* The frame of a new request.
LEMMA StartsChain ==
    ASSUME Chain, NEW of \in Roots, Request(of)
    PROVE  Chain'
<1> DEFINE row == IF of \in {"chat", "stream"} THEN 0 ELSE 1
           new == [NewFrame(of, row) EXCEPT !.phase = IF row = 0 THEN "agent" ELSE "next"]
<1>1. depth = 0 /\ visited = {} /\ pc' = "run" /\ UNCHANGED <<depth, visited>>
  BY DEF Chain, Request
<1>2. of \in Runs /\ MaxCalls \in Nat
  BY NestedRunsAssumption
<1>3. stack' = <<new>>
  BY DEF Request, NewFrame
<1>4. new \in Frame
  BY <1>1, <1>2 DEF NewFrame, Frame
<1> HIDE DEF new
<1>5. stack' \in Seq(Frame) /\ stack' # <<>> /\ Len(stack') = 1
  BY <1>3, <1>4
<1>6. Triggered' = {}
  BY <1>5 DEF Triggered
<1> QED
  BY <1>1, <1>5, <1>6 DEF Chain, GuardFollowsTheChain, NestingIsBounded, FramesRemember

-----------------------------------------------------------------------------
(* Types of the rows *)

LEMMA RowsKeepType ==
    ASSUME NEW seq \in Seq(Row), NEW i \in 1..Len(seq), NEW r \in Row
    PROVE  /\ [seq EXCEPT ![i] = r] \in Seq(Row)
           /\ Len([seq EXCEPT ![i] = r]) = Len(seq)
           /\ \A j \in 1..Len(seq) : [seq EXCEPT ![i] = r][j] = IF j = i THEN r ELSE seq[j]
BY ExceptSeq

-----------------------------------------------------------------------------
(* The rows of the runs on the stack *)

WithinAttempts(r) ==
    \A k \in 1..Len(r.steps) :
        r.steps[k].attempts <= IF r.of = "plan" THEN PlanSteps[k] ELSE 1

\* The row of a run under way: only the step whose agent is awaited is not completed.
Live(r, phase) ==
    /\ r.status = "RUNNING"
    /\ Len(r.steps) <= StepCount(r.of)
    /\ phase = "agent" => Len(r.steps) # 0
    /\ \A k \in 1..Len(r.steps) :
        phase = "next" \/ k # Len(r.steps) => r.steps[k].status = "COMPLETED"
    /\ WithinAttempts(r)

RowIn(f, table) ==
    /\ f.row = 0 => f.of \in {"chat", "stream"} /\ f.phase = "agent"
    /\ f.row # 0 => /\ f.of \notin {"chat", "stream"}
                    /\ f.row \in 1..Len(table)
                    /\ table[f.row].of = f.of
                    /\ Live(table[f.row], f.phase)

FrameHasRow(f) == RowIn(f, rows)

\* While the transaction is good, the unfinished rows are those of the stack.
RowsFollow ==
    /\ \A i \in 1..Len(stack) : FrameHasRow(stack[i])
    /\ \A i, j \in 1..Len(stack) : stack[i].row = stack[j].row => i = j
    /\ \A k \in 1..Len(rows) : Settled(rows[k]) \/ \E i \in 1..Len(stack) : stack[i].row = k
    /\ \A k \in told : k \in 1..Len(rows) /\ rows[k].status = "COMPLETED"

IInv ==
    /\ TypeOK
    /\ Chain
    /\ broken => pc = "run"
    /\ pc = "idle" => rows = <<>> /\ told = {}
    /\ pc \in {"idle", "run"} /\ ~broken => RowsFollow
    /\ CommittedIsSettled
    /\ ToldIsRecorded

\* A frame is not concerned with the other rows.
LEMMA RowKept ==
    ASSUME NEW f, NEW table, NEW other, RowIn(f, table), Len(other) = Len(table),
           f.row \in 1..Len(table) => other[f.row] = table[f.row]
    PROVE  RowIn(f, other)
BY DEF RowIn

\* Rows that are not touched follow the stack as before.
LEMMA RowsSame ==
    ASSUME RowsFollow, UNCHANGED <<stack, rows, told>>
    PROVE  RowsFollow'
<1>1. \A f : FrameHasRow(f) => RowIn(f, rows')
  BY DEF FrameHasRow
<1>2. \A i \in 1..Len(stack) : FrameHasRow(stack[i])'
  BY <1>1 DEF RowsFollow, FrameHasRow
<1>3. \A k \in 1..Len(rows) : Settled(rows'[k]) <=> Settled(rows[k])
  OBVIOUS
<1> QED
  BY <1>2, <1>3 DEF RowsFollow

\* What holds of the run on top.
LEMMA TopRowFacts ==
    ASSUME TypeOK, Chain, RowsFollow, pc = "run", HasRow
    PROVE  /\ Len(stack) \in Nat \ {0} /\ Len(stack) \in 1..Len(stack)
           /\ Top \in Frame
           /\ Top.row \in 1..Len(rows)
           /\ TopRow \in Row /\ TopRow = rows[Top.row]
           /\ TopRow.of = Top.of
           /\ Live(TopRow, Top.phase)
           /\ TopRow.steps \in Seq(StepRow) /\ StepsDone = Len(TopRow.steps) /\ StepsDone \in Nat
           /\ Top.row \notin told
<1>1. stack \in Seq(Frame) /\ stack # <<>>
  BY DEF Chain
<1>2. Len(stack) \in Nat \ {0} /\ Len(stack) \in 1..Len(stack) /\ Top \in Frame
  BY <1>1, TopFrame
<1>3. FrameHasRow(Top)
  BY <1>2 DEF RowsFollow, Top
<1>4. Top.row \in 1..Len(rows) /\ rows[Top.row].of = Top.of /\ Live(rows[Top.row], Top.phase)
  BY <1>3 DEF FrameHasRow, RowIn, HasRow
<1>5. rows[Top.row] \in Row
  BY <1>4, ElementOfSeq DEF TypeOK
<1>6. rows[Top.row].status = "RUNNING"
  BY <1>4 DEF Live
<1>7. Top.row \notin told
  BY <1>6 DEF RowsFollow
<1>8. rows[Top.row].steps \in Seq(StepRow)
  BY <1>5 DEF Row
<1> QED
  BY <1>2, <1>4, <1>5, <1>7, <1>8 DEF TopRow, StepsDone

\* A run that goes on: its row and its frame change together.
LEMMA RunGoesOn ==
    ASSUME TypeOK, Chain, RowsFollow, pc = "run", HasRow,
           NEW phase \in {"next", "agent"}, NEW calls \in 0..MaxCalls, TopTo(phase, calls),
           NEW r \in Row, rows' = [rows EXCEPT ![Top.row] = r],
           r.of = Top.of, Live(r, phase), told' = told
    PROVE  rows' \in Seq(Row) /\ RowsFollow'
<1> DEFINE n == Len(stack)
           t == Top.row
<1>1. /\ n \in Nat \ {0} /\ n \in 1..n
      /\ t \in 1..Len(rows)
      /\ t \notin told
      /\ stack \in Seq(Frame) /\ stack # <<>>
      /\ rows[t].status = "RUNNING"
  BY TopRowFacts DEF Chain, Live
<1>2. /\ rows' \in Seq(Row)
      /\ Len(rows') = Len(rows)
      /\ \A j \in 1..Len(rows) : rows'[j] = IF j = t THEN r ELSE rows[j]
  BY <1>1, RowsKeepType DEF TypeOK
<1>3. /\ Len(stack') = n
      /\ \A i \in 1..n : /\ stack'[i].of = stack[i].of
                         /\ stack'[i].row = stack[i].row
                         /\ i # n => stack'[i] = stack[i]
      /\ stack'[n].phase = phase
  BY <1>1, TopToKeeps
<1>4. stack[n].row = t /\ t # 0 /\ stack[n].of = Top.of
  BY DEF Top, HasRow
<1>5. \A i \in 1..n : FrameHasRow(stack[i])
  BY DEF RowsFollow
<1>6. \A i \in 1..n : i # n => stack[i].row # t
  BY <1>1, <1>4 DEF RowsFollow
<1> HIDE DEF n, t
<1>7. \A i \in 1..n : FrameHasRow(stack[i])'
  <2> TAKE i \in 1..n
  <2>1. CASE i = n
    <3>1. stack'[i].row = t /\ stack'[i].of = r.of /\ stack'[i].phase = phase
      BY <2>1, <1>1, <1>3, <1>4
    <3>2. rows'[t] = r /\ t \in 1..Len(rows')
      BY <1>1, <1>2
    <3>3. r.of \notin {"chat", "stream"}
      BY <1>1, <1>4, <1>5 DEF FrameHasRow, RowIn
    <3> QED
      BY <3>1, <3>2, <3>3, <1>4 DEF FrameHasRow, RowIn, Live, WithinAttempts, StepCount
  <2>2. CASE i # n
    <3>1. stack'[i] = stack[i] /\ stack[i].row # t
      BY <2>2, <1>3, <1>6
    <3>2. stack[i].row \in 1..Len(rows) => rows'[stack[i].row] = rows[stack[i].row]
      BY <3>1, <1>2
    <3> QED
      BY <3>1, <3>2, <1>2, <1>5, RowKept DEF FrameHasRow
  <2> QED
    BY <2>1, <2>2
<1>8. \A i, j \in 1..n : stack'[i].row = stack'[j].row => i = j
  BY <1>3 DEF RowsFollow, n
<1>9. \A k \in 1..Len(rows) : Settled(rows'[k]) \/ \E i \in 1..n : stack'[i].row = k
  <2> TAKE k \in 1..Len(rows)
  <2>1. CASE k = t
    BY <2>1, <1>1, <1>3, <1>4
  <2>2. CASE k # t
    <3>1. rows'[k] = rows[k]
      BY <2>2, <1>2
    <3>2. Settled(rows[k]) \/ \E i \in 1..n : stack[i].row = k
      BY DEF RowsFollow, n
    <3> QED
      BY <3>1, <3>2, <1>3
  <2> QED
    BY <2>1, <2>2
<1>10. \A k \in told : k \in 1..Len(rows) /\ rows'[k].status = "COMPLETED"
  BY <1>1, <1>2 DEF RowsFollow
<1> QED
  BY <1>2, <1>3, <1>7, <1>8, <1>9, <1>10 DEF RowsFollow, Settled, StepCount

\* A nested run that ends: its row is settled, and its frame is gone.
LEMMA RunLeaves ==
    ASSUME TypeOK, Chain, RowsFollow, pc = "run", HasRow, Leave,
           NEW r \in Row, rows' = [rows EXCEPT ![Top.row] = r], Settled(r),
           \/ told' = told
           \/ r.status = "COMPLETED" /\ told' = told \cup {Top.row}
    PROVE  rows' \in Seq(Row) /\ told' \subseteq Nat /\ RowsFollow'
<1> DEFINE n == Len(stack)
           t == Top.row
<1>1. /\ n \in Nat \ {0} /\ n \in 1..n
      /\ t \in 1..Len(rows) /\ t \in Nat
      /\ t \notin told
  BY TopRowFacts DEF Frame
<1>2. /\ rows' \in Seq(Row)
      /\ Len(rows') = Len(rows)
      /\ \A j \in 1..Len(rows) : rows'[j] = IF j = t THEN r ELSE rows[j]
  BY <1>1, RowsKeepType DEF TypeOK
<1>3. Len(stack') = n - 1 /\ \A i \in 1..(n - 1) : stack'[i] = stack[i]
  BY LeavesChain
<1>4. stack[n].row = t
  BY DEF Top
<1>5. told' \subseteq Nat
  BY <1>1 DEF TypeOK
<1>6. \A i \in 1..n : FrameHasRow(stack[i])
  BY DEF RowsFollow
<1>7. \A i \in 1..n : i # n => stack[i].row # t
  BY <1>1, <1>4 DEF RowsFollow
<1>8. \A i, j \in 1..n : stack[i].row = stack[j].row => i = j
  BY DEF RowsFollow
<1>9. \A k \in 1..Len(rows) : Settled(rows[k]) \/ \E i \in 1..n : stack[i].row = k
  BY DEF RowsFollow
<1>10. \A k \in told : k \in 1..Len(rows) /\ rows[k].status = "COMPLETED"
  BY DEF RowsFollow
<1> HIDE DEF n, t
<1>11. 1..(n - 1) = (1..n) \ {n}
  BY <1>1
<1>12. \A i \in 1..(n - 1) : FrameHasRow(stack[i])'
  <2> TAKE i \in 1..(n - 1)
  <2>1. stack'[i] = stack[i] /\ stack[i].row # t /\ i \in 1..n
    BY <1>3, <1>7, <1>11
  <2>2. stack[i].row \in 1..Len(rows) => rows'[stack[i].row] = rows[stack[i].row]
    BY <2>1, <1>2
  <2> QED
    BY <2>1, <2>2, <1>2, <1>6, RowKept DEF FrameHasRow
<1>13. \A k \in 1..Len(rows) : Settled(rows'[k]) \/ \E i \in 1..(n - 1) : stack'[i].row = k
  <2> TAKE k \in 1..Len(rows)
  <2>1. CASE k = t
    BY <2>1, <1>1, <1>2
  <2>2. CASE k # t
    <3>1. rows'[k] = rows[k]
      BY <2>2, <1>2
    <3>2. Settled(rows[k]) \/ \E i \in (1..n) \ {n} : stack[i].row = k
      BY <2>2, <1>4, <1>9
    <3> QED
      BY <3>1, <3>2, <1>3, <1>11
  <2> QED
    BY <2>1, <2>2
<1>14. \A k \in told' : k \in 1..Len(rows) /\ rows'[k].status = "COMPLETED"
  BY <1>1, <1>2, <1>10
<1>15. \A i, j \in 1..(n - 1) : stack'[i].row = stack'[j].row => i = j
  BY <1>3, <1>8, <1>11
<1> QED
  BY <1>2, <1>3, <1>5, <1>12, <1>13, <1>14, <1>15 DEF RowsFollow, Settled, StepCount

\* A workflow that is started: a row and a frame more.
LEMMA RunStarts ==
    ASSUME TypeOK, Chain, RowsFollow, pc = "run",
           NEW w \in Workflows, trigger_workflow(w)
    PROVE  Chain' /\ rows' \in Seq(Row) /\ RowsFollow'
<1> DEFINE n == Len(stack)
           m == Len(rows)
           row == NewRow(w)
<1>1. /\ Chain'
      /\ Len(stack') = n + 1
      /\ stack'[n + 1] = NewFrame(w, m + 1)
      /\ \A i \in 1..n : /\ stack'[i].of = stack[i].of
                         /\ stack'[i].row = stack[i].row
                         /\ stack'[i].phase = stack[i].phase
  BY PushesChain DEF trigger_workflow, Calls, TypeOK
<1>2. n \in Nat \ {0} /\ m \in Nat /\ rows \in Seq(Row)
  BY TopFrame DEF Chain, TypeOK
<1>3. row \in Row
  BY DEF NewRow, Row, Runs
<1>4. row.of = w /\ row.status = "RUNNING" /\ row.steps = <<>>
  BY DEF NewRow
<1>5. stack'[n + 1].of = w /\ stack'[n + 1].row = m + 1 /\ stack'[n + 1].phase = "next"
  BY <1>1 DEF NewFrame
<1> HIDE DEF row
<1>6. /\ rows' \in Seq(Row)
      /\ Len(rows') = m + 1
      /\ \A k \in 1..m : rows'[k] = rows[k]
      /\ rows'[m + 1] = row
  BY <1>2, <1>3, AppendProperties DEF trigger_workflow, row
<1>7. \A i \in 1..n : FrameHasRow(stack[i])
  BY DEF RowsFollow
<1>8. \A i, j \in 1..n : stack[i].row = stack[j].row => i = j
  BY DEF RowsFollow
<1>9. \A k \in 1..m : Settled(rows[k]) \/ \E i \in 1..n : stack[i].row = k
  BY DEF RowsFollow
<1>10. \A k \in told' : k \in 1..m /\ rows[k].status = "COMPLETED"
  BY DEF RowsFollow, trigger_workflow
<1> HIDE DEF n, m
<1>11. /\ \A i \in 1..(n + 1) : i = n + 1 \/ i \in 1..n
       /\ \A k \in 1..(m + 1) : k = m + 1 \/ k \in 1..m
       /\ \A k \in 1..m : k \in 1..(m + 1) /\ k # m + 1
       /\ n + 1 \in 1..(n + 1) /\ m + 1 \in 1..(m + 1) /\ m + 1 # 0
       /\ \A i \in 1..n : i \in 1..(n + 1)
  BY <1>2
<1>12. \A i \in 1..(n + 1) : FrameHasRow(stack[i])'
  <2> TAKE i \in 1..(n + 1)
  <2>1. CASE i = n + 1
    <3>1. w \notin {"chat", "stream"}
      BY NestedRunsAssumption DEF Forms
    <3>2. Live(row, "next")
      <4>1. StepCount(w) \in Nat
        BY StepCountType DEF Runs
      <4>2. Len(row.steps) = 0
        BY <1>4, EmptySeq
      <4> QED
        BY <1>4, <4>1, <4>2 DEF Live, WithinAttempts
    <3>3. Live(rows'[m + 1], stack'[i].phase)
      BY <2>1, <3>2, <1>5, <1>6
    <3> QED
      BY <2>1, <3>1, <3>3, <1>4, <1>5, <1>6, <1>11
         DEF FrameHasRow, RowIn, Live, WithinAttempts, StepCount
  <2>2. CASE i \in 1..n
    <3>1. stack[i].row \in 1..m => /\ rows'[stack[i].row] = rows[stack[i].row]
                                   /\ stack[i].row \in 1..(m + 1)
      BY <1>6, <1>11
    <3>2. FrameHasRow(stack[i])
      BY <2>2, <1>7
    <3>3. /\ stack'[i].of = stack[i].of
          /\ stack'[i].row = stack[i].row
          /\ stack'[i].phase = stack[i].phase
      BY <2>2, <1>1
    <3> QED
      BY <3>1, <3>2, <3>3, <1>6 DEF FrameHasRow, RowIn, Live, WithinAttempts, StepCount, m
  <2> QED
    BY <2>1, <2>2, <1>11
<1>13. \A i, j \in 1..(n + 1) : stack'[i].row = stack'[j].row => i = j
  <2>1. \A i \in 1..n : stack'[i].row # m + 1
    BY <1>1, <1>2, <1>7 DEF FrameHasRow, RowIn, m
  <2> QED
    BY <2>1, <1>1, <1>5, <1>8, <1>11
<1>14. \A k \in 1..(m + 1) : Settled(rows'[k]) \/ \E i \in 1..(n + 1) : stack'[i].row = k
  BY <1>1, <1>5, <1>6, <1>9, <1>11
<1>15. \A k \in told' : k \in 1..(m + 1) /\ rows'[k].status = "COMPLETED"
  BY <1>6, <1>10, <1>11
<1> QED
  BY <1>1, <1>6, <1>12, <1>13, <1>14, <1>15 DEF RowsFollow, Settled, StepCount

\* A chat has no frame below, so nothing is unfinished but its own turn.
LEMMA ChatIsAlone ==
    ASSUME TypeOK, Chain, RowsFollow, pc = "run", ~HasRow \/ Top.of = "stream"
    PROVE  \A k \in 1..Len(rows) : Settled(rows[k])
<1>1. stack \in Seq(Frame) /\ Len(stack) \in Nat \ {0} /\ Len(stack) \in 1..Len(stack)
  BY TopFrame DEF Chain
<1>2. FrameHasRow(Top)
  BY <1>1 DEF RowsFollow, Top
<1>3. Top.of \in {"chat", "stream"}
  BY <1>2 DEF FrameHasRow, RowIn, HasRow
<1>4. Top.of \notin Workflows
  BY <1>3, NestedRunsAssumption DEF Forms
<1>5. Len(stack) = 1
  <2>1. Len(stack) \notin Triggered
    BY <1>4 DEF Chain, FramesRemember, Top
  <2> DEFINE n == Len(stack)
  <2>2. n \in Nat \ {0} /\ n \notin 2..n
    BY <1>1, <2>1 DEF Triggered
  <2> HIDE DEF n
  <2>3. n = 1
    BY <2>2
  <2> QED
    BY <2>3 DEF n
<1>6. Top.row = 0
  BY <1>2, <1>3 DEF FrameHasRow, RowIn
<1>7. \A i \in 1..Len(stack) : stack[i].row = 0
  BY <1>1, <1>5, <1>6 DEF Top
<1> QED
  BY <1>7, <1>1 DEF RowsFollow, TypeOK

\* A request with a row of its own ends when no other is unfinished.
LEMMA RootIsAlone ==
    ASSUME TypeOK, Chain, RowsFollow, pc = "run", HasRow, ~Nested,
           NEW r \in Row, Settled(r)
    PROVE  LET done == [rows EXCEPT ![Top.row] = r]
           IN  /\ done \in Seq(Row)
               /\ \A k \in 1..Len(done) : Settled(done[k])
               /\ \A k \in told : k <= Len(done) /\ done[k].status = "COMPLETED"
<1> DEFINE t == Top.row
           done == [rows EXCEPT ![t] = r]
<1>1. /\ Len(stack) \in Nat \ {0}
      /\ t \in 1..Len(rows)
      /\ t \notin told
  BY TopRowFacts
<1>2. Len(stack) = 1
  <2> DEFINE n == Len(stack)
  <2>1. n \in Nat \ {0} /\ ~(n > 1)
    BY <1>1 DEF Nested
  <2> HIDE DEF n
  <2>2. n = 1
    BY <2>1
  <2> QED
    BY <2>2 DEF n
<1>3. /\ done \in Seq(Row)
      /\ Len(done) = Len(rows)
      /\ \A j \in 1..Len(rows) : done[j] = IF j = t THEN r ELSE rows[j]
  BY <1>1, RowsKeepType DEF TypeOK
<1>4. \A i \in 1..Len(stack) : stack[i].row = t
  BY <1>2 DEF Top
<1>5. \A k \in 1..Len(rows) : k # t => Settled(rows[k])
  BY <1>4 DEF RowsFollow
<1>6. \A k \in told : k \in 1..Len(rows) /\ rows[k].status = "COMPLETED"
  BY DEF RowsFollow
<1> HIDE DEF done, t
<1>7. \A k \in 1..Len(done) : Settled(done[k])
  BY <1>3, <1>5
<1>8. \A k \in told : k <= Len(done) /\ done[k].status = "COMPLETED"
  BY <1>1, <1>3, <1>6
<1> QED
  BY <1>3, <1>7, <1>8 DEF done, t

\* What the end of a run makes of a row that was under way.
LEMMA RowCompletes ==
    ASSUME NEW r \in Row, Live(r, "next"), Len(r.steps) = StepCount(r.of)
    PROVE  LET done == [r EXCEPT !.status = "COMPLETED"]
           IN  done \in Row /\ done.status = "COMPLETED" /\ Settled(done)
BY DEF Row, Live, WithinAttempts, Settled, StepCount

LEMMA RowFails ==
    ASSUME NEW r \in Row, Live(r, "agent")
    PROVE  LET n == Len(r.steps)
               failed == [r EXCEPT !.steps = [@ EXCEPT ![n] = [r.steps[n] EXCEPT !.status = "FAILED"]],
                                   !.status = "FAILED"]
           IN  failed \in Row /\ Settled(failed)
<1> DEFINE n == Len(r.steps)
           last == [r.steps[n] EXCEPT !.status = "FAILED"]
           steps == [r.steps EXCEPT ![n] = last]
           failed == [r EXCEPT !.steps = steps, !.status = "FAILED"]
<1>1. r.steps \in Seq(StepRow) /\ n \in Nat /\ n # 0 /\ n \in 1..n
  BY DEF Row, Live
<1>2. r.steps[n] \in StepRow
  BY <1>1, ElementOfSeq
<1>3. last \in StepRow /\ last.status = "FAILED" /\ last.attempts = r.steps[n].attempts
  BY <1>2 DEF StepRow
<1> HIDE DEF last
<1>4. /\ steps \in Seq(StepRow)
      /\ Len(steps) = n
      /\ \A k \in 1..n : steps[k] = IF k = n THEN last ELSE r.steps[k]
  BY <1>1, <1>3, ExceptSeq
<1> HIDE DEF steps
<1>5. failed \in Row /\ failed.of = r.of /\ failed.status = "FAILED" /\ failed.steps = steps
  BY <1>4 DEF Row
<1> HIDE DEF failed
<1>6. \A k \in 1..n : /\ k # n => r.steps[k].status = "COMPLETED"
                     /\ r.steps[k].attempts <= IF r.of = "plan" THEN PlanSteps[k] ELSE 1
  BY DEF Live, WithinAttempts
<1>7. Settled(failed)
  BY <1>1, <1>3, <1>4, <1>5, <1>6 DEF Settled
<1> QED
  BY <1>5, <1>7 DEF failed, steps, last

-----------------------------------------------------------------------------
(* One lemma for each action *)

\* What is left to show when the request goes on.
LEMMA RequestGoesOn ==
    ASSUME IInv, pc' = "run", Chain', rows' \in Seq(Row), told' \subseteq Nat,
           broken' \in BOOLEAN, ~broken' => RowsFollow',
           db' \in Seq(Row), CommittedIsSettled'
    PROVE  IInv'
<1>1. stack' \in Seq(Frame) /\ Len(stack') \in Nat \ {0}
  BY EmptySeq DEF Chain
<1>2. depth' \in Nat
  BY <1>1 DEF Chain, GuardFollowsTheChain
<1>3. visited' \subseteq Workflows
  BY DEF Chain, GuardFollowsTheChain, FramesRemember
<1>4. TypeOK'
  BY <1>1, <1>2, <1>3 DEF TypeOK
<1> QED
  BY <1>4 DEF IInv, ToldIsRecorded

\* What is left to show when it ends.
LEMMA RequestOver ==
    ASSUME IInv, NEW label \in Over, End(label), rows' \in Seq(Row), db' \in Seq(Row),
           broken' = FALSE, told' = told, CommittedIsSettled',
           label = "answered" => \A i \in told : i <= Len(db') /\ db'[i].status = "COMPLETED"
    PROVE  IInv'
<1>1. Chain'
  BY EndsChain DEF IInv
<1>2. TypeOK'
  <2>1. /\ pc' \in {"idle", "run"} \cup Over
        /\ stack' = <<>> /\ depth' = 0 /\ visited' = {}
    BY DEF End
  <2>2. told \subseteq Nat
    BY DEF IInv, TypeOK
  <2>3. <<>> \in Seq(Frame) /\ 0 \in Nat /\ FALSE \in BOOLEAN /\ {} \subseteq Workflows
    OBVIOUS
  <2> QED
    BY <2>1, <2>2, <2>3, Zenon DEF TypeOK
<1>3. pc' = label /\ pc' \notin {"idle", "run"}
  BY DEF End, Over
<1> QED
  BY <1>1, <1>2, <1>3 DEF IInv, ToldIsRecorded

LEMMA InitInv == Init => IInv
<1> SUFFICES ASSUME Init PROVE IInv
  OBVIOUS
<1>1. TypeOK
  <2>1. <<>> \in Seq(Frame) /\ <<>> \in Seq(Row)
    OBVIOUS
  <2> QED
    BY <2>1, Zenon DEF Init, TypeOK
<1>2. Chain
  <2>1. Triggered = {}
    BY DEF Init, Triggered
  <2>2. <<>> \in Seq(Frame)
    OBVIOUS
  <2> QED
    BY <2>1, <2>2 DEF Init, Chain, GuardFollowsTheChain, NestingIsBounded, FramesRemember
<1>3. RowsFollow
  BY DEF Init, RowsFollow
<1> QED
  BY <1>1, <1>2, <1>3 DEF Init, IInv, CommittedIsSettled, ToldIsRecorded

LEMMA RequestInv ==
    ASSUME IInv, NEW of \in Roots, Request(of)
    PROVE  IInv'
<1> DEFINE chat == of \in {"chat", "stream"}
           row == IF chat THEN 0 ELSE 1
<1>1. /\ rows = <<>> /\ told = {} /\ ~broken
      /\ of \in Runs
      /\ UNCHANGED <<broken, db, told>> /\ pc' = "run"
  BY NestedRunsAssumption DEF IInv, Request
<1>2. Chain'
  BY StartsChain DEF IInv
<1>3. /\ Len(stack') = 1 /\ stack'[1].of = of /\ stack'[1].row = row
      /\ stack'[1].phase = IF chat THEN "agent" ELSE "next"
  BY DEF Request, NewFrame
<1>4. rows' = IF chat THEN <<>> ELSE <<NewRow(of)>>
  BY <1>1 DEF Request
<1>5. NewRow(of) \in Row /\ NewRow(of).of = of
  BY <1>1 DEF NewRow, Row
<1>6. Live(NewRow(of), "next")
  <2>1. StepCount(of) \in Nat
    BY <1>1, StepCountType
  <2>2. NewRow(of).status = "RUNNING" /\ Len(NewRow(of).steps) = 0 /\ NewRow(of).of = of
    BY DEF NewRow
  <2> QED
    BY <2>1, <2>2 DEF Live, WithinAttempts
<1> HIDE DEF chat
<1>7. rows' \in Seq(Row)
  BY <1>4, <1>5
<1>8. \A i \in 1..1 : FrameHasRow(stack[i])'
  <2>1. CASE chat
    BY <2>1, <1>3 DEF FrameHasRow, RowIn, chat
  <2>2. CASE ~chat
    <3>1. Len(rows') = 1 /\ rows'[1] = NewRow(of)
      BY <2>2, <1>4
    <3>2. FrameHasRow(stack[1])'
      BY <2>2, <3>1, <1>3, <1>5, <1>6 DEF FrameHasRow, RowIn, Live, WithinAttempts, StepCount, chat
    <3> QED
      BY <3>2
  <2> QED
    BY <2>1, <2>2
<1>9. \A k \in 1..Len(rows') : stack'[1].row = k
  <2>1. CASE chat
    BY <2>1, <1>4
  <2>2. CASE ~chat
    BY <2>2, <1>3, <1>4
  <2> QED
    BY <2>1, <2>2
<1>10. RowsFollow'
  <2>1. \A i \in 1..Len(stack') : i = 1
    BY <1>3
  <2>2. 1 \in 1..Len(stack')
    BY <1>3
  <2> QED
    BY <2>1, <2>2, <1>1, <1>3, <1>8, <1>9 DEF RowsFollow
<1>11. db' \in Seq(Row) /\ CommittedIsSettled' /\ told' \subseteq Nat /\ broken' \in BOOLEAN
  BY <1>1 DEF IInv, TypeOK, CommittedIsSettled, Settled, StepCount
<1> QED
  BY <1>1, <1>2, <1>7, <1>10, <1>11, RequestGoesOn

\* What its steps make of the row of a run.
LEMMA RowStarts ==
    ASSUME NEW r \in Row, Live(r, "next"), Len(r.steps) < StepCount(r.of)
    PROVE  LET more == [r EXCEPT !.steps = Append(@, [status |-> "RUNNING", attempts |-> 1])]
           IN  more \in Row /\ more.of = r.of /\ Live(more, "agent")
<1> DEFINE n == Len(r.steps)
           step == [status |-> "RUNNING", attempts |-> 1]
           steps == Append(r.steps, step)
           more == [r EXCEPT !.steps = steps]
<1>1. r.steps \in Seq(StepRow) /\ n \in Nat /\ r.of \in Runs
  BY DEF Row
<1>2. step \in StepRow /\ step.attempts = 1
  BY DEF StepRow
<1> HIDE DEF step
<1>3. /\ steps \in Seq(StepRow)
      /\ Len(steps) = n + 1
      /\ \A k \in 1..n : steps[k] = r.steps[k]
      /\ steps[n + 1] = step
  BY <1>1, <1>2, AppendProperties
<1> HIDE DEF steps
<1>4. more \in Row /\ more.of = r.of /\ more.status = r.status /\ more.steps = steps
  BY <1>3 DEF Row
<1> HIDE DEF more
<1>5. 1 <= IF r.of = "plan" THEN PlanSteps[n + 1] ELSE 1
  <2>1. CASE r.of = "plan"
    <3>1. n + 1 \in 1..Len(PlanSteps)
      BY <2>1, <1>1, NestedRunsAssumption DEF StepCount
    <3>2. PlanSteps[n + 1] \in Nat \ {0}
      BY <3>1, NestedRunsAssumption, ElementOfSeq
    <3> QED
      BY <3>2, <2>1
  <2> QED
    BY <2>1
<1>6. n + 1 <= StepCount(r.of)
  BY <1>1, StepCountType
<1>7. \A k \in 1..n : /\ r.steps[k].status = "COMPLETED"
                     /\ r.steps[k].attempts <= IF r.of = "plan" THEN PlanSteps[k] ELSE 1
  BY DEF Live, WithinAttempts
<1>8. \A k \in 1..(n + 1) : k \in 1..n \/ k = n + 1
  BY <1>1
<1>9. Live(more, "agent")
  <2>1. r.status = "RUNNING" /\ n + 1 # 0
    BY <1>1 DEF Live
  <2>2. WithinAttempts(more)
    BY <1>2, <1>3, <1>4, <1>5, <1>7, <1>8 DEF WithinAttempts
  <2>3. \A k \in 1..(n + 1) : k # n + 1 => steps[k].status = "COMPLETED"
    BY <1>3, <1>7, <1>8
  <2> QED
    BY <2>1, <2>2, <2>3, <1>3, <1>4, <1>6 DEF Live
<1> QED
  BY <1>4, <1>9 DEF more, steps, step

\* The step whose agent is awaited gets another status and number of attempts.
LEMMA RowStepChanges ==
    ASSUME NEW r \in Row, Live(r, "agent"),
           NEW step \in StepRow, NEW phase \in {"next", "agent"},
           phase = "next" => step.status = "COMPLETED",
           step.attempts <= IF r.of = "plan" THEN PlanSteps[Len(r.steps)] ELSE 1
    PROVE  LET more == [r EXCEPT !.steps = [@ EXCEPT ![Len(r.steps)] = step]]
           IN  more \in Row /\ more.of = r.of /\ Live(more, phase)
<1> DEFINE n == Len(r.steps)
           steps == [r.steps EXCEPT ![n] = step]
           more == [r EXCEPT !.steps = steps]
<1>1. r.steps \in Seq(StepRow) /\ n \in Nat /\ n # 0 /\ n \in 1..n /\ n <= StepCount(r.of)
  BY DEF Row, Live
<1>2. /\ steps \in Seq(StepRow)
      /\ Len(steps) = n
      /\ \A k \in 1..n : steps[k] = IF k = n THEN step ELSE r.steps[k]
  BY <1>1, ExceptSeq
<1> HIDE DEF steps
<1>3. more \in Row /\ more.of = r.of /\ more.status = r.status /\ more.steps = steps
  BY <1>2 DEF Row
<1> HIDE DEF more
<1>4. \A k \in 1..n : /\ k # n => r.steps[k].status = "COMPLETED"
                     /\ r.steps[k].attempts <= IF r.of = "plan" THEN PlanSteps[k] ELSE 1
  BY DEF Live, WithinAttempts
<1>5. WithinAttempts(more)
  BY <1>2, <1>3, <1>4 DEF WithinAttempts
<1>6. \A k \in 1..n : phase = "next" \/ k # n => steps[k].status = "COMPLETED"
  BY <1>2, <1>4
<1>7. Live(more, phase)
  BY <1>1, <1>2, <1>3, <1>5, <1>6 DEF Live
<1> QED
  BY <1>3, <1>7 DEF more, steps

LEMMA StartStepInv ==
    ASSUME IInv, StartStep
    PROVE  IInv'
<1> DEFINE r == [TopRow EXCEPT !.steps = Append(@, [status |-> "RUNNING", attempts |-> 1])]
<1>1. TypeOK /\ Chain /\ RowsFollow /\ pc = "run" /\ ~broken /\ Top.phase = "next"
  BY DEF IInv, StartStep, At
<1>2. HasRow
  <2>1. Len(stack) \in 1..Len(stack)
    BY <1>1, TopFrame DEF Chain
  <2> QED
    BY <2>1, <1>1 DEF RowsFollow, FrameHasRow, RowIn, HasRow, Top
<1>3. /\ Top.row \in 1..Len(rows) /\ TopRow \in Row /\ TopRow.of = Top.of
      /\ Live(TopRow, "next") /\ TopRow = rows[Top.row]
      /\ Len(TopRow.steps) = StepsDone
  BY <1>1, <1>2, TopRowFacts
<1>4. r \in Row /\ r.of = Top.of /\ Live(r, "agent")
  BY <1>3, RowStarts DEF StartStep
<1>5. rows' = [rows EXCEPT ![Top.row] = r]
  BY <1>3 DEF StartStep, TypeOK
<1>6. TopTo("agent", 0) /\ 0 \in 0..MaxCalls /\ UNCHANGED <<pc, depth, visited, broken, db, told>>
  BY NestedRunsAssumption DEF StartStep
<1> HIDE DEF r
<1>7. rows' \in Seq(Row) /\ RowsFollow'
  BY <1>1, <1>2, <1>4, <1>5, <1>6, RunGoesOn
<1>8. Chain'
  BY <1>1, <1>6, TopToKeeps, SameFrames DEF Chain
<1> QED
  BY <1>1, <1>6, <1>7, <1>8, RequestGoesOn DEF IInv, TypeOK, CommittedIsSettled, Settled, StepCount

\* What is committed stays settled.
LEMMA CommittedStays ==
    ASSUME IInv, UNCHANGED db
    PROVE  db' \in Seq(Row) /\ CommittedIsSettled'
BY DEF IInv, TypeOK, CommittedIsSettled, Settled, StepCount

\* A step of a run that goes on, from what it makes of its row.
LEMMA GoesOnInv ==
    ASSUME IInv, At("agent"), HasRow,
           NEW phase \in {"next", "agent"}, TopTo(phase, 0),
           NEW step \in StepRow, phase = "next" => step.status = "COMPLETED",
           step.attempts <= IF Top.of = "plan" THEN PlanSteps[StepsDone] ELSE 1,
           rows' = [rows EXCEPT ![Top.row].steps[StepsDone] = step],
           UNCHANGED <<pc, depth, visited, broken, db, told>>
    PROVE  IInv'
<1> DEFINE r == [TopRow EXCEPT !.steps = [@ EXCEPT ![Len(TopRow.steps)] = step]]
<1>1. TypeOK /\ Chain /\ RowsFollow /\ pc = "run" /\ ~broken
  BY DEF IInv, At
<1>2. /\ Top.row \in 1..Len(rows) /\ TopRow \in Row /\ TopRow.of = Top.of
      /\ Live(TopRow, "agent") /\ TopRow = rows[Top.row]
      /\ Len(TopRow.steps) = StepsDone
  BY <1>1, TopRowFacts DEF At
<1>3. r \in Row /\ r.of = Top.of /\ Live(r, phase)
  BY <1>2, RowStepChanges
<1>4. rows' = [rows EXCEPT ![Top.row] = r]
  BY <1>2 DEF TypeOK
<1>5. 0 \in 0..MaxCalls
  BY NestedRunsAssumption
<1> HIDE DEF r
<1>6. rows' \in Seq(Row) /\ RowsFollow'
  BY <1>1, <1>3, <1>4, <1>5, RunGoesOn
<1>7. Chain'
  BY <1>1, <1>5, TopToKeeps, SameFrames DEF Chain
<1>8. told' \subseteq Nat /\ broken' \in BOOLEAN
  BY DEF IInv, TypeOK
<1> QED
  BY <1>1, <1>6, <1>7, <1>8, CommittedStays, RequestGoesOn

\* The step of the run on top that its agent is at.
LEMMA TopStep ==
    ASSUME IInv, At("agent"), HasRow
    PROVE  LET s == TopRow.steps[StepsDone]
           IN  /\ s \in StepRow
               /\ s.attempts <= IF Top.of = "plan" THEN PlanSteps[StepsDone] ELSE 1
<1>1. TypeOK /\ Chain /\ RowsFollow /\ pc = "run"
  BY DEF IInv, At
<1>2. /\ TopRow.of = Top.of /\ Live(TopRow, "agent")
      /\ TopRow.steps \in Seq(StepRow) /\ StepsDone = Len(TopRow.steps) /\ StepsDone \in Nat
  BY <1>1, TopRowFacts DEF At
<1>3. StepsDone \in 1..Len(TopRow.steps)
  BY <1>2 DEF Live
<1> QED
  BY <1>2, <1>3, ElementOfSeq DEF Live, WithinAttempts

LEMMA StepCompletedInv ==
    ASSUME IInv, StepCompleted
    PROVE  IInv'
<1> DEFINE s == TopRow.steps[StepsDone]
           step == [s EXCEPT !.status = "COMPLETED"]
<1>1. At("agent") /\ HasRow /\ TopTo("next", 0)
  BY DEF StepCompleted
<1>2. s \in StepRow /\ s.attempts <= IF Top.of = "plan" THEN PlanSteps[StepsDone] ELSE 1
  BY <1>1, TopStep
<1>3. step \in StepRow /\ step.status = "COMPLETED" /\ step.attempts = s.attempts
  BY <1>2 DEF StepRow
<1>4. TypeOK /\ Chain /\ RowsFollow /\ pc = "run"
  BY <1>1 DEF IInv, At
<1>5. Top.row \in 1..Len(rows) /\ TopRow = rows[Top.row] /\ TopRow \in Row
  BY <1>1, <1>4, TopRowFacts
<1>6. rows' = [rows EXCEPT ![Top.row].steps[StepsDone] = step]
  BY DEF StepCompleted, TopRow
<1>7. step.attempts <= IF Top.of = "plan" THEN PlanSteps[StepsDone] ELSE 1
  BY <1>2, <1>3
<1> HIDE DEF step, s
<1> QED
  BY <1>1, <1>3, <1>6, <1>7, GoesOnInv DEF StepCompleted

LEMMA RetryInv ==
    ASSUME IInv, Retry
    PROVE  IInv'
<1> DEFINE s == TopRow.steps[StepsDone]
           step == [status |-> "RETRYING", attempts |-> s.attempts + 1]
<1>1. At("agent") /\ HasRow /\ TopTo("agent", 0)
  BY DEF Retry, CanRetry
<1>2. s \in StepRow
  BY <1>1, TopStep
<1>3. step \in StepRow /\ step.attempts = s.attempts + 1
  BY <1>2 DEF StepRow
<1>4. s.attempts \in Nat /\ s.attempts < Attempts
  BY <1>2 DEF StepRow, Retry, CanRetry
<1>5. Attempts \in Nat
  <2>1. CASE Top.of = "plan"
    <3>1. TypeOK /\ Chain /\ RowsFollow /\ pc = "run"
      BY <1>1 DEF IInv, At
    <3>2. TopRow.of = "plan" /\ Live(TopRow, "agent") /\ StepsDone = Len(TopRow.steps) /\ StepsDone \in Nat
      BY <1>1, <2>1, <3>1, TopRowFacts DEF At
    <3>3. StepsDone \in 1..Len(PlanSteps)
      BY <3>2, NestedRunsAssumption DEF Live, StepCount
    <3>4. PlanSteps[StepsDone] \in Nat
      BY <3>3, NestedRunsAssumption, ElementOfSeq
    <3> QED
      BY <2>1, <3>4 DEF Attempts
  <2> QED
    BY <2>1 DEF Attempts
<1>6. step.attempts <= IF Top.of = "plan" THEN PlanSteps[StepsDone] ELSE 1
  <2>1. s.attempts + 1 <= Attempts
    BY <1>4, <1>5
  <2> QED
    BY <2>1, <1>3 DEF Attempts
<1>7. rows' = [rows EXCEPT ![Top.row].steps[StepsDone] = step]
  BY DEF Retry, TopRow
<1> HIDE DEF step, s
<1> QED
  BY <1>1, <1>3, <1>6, <1>7, GoesOnInv DEF Retry

LEMMA RunCompletedInv ==
    ASSUME IInv, RunCompleted
    PROVE  IInv'
<1> DEFINE r == [TopRow EXCEPT !.status = "COMPLETED"]
           done == [rows EXCEPT ![Top.row] = r]
<1>1. TypeOK /\ Chain /\ RowsFollow /\ pc = "run" /\ ~broken /\ Top.phase = "next"
  BY DEF IInv, RunCompleted, At
<1>2. HasRow
  <2>1. Len(stack) \in 1..Len(stack)
    BY <1>1, TopFrame DEF Chain
  <2> QED
    BY <2>1, <1>1 DEF RowsFollow, FrameHasRow, RowIn, HasRow, Top
<1>3. /\ Top.row \in 1..Len(rows) /\ TopRow \in Row /\ TopRow.of = Top.of
      /\ Live(TopRow, "next") /\ TopRow = rows[Top.row]
      /\ Len(TopRow.steps) = StepsDone
  BY <1>1, <1>2, TopRowFacts
<1>4. r \in Row /\ r.status = "COMPLETED" /\ Settled(r)
  BY <1>3, RowCompletes DEF RunCompleted
<1>5. [rows EXCEPT ![Top.row].status = "COMPLETED"] = done
  BY <1>3 DEF TypeOK
<1>6. CASE Leave /\ rows' = done /\ told' = told \cup {Top.row}
  <2>1. rows' \in Seq(Row) /\ told' \subseteq Nat /\ RowsFollow'
    <3> HIDE DEF r
    <3> QED
      BY <1>1, <1>2, <1>4, <1>6, RunLeaves
  <2>2. Chain'
    BY <1>1, <1>6, LeavesChain
  <2>3. UNCHANGED <<pc, broken, db>>
    BY <1>6 DEF Leave
  <2>4. broken' \in BOOLEAN
    BY <2>3 DEF IInv, TypeOK
  <2> QED
    BY <1>1, <2>1, <2>2, <2>3, <2>4, CommittedStays, RequestGoesOn
<1>7. CASE /\ ~Nested /\ End("answered")
           /\ rows' = done /\ db' = done /\ UNCHANGED <<broken, told>>
  <2>1. /\ done \in Seq(Row)
        /\ \A k \in 1..Len(done) : Settled(done[k])
        /\ \A k \in told : k <= Len(done) /\ done[k].status = "COMPLETED"
    <3> HIDE DEF r
    <3> QED
      BY <1>1, <1>2, <1>4, <1>7, RootIsAlone
  <2> HIDE DEF done
  <2>2. CommittedIsSettled'
    BY <2>1, <1>7 DEF CommittedIsSettled, Settled, StepCount
  <2>3. broken' = FALSE /\ "answered" \in Over
    BY <1>1, <1>7 DEF Over, TypeOK
  <2> QED
    BY <1>7, <2>1, <2>2, <2>3, RequestOver
<1> QED
  BY <1>5, <1>6, <1>7 DEF RunCompleted

\* A request that fails is rolled back to what is committed.
LEMMA RollsBack ==
    ASSUME IInv, End("failed"), Rollback, told' = told
    PROVE  IInv'
<1>1. db' = db /\ rows' = db /\ broken' = FALSE /\ "failed" \in Over /\ "failed" # "answered"
  BY DEF Rollback, Over
<1>2. db' \in Seq(Row) /\ CommittedIsSettled'
  BY <1>1, CommittedStays
<1> QED
  BY <1>1, <1>2, RequestOver

LEMMA RunFailedInv ==
    ASSUME IInv, RunFailed
    PROVE  IInv'
<1>1. At("agent") /\ HasRow
  BY DEF RunFailed
<1>2. TypeOK /\ Chain /\ RowsFollow /\ pc = "run" /\ ~broken
  BY <1>1 DEF IInv, At
<1>3. CASE Leave /\ rows' = Failed /\ UNCHANGED told
  <2> DEFINE n == Len(TopRow.steps)
             r == [TopRow EXCEPT !.steps = [@ EXCEPT ![n] = [TopRow.steps[n] EXCEPT !.status = "FAILED"]],
                                 !.status = "FAILED"]
  <2>1. /\ Top.row \in 1..Len(rows) /\ TopRow \in Row
        /\ Live(TopRow, "agent") /\ TopRow = rows[Top.row]
        /\ n = StepsDone
    BY <1>1, <1>2, TopRowFacts DEF At
  <2>2. r \in Row /\ Settled(r)
    BY <2>1, RowFails
  <2>3. Failed = [rows EXCEPT ![Top.row] = r]
    BY <2>1 DEF Failed, TypeOK, Row
  <2> HIDE DEF r
  <2>4. rows' \in Seq(Row) /\ told' \subseteq Nat /\ RowsFollow'
    BY <1>1, <1>2, <1>3, <2>2, <2>3, RunLeaves
  <2>5. Chain'
    BY <1>2, <1>3, LeavesChain
  <2>6. UNCHANGED <<pc, broken, db>> /\ broken' \in BOOLEAN
    BY <1>3 DEF Leave, IInv, TypeOK
  <2> QED
    BY <1>2, <2>4, <2>5, <2>6, CommittedStays, RequestGoesOn
<1>4. CASE ~Nested /\ End("failed") /\ Rollback /\ UNCHANGED told
  BY <1>4, RollsBack
<1> QED
  BY <1>3, <1>4 DEF RunFailed

LEMMA ChatEndsInv ==
    ASSUME IInv, ChatEnds
    PROVE  IInv'
<1>1. TypeOK /\ Chain /\ RowsFollow /\ pc = "run" /\ ~broken /\ ~HasRow /\ told' = told
  BY DEF IInv, ChatEnds, At
<1>2. \A k \in 1..Len(rows) : Settled(rows[k])
  BY <1>1, ChatIsAlone
<1>3. ASSUME NEW label \in Over, End(label), Commit
      PROVE  IInv'
  <2>1. db' = rows /\ rows' = rows /\ broken' = FALSE /\ rows \in Seq(Row)
    BY <1>1, <1>3 DEF Commit, TypeOK
  <2>2. CommittedIsSettled'
    BY <1>2, <2>1 DEF CommittedIsSettled, Settled, StepCount
  <2>3. \A k \in told : k <= Len(db') /\ db'[k].status = "COMPLETED"
    BY <1>1, <2>1 DEF RowsFollow, TypeOK
  <2> QED
    BY <1>1, <1>3, <2>1, <2>2, <2>3, RequestOver
<1>4. "answered" \in Over /\ "failed" \in Over
  BY DEF Over
<1> QED
  BY <1>1, <1>3, <1>4, RollsBack DEF ChatEnds, Loses

LEMMA EventInv ==
    ASSUME IInv, Event
    PROVE  IInv'
<1>1. /\ TypeOK /\ Chain /\ RowsFollow /\ pc = "run" /\ ~broken
      /\ Top.of = "stream"
      /\ db' = rows /\ rows' = rows
      /\ UNCHANGED <<pc, stack, depth, visited, told, broken>>
  BY DEF IInv, Event, At, Commit
<1>2. \A k \in 1..Len(rows) : Settled(rows[k])
  BY <1>1, ChatIsAlone
<1>3. CommittedIsSettled' /\ db' \in Seq(Row)
  BY <1>1, <1>2 DEF CommittedIsSettled, Settled, StepCount, TypeOK
<1>4. Chain'
  BY <1>1 DEF Chain, GuardFollowsTheChain, NestingIsBounded, FramesRemember, Triggered, Limit
<1>5. RowsFollow'
  BY <1>1, RowsSame
<1>6. rows' \in Seq(Row) /\ told' \subseteq Nat /\ broken' \in BOOLEAN
  BY <1>1 DEF TypeOK
<1> QED
  BY <1>1, <1>3, <1>4, <1>5, <1>6, RequestGoesOn

LEMMA NotRunInv ==
    ASSUME IInv, NEW w \in Workflows, NotRun(w)
    PROVE  IInv'
<1> DEFINE n == Len(stack)
<1>1. /\ TypeOK /\ Chain /\ RowsFollow /\ pc = "run" /\ ~broken /\ Top.phase = "agent"
      /\ Top.calls < MaxCalls
      /\ UNCHANGED <<pc, depth, visited, rows, broken, db, told>>
  BY DEF IInv, NotRun, Calls, At
<1>2. stack \in Seq(Frame) /\ stack # <<>> /\ n \in 1..n /\ Top \in Frame
  BY <1>1, TopFrame DEF Chain
<1>3. Top.calls + 1 \in 0..MaxCalls
  BY <1>1, <1>2, NestedRunsAssumption DEF Frame
<1>4. /\ stack' \in Seq(Frame)
      /\ Len(stack') = n
      /\ \A i \in 1..n : /\ stack'[i].of = stack[i].of
                         /\ stack'[i].row = stack[i].row
                         /\ stack'[i].depth = stack[i].depth
                         /\ stack'[i].visited = stack[i].visited
                         /\ stack'[i].phase = stack[i].phase
  BY <1>1, <1>2, <1>3, TopToKeeps DEF NotRun, Top
<1>5. Chain'
  BY <1>1, <1>2, <1>4, SameFrames
<1>6. RowsFollow'
  <2>1. \A i \in 1..n : FrameHasRow(stack[i])'
    <3> TAKE i \in 1..n
    <3>1. FrameHasRow(stack[i])
      BY <1>1 DEF RowsFollow
    <3>2. /\ stack'[i].of = stack[i].of
          /\ stack'[i].row = stack[i].row
          /\ stack'[i].phase = stack[i].phase
          /\ rows' = rows
      BY <1>1, <1>4
    <3> QED
      BY <3>1, <3>2 DEF FrameHasRow, RowIn, Live, WithinAttempts, StepCount
  <2>2. /\ \A i, j \in 1..n : stack'[i].row = stack'[j].row => i = j
        /\ \A k \in 1..Len(rows) : Settled(rows[k]) \/ \E i \in 1..n : stack'[i].row = k
    BY <1>1, <1>4 DEF RowsFollow
  <2> QED
    BY <1>1, <1>4, <2>1, <2>2 DEF RowsFollow, Settled, StepCount
<1>7. rows' \in Seq(Row) /\ told' \subseteq Nat /\ broken' \in BOOLEAN
  BY <1>1 DEF TypeOK
<1> QED
  BY <1>1, <1>5, <1>6, <1>7, CommittedStays, RequestGoesOn

LEMMA TriggerInv ==
    ASSUME IInv, NEW w \in Workflows, trigger_workflow(w)
    PROVE  IInv'
<1>1. /\ TypeOK /\ Chain /\ RowsFollow /\ pc = "run"
      /\ UNCHANGED <<pc, broken, db, told>>
  BY DEF IInv, trigger_workflow, Calls, At
<1>2. Chain' /\ rows' \in Seq(Row) /\ RowsFollow'
  BY <1>1, RunStarts
<1>3. told' \subseteq Nat /\ broken' \in BOOLEAN
  BY <1>1 DEF TypeOK
<1> QED
  BY <1>1, <1>2, <1>3, CommittedStays, RequestGoesOn

LEMMA BreaksInv ==
    ASSUME IInv, Breaks
    PROVE  IInv'
<1>1. /\ TypeOK /\ Chain /\ pc = "run"
      /\ UNCHANGED <<pc, stack, depth, visited, rows, db, told>> /\ broken' = TRUE
  BY DEF IInv, Breaks
<1>2. Chain'
  BY <1>1 DEF Chain, GuardFollowsTheChain, NestingIsBounded, FramesRemember, Triggered, Limit
<1>3. rows' \in Seq(Row) /\ told' \subseteq Nat
  BY <1>1 DEF TypeOK
<1> QED
  BY <1>1, <1>2, <1>3, CommittedStays, RequestGoesOn

LEMMA RaisesInv ==
    ASSUME IInv, Raises
    PROVE  IInv'
<1>1. CASE Leave /\ UNCHANGED <<rows, told>>
  <2>1. TypeOK /\ Chain /\ pc = "run" /\ broken /\ UNCHANGED <<pc, broken, db>>
    BY <1>1 DEF IInv, Raises, Leave
  <2>2. Chain'
    BY <1>1, <2>1, LeavesChain
  <2>3. rows' \in Seq(Row) /\ told' \subseteq Nat /\ broken' \in BOOLEAN /\ broken'
    BY <1>1, <2>1 DEF TypeOK
  <2> QED
    BY <2>1, <2>2, <2>3, CommittedStays, RequestGoesOn
<1>2. CASE ~Nested /\ End("failed") /\ Rollback /\ UNCHANGED told
  BY <1>2, RollsBack
<1> QED
  BY <1>1, <1>2 DEF Raises

LEMMA StutterInv ==
    ASSUME IInv, UNCHANGED vars
    PROVE  IInv'
<1>1. Chain'
  BY DEF IInv, vars, Chain, GuardFollowsTheChain, NestingIsBounded, FramesRemember, Triggered, Limit
<1>2. RowsFollow => RowsFollow'
  BY RowsSame DEF vars
<1>3. TypeOK'
  BY DEF IInv, vars, TypeOK
<1>4. CommittedIsSettled' /\ ToldIsRecorded'
  BY DEF IInv, vars, CommittedIsSettled, ToldIsRecorded, Settled, StepCount
<1> QED
  BY <1>1, <1>2, <1>3, <1>4 DEF IInv, vars

LEMMA NextInv ==
    IInv /\ [Next]_vars => IInv'
<1> SUFFICES ASSUME IInv, [Next]_vars
             PROVE  IInv'
  OBVIOUS
<1>1. CASE UNCHANGED vars
  BY <1>1, StutterInv
<1>2. CASE Work
  <2>1. CASE \E w \in Workflows : NotRun(w) \/ trigger_workflow(w)
    BY <2>1, NotRunInv, TriggerInv
  <2> QED
    BY <1>2, <2>1, StartStepInv, StepCompletedInv, RetryInv, RunCompletedInv, RunFailedInv,
       ChatEndsInv, EventInv, RaisesInv DEF Work
<1>3. CASE Breaks
  BY <1>3, BreaksInv
<1>4. CASE Disconnect
  BY <1>4, RollsBack DEF Disconnect
<1>5. CASE \E of \in Roots : Request(of)
  BY <1>5, RequestInv
<1> QED
  BY <1>1, <1>2, <1>3, <1>4, <1>5 DEF Next

-----------------------------------------------------------------------------
(* The theorems *)

\* IInv is an invariant: the context variables follow the frames, and the
\* unfinished rows are those of the frames as long as the transaction is good.
THEOREM InvHolds == Spec => []IInv
<1> QED
  BY InitInv, NextInv, PTL DEF Spec

\* The variables keep their types (trigger_workflow, run_workflow, run_plan).
THEOREM TypeCorrect == Spec => []TypeOK
<1>1. IInv => TypeOK
  BY DEF IInv
<1> QED
  BY <1>1, InvHolds, PTL

\* enter_workflow_trigger leaves its two context variables as the chain of the
\* runs under way, whichever way nested runs end (workflow_trigger_context.py).
THEOREM GuardIsTheChain == Spec => []GuardFollowsTheChain
<1>1. IInv => GuardFollowsTheChain
  BY DEF IInv, Chain
<1> QED
  BY <1>1, InvHolds, PTL

\* No chain of triggered workflows exceeds the depth of a skill of it or the depth
\* of the platform, or comes back to a triggered workflow.
THEOREM NestingBound == Spec => []NestingIsBounded
<1>1. IInv => NestingIsBounded
  BY DEF IInv, Chain
<1> QED
  BY <1>1, InvHolds, PTL

\* Whatever get_db or a streamed turn commits, no row in it is unfinished.
THEOREM CommitsSettled == Spec => []CommittedIsSettled
<1>1. IInv => CommittedIsSettled
  BY DEF IInv
<1> QED
  BY <1>1, InvHolds, PTL

\* An answered request has recorded every run its models were told is completed.
THEOREM TellsTheTruth == Spec => []ToldIsRecorded
<1>1. IInv => ToldIsRecorded
  BY DEF IInv
<1> QED
  BY <1>1, InvHolds, PTL
=============================================================================
