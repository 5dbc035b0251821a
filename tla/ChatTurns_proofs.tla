-------------------------- MODULE ChatTurns_proofs --------------------------
(***************************************************************************)
(* Theorems about ChatTurns for any number of turns and any length of the  *)
(* log: first what the methods of RunTrackingService do to the rows of a   *)
(* run, then how the rows of a turn follow its task, then that what is     *)
(* committed only moves the way RunLifecycle allows.                       *)
(***************************************************************************)
EXTENDS ChatTurns, SequenceTheorems, TLAPS

-----------------------------------------------------------------------------
(* Rows *)

Asked == <<"user">>
Answered == <<"user", "assistant">>

HasContent(log) == \E i \in DOMAIN log : log[i] = "content"

LEMMA Answers ==
    /\ Append(Asked, "assistant") = Answered
    /\ Asked \in Seq({"user", "assistant"}) /\ Answered \in Seq({"user", "assistant"})
<1> DEFINE S == {"user", "assistant"}
           more == Append(<<"user">>, "assistant")
<1>1. /\ <<"user">> \in Seq(S) /\ <<"user", "assistant">> \in Seq(S)
      /\ Len(<<"user", "assistant">>) = 2
      /\ <<"user", "assistant">>[1] = "user" /\ <<"user", "assistant">>[2] = "assistant"
  OBVIOUS
<1>2. more \in Seq(S) /\ Len(more) = 2 /\ more[1] = "user" /\ more[2] = "assistant"
  OBVIOUS
<1>3. \A i \in 1..2 : i = 1 \/ i = 2
  OBVIOUS
<1> QED
  BY <1>1, <1>2, <1>3, SeqEqual DEF Asked, Answered

\* A log that goes on.
LEMMA LogGrows ==
    ASSUME NEW log \in Seq(EventType), NEW e \in EventType
    PROVE  /\ Append(log, e) \in Seq(EventType)
           /\ Audit!Extends(Append(log, e), log)
           /\ e # "content" => (HasContent(Append(log, e)) <=> HasContent(log))
<1> DEFINE more == Append(log, e)
<1>1. /\ more \in Seq(EventType) /\ Len(log) \in Nat /\ Len(more) = Len(log) + 1
      /\ \A i \in 1..Len(log) : more[i] = log[i]
      /\ more[Len(log) + 1] = e
  BY AppendProperties, LenProperties
<1>2. DOMAIN more = 1..Len(more) /\ DOMAIN log = 1..Len(log)
  BY <1>1, LenProperties
<1> HIDE DEF more
<1>3. Audit!Extends(more, log)
  BY <1>1 DEF Audit!Extends
<1>4. ASSUME e # "content"
      PROVE  HasContent(more) <=> HasContent(log)
  <2>1. 1..Len(more) = (1..Len(log)) \cup {Len(log) + 1}
    BY <1>1
  <2> QED
    BY <1>1, <1>2, <1>4, <2>1 DEF HasContent
<1> QED
  BY <1>1, <1>3, <1>4 DEF more

LEMMA NoRowsType == NoRows \in Rows /\ NoRows.status = "none" /\ NoRows.usage = 0 /\ NoRows.log = <<>>
<1>1. <<>> \in Seq(EventType) /\ <<>> \in Seq({"user", "assistant"})
  OBVIOUS
<1> QED
  BY <1>1 DEF NoRows, Rows, RunStatus

\* The methods of RunTrackingService.
LEMMA CreateRun ==
    /\ create_run("user") \in Rows
    /\ create_run("user").status = "pending" /\ create_run("user").usage = 0
    /\ create_run("user").messages = Asked
<1>1. <<"agent_started">> \in Seq(EventType) /\ <<"user">> \in Seq({"user", "assistant"})
  BY DEF EventType
<1> QED
  BY <1>1, NoRowsType DEF create_run, Rows, RunStatus, Asked

LEMMA MarkRunningRow ==
    ASSUME NEW r \in Rows
    PROVE  /\ mark_running(r) \in Rows
           /\ mark_running(r).status = "running" /\ mark_running(r).log = r.log
           /\ mark_running(r).messages = r.messages /\ mark_running(r).usage = r.usage
BY DEF mark_running, Rows, RunStatus

LEMMA UsageRow ==
    ASSUME NEW r \in Rows
    PROVE  /\ [r EXCEPT !.usage = 1] \in Rows
           /\ [r EXCEPT !.usage = 1].status = r.status
           /\ [r EXCEPT !.usage = 1].log = r.log
           /\ [r EXCEPT !.usage = 1].messages = r.messages
BY DEF Rows

LEMMA EmitEventRow ==
    ASSUME NEW r \in Rows, NEW e \in EventType
    PROVE  /\ emit_event(r, e) \in Rows
           /\ emit_event(r, e).status = r.status /\ Audit!Extends(emit_event(r, e).log, r.log)
           /\ emit_event(r, e).messages = r.messages /\ emit_event(r, e).usage = r.usage
<1>1. r.log \in Seq(EventType)
  BY DEF Rows
<1>2. /\ emit_event(r, e).log = Append(r.log, e) /\ emit_event(r, e).status = r.status
      /\ emit_event(r, e).messages = r.messages /\ emit_event(r, e).usage = r.usage
      /\ emit_event(r, e) = [r EXCEPT !.log = Append(r.log, e)]
  BY DEF emit_event, Rows
<1>3. Append(r.log, e) \in Seq(EventType) /\ Audit!Extends(Append(r.log, e), r.log)
  BY <1>1, LogGrows
<1> QED
  BY <1>2, <1>3 DEF Rows

\* The three outcomes: what the row becomes, and that its log only grows.
Outcome(r, new, status, messages) ==
    /\ new \in Rows
    /\ new.status = status /\ new.messages = messages /\ new.usage = r.usage
    /\ Audit!Extends(new.log, r.log)

LEMMA OutcomeRow ==
    ASSUME NEW r \in Rows, NEW status \in Outcomes,
           NEW e \in EventType, NEW messages \in Seq({"user", "assistant"}),
           NEW new, new = [r EXCEPT !.status = status, !.log = Append(r.log, e), !.messages = messages]
    PROVE  Outcome(r, new, status, messages) /\ new.log = Append(r.log, e)
<1>1. r.log \in Seq(EventType) /\ status \in RunStatus
  BY DEF Rows, RunStatus
<1>2. Append(r.log, e) \in Seq(EventType) /\ Audit!Extends(Append(r.log, e), r.log)
  BY <1>1, LogGrows
<1>3. /\ new.status = status /\ new.log = Append(r.log, e)
      /\ new.messages = messages /\ new.usage = r.usage
  BY DEF Rows
<1>4. new \in Rows
  BY <1>1, <1>2 DEF Rows
<1> QED
  BY <1>2, <1>3, <1>4 DEF Outcome

LEMMA MarkCompletedRow ==
    ASSUME NEW r \in Rows, r.messages = Asked
    PROVE  Outcome(r, mark_completed(r), "completed", Answered)
<1>1. Append(r.messages, "assistant") = Answered /\ Answered \in Seq({"user", "assistant"})
  BY Answers
<1>2. mark_completed(r) = [r EXCEPT !.status = "completed", !.log = Append(r.log, "agent_completed"),
                                    !.messages = Answered]
  BY <1>1 DEF mark_completed, Rows
<1>3. "completed" \in Outcomes /\ "agent_completed" \in EventType
  BY DEF Outcomes, EventType
<1> QED
  BY <1>1, <1>2, <1>3, OutcomeRow

LEMMA MarkFailedRow ==
    ASSUME NEW r \in Rows, r.messages = Asked
    PROVE  Outcome(r, mark_failed(r), "failed", Asked)
<1>1. Asked \in Seq({"user", "assistant"})
  BY DEF Asked
<1>2. mark_failed(r) = [r EXCEPT !.status = "failed", !.log = Append(r.log, "error"), !.messages = Asked]
  BY DEF mark_failed, Rows
<1>3. "failed" \in Outcomes /\ "error" \in EventType
  BY DEF Outcomes, EventType, EngineEvent
<1> QED
  BY <1>1, <1>2, <1>3, OutcomeRow

LEMMA MarkCancelledRow ==
    ASSUME NEW r \in Rows, r.messages = Asked, NEW partial \in BOOLEAN, partial <=> HasContent(r.log),
           NEW new, new = mark_cancelled(r, partial)
    PROVE  Outcome(r, new, "cancelled", IF HasContent(new.log) THEN Answered ELSE Asked)
<1>1. "cancelled" \in Outcomes /\ "run_cancelled" \in EventType /\ r.log \in Seq(EventType)
  BY DEF Outcomes, EventType, Rows
<1>2. HasContent(Append(r.log, "run_cancelled")) <=> partial
  BY <1>1, LogGrows
<1>3. CASE partial
  <2>1. new = [r EXCEPT !.status = "cancelled", !.log = Append(r.log, "run_cancelled"),
                        !.messages = Answered]
    BY <1>3, Answers DEF mark_cancelled, Rows
  <2>2. Outcome(r, new, "cancelled", Answered) /\ new.log = Append(r.log, "run_cancelled")
    <3>1. /\ "cancelled" \in Outcomes /\ "run_cancelled" \in EventType
          /\ Answered \in Seq({"user", "assistant"})
      BY <1>1, Answers
    <3>2. new.log = Append(r.log, "run_cancelled")
      BY <2>1 DEF Rows
    <3>3. Outcome(r, new, "cancelled", Answered)
      BY <2>1, <3>1, OutcomeRow
    <3> QED
      BY <3>2, <3>3
  <2>3. HasContent(new.log)
    BY <1>2, <1>3, <2>2
  <2> QED
    BY <2>2, <2>3
<1>4. CASE ~partial
  <2>1. new = [r EXCEPT !.status = "cancelled", !.log = Append(r.log, "run_cancelled"),
                        !.messages = Asked]
    BY <1>4 DEF mark_cancelled, Rows
  <2>2. Outcome(r, new, "cancelled", Asked) /\ new.log = Append(r.log, "run_cancelled")
    <3>1. /\ "cancelled" \in Outcomes /\ "run_cancelled" \in EventType
          /\ Asked \in Seq({"user", "assistant"})
      BY <1>1, Answers
    <3>2. new.log = Append(r.log, "run_cancelled")
      BY <2>1 DEF Rows
    <3>3. Outcome(r, new, "cancelled", Asked)
      BY <2>1, <3>1, OutcomeRow
    <3> QED
      BY <3>2, <3>3
  <2>3. ~HasContent(new.log)
    BY <1>2, <1>4, <2>2
  <2> QED
    BY <2>2, <2>3
<1> QED
  BY <1>3, <1>4

-----------------------------------------------------------------------------
(* The rows of a turn *)

\* How the committed rows d and the flushed rows x of a turn fit the place of its task.
RowsFit(label, m, d, x) ==
    LET view == IF m = "stream" THEN d ELSE x IN
    /\ m = "stream" \/ label \in Ended \cup {"idle"} => x = NoRows
    /\ (m # "stream" /\ label \in Active) \/ label \in {"idle", "refused"} => d = NoRows
    /\ label = "created" => view.status = "pending" /\ view.messages = Asked /\ view.usage = 0
    /\ label \in {"waiting", "received", "emitting", "final", "failing", "cancelling"} =>
            view.status = "running" /\ view.messages = Asked /\ view.usage = 0
    /\ label = "usage" => view.status = "completed" /\ view.messages = Answered /\ view.usage = 0
    /\ label \in {"cancelling", "clearing", "stopped"} => m = "stream"
    /\ label \in {"clearing", "stopped"} => d.status = "cancelled"
    /\ label = "raised" => IF m = "stream" THEN d.usage = 0 ELSE d = NoRows
    /\ label = "answered" => d.status = "completed"
    /\ label = "errored" <=> d.status = "failed"
    /\ d.status = "cancelled" => m = "stream" /\ label \in {"clearing", "stopped", "raised", "dead"}
    /\ d.status = "completed" => label \in {"usage", "answered", "raised", "dead"}

\* The transcript of committed rows.
Transcript(label, d) ==
    /\ d.status # "none" =>
        d.messages = IF d.status = "completed" \/ (d.status = "cancelled" /\ HasContent(d.log))
                     THEN Answered ELSE Asked
    /\ d.usage = 1 => d.status = "completed" /\ label = "answered"

\* What RunLifecycle lets a row do.
Moves(old, new) ==
    \/ new.status = old.status /\ new.log = old.log
    \/ old.status = "none" /\ new.status \in {"pending"} \cup Outcomes
    \/ old.status = "pending" /\ new.status = "running" /\ new.log = old.log
    \/ /\ old.status = "running" /\ new.status \in {"running"} \cup Outcomes
       /\ Audit!Extends(new.log, old.log)

Fits(t) == RowsFit(pc[t], mode[t], db[t], txn[t]) /\ Transcript(pc[t], db[t])

Types ==
    /\ pc \in [Turns -> PC] /\ mode \in [Turns -> Mode]
    /\ txn \in [Turns -> Rows] /\ db \in [Turns -> Rows]
    /\ event \in [Turns -> EngineEvent] /\ engine \in [Turns -> {"open", "raising"}]

\* A step of turn t, and of no other one.
StepOf(t) ==
    /\ Types' /\ Fits(t)'
    /\ Moves(db[t], db'[t])
    /\ \A o \in Turns : o # t => /\ pc'[o] = pc[o] /\ mode'[o] = mode[o]
                                 /\ db'[o] = db[o] /\ txn'[o] = txn[o]

\* A step of turn t to label, of which only its rows remain to be looked at.
LEMMA StepTo ==
    ASSUME Types, NEW t \in Turns, NEW label \in PC, Goto(t, label),
           NEW d \in Rows, NEW x \in Rows,
           db' = [db EXCEPT ![t] = d], txn' = [txn EXCEPT ![t] = x],
           UNCHANGED <<mode, engine, event>>,
           RowsFit(label, mode[t], d, x), Transcript(label, d), Moves(db[t], d)
    PROVE  StepOf(t)
<1>1. pc' \in [Turns -> PC] /\ pc'[t] = label /\ \A o \in Turns : o # t => pc'[o] = pc[o]
  BY DEF Goto, Types
<1>2. /\ db' \in [Turns -> Rows] /\ db'[t] = d /\ \A o \in Turns : o # t => db'[o] = db[o]
      /\ txn' \in [Turns -> Rows] /\ txn'[t] = x /\ \A o \in Turns : o # t => txn'[o] = txn[o]
  BY DEF Types
<1>3. Types'
  BY <1>1, <1>2 DEF Types
<1>4. Fits(t)'
  BY <1>1, <1>2 DEF Fits
<1> QED
  BY <1>1, <1>2, <1>3, <1>4 DEF StepOf

\* Steps that leave the rows alone.
LEMMA StepOnly ==
    ASSUME Types, NEW t \in Turns, NEW label \in PC, Goto(t, label),
           UNCHANGED <<db, txn, mode>>,
           event' \in [Turns -> EngineEvent], engine' \in [Turns -> {"open", "raising"}],
           RowsFit(label, mode[t], db[t], txn[t]), Transcript(label, db[t])
    PROVE  StepOf(t)
<1>1. pc' \in [Turns -> PC] /\ pc'[t] = label /\ \A o \in Turns : o # t => pc'[o] = pc[o]
  BY DEF Goto, Types
<1>2. Types'
  BY <1>1 DEF Types
<1>3. Fits(t)'
  BY <1>1 DEF Fits
<1>4. Moves(db[t], db'[t])
  BY DEF Moves
<1> QED
  BY <1>1, <1>2, <1>3, <1>4 DEF StepOf

LEMMA RowTypes ==
    ASSUME Types, NEW t \in Turns
    PROVE  db[t] \in Rows /\ txn[t] \in Rows /\ View(t) \in Rows /\ NoRows \in Rows
BY NoRowsType DEF Types, View

\* Where the rows a flush, a commit or a rollback writes end up.
LEMMA Writes ==
    ASSUME Types, NEW t \in Turns, NEW r \in Rows
    PROVE  /\ Write(t, r) /\ mode[t] = "stream" =>
                db' = [db EXCEPT ![t] = r] /\ txn' = [txn EXCEPT ![t] = txn[t]]
           /\ Write(t, r) /\ mode[t] # "stream" =>
                txn' = [txn EXCEPT ![t] = r] /\ db' = [db EXCEPT ![t] = db[t]]
           /\ Rollback(t) => db' = [db EXCEPT ![t] = db[t]] /\ txn' = [txn EXCEPT ![t] = NoRows]
<1>1. db = [db EXCEPT ![t] = db[t]] /\ txn = [txn EXCEPT ![t] = txn[t]]
  BY DEF Types
<1> QED
  BY <1>1 DEF Write, Rollback

\* Every step of a turn's task keeps its rows fitting it, and moves the committed
\* ones as RunLifecycle allows.
LEMMA BeginStep ==
    ASSUME Types, NEW t \in Turns, Fits(t), Begin(t)
    PROVE  StepOf(t)
<1>1. PICK m \in Mode :
        /\ mode' = [mode EXCEPT ![t] = m]
        /\ IF m = "stream"
           THEN db' = [db EXCEPT ![t] = create_run("user")] /\ txn' = txn
           ELSE txn' = [txn EXCEPT ![t] = create_run("user")] /\ db' = db
  BY DEF Begin
<1>2. /\ pc[t] = "idle" /\ Goto(t, "created") /\ UNCHANGED <<engine, event>>
      /\ db[t] = NoRows /\ txn[t] = NoRows
  BY DEF Begin, Fits, RowsFit, Ended
<1>3. /\ mode' \in [Turns -> Mode] /\ mode'[t] = m /\ \A o \in Turns : o # t => mode'[o] = mode[o]
      /\ pc' \in [Turns -> PC] /\ pc'[t] = "created" /\ \A o \in Turns : o # t => pc'[o] = pc[o]
  BY <1>1, <1>2 DEF Types, Goto, PC
<1>4. /\ db' \in [Turns -> Rows] /\ \A o \in Turns : o # t => db'[o] = db[o]
      /\ txn' \in [Turns -> Rows] /\ \A o \in Turns : o # t => txn'[o] = txn[o]
  BY <1>1, CreateRun DEF Types
<1>5. Types'
  BY <1>2, <1>3, <1>4 DEF Types
<1>6. CASE m = "stream"
  <2>1. db'[t] = create_run("user") /\ txn'[t] = NoRows
    BY <1>1, <1>2, <1>6 DEF Types
  <2>2. RowsFit("created", m, db'[t], txn'[t]) /\ Transcript("created", db'[t])
    BY <1>6, <2>1, CreateRun DEF RowsFit, Transcript, Active, Ended, PC
  <2>3. Moves(db[t], db'[t])
    BY <1>2, <2>1, CreateRun, NoRowsType DEF Moves
  <2> QED
    BY <1>3, <1>4, <1>5, <2>2, <2>3 DEF StepOf, Fits
<1>7. CASE m # "stream"
  <2>1. txn'[t] = create_run("user") /\ db'[t] = NoRows
    BY <1>1, <1>2, <1>7 DEF Types
  <2>2. RowsFit("created", m, db'[t], txn'[t]) /\ Transcript("created", db'[t])
    BY <1>7, <2>1, CreateRun, NoRowsType DEF RowsFit, Transcript, Active, Ended, PC
  <2>3. Moves(db[t], db'[t])
    BY <1>2, <2>1 DEF Moves
  <2> QED
    BY <1>3, <1>4, <1>5, <2>2, <2>3 DEF StepOf, Fits
<1> QED
  BY <1>6, <1>7

LEMMA MarkRunningStep ==
    ASSUME Types, NEW t \in Turns, Fits(t), MarkRunning(t)
    PROVE  StepOf(t)
<1> DEFINE r == mark_running(View(t))
<1>1. /\ pc[t] = "created" /\ Goto(t, "waiting") /\ Write(t, r) /\ UNCHANGED <<mode, engine, event>>
      /\ "waiting" \in PC /\ pc[t] \in Active
  BY DEF MarkRunning, PC, Active, Ended
<1>2. View(t).status = "pending" /\ View(t).messages = Asked /\ View(t).usage = 0
  BY <1>1 DEF Fits, RowsFit, View
<1>3. /\ r \in Rows /\ r.status = "running" /\ r.messages = Asked /\ r.usage = 0 /\ r.log = View(t).log
  BY <1>2, RowTypes, MarkRunningRow
<1> HIDE DEF r
<1>4. CASE mode[t] = "stream"
  <2>1. txn[t] = NoRows /\ db[t].status = "pending" /\ r.log = db[t].log
    BY <1>2, <1>3, <1>4 DEF Fits, RowsFit, View
  <2>2. RowsFit("waiting", mode[t], r, txn[t]) /\ Transcript("waiting", r) /\ Moves(db[t], r)
    BY <1>3, <1>4, <2>1 DEF RowsFit, Transcript, Moves, Active, Ended, PC
  <2> QED
    BY <1>1, <1>3, <1>4, <2>2, RowTypes, Writes, StepTo
<1>5. CASE mode[t] # "stream"
  <2>1. db[t] = NoRows
    BY <1>1, <1>5 DEF Fits, RowsFit
  <2>2. RowsFit("waiting", mode[t], db[t], r) /\ Transcript("waiting", db[t]) /\ Moves(db[t], db[t])
    BY <1>3, <1>5, <2>1, NoRowsType DEF RowsFit, Transcript, Moves, Active, Ended, PC
  <2> QED
    BY <1>1, <1>3, <1>5, <2>2, RowTypes, Writes, StepTo
<1> QED
  BY <1>4, <1>5

LEMMA EmitEventStep ==
    ASSUME Types, NEW t \in Turns, Fits(t), EmitEvent(t)
    PROVE  StepOf(t)
<1> DEFINE r == emit_event(View(t), event[t])
<1>1. /\ pc[t] = "emitting" /\ Goto(t, "waiting") /\ UNCHANGED <<mode, engine, event>>
      /\ "waiting" \in PC /\ pc[t] \in Active /\ event[t] \in EventType
  BY DEF EmitEvent, PC, Active, Ended, Types, EventType
<1>2. View(t).status = "running" /\ View(t).messages = Asked /\ View(t).usage = 0
  BY <1>1 DEF Fits, RowsFit, View
<1>3. CASE UNCHANGED <<txn, db>>
  <2>1. RowsFit("waiting", mode[t], db[t], txn[t]) /\ Transcript("waiting", db[t])
    BY <1>1 DEF Fits, RowsFit, Transcript, Active, Ended, PC
  <2> QED
    BY <1>1, <1>3, <2>1, StepOnly DEF Types
<1>4. CASE Write(t, r)
  <2>1. /\ r \in Rows /\ r.status = "running" /\ r.messages = Asked /\ r.usage = 0
        /\ Audit!Extends(r.log, View(t).log)
    BY <1>1, <1>2, RowTypes, EmitEventRow
  <2> HIDE DEF r
  <2>2. CASE mode[t] = "stream"
    <3>1. txn[t] = NoRows /\ db[t].status = "running" /\ Audit!Extends(r.log, db[t].log)
      BY <1>2, <2>1, <2>2 DEF Fits, RowsFit, View
    <3>2. RowsFit("waiting", mode[t], r, txn[t]) /\ Transcript("waiting", r) /\ Moves(db[t], r)
      BY <2>1, <2>2, <3>1 DEF RowsFit, Transcript, Moves, Active, Ended, PC
    <3> QED
      BY <1>1, <1>4, <2>1, <2>2, <3>2, RowTypes, Writes, StepTo
  <2>3. CASE mode[t] # "stream"
    <3>1. db[t] = NoRows
      BY <1>1, <2>3 DEF Fits, RowsFit
    <3>2. RowsFit("waiting", mode[t], db[t], r) /\ Transcript("waiting", db[t]) /\ Moves(db[t], db[t])
      BY <2>1, <2>3, <3>1, NoRowsType DEF RowsFit, Transcript, Moves, Active, Ended, PC
    <3> QED
      BY <1>1, <1>4, <2>1, <2>3, <3>2, RowTypes, Writes, StepTo
  <2> QED
    BY <2>2, <2>3
<1> QED
  BY <1>3, <1>4 DEF EmitEvent

\* Steps of the task that write no row.
LEMMA QuietSteps ==
    ASSUME Types, NEW t \in Turns, Fits(t),
           EventArrives(t) \/ CheckCancel(t) \/ EngineRaises(t) \/ EngineEnds(t) \/ ClearCancel(t) \/ Refuse(t)
    PROVE  StepOf(t)
<1>1. event' \in [Turns -> EngineEvent] /\ engine' \in [Turns -> {"open", "raising"}]
  <2>1. CASE EventArrives(t)
    <3>1. PICK e \in EngineEvent :
            /\ event' = [event EXCEPT ![t] = e]
            /\ engine' = engine \/ engine' = [engine EXCEPT ![t] = "raising"]
      BY <2>1 DEF EventArrives
    <3> QED
      BY <3>1 DEF Types
  <2> QED
    BY <2>1 DEF Types, CheckCancel, EngineRaises, EngineEnds, ClearCancel, Refuse
<1>2. UNCHANGED <<db, txn, mode>>
  BY DEF EventArrives, CheckCancel, EngineRaises, EngineEnds, ClearCancel, Refuse
<1>3. CASE EventArrives(t) \/ CheckCancel(t) \/ EngineRaises(t) \/ EngineEnds(t)
  <2>1. PICK label \in {"received", "cancelling", "emitting", "failing", "final"} :
          /\ Goto(t, label) /\ pc[t] \in {"waiting", "received"}
          /\ label = "cancelling" => mode[t] = "stream"
    BY <1>3 DEF EventArrives, CheckCancel, EngineRaises, EngineEnds
  <2>2. RowsFit(label, mode[t], db[t], txn[t]) /\ Transcript(label, db[t])
    BY <2>1 DEF Fits, RowsFit, Transcript, Active, Ended, PC
  <2>3. label \in PC
    BY DEF PC
  <2> QED
    BY <1>1, <1>2, <2>1, <2>2, <2>3, StepOnly
<1>4. CASE ClearCancel(t)
  <2>1. Goto(t, "stopped") /\ pc[t] = "clearing" /\ "stopped" \in PC
    BY <1>4 DEF ClearCancel, PC
  <2>2. RowsFit("stopped", mode[t], db[t], txn[t]) /\ Transcript("stopped", db[t])
    BY <2>1 DEF Fits, RowsFit, Transcript, Active, Ended, PC
  <2> QED
    BY <1>1, <1>2, <2>1, <2>2, StepOnly
<1>5. CASE Refuse(t)
  <2>1. Goto(t, "refused") /\ pc[t] = "idle" /\ "refused" \in PC
    BY <1>5 DEF Refuse, PC
  <2>2. RowsFit("refused", mode[t], db[t], txn[t]) /\ Transcript("refused", db[t])
    BY <2>1, NoRowsType DEF Fits, RowsFit, Transcript, Active, Ended, PC
  <2> QED
    BY <1>1, <1>2, <2>1, <2>2, StepOnly
<1> QED
  BY <1>3, <1>4, <1>5

LEMMA MarkFailedStep ==
    ASSUME Types, NEW t \in Turns, Fits(t), MarkFailed(t)
    PROVE  StepOf(t)
<1> DEFINE r == mark_failed(View(t))
<1>1. /\ pc[t] = "failing" /\ UNCHANGED <<mode, engine, event>>
      /\ "raised" \in PC /\ "errored" \in PC /\ pc[t] \in Active
  BY DEF MarkFailed, PC, Active, Ended
<1>2. View(t).status = "running" /\ View(t).messages = Asked /\ View(t).usage = 0
  BY <1>1 DEF Fits, RowsFit, View
<1>3. CASE mode[t] = "stream"
  <2>1. txn[t] = NoRows /\ db[t].status = "running" /\ View(t) = db[t] /\ View(t) \in Rows
    BY <1>2, <1>3, RowTypes DEF Fits, RowsFit, View
  <2>2. Outcome(View(t), r, "failed", Asked)
    BY <1>2, <2>1, MarkFailedRow
  <2>3. db' = [db EXCEPT ![t] = r] /\ txn' = [txn EXCEPT ![t] = NoRows] /\ Goto(t, "errored")
    BY <1>3 DEF MarkFailed, Commit
  <2> HIDE DEF r
  <2>4. /\ RowsFit("errored", mode[t], r, NoRows) /\ Transcript("errored", r) /\ Moves(db[t], r)
        /\ r \in Rows
    BY <1>2, <1>3, <2>1, <2>2 DEF RowsFit, Transcript, Moves, Outcome, Outcomes, Active, Ended, PC
  <2> QED
    BY <1>1, <2>3, <2>4, RowTypes, StepTo
<1>4. CASE mode[t] # "stream"
  <2>1. db[t] = NoRows /\ db[t] \in Rows
    BY <1>1, <1>4, RowTypes DEF Fits, RowsFit
  <2>2. RowsFit("raised", mode[t], db[t], NoRows) /\ Transcript("raised", db[t]) /\ Moves(db[t], db[t])
    BY <1>4, <2>1, NoRowsType DEF RowsFit, Transcript, Moves, Active, Ended, PC
  <2>3. Rollback(t) /\ Goto(t, "raised")
    BY <1>4 DEF MarkFailed
  <2> QED
    BY <1>1, <2>1, <2>2, <2>3, RowTypes, Writes, StepTo
<1> QED
  BY <1>3, <1>4

LEMMA FinishStep ==
    ASSUME Types, NEW t \in Turns, Fits(t), Finish(t)
    PROVE  StepOf(t)
<1> DEFINE r == mark_completed(View(t))
<1>1. /\ pc[t] = "final" /\ Goto(t, "usage") /\ Write(t, r) /\ UNCHANGED <<mode, engine, event>>
      /\ "usage" \in PC /\ pc[t] \in Active
  BY DEF Finish, PC, Active, Ended
<1>2. /\ View(t).status = "running" /\ View(t).messages = Asked /\ View(t).usage = 0
      /\ View(t) \in Rows
  BY <1>1, RowTypes DEF Fits, RowsFit, View
<1>3. Outcome(View(t), r, "completed", Answered)
  BY <1>2, MarkCompletedRow
<1> HIDE DEF r
<1>4. r \in Rows /\ r.status = "completed" /\ r.messages = Answered /\ r.usage = 0
  BY <1>2, <1>3 DEF Outcome
<1>5. CASE mode[t] = "stream"
  <2>1. txn[t] = NoRows /\ db[t].status = "running" /\ Audit!Extends(r.log, db[t].log)
    BY <1>2, <1>3, <1>5 DEF Fits, RowsFit, View, Outcome
  <2>2. RowsFit("usage", mode[t], r, txn[t]) /\ Transcript("usage", r) /\ Moves(db[t], r)
    BY <1>4, <1>5, <2>1 DEF RowsFit, Transcript, Moves, Outcomes, Active, Ended, PC
  <2> QED
    BY <1>1, <1>4, <1>5, <2>2, RowTypes, Writes, StepTo
<1>6. CASE mode[t] # "stream"
  <2>1. db[t] = NoRows
    BY <1>1, <1>6 DEF Fits, RowsFit
  <2>2. RowsFit("usage", mode[t], db[t], r) /\ Transcript("usage", db[t]) /\ Moves(db[t], db[t])
    BY <1>4, <1>6, <2>1, NoRowsType DEF RowsFit, Transcript, Moves, Active, Ended, PC
  <2> QED
    BY <1>1, <1>4, <1>6, <2>2, RowTypes, Writes, StepTo
<1> QED
  BY <1>5, <1>6

LEMMA RecordUsageStep ==
    ASSUME Types, NEW t \in Turns, Fits(t), RecordUsage(t)
    PROVE  StepOf(t)
<1>1. /\ pc[t] = "usage" /\ UNCHANGED <<mode, engine, event>>
      /\ "answered" \in PC /\ "raised" \in PC /\ pc[t] \in Active
  BY DEF RecordUsage, PC, Active, Ended
<1>2. /\ View(t).status = "completed" /\ View(t).messages = Answered /\ View(t) \in Rows
      /\ mode[t] = "stream" => View(t) = db[t] /\ db[t].usage = 0
      /\ mode[t] # "stream" => db[t] = NoRows
      /\ db[t] \in Rows /\ NoRows \in Rows
  BY <1>1, RowTypes DEF Fits, RowsFit, View
<1>3. ASSUME NEW r \in Rows, Commit(t, r), Goto(t, "answered"),
             r.status = "completed" /\ r.messages = Answered /\ r.log = View(t).log
      PROVE  StepOf(t)
  <2>1. db' = [db EXCEPT ![t] = r] /\ txn' = [txn EXCEPT ![t] = NoRows]
    BY <1>3 DEF Commit
  <2>2. Moves(db[t], r)
    BY <1>2, <1>3, NoRowsType DEF Moves, Outcomes
  <2>3. RowsFit("answered", mode[t], r, NoRows) /\ Transcript("answered", r)
    BY <1>3 DEF RowsFit, Transcript, Active, Ended, PC
  <2> QED
    BY <1>1, <1>2, <1>3, <2>1, <2>2, <2>3, StepTo
<1>4. CASE Commit(t, [View(t) EXCEPT !.usage = 1]) /\ Goto(t, "answered")
  <2> DEFINE r == [View(t) EXCEPT !.usage = 1]
  <2>1. /\ r \in Rows /\ r.status = "completed" /\ r.messages = Answered /\ r.log = View(t).log
    BY <1>2, UsageRow
  <2> QED
    BY <1>3, <1>4, <2>1
<1>5. CASE Commit(t, View(t)) /\ Goto(t, "answered")
  BY <1>2, <1>3, <1>5
<1>6. CASE Rollback(t) /\ Goto(t, "raised")
  <2>1. db' = [db EXCEPT ![t] = db[t]] /\ txn' = [txn EXCEPT ![t] = NoRows]
    BY <1>2, <1>6, Writes
  <2>2. Moves(db[t], db[t])
    BY DEF Moves
  <2>3. RowsFit("raised", mode[t], db[t], NoRows) /\ Transcript("raised", db[t])
    BY <1>2, NoRowsType DEF RowsFit, Transcript, Active, Ended, PC
  <2> QED
    BY <1>1, <1>2, <1>6, <2>1, <2>2, <2>3, StepTo
<1> QED
  BY <1>1, <1>4, <1>5, <1>6 DEF RecordUsage

LEMMA HandleCancellationStep ==
    ASSUME Types, NEW t \in Turns, Fits(t), HandleCancellation(t)
    PROVE  StepOf(t)
<1> DEFINE r == mark_cancelled(View(t), Content(t))
<1>1. /\ pc[t] = "cancelling" /\ Goto(t, "clearing") /\ UNCHANGED <<mode, engine, event>>
      /\ "clearing" \in PC /\ pc[t] \in Active
      /\ db' = [db EXCEPT ![t] = r] /\ txn' = [txn EXCEPT ![t] = NoRows]
  BY DEF HandleCancellation, Commit, PC, Active, Ended
<1>2. /\ mode[t] = "stream" /\ View(t) = db[t] /\ View(t) \in Rows /\ NoRows \in Rows
      /\ db[t].status = "running" /\ View(t).messages = Asked /\ View(t).usage = 0
  BY <1>1, RowTypes DEF Fits, RowsFit, View
<1>3. Content(t) \in BOOLEAN /\ (Content(t) <=> HasContent(View(t).log))
  BY DEF Content, HasContent
<1>4. Outcome(View(t), r, "cancelled", IF HasContent(r.log) THEN Answered ELSE Asked)
  BY <1>2, <1>3, MarkCancelledRow
<1> HIDE DEF r
<1>5. r \in Rows /\ r.status = "cancelled" /\ r.usage = 0
  BY <1>2, <1>4 DEF Outcome
<1>6. RowsFit("clearing", mode[t], r, NoRows)
  BY <1>2, <1>5 DEF RowsFit, Active, Ended, PC
<1>7. Transcript("clearing", r)
  BY <1>4, <1>5 DEF Transcript, Outcome
<1>8. Moves(db[t], r)
  BY <1>2, <1>4, <1>5 DEF Moves, Outcome, Outcomes
<1> QED
  BY <1>1, <1>2, <1>5, <1>6, <1>7, <1>8, StepTo

\* A turn that breaks or dies keeps what it has committed.
LEMMA LostStep ==
    ASSUME Types, NEW t \in Turns, Fits(t), Breaks(t) \/ Die(t)
    PROVE  StepOf(t)
<1>1. PICK label \in {"raised", "dead"} :
        /\ Goto(t, label) /\ Rollback(t) /\ UNCHANGED <<mode, engine, event>>
        /\ pc[t] \in Active
        /\ label = "raised" => pc[t] # "usage"
  BY DEF Breaks, Die, PC, Active, Ended
<1>2. db[t] \in Rows /\ NoRows \in Rows /\ label \in PC
  BY RowTypes DEF PC
<1>3. db' = [db EXCEPT ![t] = db[t]] /\ txn' = [txn EXCEPT ![t] = NoRows]
  BY <1>1, <1>2, Writes
<1>4. Transcript(label, db[t]) /\ Moves(db[t], db[t]) /\ db[t].usage = 0
  <2>1. db[t].usage \in 0..1
    BY <1>2 DEF Rows
  <2> QED
    BY <1>1, <2>1 DEF Fits, Transcript, Moves, Active, Ended
<1>5. RowsFit(label, mode[t], db[t], NoRows)
  BY <1>1, <1>4, NoRowsType DEF Fits, RowsFit, Active, Ended, PC
<1> QED
  BY <1>1, <1>2, <1>3, <1>4, <1>5, StepTo

\* Every step of a turn's task.
LEMMA TaskStep ==
    ASSUME Types, NEW t \in Turns, Fits(t), Progress(t) \/ Refuse(t) \/ Breaks(t) \/ Die(t)
    PROVE  StepOf(t)
BY BeginStep, MarkRunningStep, EmitEventStep, QuietSteps, MarkFailedStep, FinishStep,
   RecordUsageStep, HandleCancellationStep, LostStep DEF Progress

\* Nobody else writes the rows of a turn.
ByOthers(t) == CancelReads(t) \/ CancelSets(t) \/ FlagExpires(t) \/ TailOpens(t) \/ TailProgress(t) \/ TailLeaves(t)

LEMMA OthersStep ==
    ASSUME NEW t \in Turns, ByOthers(t)
    PROVE  UNCHANGED turnVars
BY DEF ByOthers, CancelReads, CancelSets, FlagExpires, TailOpens, TailProgress, TailGets, TailLists, TailLeaves

RowsInv == Types /\ \A t \in Turns : Fits(t)

LEMMA RowsStep ==
    ASSUME RowsInv, [Next]_vars
    PROVE  RowsInv' /\ \A t \in Turns : Moves(db[t], db'[t])
<1>1. ASSUME NEW t \in Turns, StepOf(t)
      PROVE  RowsInv' /\ \A o \in Turns : Moves(db[o], db'[o])
  <2>1. \A o \in Turns : o # t => Fits(o)' /\ Moves(db[o], db'[o])
    BY <1>1 DEF StepOf, RowsInv, Fits, Moves
  <2> QED
    BY <1>1, <2>1 DEF StepOf, RowsInv
<1>2. ASSUME UNCHANGED turnVars
      PROVE  RowsInv' /\ \A o \in Turns : Moves(db[o], db'[o])
  BY <1>2 DEF turnVars, RowsInv, Types, Fits, Moves
<1>3. ASSUME NEW t \in Turns, Progress(t) \/ Others(t) \/ TailProgress(t) \/ Breaks(t) \/ Die(t) \/ TailLeaves(t)
      PROVE  StepOf(t) \/ UNCHANGED turnVars
  <2>1. Progress(t) \/ Refuse(t) \/ Breaks(t) \/ Die(t) \/ ByOthers(t)
    BY <1>3 DEF Others, ByOthers
  <2> QED
    BY <2>1, TaskStep, OthersStep DEF RowsInv
<1>4. CASE UNCHANGED vars
  BY <1>2, <1>4 DEF vars, turnVars
<1> QED
  BY <1>1, <1>2, <1>3, <1>4 DEF Next

-----------------------------------------------------------------------------
(* The cancel flag and the tail *)

\* A flag is set by an accepted request, and a turn is stopped for a flag.
FlagFits(t) ==
    /\ flag[t] => accepted[t]
    /\ pc[t] \in {"cancelling", "clearing", "stopped"} \/ db[t].status = "cancelled" => accepted[t]

\* A tail knows a final status only of a run that has it.
TailFits(t) ==
    /\ tail[t].known \in Outcomes => db[t].status \in Outcomes
    /\ tail[t].pc = "closed" => db[t].status \in Outcomes /\ tail[t].seen = Len(db[t].log)

ObserverTypes ==
    /\ flag \in [Turns -> BOOLEAN]
    /\ canceller \in [Turns -> {"idle", "setting"}]
    /\ accepted \in [Turns -> BOOLEAN]
    /\ tail \in [Turns -> TailRequest]

ObserverInv == ObserverTypes /\ \A t \in Turns : FlagFits(t) /\ TailFits(t)

Inv == RowsInv /\ ObserverInv

\* A row that has an outcome keeps it, and its log.
LEMMA OutcomeStays ==
    ASSUME NEW old, NEW new, Moves(old, new), old.status \in Outcomes
    PROVE  new.status = old.status /\ new.log = old.log
BY DEF Moves, Outcomes

\* Steps of the observers.
LEMMA ObserversStep ==
    ASSUME Inv, NEW t \in Turns, ByOthers(t)
    PROVE  ObserverInv'
<1> USE DEF Inv, RowsInv, ObserverInv
<1>1. UNCHANGED <<pc, db>> /\ \A o \in Turns : db[o] \in Rows
  BY OthersStep, RowTypes DEF turnVars
<1>2. CASE CancelReads(t) \/ CancelSets(t) \/ FlagExpires(t)
  <2>1. ObserverTypes' /\ tail' = tail
    BY <1>2 DEF ObserverTypes, CancelReads, CancelSets, FlagExpires
  <2>2. \A o \in Turns : (flag'[o] => flag[o] \/ accepted'[o]) /\ (accepted[o] => accepted'[o])
    BY <1>2 DEF ObserverTypes, CancelReads, CancelSets, FlagExpires
  <2>3. \A o \in Turns : FlagFits(o)'
    BY <1>1, <2>2 DEF FlagFits
  <2>4. \A o \in Turns : TailFits(o)'
    BY <1>1, <2>1 DEF TailFits
  <2> QED
    BY <2>1, <2>3, <2>4
<1>3. CASE TailOpens(t) \/ TailGets(t) \/ TailLists(t) \/ TailLeaves(t)
  <2>1. UNCHANGED <<flag, canceller, accepted>>
    BY <1>3 DEF TailOpens, TailGets, TailLists, TailLeaves
  <2>2. \A o \in Turns : FlagFits(o)'
    BY <1>1, <2>1 DEF FlagFits
  <2>3. \A o \in Turns : db[o].status \in RunStatus \cup {"none"} /\ Len(db[o].log) \in Nat
    BY <1>1, LenProperties DEF Rows
  <2>4. PICK new \in TailRequest :
          /\ tail' = [tail EXCEPT ![t] = new]
          /\ new.known \in {tail[t].known, db[t].status}
          /\ new.pc = "closed" => /\ tail[t].known \in Outcomes
                                  /\ new.seen = Len(db[t].log)
    <3> DEFINE old == tail[t]
    <3>1. old \in TailRequest
      BY DEF ObserverTypes
    <3>2. CASE TailOpens(t)
      <4>1. [old EXCEPT !.pc = "get"] \in TailRequest
        BY <3>1 DEF TailRequest
      <4> QED
        BY <3>1, <3>2, <4>1 DEF TailOpens, TailRequest
    <3>3. CASE TailGets(t)
      <4> DEFINE new == [old EXCEPT !.pc = "list",
                                    !.known = IF old.known = "none" THEN db[t].status ELSE old.known]
      <4>1. /\ new \in TailRequest
            /\ new.known \in {old.known, db[t].status}
            /\ new.pc = "list"
        BY <2>3, <3>1 DEF TailRequest
      <4>2. tail' = [tail EXCEPT ![t] = new]
        BY <3>1, <3>3 DEF TailGets, TailRequest, ObserverTypes
      <4> HIDE DEF new
      <4> QED
        BY <4>1, <4>2
    <3>4. CASE TailLists(t)
      <4>1. [old EXCEPT !.seen = Len(db[t].log), !.pc = IF old.known \in Outcomes THEN "closed" ELSE "get"] \in TailRequest
        BY <2>3, <3>1 DEF TailRequest
      <4> QED
        BY <3>1, <3>4, <4>1 DEF TailLists, TailRequest
    <3>5. CASE TailLeaves(t)
      <4>1. [old EXCEPT !.pc = "left"] \in TailRequest
        BY <3>1 DEF TailRequest
      <4> QED
        BY <3>1, <3>5, <4>1 DEF TailLeaves, TailRequest
    <3> QED
      BY <1>3, <3>2, <3>3, <3>4, <3>5
  <2>5. tail'[t] = new /\ \A o \in Turns : o # t => tail'[o] = tail[o]
    BY <2>4 DEF ObserverTypes
  <2>6. TailFits(t)'
    BY <1>1, <2>4, <2>5 DEF TailFits
  <2>7. \A o \in Turns : TailFits(o)'
    BY <1>1, <2>5, <2>6 DEF TailFits
  <2>8. ObserverTypes'
    BY <2>1, <2>4 DEF ObserverTypes
  <2> QED
    BY <2>2, <2>7, <2>8
<1> QED
  BY <1>2, <1>3 DEF ByOthers, TailProgress

\* Steps of the task: the tail stands still while outcomes stay.
LEMMA TaskKeepsObservers ==
    ASSUME Inv, NEW t \in Turns, Progress(t) \/ Refuse(t) \/ Breaks(t) \/ Die(t),
           \A o \in Turns : Moves(db[o], db'[o])
    PROVE  ObserverInv'
<1> USE DEF Inv, RowsInv, ObserverInv
<1>1. /\ UNCHANGED observers /\ \A o \in Turns : flag'[o] => flag[o]
      /\ flag' \in [Turns -> BOOLEAN]
  <2>1. CASE ClearCancel(t)
    BY <2>1 DEF ClearCancel, ObserverTypes
  <2>2. CASE ~ClearCancel(t)
    <3>1. flag' = flag /\ UNCHANGED observers
      BY <2>2 DEF Progress, Begin, MarkRunning, EventArrives, CheckCancel, EmitEvent, EngineRaises,
                  EngineEnds, MarkFailed, Finish, RecordUsage, HandleCancellation, Refuse, Breaks, Die
    <3> QED
      BY <3>1 DEF ObserverTypes
  <2> QED
    BY <2>1, <2>2
<1>2. pc'[t] \in {"cancelling", "clearing", "stopped"} =>
        flag[t] \/ pc[t] \in {"cancelling", "clearing", "stopped"}
  <2> USE DEF Goto, Types
  <2>1. CASE CheckCancel(t)
    BY <2>1 DEF CheckCancel
  <2>2. CASE HandleCancellation(t) \/ ClearCancel(t)
    BY <2>2 DEF HandleCancellation, ClearCancel
  <2>3. CASE Begin(t) \/ MarkRunning(t) \/ EventArrives(t) \/ EmitEvent(t) \/ EngineRaises(t)
    BY <2>3 DEF Begin, MarkRunning, EventArrives, EmitEvent, EngineRaises
  <2>4. CASE EngineEnds(t) \/ MarkFailed(t) \/ Finish(t) \/ RecordUsage(t) \/ Refuse(t) \/ Breaks(t) \/ Die(t)
    BY <2>4 DEF EngineEnds, MarkFailed, Finish, RecordUsage, Refuse, Breaks, Die
  <2> QED
    BY <2>1, <2>2, <2>3, <2>4 DEF Progress
<1>3. \A o \in Turns : o # t => pc'[o] = pc[o]
  BY TaskStep DEF StepOf
<1>4. \A o \in Turns : FlagFits(o)'
  <2>1. /\ \A o \in Turns : o # t => db'[o] = db[o]
        /\ db'[t].status = "cancelled" => pc'[t] \in {"clearing", "stopped", "raised", "dead"}
        /\ pc' \in [Turns -> PC] /\ pc \in [Turns -> PC]
    BY TaskStep DEF StepOf, Fits, RowsFit, Types
  <2>2. ASSUME db'[t].status = "cancelled"
        PROVE  db' = db \/ pc[t] = "cancelling"
    <3> USE <2>1, <2>2 DEF Goto, Rollback
    <3>1. CASE HandleCancellation(t)
      BY <3>1 DEF HandleCancellation
    <3>2. CASE ClearCancel(t) \/ Breaks(t) \/ Die(t) \/ Refuse(t)
      BY <3>2 DEF ClearCancel, Breaks, Die, Refuse
    <3>3. CASE MarkFailed(t) \/ RecordUsage(t)
      BY <3>3 DEF MarkFailed, RecordUsage
    <3>4. CASE Begin(t) \/ MarkRunning(t) \/ EmitEvent(t) \/ Finish(t)
      BY <3>4 DEF Begin, MarkRunning, EmitEvent, Finish
    <3>5. CASE EventArrives(t) \/ CheckCancel(t) \/ EngineRaises(t) \/ EngineEnds(t)
      BY <3>5 DEF EventArrives, CheckCancel, EngineRaises, EngineEnds
    <3> QED
      BY <3>1, <3>2, <3>3, <3>4, <3>5 DEF Progress
  <2>3. db'[t].status = "cancelled" => accepted[t]
    BY <2>2 DEF FlagFits
  <2> QED
    BY <1>1, <1>2, <1>3, <2>1, <2>3 DEF FlagFits, observers
<1>5. ASSUME NEW o \in Turns PROVE TailFits(o)'
  <2>1. db[o].status \in Outcomes => db'[o].status = db[o].status /\ db'[o].log = db[o].log
    BY OutcomeStays
  <2> QED
    BY <1>1, <2>1 DEF TailFits, observers
<1>6. ObserverTypes'
  BY <1>1 DEF ObserverTypes, observers
<1> QED
  BY <1>4, <1>5, <1>6

LEMMA InvStep == Inv /\ [Next]_vars => Inv'
<1> SUFFICES ASSUME Inv, [Next]_vars
             PROVE  Inv'
  OBVIOUS
<1>1. RowsInv' /\ \A t \in Turns : Moves(db[t], db'[t])
  BY RowsStep DEF Inv
<1>2. ASSUME NEW t \in Turns, Progress(t) \/ Others(t) \/ TailProgress(t) \/ Breaks(t) \/ Die(t) \/ TailLeaves(t)
      PROVE  ObserverInv'
  <2>1. Progress(t) \/ Refuse(t) \/ Breaks(t) \/ Die(t) \/ ByOthers(t)
    BY <1>2 DEF Others, ByOthers
  <2> QED
    BY <1>1, <2>1, TaskKeepsObservers, ObserversStep
<1>3. ASSUME UNCHANGED vars PROVE ObserverInv'
  BY <1>3 DEF vars, Inv, ObserverInv, ObserverTypes, FlagFits, TailFits
<1> QED
  BY <1>1, <1>2, <1>3 DEF Next, Inv

LEMMA InitInv == Init => Inv
<1> SUFFICES ASSUME Init
             PROVE  Inv
  OBVIOUS
<1>1. [pc |-> "off", known |-> "none", seen |-> 0] \in TailRequest
  BY DEF TailRequest
<1>2. ObserverInv
  BY <1>1, NoRowsType DEF Init, ObserverInv, ObserverTypes, FlagFits, TailFits, Outcomes
<1>3. Types
  BY NoRowsType DEF Init, Types, PC, Mode, EngineEvent
<1>4. \A t \in Turns : RowsFit("idle", "stream", NoRows, NoRows) /\ Transcript("idle", NoRows)
  BY NoRowsType DEF RowsFit, Transcript, Active, Ended, PC
<1>5. \A t \in Turns : Fits(t)
  BY <1>4 DEF Init, Fits
<1> QED
  BY <1>2, <1>3, <1>5 DEF Inv, RowsInv

-----------------------------------------------------------------------------
(* Theorems *)

\* The inductive invariant of a turn: its rows fit the place of its task, a flag
\* comes from an accepted request, and a tail knows an outcome only of a run that
\* has one.
THEOREM InvHolds == Spec => []Inv
BY InitInv, InvStep, PTL DEF Spec

\* Every variable keeps its type.
THEOREM TypeCorrect == Spec => []TypeOK
<1>1. Inv => TypeOK
  BY DEF Inv, RowsInv, Types, ObserverInv, ObserverTypes, TypeOK
<1> QED
  BY <1>1, InvHolds, PTL

\* The transcript of handle_chat and handle_chat_stream agrees with the outcome of
\* the run and usage is only charged for answered turns, for any number of turns
\* and events.
THEOREM TranscriptIsRight == Spec => []TranscriptMatchesOutcome
<1>1. Inv => TranscriptMatchesOutcome
  <2> SUFFICES ASSUME Inv, NEW t \in Turns
               PROVE  /\ db[t].status # "none" =>
                          db[t].messages =
                            IF db[t].status = "completed" \/ (db[t].status = "cancelled" /\ Content(t))
                            THEN <<"user", "assistant">> ELSE <<"user">>
                      /\ db[t].usage = 1 => db[t].status = "completed" /\ pc[t] = "answered"
    BY DEF TranscriptMatchesOutcome
  <2>1. Fits(t)
    BY DEF Inv, RowsInv
  <2>2. db[t].status = "cancelled" => (Content(t) <=> HasContent(db[t].log))
    BY <2>1 DEF Fits, RowsFit, Content, View, HasContent
  <2> QED
    BY <2>1, <2>2 DEF Fits, Transcript, Asked, Answered
<1> QED
  BY <1>1, InvHolds, PTL

\* What the caller of handle_chat or handle_chat_stream was told agrees with what is
\* on record, and an exception that reaches it, also that of a failing usage insert,
\* never hides a failed run, whichever cancel requests race with the turn.
THEOREM EndIsHonest == Spec => []EndMatchesRecord
<1>1. Inv => EndMatchesRecord
  <2> SUFFICES ASSUME Inv
               PROVE  EndMatchesRecord
    OBVIOUS
  <2>1. \A t \in Turns : RowsFit(pc[t], mode[t], db[t], txn[t]) /\ FlagFits(t)
    BY DEF Inv, RowsInv, ObserverInv, Fits
  <2> QED
    BY <2>1 DEF RowsFit, FlagFits, EndMatchesRecord
<1> QED
  BY <1>1, InvHolds, PTL

\* A tail of GET /runs/{id}/stream that closed by itself has delivered everything.
THEOREM ClosedTail == Spec => []ClosedTailIsComplete
<1>1. Inv => ClosedTailIsComplete
  BY DEF Inv, ObserverInv, TailFits, ClosedTailIsComplete
<1> QED
  BY <1>1, InvHolds, PTL

-----------------------------------------------------------------------------
(* The refinement *)

\* A step of one row is one of the abstract run.
LEMMA RowMoves ==
    ASSUME NEW t \in Turns, Moves(db[t], db'[t]),
           \A o \in Turns : o # t => db'[o] = db[o]
    PROVE  Audit!Next \/ UNCHANGED Audit!vars
<1> DEFINE status == [o \in Turns |-> db[o].status]
           log == [o \in Turns |-> db[o].log]
<1>1. Audit!OnlyRun(t)
  BY DEF Audit!OnlyRun
<1>2. CASE db'[t].status = db[t].status /\ db'[t].log = db[t].log
  <2>1. \A o \in Turns : db'[o].status = db[o].status /\ db'[o].log = db[o].log
    BY <1>2
  <2> QED
    BY <2>1 DEF Audit!vars
<1>3. CASE db[t].status = "none" /\ db'[t].status \in {"pending"} \cup Outcomes
  BY <1>1, <1>3 DEF Audit!Next, Audit!Appear
<1>4. CASE db[t].status = "pending" /\ db'[t].status = "running" /\ db'[t].log = db[t].log
  BY <1>1, <1>4 DEF Audit!Next, Audit!Start
<1>5. CASE db[t].status = "running" /\ db'[t].status = "running" /\ Audit!Extends(db'[t].log, db[t].log)
  BY <1>1, <1>5 DEF Audit!Next, Audit!Record
<1>6. CASE db[t].status = "running" /\ db'[t].status \in Outcomes /\ Audit!Extends(db'[t].log, db[t].log)
  BY <1>1, <1>6 DEF Audit!Next, Audit!Finish
<1> QED
  BY <1>2, <1>3, <1>4, <1>5, <1>6 DEF Moves

\* Every behaviour of the chat turns is one of the abstract run lifecycle.
THEOREM Refinement == Spec => ImplementsLifecycle
<1>1. Init => Audit!Init
  <2> SUFFICES ASSUME Init PROVE Audit!Init
    OBVIOUS
  <2>1. \A t \in Turns : db[t].status = "none" /\ db[t].log = <<>>
    BY NoRowsType DEF Init
  <2> QED
    BY <2>1 DEF Audit!Init
<1>2. Inv /\ [Next]_vars => [Audit!Next]_(Audit!vars)
  <2> SUFFICES ASSUME Inv, [Next]_vars
               PROVE  Audit!Next \/ UNCHANGED Audit!vars
    OBVIOUS
  <2>1. \A t \in Turns : Moves(db[t], db'[t])
    BY RowsStep DEF Inv
  <2>2. ASSUME NEW t \in Turns, Progress(t) \/ Others(t) \/ TailProgress(t) \/ Breaks(t) \/ Die(t) \/ TailLeaves(t)
        PROVE  Audit!Next \/ UNCHANGED Audit!vars
    <3>1. CASE Progress(t) \/ Refuse(t) \/ Breaks(t) \/ Die(t)
      <4>1. \A o \in Turns : o # t => db'[o] = db[o]
        BY <3>1, TaskStep DEF Inv, RowsInv, StepOf
      <4> QED
        BY <2>1, <4>1, RowMoves
    <3>2. CASE ByOthers(t)
      <4>1. db' = db
        BY <3>2, OthersStep DEF turnVars
      <4> QED
        BY <4>1 DEF Audit!vars
    <3> QED
      BY <2>2, <3>1, <3>2 DEF Others, ByOthers
  <2>3. CASE UNCHANGED vars
    BY <2>3 DEF vars, Audit!vars
  <2> QED
    BY <2>2, <2>3 DEF Next
<1> QED
  BY <1>1, <1>2, InvHolds, PTL DEF Spec, ImplementsLifecycle, Audit!Spec
=============================================================================
