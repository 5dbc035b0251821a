----------------------------- MODULE ChatTurns ------------------------------
(***************************************************************************)
(* Chat turns (app/services/chat_service.py with app/services/             *)
(* run_service.py), the cancel request and the event tail of               *)
(* app/api/v1/runs.py, and the cancel flag they share in Redis             *)
(* (app/core/run_control.py).                                              *)
(*                                                                         *)
(* A turn executes in one of three ways:                                   *)
(*   "stream"     handle_chat_stream, which commits after every write and  *)
(*                looks for the cancel flag before each event it records;  *)
(*                its three dispatch branches are the same in that;        *)
(*   "chat"       handle_chat for an agent or the root: the same events in *)
(*                one transaction;                                         *)
(*   "chat_team"  handle_chat for a team: run_team, which runs the same    *)
(*                engine but hands over the final text only, no events.   *)
(*                                                                         *)
(* The engine may stream for ever.  A log keeps the first MaxEvents of the *)
(* events the engine yields; later ones are handled like the others but    *)
(* not kept.                                                               *)
(***************************************************************************)
EXTENDS Naturals, Sequences, FiniteSets

CONSTANTS
    Turns,       \* each is one call, and the one run it may create
    MaxEvents    \* bound: engine events kept in a log

ASSUME MaxEventsAssumption == MaxEvents \in Nat \ {0}

VARIABLES
    pc,          \* where the turn's task is
    mode,
    engine,      \* the engine's generator: can it still yield
    event,       \* the event it has just yielded
    txn,         \* rows flushed in the open transaction ("chat", "chat_team")
    db,          \* committed rows of the turn's run
    flag,        \* Redis: run:cancel:{id} exists
    canceller,   \* the request that cancels the turn's run
    accepted,    \* history: a cancel request answered cancel_requested = true
    tail         \* the request that tails the turn's run

vars == <<pc, mode, engine, event, txn, db, flag, canceller, accepted, tail>>

-----------------------------------------------------------------------------
(* Rows *)

Mode == {"stream", "chat", "chat_team"}

PC == {"idle", "created", "waiting", "received", "emitting", "final", "usage",
       "failing", "cancelling", "clearing",
       "refused",  \* over quota, or no context to dispatch to: nothing was written
       "answered", \* the caller was told that the turn completed
       "errored",  \* the stream ended with an error event
       "stopped",  \* the stream ended with run_cancelled
       "raised",   \* an exception reached the caller
       "dead"}     \* the client went away or the process died

Ended == {"refused", "answered", "errored", "stopped", "raised", "dead"}

Active == PC \ (Ended \cup {"idle"})

EngineEvent == {"content", "other", "error"}

EventType == EngineEvent \cup {"agent_started", "agent_completed", "run_cancelled"}

Outcomes == {"completed", "failed", "cancelled"}

RunStatus == {"pending", "running"} \cup Outcomes

Rows == [status: RunStatus \cup {"none"}, log: Seq(EventType),
         messages: Seq({"user", "assistant"}), usage: 0..1]

NoRows == [status |-> "none", log |-> <<>>, messages |-> <<>>, usage |-> 0]

TailRequest == [pc: {"off", "get", "list", "closed", "left"},
         known: RunStatus \cup {"none"},   \* status of the instance in its identity map
         seen: Nat]                         \* events delivered

TypeOK ==
    /\ pc \in [Turns -> PC]
    /\ mode \in [Turns -> Mode]
    /\ engine \in [Turns -> {"open", "raising"}]
    /\ event \in [Turns -> EngineEvent]
    /\ txn \in [Turns -> Rows]
    /\ db \in [Turns -> Rows]
    /\ flag \in [Turns -> BOOLEAN]
    /\ canceller \in [Turns -> {"idle", "setting"}]
    /\ accepted \in [Turns -> BOOLEAN]
    /\ tail \in [Turns -> TailRequest]

(* Definitions named ..._mut are plausible bugs of the definition that follows *)
(* them; nothing uses them except the mutants PROJECT.json lists.              *)

(* RunTrackingService *)

create_run_mut(user) ==
    [NoRows EXCEPT !.status = "created", !.log = <<"agent_started">>, !.messages = <<user>>]

create_run(user) ==
    [NoRows EXCEPT !.status = "pending", !.log = <<"agent_started">>, !.messages = <<user>>]

mark_running(rows) == [rows EXCEPT !.status = "running"]

emit_event(rows, e) == [rows EXCEPT !.log = Append(@, e)]

mark_completed(rows) ==
    [rows EXCEPT !.status = "completed", !.log = Append(@, "agent_completed"),
                 !.messages = Append(@, "assistant")]

mark_failed(rows) == [rows EXCEPT !.status = "failed", !.log = Append(@, "error")]

\* A partial answer is kept as a message, an empty one is not.
mark_cancelled(rows, partial) ==
    [rows EXCEPT !.status = "cancelled", !.log = Append(@, "run_cancelled"),
                 !.messages = IF partial THEN Append(@, "assistant") ELSE @]

-----------------------------------------------------------------------------
(* Transactions *)

View(t) == IF mode[t] = "stream" THEN db[t] ELSE txn[t]

\* Some assistant content passed the cancel check; it is recorded with its event.
Content(t) == \E i \in DOMAIN View(t).log : View(t).log[i] = "content"

\* A flush: a stream commits it at once, the others only when they end.
Write(t, rows) ==
    IF mode[t] = "stream"
    THEN db' = [db EXCEPT ![t] = rows] /\ txn' = txn
    ELSE txn' = [txn EXCEPT ![t] = rows] /\ db' = db

Commit(t, rows) ==
    /\ db' = [db EXCEPT ![t] = rows]
    /\ txn' = [txn EXCEPT ![t] = NoRows]

Rollback(t) == txn' = [txn EXCEPT ![t] = NoRows] /\ db' = db

Goto(t, label) == pc' = [pc EXCEPT ![t] = label]

observers == <<canceller, accepted, tail>>

-----------------------------------------------------------------------------
(* ChatService *)

Init ==
    /\ pc = [t \in Turns |-> "idle"]
    /\ mode = [t \in Turns |-> "stream"]
    /\ engine = [t \in Turns |-> "open"]
    /\ event = [t \in Turns |-> "other"]
    /\ txn = [t \in Turns |-> NoRows]
    /\ db = [t \in Turns |-> NoRows]
    /\ flag = [t \in Turns |-> FALSE]
    /\ canceller = [t \in Turns |-> "idle"]
    /\ accepted = [t \in Turns |-> FALSE]
    /\ tail = [t \in Turns |-> [pc |-> "off", known |-> "none", seen |-> 0]]

\* assert_within_quota or the dispatch raises before anything is written.
Refuse(t) ==
    /\ pc[t] = "idle"
    /\ Goto(t, "refused")
    /\ UNCHANGED <<mode, engine, event, txn, db, flag, observers>>

Begin(t) ==
    /\ pc[t] = "idle"
    /\ \E m \in Mode :
        /\ mode' = [mode EXCEPT ![t] = m]
        /\ IF m = "stream"
           THEN db' = [db EXCEPT ![t] = create_run("user")] /\ txn' = txn
           ELSE txn' = [txn EXCEPT ![t] = create_run("user")] /\ db' = db
    /\ Goto(t, "created")
    /\ UNCHANGED <<engine, event, flag, observers>>

MarkRunning(t) ==
    /\ pc[t] = "created"
    /\ Write(t, mark_running(View(t)))
    /\ Goto(t, "waiting")
    /\ UNCHANGED <<mode, engine, event, flag, observers>>

\* The engine yields.  An error event announces that it raises, or is one of
\* Agno's, after which it may go on, end or raise.
EventArrives(t) ==
    /\ pc[t] = "waiting"
    /\ mode[t] # "chat_team"
    /\ engine[t] = "open"
    /\ \E e \in EngineEvent :
        /\ event' = [event EXCEPT ![t] = e]
        /\ \/ engine' = engine
           \/ e = "error" /\ engine' = [engine EXCEPT ![t] = "raising"]
    /\ Goto(t, "received")
    /\ UNCHANGED <<mode, txn, db, flag, observers>>

CheckCancel_mut(t) ==
    /\ pc[t] = "received"
    /\ Goto(t, IF mode[t] = "stream" /\ flag[t] /\ ~Content(t) THEN "cancelling" ELSE "emitting")
    /\ UNCHANGED <<mode, engine, event, txn, db, flag, observers>>

\* is_cancelled, in the stream only
CheckCancel(t) ==
    /\ pc[t] = "received"
    /\ Goto(t, IF mode[t] = "stream" /\ flag[t] THEN "cancelling" ELSE "emitting")
    /\ UNCHANGED <<mode, engine, event, txn, db, flag, observers>>

EmitEvent(t) ==
    /\ pc[t] = "emitting"
    /\ \/ Len(View(t).log) <= MaxEvents /\ Write(t, emit_event(View(t), event[t]))
       \/ Len(View(t).log) > MaxEvents /\ UNCHANGED <<txn, db>>
    /\ Goto(t, "waiting")
    /\ UNCHANGED <<mode, engine, event, flag, observers>>

\* RuntimeExecutionError from the engine's generator, or from run_team
EngineRaises(t) ==
    /\ pc[t] = "waiting"
    /\ mode[t] = "chat_team" \/ engine[t] = "raising"
    /\ Goto(t, "failing")
    /\ UNCHANGED <<mode, engine, event, txn, db, flag, observers>>

EngineEnds(t) ==
    /\ pc[t] = "waiting"
    /\ engine[t] = "open"
    /\ Goto(t, "final")
    /\ UNCHANGED <<mode, engine, event, txn, db, flag, observers>>

MarkFailed_mut(t) ==
    /\ pc[t] = "failing"
    /\ Write(t, mark_failed(View(t)))
    /\ Goto(t, "final")
    /\ UNCHANGED <<mode, engine, event, flag, observers>>

\* mark_failed; a stream tells its client so.  In the other forms the exception
\* goes on and makes get_db roll the turn back.
MarkFailed(t) ==
    /\ pc[t] = "failing"
    /\ IF mode[t] = "stream" THEN Commit(t, mark_failed(View(t))) /\ Goto(t, "errored")
       ELSE Rollback(t) /\ Goto(t, "raised")
    /\ UNCHANGED <<mode, engine, event, flag, observers>>

Finish(t) ==
    /\ pc[t] = "final"
    /\ Write(t, mark_completed(View(t)))
    /\ Goto(t, "usage")
    /\ UNCHANGED <<mode, engine, event, flag, observers>>

\* Mutant: what the rollback expired is not looked at again.
RecordUsage_mut(t) ==
    /\ pc[t] = "usage"
    /\ Commit(t, [View(t) EXCEPT !.usage = 1]) \/ Commit(t, View(t)) \/ Rollback(t)
    /\ Goto(t, "answered")
    /\ UNCHANGED <<mode, engine, event, flag, observers>>

\* record_usage inserts the usage event and commits the turn's session; with the
\* feature off, or for an anonymous caller, it does nothing and get_db commits.
\* When the insert fails it rolls the session back, which expires every instance
\* the session has loaded, and returns: the next attribute its caller reads, of the
\* run or of the AgentOS, needs a load that no await allows and raises.
RecordUsage(t) ==
    /\ pc[t] = "usage"
    /\ \/ /\ Commit(t, [View(t) EXCEPT !.usage = 1]) \/ Commit(t, View(t))
          /\ Goto(t, "answered")
       \/ Rollback(t) /\ Goto(t, "raised")
    /\ UNCHANGED <<mode, engine, event, flag, observers>>

\* Mutant: the partial answer is recorded even without content.
HandleCancellation_mut(t) ==
    /\ pc[t] = "cancelling"
    /\ Commit(t, mark_cancelled(View(t), TRUE))
    /\ Goto(t, "clearing")
    /\ UNCHANGED <<mode, engine, event, flag, observers>>

\* aclose, partial message, mark_cancelled, commit; clear_cancel comes next
HandleCancellation(t) ==
    /\ pc[t] = "cancelling"
    /\ Commit(t, mark_cancelled(View(t), Content(t)))
    /\ Goto(t, "clearing")
    /\ UNCHANGED <<mode, engine, event, flag, observers>>

ClearCancel(t) ==
    /\ pc[t] = "clearing"
    /\ flag' = [flag EXCEPT ![t] = FALSE]
    /\ Goto(t, "stopped")
    /\ UNCHANGED <<mode, engine, event, txn, db, observers>>

\* A statement of the turn fails, or a question to Redis.  It is no
\* RuntimeExecutionError: no handler marks the run, and the open transaction is
\* rolled back.
Breaks(t) ==
    /\ \/ pc[t] \in {"created", "emitting", "failing", "final", "cancelling", "clearing"}
       \/ pc[t] = "received" /\ mode[t] = "stream"
    /\ Rollback(t)
    /\ Goto(t, "raised")
    /\ UNCHANGED <<mode, engine, event, flag, observers>>

\* Cancellation of the task (a client that stops reading) and process death
\* are not Exceptions: no handler runs, the open transaction is lost.
Die(t) ==
    /\ pc[t] \in Active
    /\ Rollback(t)
    /\ Goto(t, "dead")
    /\ UNCHANGED <<mode, engine, event, flag, observers>>

-----------------------------------------------------------------------------
(* POST /runs/{id}/cancel: the status is read first, the flag set afterwards *)

turnVars == <<pc, mode, engine, event, txn, db>>

CancelReads(t) ==
    /\ canceller[t] = "idle"
    /\ db[t].status \notin Outcomes \cup {"none"}
    /\ canceller' = [canceller EXCEPT ![t] = "setting"]
    /\ UNCHANGED <<turnVars, flag, accepted, tail>>

CancelSets(t) ==
    /\ canceller[t] = "setting"
    /\ flag' = [flag EXCEPT ![t] = TRUE]
    /\ accepted' = [accepted EXCEPT ![t] = TRUE]
    /\ canceller' = [canceller EXCEPT ![t] = "idle"]
    /\ UNCHANGED <<turnVars, tail>>

\* The key's time to live outlasts any turn that is still reading it.
FlagExpires(t) ==
    /\ flag[t]
    /\ pc[t] \in Ended
    /\ flag' = [flag EXCEPT ![t] = FALSE]
    /\ UNCHANGED <<turnVars, canceller, accepted, tail>>

-----------------------------------------------------------------------------
(* GET /runs/{id}/stream *)

TailOpens(t) ==
    /\ tail[t].pc = "off"
    /\ db[t].status # "none"
    /\ tail' = [tail EXCEPT ![t].pc = "get"]
    /\ UNCHANGED <<turnVars, flag, canceller, accepted>>

\* The session's identity map returns the instance it loaded first, as it was.
TailGets(t) ==
    /\ tail[t].pc = "get"
    /\ tail' = [tail EXCEPT ![t].pc = "list",
                            ![t].known = IF @ = "none" THEN db[t].status ELSE @]
    /\ UNCHANGED <<turnVars, flag, canceller, accepted>>

TailLists_mut(t) ==
    /\ tail[t].pc = "list"
    /\ tail' = [tail EXCEPT ![t].seen = Len(db[t].log),
                            ![t].pc = IF db[t].status \in Outcomes \cup {"running"}
                                      THEN "closed" ELSE "get"]
    /\ UNCHANGED <<turnVars, flag, canceller, accepted>>

\* Event rows are new instances, so every committed one is delivered.
TailLists(t) ==
    /\ tail[t].pc = "list"
    /\ tail' = [tail EXCEPT ![t].seen = Len(db[t].log),
                            ![t].pc = IF tail[t].known \in Outcomes THEN "closed" ELSE "get"]
    /\ UNCHANGED <<turnVars, flag, canceller, accepted>>

TailLeaves(t) ==
    /\ tail[t].pc \in {"get", "list"}
    /\ tail' = [tail EXCEPT ![t].pc = "left"]
    /\ UNCHANGED <<turnVars, flag, canceller, accepted>>

-----------------------------------------------------------------------------

Progress(t) ==
    \/ Begin(t) \/ MarkRunning(t) \/ EventArrives(t) \/ CheckCancel(t) \/ EmitEvent(t)
    \/ EngineRaises(t) \/ EngineEnds(t) \/ MarkFailed(t) \/ Finish(t) \/ RecordUsage(t)
    \/ HandleCancellation(t) \/ ClearCancel(t)

TailProgress(t) == TailGets(t) \/ TailLists(t)

Others(t) ==
    \/ Refuse(t) \/ CancelReads(t) \/ CancelSets(t) \/ FlagExpires(t) \/ TailOpens(t)

Next ==
    \E t \in Turns :
        Progress(t) \/ Others(t) \/ TailProgress(t) \/ Breaks(t) \/ Die(t) \/ TailLeaves(t)

Spec == Init /\ [][Next]_vars

\* A started turn is scheduled until it ends and the engine, when asked, yields,
\* ends or raises; it is not obliged ever to end.  An open tail keeps polling.
Fairness ==
    \A t \in Turns :
        /\ WF_vars(pc[t] # "idle" /\ Progress(t))
        /\ WF_vars(TailProgress(t))

FairSpec == Spec /\ Fairness

\* Nothing breaks, and nobody dies or leaves.
UninterruptedSpec ==
    /\ Init
    /\ [][\E t \in Turns : Progress(t) \/ Others(t) \/ TailProgress(t)]_vars
    /\ Fairness

-----------------------------------------------------------------------------
(* Properties *)

\* What a reader of the audit trail relies on (RunLifecycle).
Audit == INSTANCE RunLifecycle WITH
    Runs <- Turns,
    Pending <- "pending",
    Running <- "running",
    status <- [t \in Turns |-> db[t].status],
    log <- [t \in Turns |-> db[t].log]

\* The committed rows of the runs behave like the abstract run lifecycle: a
\* cancel that races with the end, a failure or a death never gives a run a
\* second outcome or an event after its outcome.
ImplementsLifecycle == Audit!Spec

\* The transcript agrees with the outcome: only a completed turn and one that
\* was cancelled after it had produced content have an answer, and exactly one;
\* and usage is charged for completed turns only, never for one that failed, was
\* cancelled or died, nor for one whose rows are not there.
TranscriptMatchesOutcome ==
    \A t \in Turns : LET rows == db[t] IN
        /\ rows.status # "none" =>
            rows.messages =
                IF rows.status = "completed" \/ (rows.status = "cancelled" /\ Content(t))
                THEN <<"user", "assistant">> ELSE <<"user">>
        /\ rows.usage = 1 => rows.status = "completed" /\ pc[t] = "answered"

\* How a turn ends for its caller agrees with what is on record.  An answer is given
\* of a completed run only; run_cancelled tells of a run marked cancelled after an
\* accepted request; an error event ends the stream of a failed run, and a failed
\* run ends so.  An exception tells less: a plain turn leaves nothing behind, but a
\* stream may leave a run unfinished or cancelled, or completed without its usage,
\* when it was record_usage that failed.
EndMatchesRecord ==
    \A t \in Turns : LET status == db[t].status IN
        /\ pc[t] = "answered" => status = "completed"
        /\ pc[t] = "stopped" => status = "cancelled"
        /\ pc[t] = "errored" <=> status = "failed"
        /\ status = "cancelled" => accepted[t] /\ pc[t] \in {"clearing", "stopped", "raised", "dead"}
        /\ status = "completed" => pc[t] \in {"usage", "answered", "raised", "dead"}
        /\ pc[t] = "raised" => IF mode[t] = "stream" THEN db[t].usage = 0 ELSE db[t] = NoRows

\* A tail that closed by itself has delivered the run's whole timeline, the
\* final event included.
ClosedTailIsComplete ==
    \A t \in Turns : tail[t].pc = "closed" =>
        db[t].status \in Outcomes /\ tail[t].seen = Len(db[t].log)

\* A streamed turn whose cancel flag is set ends, even if the engine would
\* stream for ever.
CancelTakesEffect ==
    \A t \in Turns : flag[t] /\ mode[t] = "stream" /\ pc[t] \in Active ~> pc[t] \in Ended

\* app/api/v1/runs.py: the tail serves to observe a run already in progress and
\* to watch its status become cancelled.  It learns of the run's end.
TailLearnsOfTheEnd ==
    \A t \in Turns :
        tail[t].pc # "off" /\ db[t].status \in Outcomes ~> tail[t].pc = "closed"
=============================================================================
