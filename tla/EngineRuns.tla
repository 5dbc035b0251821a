----------------------------- MODULE EngineRuns -----------------------------
(***************************************************************************)
(* AgnoRuntimeEngine.run, run_team, run_root and their streaming forms:    *)
(* one engine used for successive runs, as a workflow or an execution plan *)
(* uses it.  A run opens one MCP session per member agent, builds the      *)
(* members and the leaders, lets Agno run, and takes everything down       *)
(* again: at its end, after an exception of any step, after a              *)
(* cancellation at any await, that of a session being closed included, and *)
(* after its consumer closed the generator at a yield or dropped it there, *)
(* when the event loop closes it later.  A close that fails or is cut      *)
(* short by the cancellation counts as a close: the exit stack goes on to  *)
(* the next session either way.                                            *)
(*                                                                         *)
(* The UI actions the members propose go to one collector per member and   *)
(* are merged into the plan of the run at its end.  What the model         *)
(* resolution, the tools and Agno do is any outcome they may have.         *)
(***************************************************************************)
EXTENDS Naturals, Sequences, SequencesExt, FiniteSets

CONSTANTS
    Members,     \* member agents
    Leader,      \* mark: build the model and the Agno object of a (root) team
    Shapes,      \* what a run builds, in order: members and leaders
    NoPlan,      \* None
    MaxActions,  \* bound: UI actions proposed in a run
    MaxEvents,   \* bound: events of Agno in a streamed run
    MaxRuns      \* bound: runs of the engine

IsTeam(shape) == Leader \in Range(shape)

ASSUME ShapesAssumption ==
    /\ Leader \notin Members
    /\ Shapes \subseteq Seq(Members \cup {Leader})
    /\ \A s \in Shapes :
        /\ \A m \in Members : Cardinality({i \in DOMAIN s : s[i] = m}) <= 1
        /\ ~IsTeam(s) => Len(s) = 1
        /\ IsTeam(s) => Last(s) = Leader
    /\ {MaxActions, MaxEvents, MaxRuns} \subseteq Nat

VARIABLES
    runs,        \* runs begun
    shape,       \* what the run is of
    stream,      \* whether it is one of the *_stream methods
    pc,          \* what the run does next
    then,        \* what it does after the sessions are closed, or the yield
    todo,        \* what is still to be built
    stack,       \* members whose session is open, in the order it was opened
    collectors,  \* self._ui_action_collectors: of whom, and the actions
    plan,        \* self.last_ui_action_plan
    events,      \* what was yielded
    outcome      \* how the run ended for its caller

VARIABLE
    proposed     \* history: actions in the order they were proposed

vars == <<runs, shape, stream, pc, then, todo, stack, collectors, plan, events, outcome, proposed>>

Actions == [by: Members, executionOrder: Nat]

ASSUME PlanAssumption == NoPlan \notin Seq(Actions)

By(m) == [by: {m}, executionOrder: Nat]

Numbered(n) == [by: Members, executionOrder: {n}]

\* The elements of s that are in T, in their order.  (SelectSeq, which tlapm cannot
\* expand.)
OnlyOf(s, T) ==
    LET of[i \in 0..Len(s)] ==
            IF i = 0 THEN <<>> ELSE IF s[i] \in T THEN Append(of[i - 1], s[i]) ELSE of[i - 1]
    IN of[Len(s)]

PC == {"idle", "connect", "build", "run", "yield", "dropped", "catch", "unwind", "metrics", "plan",
       "raise", "gone", "return", "over"}

TypeOK ==
    /\ runs \in 0..MaxRuns
    /\ shape \in Shapes \cup {<<>>}
    /\ stream \in BOOLEAN
    /\ pc \in PC /\ then \in PC
    /\ todo \in Seq(Members \cup {Leader})
    /\ stack \in Seq(Members)
    /\ collectors \in Seq([of: Members, actions: Seq(Actions)])
    /\ plan = NoPlan \/ plan \in Seq(Actions)
    /\ events \in Seq({"event", "error", "metrics", "plan"})
    /\ outcome \in {"none", "returned", "raised", "cancelled", "abandoned"}
    /\ proposed \in Seq(Actions)

-----------------------------------------------------------------------------
(* UI actions *)

\* The aggregated actions: those of the collectors one after another, sorted by
\* executionOrder (the sort is stable).
_aggregate_ui_action_plan ==
    LET all == FlattenSeq([i \in DOMAIN collectors |-> collectors[i].actions])
    IN FlattenSeq([n \in 1..MaxActions |-> OnlyOf(all, Numbered(n - 1))])

\* Mutant: the number counts down.
propose_ui_action_mut(i) ==
    LET c == collectors[i]
        action == [by |-> c.of, executionOrder |-> 0 - Len(c.actions)] IN
    /\ pc = "run"
    /\ Len(proposed) < MaxActions
    /\ collectors' = [collectors EXCEPT ![i].actions = Append(@, action)]
    /\ proposed' = Append(proposed, action)
    /\ UNCHANGED <<runs, shape, stream, pc, then, todo, stack, plan, events, outcome>>

\* The tool of member m: the number of an action is its place in the collector.
propose_ui_action(i) ==
    LET c == collectors[i]
        action == [by |-> c.of, executionOrder |-> Len(c.actions)] IN
    /\ pc = "run"
    /\ Len(proposed) < MaxActions
    /\ collectors' = [collectors EXCEPT ![i].actions = Append(@, action)]
    /\ proposed' = Append(proposed, action)
    /\ UNCHANGED <<runs, shape, stream, pc, then, todo, stack, plan, events, outcome>>

-----------------------------------------------------------------------------
(* The run *)

\* Mutant: the collectors of the last run stay.
Start_mut(s, streamed) ==
    /\ \/ pc = "idle"
       \/ pc = "over" /\ outcome \in {"returned", "raised"}
    /\ runs < MaxRuns
    /\ runs' = runs + 1
    /\ shape' = s /\ todo' = s /\ stream' = streamed
    /\ pc' = "connect" /\ then' = "idle"
    /\ plan' = NoPlan
    /\ events' = <<>> /\ outcome' = "none" /\ proposed' = <<>>
    /\ UNCHANGED <<stack, collectors>>

\* _reset_ui_action_collectors.  The engine is used again after a run that
\* returned or raised.
Start(s, streamed) ==
    /\ \/ pc = "idle"
       \/ pc = "over" /\ outcome \in {"returned", "raised"}
    /\ runs < MaxRuns
    /\ runs' = runs + 1
    /\ shape' = s /\ todo' = s /\ stream' = streamed
    /\ pc' = "connect" /\ then' = "idle"
    /\ collectors' = <<>> /\ plan' = NoPlan
    /\ events' = <<>> /\ outcome' = "none" /\ proposed' = <<>>
    /\ UNCHANGED stack

\* The session of the next member is entered; a leader has none.
__aenter__ ==
    /\ pc = "connect"
    /\ todo # <<>>
    /\ pc' = "build"
    /\ stack' = IF Head(todo) = Leader THEN stack ELSE Append(stack, Head(todo))
    /\ UNCHANGED <<runs, shape, stream, then, todo, collectors, plan, events, outcome, proposed>>

\* The member gets a collector if it has a UI skill.
_build_agno_agent ==
    /\ pc = "build"
    /\ todo' = Tail(todo)
    /\ pc' = IF todo' = <<>> THEN "run" ELSE "connect"
    /\ \/ collectors' = collectors
       \/ /\ Head(todo) # Leader
          /\ collectors' = Append(collectors, [of |-> Head(todo), actions |-> <<>>])
    /\ UNCHANGED <<runs, shape, stream, then, stack, plan, events, outcome, proposed>>

Go(step, next) ==
    /\ pc' = step /\ then' = next
    /\ UNCHANGED <<runs, shape, stream, todo, stack, collectors, plan, proposed>>

Yield(event, next) == events' = Append(events, event) /\ Go("yield", next) /\ UNCHANGED outcome

\* An event of the Agno stream, mapped and passed on.  RunError and TeamRunError
\* become an error event like that of an exception: Agno may raise after it, or go
\* on and end.
Event ==
    /\ pc = "run" /\ stream
    /\ Len(events) < MaxEvents
    /\ \E e \in {"event", "error"} : Yield(e, "run")

\* The session of a single agent is left inside the try, those of a team outside
\* of it: the except clause runs after or before they are closed.
Raise ==
    /\ pc \in {"connect", "build", "run"}
    /\ IF IsTeam(shape) THEN Go("catch", "raise") ELSE Go("unwind", "catch")
    /\ UNCHANGED <<events, outcome>>

\* Mutant: the exception is raised with no event.
Catch_mut ==
    /\ pc = "catch"
    /\ Go("raise", "raise") /\ UNCHANGED <<events, outcome>>

Catch ==
    /\ pc = "catch"
    /\ IF stream THEN Yield("error", "raise")
       ELSE Go("raise", "raise") /\ UNCHANGED <<events, outcome>>

\* Mutant: the exception leaves the run without the exit stack.
Reraise_mut ==
    /\ pc = "raise"
    /\ Go("over", "over")
    /\ outcome' = "raised"
    /\ UNCHANGED events

Reraise ==
    /\ pc = "raise"
    /\ IF stack # <<>> THEN Go("unwind", "raise") /\ UNCHANGED outcome
       ELSE Go("over", "over") /\ outcome' = "raised"
    /\ UNCHANGED events

Ends ==
    /\ pc = "run"
    /\ Go("unwind", "metrics")
    /\ UNCHANGED <<events, outcome>>

\* One session after another, the last one first; an error of a close is logged.
__aexit__ ==
    /\ pc = "unwind"
    /\ stack # <<>>
    /\ stack' = Front(stack)
    /\ UNCHANGED <<runs, shape, stream, pc, then, todo, collectors, plan, events, outcome, proposed>>

Unwound ==
    /\ pc = "unwind"
    /\ stack = <<>>
    /\ Go(then, "over")
    /\ UNCHANGED <<events, outcome>>

\* Agno may have counted nothing.
Metrics ==
    /\ pc = "metrics"
    /\ \/ stream /\ Yield("metrics", "plan")
       \/ Go("plan", "over") /\ UNCHANGED <<events, outcome>>

Plan ==
    /\ pc = "plan"
    /\ plan' = _aggregate_ui_action_plan
    /\ IF stream /\ plan' # <<>>
       THEN pc' = "yield" /\ then' = "return" /\ events' = Append(events, "plan")
       ELSE pc' = "return" /\ then' = "over" /\ UNCHANGED events
    /\ UNCHANGED <<runs, shape, stream, todo, stack, collectors, outcome, proposed>>

Return ==
    /\ pc = "return"
    /\ Go("over", "over")
    /\ outcome' = "returned"
    /\ UNCHANGED events

-----------------------------------------------------------------------------
(* The caller *)

\* It asks for the next event.
Resume ==
    /\ pc = "yield"
    /\ Go(then, "over")
    /\ UNCHANGED <<events, outcome>>

\* It closes the generator, as _handle_cancellation does before anything else.
Close ==
    /\ pc = "yield"
    /\ Go("unwind", "gone")
    /\ outcome' = "abandoned"
    /\ UNCHANGED events

\* It leaves the loop, by an exception of its own or because its client is gone.
\* The generator stays suspended with its sessions open.
Abandon ==
    /\ pc = "yield"
    /\ Go("dropped", "gone")
    /\ outcome' = "abandoned"
    /\ UNCHANGED events

\* Mutant: somebody still holds the generator.
Finalize_mut == pc = "dropped" /\ UNCHANGED vars

\* The event loop closes the generator.  GeneratorExit is no Exception: no event.
Finalize ==
    /\ pc = "dropped"
    /\ Go("unwind", "gone")
    /\ UNCHANGED <<events, outcome>>

\* Its task is cancelled while the run waits for a session, a query or Agno, or
\* for a session to close.  CancelledError is no Exception either: it takes the
\* place of an exception under way.  One more cancellation changes nothing.
Cancel ==
    /\ \/ pc \in {"connect", "build", "run"}
       \/ pc = "unwind" /\ stack # <<>> /\ outcome = "none"
    /\ Go("unwind", "gone")
    /\ outcome' = "cancelled"
    /\ UNCHANGED events

Gone ==
    /\ pc = "gone"
    /\ Go("over", "over")
    /\ UNCHANGED <<events, outcome>>

-----------------------------------------------------------------------------

Own ==
    \/ __aenter__ \/ _build_agno_agent \/ Catch \/ Reraise \/ __aexit__ \/ Unwound \/ Metrics \/ Plan
    \/ Return \/ Finalize \/ Gone

Next ==
    \/ \E s \in Shapes, streamed \in BOOLEAN : Start(s, streamed)
    \/ Own
    \/ \E i \in DOMAIN collectors : propose_ui_action(i)
    \/ Event \/ Raise \/ Ends
    \/ Resume \/ Close \/ Abandon \/ Cancel

Init ==
    /\ runs = 0 /\ shape = <<>> /\ stream = FALSE
    /\ pc = "idle" /\ then = "idle" /\ todo = <<>> /\ stack = <<>>
    /\ collectors = <<>> /\ plan = NoPlan
    /\ events = <<>> /\ outcome = "none" /\ proposed = <<>>

Spec == Init /\ [][Next]_vars

\* The event loop runs every coroutine that is ready, and closes the generators
\* nobody holds.  Neither Agno nor the caller is assumed to come to an end.
FairSpec == Spec /\ WF_vars(Own)

-----------------------------------------------------------------------------
(* Properties *)

NothingLeftOpen ==
    /\ pc \in {"idle", "over", "gone", "metrics", "plan", "return"} => stack = <<>>
    /\ pc = "catch" /\ ~IsTeam(shape) => stack = <<>>

\* A session is open only while its run is on, or dropped by its consumer and not
\* closed yet; Agno runs with the sessions of all members open, in the order of
\* the members; and the run gives control back for good with none open.
SessionsFollowTheRun ==
    /\ NothingLeftOpen
    /\ pc = "run" => stack = OnlyOf(shape, Members)

\* The sessions of a run whose consumer is gone are closed in the end.
AbandonedIsClosed == outcome \in {"abandoned", "cancelled"} ~> stack = <<>>

\* A stream ends in one way.  An exception, one of opening a session included, is
\* announced by an error event right before it, and such a stream tells no usage
\* and no plan.  A stream that returns has told its plan if it has one, whatever
\* error Agno spoke of.  The usage comes at most once, after everything Agno said,
\* and only the plan, once, after it: no error event of any origin follows them.
StreamEndsOnce ==
    /\ \A i \in DOMAIN events :
        /\ events[i] = "plan" => i = Len(events)
        /\ events[i] = "metrics" => \A j \in i + 1..Len(events) : events[j] = "plan"
    /\ pc = "over" /\ stream =>
        /\ outcome = "raised" => /\ events # <<>> /\ Last(events) = "error"
                                 /\ ~Contains(events, "metrics") /\ ~Contains(events, "plan")
        /\ outcome = "returned" => (plan # <<>> <=> Contains(events, "plan"))

\* The plan of a run holds what was proposed in this run and nothing of an earlier
\* one, what a member proposed in its order; a run that failed leaves no plan.
PlanIsOfThisRun ==
    /\ plan # NoPlan =>
        /\ Len(plan) = Len(proposed)
        /\ \A m \in Members : OnlyOf(plan, By(m)) = OnlyOf(proposed, By(m))
    /\ outcome = "returned" => plan # NoPlan
    /\ outcome \in {"raised", "cancelled"} => plan = NoPlan
=============================================================================
