# A TLA+ model of aiplatform

The repository is a FastAPI application that keeps definitions of agents, teams and
workflows in Postgres and executes them with the Agno library. What is interesting for a
specification is not any one request, but what happens when the requests, the background
scheduler of every replica, cancel requests, event tails, clients that leave and process
deaths meet in the two places where they share state: the rows of Postgres (seen through
SQLAlchemy sessions with their transactions and identity maps) and a few keys of Redis.

Paths below are relative to the repository.

## 1. Inventory

For each part: the state it keeps, what it does, whom it talks to, what is hard, what
makes it correct. `PROJECT.json` has the same list with its status.

**Workflow execution** (`app/services/workflow_execution_service.py`,
`workflow_run_service.py`, `app/agno_runtime/workflow_executor.py`, `workflow_context.py`,
`app/models/workflow_run.py`).
State: `workflow_runs`, `workflow_run_steps`, `workflow_events`, the two messages of the
turn, and in memory the `WorkflowContext` with the results so far. A run reads the
workflow's step list once, then executes the steps one after the other; each step gets the
previous step's output. Called from four places: `POST /workflows/{id}/run`, its streaming
form, a webhook, the scheduler; and by an agent, through the workflow trigger skill.
Hard: the same code runs under three transaction disciplines (one transaction rolled back
on an error, one transaction committed in spite of it, a commit per write), while the step
list can be replaced at any moment and the process or the client can go away.
Correct if: what is committed always tells a consistent story of the run, a finished run
is final, a run that is visible as running gets an outcome.

**Workflow registry** (`workflow_registry.py`, `workflow_repository.py`,
`app/models/workflow.py`, `app/api/v1/workflows.py`).
State: `workflows`, `workflow_steps`. Create, update, replace the step list (delete all,
insert all), soft delete. Hard: foreign keys `ON DELETE CASCADE` reach from the step list
into the audit rows of finished runs, and row locks reach from open runs into the registry.

**Workflow scheduling** (`app/schedule/ticker.py`, `service.py`,
`workflow_schedule_repository.py`, `app/main.py`).
State: `workflow_schedules` (enabled, timing, `next_run_at`), a Redis key per schedule
taken with `SET NX EX` and never released. Every replica polls the due schedules and works
through its list sequentially. Hard: the lock expires on its own, the list grows old while
it is worked through, `next_run_at` is advanced only after the run, PUT requests recompute it
meanwhile, and `POST /schedules/{id}/trigger` runs a schedule and advances it outside the lock.
Correct if: an enabled schedule has a next occurrence, an
occurrence is fired by one replica only, a due schedule is eventually served.

**Chat turns** (`chat_service.py`, `run_service.py`, `app/models/run.py`).
State: `agent_runs`, `agent_events`, `messages`, `usage_events`. A turn is admitted
(quota), dispatched to an agent, a team or the root agent, its engine events are recorded,
it completes, fails or is cancelled. Hard: three commit disciplines again, and the
cancellation that arrives at any moment. Correct if: status, event log, transcript, usage
and what the caller was told agree.

**Run control and event tail** (`app/core/run_control.py`, `app/api/v1/runs.py`).
State: a Redis flag `run:cancel:{id}` with a time to live; the tail keeps a session and its
identity map. Hard: the flag is set after the status was read; the tail decides on a status
it loaded before. Correct if: an accepted cancel ends a stream, a tail that closes has
delivered everything.

**Quota** (`quota_service.py`, `quota_repository.py`). State: policies, usage rows,
Redis counters per window. Admission reads the counters, the end of the turn increases
them. Hard: check-then-act over the length of a turn, three separate stores, commits on a
session the turn owns; policies and periods change in between. Correct if: overshoot is
bounded by the turns in flight, and whatever was used is charged once per metric and period.

**Chat and workflow sessions** (`session_repository.py`, both services'
`_get_or_create_session`). State: `chat_sessions`, whose id the client may choose. Hard:
select-then-insert. Correct if: one session per id, owned by one user.

**Workflow trigger skill** (`app/workflowskill/service.py`,
`app/core/workflow_trigger_context.py`). State: two context variables, the depth and the
visited workflows of the chain, and the rows a nested run writes into the session of the
request. Hard: the variables are set and reset around runs that fail, are refused or break
the transaction; the rows are committed by somebody else. Correct if: nesting is bounded, no
workflow is triggered twice on one chain, and what a model was told is what is recorded.

**Execution plans** (`app/execution/service.py`, `app/planning/service.py`). State:
`execution_plan_runs` and their steps. Sequential, with retries of a whole step, including
the workflows its agents triggered.

**Agent memory** (`app/agno_runtime/memory_db.py`, `agent_storage.py`, `memory_service.py`,
`explicit_memory.py`). State: `agent_memories`, and two histories of a session in Agno's tables,
one of agents run alone and one of teams. Hard: three
writers with transactions of their own (the request's session, one sync transaction per
memory operation, one per saved history), select-then-write, and a history that is loaded
and written back as a whole. Correct if: memories stay with their user, facts share the fate
of their turn, and a history loses nothing unless turns overlap.

**Capability resolution** (`capability_service.py`, `capability_repository.py`,
`skill_repository.py`, the `resolve_*` methods of `engine.py`). State: the hierarchy AgentOS,
team, agent, and the assignments on its levels, replaced by DELETE and INSERT. Hard: some
twenty statements at READ COMMITTED, an identity map, two administrators at once. Correct
if: every context is made of what each level held while it was resolved.

**Runtime engine and MCP adapter** (`app/agno_runtime/engine.py`, `mcp_client.py`,
`tool_adapter.py`). State of a run: one MCP session per member, a stack of context managers,
the UI action collectors, the events yielded. Hard: every await may fail or be cancelled,
the consumer of a stream may leave it at any yield. Correct if: sessions are closed, a
stream says once how it ended, a plan holds the actions of its own run.

**Prompts and models** (`prompt_service.py`, `model_service.py`, `api/v1/prompts.py`).
State: versioned prompts. The next version number is computed, then inserted.

**Webhooks**, **identity and request context**, **metadata CRUD**,
**observations and runtime events**, **business objects, attachments,
knowledge**: one-row requests, checks without state, formatting, or calls to other
services.

### How they interact

    POST /chat[/stream] ----> ChatService ------> RunTrackingService --> agent_runs, agent_events
                                 |   ^  \-------> QuotaService --------> usage rows, Redis counters
                                 v   +-- Redis run:cancel:{id} <------- POST /runs/{id}/cancel
    GET /runs/{id}/stream --(polls)----> agent_runs, agent_events

    engine: resolve_* (reads the hierarchy, capabilities) --> run_* --> MCP sessions, Agno
       ^                                                        |  +--> memories, history
       +---- WorkflowExecutionService <-- trigger_workflow -----+
       +---- ExecutionEngineService <-- POST /execution-plans/run

    POST /workflows/{id}/run[/stream], webhook --+
    replicas' ticker loop --(Redis lock)---------+--> WorkflowExecutionService
       |                                                  |     -> WorkflowExecutor -> engine
       v                                                  v
    workflow_schedules <-- PUT, trigger           workflow_runs, _run_steps, _events
                                                          ^ cascade
    PUT /workflows/{id} --> WorkflowRegistry --> workflow_steps

The hazards this gives rise to are listed, each at its line and with the properties that
watch it, under `hazards` in `PROJECT.json`.

## 2. Modules

| module | models |
|---|---|
| `RunLifecycle` | the abstract specification: what a reader of an audit trail may rely on |
| `WorkflowRuns` | one workflow, its registry operations and any number of runs of it |
| `ScheduleTicker` | the schedules, PUT and trigger requests, the polling loops, the Redis locks, time |
| `ChatTurns` | chat turns, cancel requests and event tails |
| `QuotaCounters` | policies, their counters and the usage rows of turns |
| `Dispatch` | the resolution of metadata and capabilities against administrators |
| `EngineRuns` | a run of the engine: MCP sessions, events, UI action plan, generators |
| `NestedRuns` | workflows triggered by agents, and execution plans, within one request |
| `Conversations` | sessions, memories, facts and history across the turns of users |
| `*_proofs` | the theorems about each of the last eight |
| `MC*` | symmetry sets, hierarchies and function constants for TLC |

How they divide the work: `EngineRuns` is what its callers `ChatTurns`, `WorkflowRuns` and
`NestedRuns` see as "yields events, yields an error event and raises, or ends"; `Dispatch`
is what comes before it. `NestedRuns` composes workflow runs, plans and turns inside one
session; what the rows of a single run look like on the way is in `WorkflowRuns` and
`ChatTurns`, which both implement `RunLifecycle`. `Conversations` looks at several turns and
only at what they share.

### RunLifecycle

Two variables: the committed `status` and the committed `log` of each run. A run appears
pending, or already finished; it goes to running; its log grows; it finishes; then nothing
changes any more. Both detailed modules implement it (`INSTANCE RunLifecycle WITH`, the
property `ImplementsLifecycle`), although their code and their transaction structure
differ.

### WorkflowRuns

`workflow` is the definition's row with the version of its step list; `db[r]` holds the
committed rows of run `r`, `txn[r]` those flushed in its open transaction, `results[r]` is
the `WorkflowContext`, `plan[r]` the step list it read, `pc[r]` the place its task is at.
The service's methods are operators on a record of rows (`create_run`, `start_step`,
`fail_step`, ...); an action is one handler up to its next `await` that another session can
notice: `Begin` (validation, session, run, message), `MarkRunning`, `StartStep`,
`StepCompleted`, `StepFailed`, `Fail`, `Complete`. `Write` commits at once in a stream and
only flushes otherwise; `Commit` and `Rollback` are what `get_db`, `session_scope` and the
generator do at the end.

Rows of the step list are identified by their version because `replace_steps` deletes and
reinserts all of them. The foreign keys are modelled by what they do: `replace_steps`
empties the step rows of every committed run (cascade) and waits while an open transaction
holds key-share locks on the current list (`StepsLocked`); a run that goes on with rows
that are gone meets an integrity or stale-data error (`Conflict`), which no handler turns
into a failed run. `Die` is a client that stops reading or a process that dies: a
`CancelledError` is not an `Exception`, so no handler runs.

Abstracted: step types, prompts and texts (two texts are enough to tell an input from
another's output), failure messages, timestamps, the session row. A run an agent
triggers inside another run is in `NestedRuns`.

### ScheduleTicker

Time is relative: `sched[s].next` counts down to `next_run_at`, `lock[s]` to the expiry of
the Redis key, `clock[p]` counts the time replica `p` has spent in its present step.
`Pass` lets a unit of time go by if no replica has used up what its step may take: `MaxRun`
for a run, `TickSleep` for the sleep, `MaxLag` for everything else. The code bounds neither
a run nor a lag; the bounds are parameters, and the runs choose them on both sides of
`LockTTL`.

A loop goes `Poll` (the list of due schedules, in a session that is then closed), `TryLock`
per schedule (a loser skips it), `Refetch` (looks at `enabled`, keeps the timing),
`RecordFired` (the run has ended, `next_run_at` from the timing kept), `EndTick`, `WakeUp`.
`RunConflict` is a run that leaves the session broken, so that `record_fired` fails too; every run
of a schedule may do so. `Crash` leaves the lock behind.

`request[r]` is a PUT or a manual trigger in flight. `update` is two actions, `update_columns` and
`update_next_run_at`, because it flushes the columns, refreshes the row and computes `next_run_at`
from what it read; an update whose values equal those loaded sends nothing and locks nothing. A
trigger reads the row (`trigger_reads`), runs the workflow in the session of the request without
the lock, and calls `record_fired`, which writes `next_run_at`, or NULL for a schedule it read
disabled: the same `update_next_run_at`. A request that has sent an UPDATE holds the row's lock
(`RowLocked`), which makes a delete, another request and `record_fired` wait. `aborts` is whatever
makes `get_db` roll the request back. `overlapped` is a history variable, the schedules two
requests have worked on at a time. In the ticker the row it fired was read enabled, so there
`RecordFired` has no such branch. A manual run fires no scheduled occurrence and counts for none.

Abstracted: calendar arithmetic (a cron expression names some later instant up to `MaxGap`
away, an interval exactly one), outcome columns, the batch limit of 100 of `list_due`.

### ChatTurns

`db`, `txn`, `pc` and `mode` as in `WorkflowRuns`. The engine is `engine[t]`, which may yield
(`EventArrives`), for ever if it likes, yields an error event before it raises, or ends. An error
event may also be one of Agno's own (`RunError`, `TeamRunError`), after which the engine goes on or
ends, and the turn is completed like any other.
A log keeps the first `MaxEvents` engine events. The streamed form checks the
flag between receiving an event and recording it (`CheckCancel`), and a cancellation is
`HandleCancellation` and then `ClearCancel`. The cancel request is `CancelReads` and
`CancelSets`: the turn may end between them. The tail is `TailOpens`, then `TailGets` and
`TailLists` alternately; `tail[t].known` is the status of the instance its identity map
holds, which a later select does not overwrite.
`RecordUsage` is the end of a turn: `record_usage` commits the session it is handed and the turn is
answered, or is switched off, or rolls the session back because its insert failed. The rollback
expires every instance the session has loaded, the turn next reads an attribute of one (`run.id`,
`ctx.agent_os.code`), and the load this needs, outside of any `await`, raises: the caller gets an
exception, over a run that is completed (stream) or gone with the rollback. `Breaks` is any other
statement of the turn that fails, or a question to Redis: no `RuntimeExecutionError`, so no handler
marks the run, and the exception reaches the caller. How a turn ended for its caller is in `pc`:
`answered`, `errored` (a last error event), `stopped` (`run_cancelled`), `raised`, `refused`, `dead`.

Abstracted: texts (content or not), identity, sessions, cost, the three dispatch branches
of the stream, which do the same to rows and flag.

### QuotaCounters

`policy[p]` is the row of a policy (created or not, enabled, limit, priority), `counter[p][b]`
the Redis counter under the policy's key for the period numbered `b`, `rows` and `unwritten`
the sums of the usage rows and of those that could not be inserted. A turn is a local
state: which policies it still has to look at, the limits as it read them, the periods at
the moment it looked at the clock, what it used. `SelectPolicies`, one `CheckCounter` per
policy and `Admit` are `assert_within_quota`; `InsertUsage`, `SelectCounters` (policies and
clock are read *again*), one `IncrementCounter` per policy and `Recorded` are
`record_usage`, with `Completes` or `Fails` in between. `Change`, `PeriodEnds` and the steps
of other turns come between any two of them; `Breaks` is a death or an error at any point.

The choice of `_select_effective_policies` is `Best` (no other match beats it) and `First`
(what the loop keeps of equal ones). `floor` is a history variable: it remembers each
counter as it was when somebody last changed whom its policy limits, or to what, since a
policy cannot be held to a limit that was passed before it was set.

A turn is charged to the policies in force for it, one for each metric and period, as the code does;
that not every *matching* policy is charged is one of the disagreements listed in section 3.

Abstracted: metrics and periods are members of `Slots`, callers stand for a user with his
groups and a model, amounts are small numbers in the unit of their metric. All callers are
identified and the feature is on; otherwise neither function does anything. A PUT does not
change `window_seconds` here.

### Dispatch

`rows`, `enabled`, `grants` and `links` are the committed hierarchy, assignments and links of
skills; `edit[e]` is a transaction that replaces one set. Every statement of a resolution is
an action: the rows from the AgentOS down or from the given row up (`Lookup`), the list of
teams and of members, then for each member (`build`) the three rows again (`Recheck`, which
the identity map answers with the flags loaded before, though the WHERE clause notices a
deletion) and the four reads of capabilities. `set_begin`, `set_delete` and `set_insert` are
the snapshot of the DELETE, the DELETE and the INSERT with the commit; what Postgres does
between two of them is `LockedByOther` (a row somebody else has deleted is waited for) and
`Forget` (a DELETE that waited skips what is gone and does not see what came). A code that
is still there violates the unique constraint (`set_conflict`).

`up`, `ever`, `always` are history variables: what was up, held at some time, held all the
time since the resolution began. They are what "regular" means, the promise of a read that
overlaps with writes.

The lists of members and of teams are read with `limit=200` and filtered afterwards; the models are
of hierarchies within that page (`PageAssumption`).

Abstracted: prompts, models and names, which are read from the same rows; the creation of
the rows that exist at first.

### EngineRuns

One engine and its successive runs, of a single agent, a team or a root over teams, plain or
streamed. `todo` is what is still to be built, `stack` the members whose MCP session is open,
`collectors` the UI action collectors. `pc` and `then` are the control of Python: an exception
in a single agent leaves the session before the `except` clause, in a team after it;
`CancelledError` and `GeneratorExit` are no `Exception` and pass it by. A stream stops at each
`yield`, where its consumer asks for more (`Resume`), closes it (`Close`) or drops it
(`Abandon`; the event loop closes it later, `Finalize`).

Agno is "any event, any failure, or the end". Among its events are errors (`RunError` and
`TeamRunError` are mapped to `error` like the engine's own announcement of an exception), after
which a stream may go on to its metrics and its plan and return.

A cancellation may also reach a run that is closing its sessions (`Cancel` at `unwind`); the exit
stack then goes on with the next session. A close that fails (`MCPSession.__aexit__` logs it) or is
cut by such a cancellation counts as a close: what the server keeps of it is not in the model, and
a generator that the event loop finalizes is closed in a task of the loop's own.

Abstracted: instructions, tools, texts, numbers of tokens; a second cancellation of one run changes
nothing here and is left out.

### NestedRuns

One request: a plain or streamed turn, a workflow or an execution plan. Its runs nest like
calls, so they are a `stack` of frames; each frame keeps the values its exit resets `depth` and
`visited` to. All write into `rows`, the session of the request, which the request commits or
rolls back, a streamed turn at every event. `Retry` is tenacity's second attempt of a plan's
step, `Breaks` a database error, after which every statement of the session raises until the
request rolls back. A turn ends (`ChatEnds`) as in `ChatTurns`: `record_usage` has committed the
session of an answered one, or has rolled it back, and then the request fails; a stream has
committed its completed run before (`Loses`).

Assumed: an agent's tool calls come one after another. Agno may run several of one model
answer at once; two of them would then use one `AsyncSession` concurrently, which SQLAlchemy
forbids, so there is nothing the code promises to check. A workflow that is streamed as the
request itself commits at its own steps (`WorkflowRuns`); here its frame commits at the end.

### Conversations

Turns of any users name sessions; a scheduled run opens one of its own (`Schedule`). `owner`,
`recorded`, `facts` are what the sessions of requests have committed, `memory` what
`PlatformMemoryDb` wrote, `history` what Agno's storage holds: of each session one history for each
`kind` of run, `agno_agent_sessions` for an agent that is run alone and `agno_team_sessions` for a
team or the root. `Lookup` and `Create` are the SELECT and the INSERT of `_get_or_create_session`
(the INSERT waits for an uncommitted one of the same id, `opened`); `upsert_select` and
`upsert_write` the two statements of `upsert_memory`; `Start` loads the history of the turn's kind
and the memories, `SaveHistory` writes all of that history back. Of the history a turn is *given*
the last `HistoryRuns` runs (`num_history_runs`), in the order in which they were saved (`place`).
`remember_fact` answers when the fact is flushed; `Commit`, of a streamed turn at every event and
of the others at the end, makes it last. A turn may fail or be cancelled after its history was
saved (a session that cannot be closed at the end of a run); a stream and a scheduled run commit
when they fail, a plain one is rolled back; `UsageFails` is the rollback of `record_usage`. `met`
and `due` are history variables for the property about overlapping turns.

Abstracted: the texts; the order of memories. A new memory has a new id, as Agno makes them, so
that an id is never used again by another user. A turn is one run of the engine; a workflow of
several steps, which is several runs that each read and write a history, is left out.

## 3. Runs

### What holds

| run | instance | distinct states | shows |
|---|---|---|---|
| `workflow_trail` | 2 runs, 2 texts, lists of up to 2 steps, 2 versions of the list | 851 260 | `StepChain`, `OutcomeMatchesSteps`, `EventLogMatchesRun`, `AllOrNothing`, `FinishedRunIsFrozen`, `ImplementsLifecycle`, `RunSettles` |
| `ticker_service` | 1 schedule, 2 replicas, 2 requests (PUT or trigger), lag and run 1, lock 4, 1 crash | 784 304 | `EnabledIsPlanned`, `OccurrenceFiresOnce`, `DueIsServed` |
| `quota_limits` | 2 turns at a time and 3 in all, a policy of their user and one for everybody, limits 0 and 1, usage 0 or 1, 2 periods, 3 edits, 1 fault | 843 322 (up to symmetry) | `OvershootIsBounded`, `ChargedOnce` |
| `chat_turns` | 1 turn, logs of up to 3 engine events | 318 562 | `TranscriptMatchesOutcome`, `EndMatchesRecord`, `ClosedTailIsComplete`, `ImplementsLifecycle`, `CancelTakesEffect` |
| `dispatch` | an AgentOS, a team of 2 agents, a team without members that may be created, 1 skill, 2 codes, 2 replacements at a time, 2 edits | 696 629 (up to symmetry) | `ResolutionIsRegular`, `ContextWasUp`, `ReplacementIsExactUnlessRaced` |
| `engine_runs` | an agent, a team of 2, a root over two teams of one; 3 actions, 3 events, 2 runs | 81 251 | `SessionsFollowTheRun`, `StreamEndsOnce`, `PlanIsOfThisRun`, `AbandonedIsClosed` |
| `nested_runs` | 3 workflows that trigger each other, one of 2 steps, one for the first level only; a plan of 2 steps, the first retried once; 1 call per agent, depth 2 | 152 671 | `GuardFollowsTheChain`, `NestingIsBounded`, `CommittedIsSettled`, `ToldIsRecorded`, `RequestEnds` |
| `conversations` | 3 turns, a known and an anonymous user, 1 session id, 1 memory, 1 fact per turn; the last run of an agent and the last 2 of a team are given | 6 202 489 (up to symmetry) | `UsersStayApart`, `FactsFollowTheTurn`, `HistoryKeepsTurns` |

Each run also checks the `TypeOK` of its module. Runs with a liveness property or a
refinement use no symmetry.

Why these bounds are enough. Two workflow runs are what it takes for a run to meet another
run's lock and another run's cascade; what is said of a run never mentions a third. Two steps
give a first, a last and a predecessor; two versions of the list give a list that is
replaced under a run, before it and after it. Two replicas race for one key; one crash lets
a lock be left behind (`MaxFaults` bounds crashes; runs may fail, and may break their session, every
time). Two requests are what it takes for one to compute from a row the other is changing. Turns share nothing with each other in `ChatTurns` (each
has its own flag, rows and tail), so one turn with its canceller and its tail is the
general case, and the theorems cover any number; three events give content before, at and
after a cancel.
In `quota_limits` a limit of 1 lets two turns in flight through together, and a third that
comes after the first must be refused: three turns are the least that could exceed the bound.
Three edits create both policies and change one of them under a turn, or delete one and
create it again.
In `dispatch` two edits are enough for a replacement to race with another, or with a row that
is disabled or deleted under a resolution; two members let the second one be resolved after
the first one's statements. Root over teams, team and agent are all the shapes of
`EngineRuns`, and the second run meets what the first left behind. Three workflows give a
direct and an indirect cycle, a limit of a skill below the global one and one above it. Three
turns let a third one find what two others left of a session, a memory and a history, and the last
of two runs of an agent push the first out of what is given (`HistoryRuns`; the code gives ten).
Only one user of this run is known, so that a memory of one known user in the hands of another
rests on the theorem `Apart`, which is about any number of them.
The theorems do without these bounds.
`MaxSteps`, `MaxVersion`, `MaxGap`, `MaxRun`, `MaxLag`, `MaxFaults`, `MaxEvents`, `MaxUsage`,
`MaxPeriods`, `MaxEdits`, `MaxCalls`, `MaxActions`, `MaxRuns` and `MaxFacts` are all the bounds
there are. `conversations` sets `TokenRequired` to FALSE, which allows every user a request
could be taken to be of.

`OccurrenceFiresOnce` depends on time. An occurrence is safe when the lock taken for it
outlives the holder's re-fetch and run (`MaxLag + MaxRun`) and then everything a replica
that polled just before the end of that run does until it reaches the same entry of its own
list (`MaxLag`, and `2 * MaxLag + MaxRun` more for each entry before it). With `n` schedules this
is `LockTTL > n * (2 * MaxLag + MaxRun)`, the condition `LockIsLong` of the theorem `FiresOnce`; the
lock of `ticker_service` is the shortest for its one schedule, 4 > 3 (with 3 TLC finds an occurrence
fired twice). The configured default of the
lock is no bound on a run at all, so this is a condition on operation; `ticker_slow_run` shows
what happens without it.

Every system may stop (every task ended, nobody calls), except for two: `ScheduleTicker` and
`Dispatch` always have a next step, and TLC checks that they have.

### Fairness

* `WorkflowRuns`: weak fairness of a started run's own steps. The event loop schedules a
  ready task; the engine call returns or raises. No one is obliged to call the API,
  and `Die` is never obliged to happen nor kept from it: `RunSettles` allows for both.
* `ChatTurns`: the same, with the engine only obliged to yield, raise or end when asked,
  not ever to end: `CancelTakesEffect` holds for an engine that streams for ever.
  An open tail keeps polling.
* `ScheduleTicker`: time passes, a loop goes on, a crashed replica is started again, a run ends
  one way or the other (`WF_vars(RecordFired(p) \/ RunConflict(p))`), a request that has written
  ends. `RecordFired` waits for a row lock that requests hold again and again; that it is not
  overtaken for ever is what Postgres does, which grants row locks in the order in which they are
  asked for. Nothing keeps the runs of a schedule from breaking their session every time, so
  `DueIsServed` has two halves: a schedule that is due is run, again and again; and it is no longer
  due at last, *if* such runs stop. Crashes have no fairness.
* `EngineRuns`: `WF_vars(Own)`, the run's own next step and the closing of a dropped generator,
  which asyncio's hook schedules. Neither Agno nor the consumer is obliged to go on or to end.
* `NestedRuns`: `WF_vars(Work)`, the request goes on: a call of an agent returns or raises.
  That agents and tools do not call each other for ever is not assumed but follows from the
  guard and from `MaxCalls`, the number of calls one answer of a model makes.
* `QuotaCounters`, `Dispatch`, `Conversations`: none; their properties are about safety only.

### Where code and documents disagree

`findings` in `PROJECT.json` quotes both sides of each. Four have a run that checks the sentence as
it is written; TLC's counterexample is the story.

| run | property | what happens |
|---|---|---|
| `workflow_marked` | `RunIsMarked` | an edit during a streamed run raises an error nobody handles, the run stays RUNNING |
| `ticker_slow_run` | `OccurrenceFiresOnce` | the lock expires during a run, another replica fires the same occurrence |
| `chat_tail` | `TailLearnsOfTheEnd` | a tail opened during a run keeps reading the status it loaded first and never closes |
| `nested_cycle` | `NoCycle` | the workflow a request runs is not in the visited set and is run again by its own agent |

`RunIsMarked` and `TailLearnsOfTheEnd` are checked under `UninterruptedSpec`, in which nobody
dies or leaves: the run is not marked, and the tail does not close, although nothing went
wrong with a process. In `ticker_slow_run` replicas lose no time between their steps, so
that the length of the run alone is to blame.

Eight more are met on the way by a passing run. Its property is the strongest sentence that is
true of the code there, and says where it stops; the repository says more.

| run | property | the code | the repository |
|---|---|---|---|
| `workflow_trail` | `AllOrNothing` | a run started by a request that fails is rolled back by `get_db`, with the step that failed: no record of it is left | `docs/Workflow.md:92` and `:164`, `workflow_execution_service.py:7-8`: the failed run and its steps are recorded |
| `workflow_trail` | `FinishedRunIsFrozen` | a PUT of the step list deletes the step rows of finished runs (cascade): exactly then, and all of them | `docs/Workflow.md:91`: "Append-only" |
| `ticker_service` | `EnabledIsPlanned` | of two overlapping requests for a schedule, one that read it disabled writes NULL over the `next_run_at` of the one that enabled it; so the property excepts the schedules requests overlapped on | `schedule/service.py:75`: recomputed "if re-enabling" |
| `ticker_service` | `DueIsServed` | a run that breaks its session takes `record_fired` with it: if all of them do, the schedule stays due for ever | `ticker.py:20-22`: advanced "regardless of success/failure" |
| `quota_limits` | `ChargedOnce` | of several matching policies one is charged for each metric and period, and one for all models gives way to one for a model | `quota_service.py:213`: "every matching policy's Redis counter"; `models/quota.py:59-63` |
| `chat_turns` | `EndMatchesRecord` | a usage row that cannot be inserted turns a completed turn into an exception (plain: with nothing left on record) | `quota_service.py:217`: "must never fail the chat turn that already completed" |
| `dispatch` | `ReplacementIsExactUnlessRaced` | of two replacements of one set at the same time, the DELETE that waited does not see the rows of the other: the union may remain | `docs/API.md:165`: "Replaces the full set" |
| `conversations` | `HistoryKeepsTurns` | agents run alone and teams have their histories in two tables, and only the last ten runs are given | `workflow_execution_service.py:45-47`, `docs/Workflow.md:172`: a workflow and the chat share the history |

Met while modelling besides:

* A skill that was soft-deleted still contributes its codes: the join of
  `get_capability_codes_for_agent` takes no notice of `deleted_at`.
* `executionOrder` is counted per member, so that the actions of two members of a team get the
  same numbers and are interleaved in the plan; the order *within* a member is what
  `PlanIsOfThisRun` states.
* A step of an execution plan that names an agent looks its team up by the empty code and always
  fails, and the fallback step of a plan without steps is therefore not "identical to today's
  direct dispatch" (`app/planning/service.py:9`) for a caller who names an agent or nothing.
* `MemoryService.sync_from_agno`, "the bridge: chat_service.py calls it after every" turn
  (`app/services/memory_service.py:16`), is called by nothing; memories reach the table through
  `PlatformMemoryDb` only.
* `remember_fact` tells the model that a fact is stored before it is committed; a plain turn
  that fails loses it (`FactsFollowTheTurn`). Agno's history, in a transaction of its own,
  outlives a turn that is rolled back after it was saved (by a session that cannot be closed, or by
  `record_usage`), and of two overlapping turns of a session the later save drops the earlier one
  (`HistoryKeepsTurns`). A memory that is
  deleted under a run may be inserted again by that run.
* COST_USD counters grow in dollars while the limit is documented in cents, and a per-model
  policy of higher priority hides the all-models policy of the same scope (`Best`): the
  properties of `QuotaCounters` are about the policies in force, in one unit.
* An error event of Agno's own (`RunError`, `TeamRunError`) is passed on without an exception: the
  stream goes on to its metrics and its plan, and the turn is completed (`StreamEndsOnce` says what
  does hold of the last event).
* A statement of a streamed turn that fails outside the engine (`emit_event`, the question for the
  cancel flag) is no `RuntimeExecutionError`: the caller gets the exception and the committed run
  stays RUNNING (`Breaks`).

## 4. What is proved

The proofs are in modules of their own and hold for every value of the constants. In each,
`InvHolds` is the inductive invariant (`Spec => []Inv`), with one lemma or step per action, and
the other theorems follow from it, or from it and an invariant on top of it.

**WorkflowRuns_proofs.** From `TextAssumption` and `BoundAssumption`, for any set of runs
and texts and any number of steps and versions:

* `TypeCorrect`, `StepsChain`, `OutcomeIsRight`, `Atomic`: `Spec => []` of `TypeOK`,
  `StepChain`, `OutcomeMatchesSteps`, `AllOrNothing`;
* `LogTellsTheRun`: `Spec => []EventLogMatchesRun`;
* `FinishedIsFrozen`: the action property `FinishedRunIsFrozen`;
* `Refinement`: `Spec => Audit!Spec`, the lifecycle of `RunLifecycle`.

None of the properties is inductive as
it stands: that the last step of a COMPLETED run is completed cannot be seen from the
committed rows before `Complete` commits, because in two of the three modes there are none.
`Inv` is `TypeOK` and, for every run, `RunInv`, which says of the rows *its own session* sees

* `Chain`: all step rows but the last are completed and fed by their predecessor, and
  `results` is the list of their outputs, unless the list was replaced under the run;
* `TaskInv`: what the label `pc` of an active task implies for status, length and last row of the
  flushed rows, and that there are no step rows once the list was replaced;
* `Recorded`: the step rows it has written say what its `results` say;
* `Outcome`: the committed outcome matches the committed steps.

Three more conjuncts of `RunInv` carry `AllOrNothing` and `FinishedRunIsFrozen`: outside a stream
there is nothing on record before the end, at the end there is nothing only of a request, and
FAILED only of the ticker; and a finished run whose list was replaced has no step row, whether the
list was replaced before it finished or after, so that a later replacement finds nothing more to
delete.

`LogTellsTheRun` has an invariant of its own on top, `LogInv`: the log of the rows a task sees is
in order, starts and completions have the numbers its place asks for (one more start in the
middle of a step), and what was committed matches the status. The numbers are cardinalities of
sets of positions; appending an event adds one position to one of them (`CountAppend`).

**ChatTurns_proofs.** From `MaxEventsAssumption`, for any set of turns: `TypeCorrect`,
`TranscriptIsRight`, `EndIsHonest`, `ClosedTail`, and `Refinement` (`Spec => Audit!Spec`).
`Inv` has two halves. `RowsInv` says, per place of the task and form of the turn, which rows are
flushed and which are committed, and that the messages and the usage agree with the status; the ends
of a turn for its caller are places too, so that `EndIsHonest` is read off it.
`ObserverInv` says that a flag, and a stream that is being cancelled, come from an accepted
request, and that what a tail knows of an outcome is true. The link is `Moves`: every step
moves the committed rows of a turn along the lifecycle or leaves them, which gives the
refinement, and keeps an outcome and its log, which is why a tail stays right while the rest
goes on.

**ScheduleTicker_proofs.** From `TimeAssumption`, for any number of schedules and replicas and any
timing:

* `TypeCorrect`;
* `EnabledHasNextRun`: an enabled schedule always has a `next_run_at`, of the schedules on which no two
  requests ever overlapped, with no other condition. The invariant adds to `EnabledIsPlanned` that of
  such a schedule at most one request is at work, and that one that has sent nothing yet agrees with
  the row on whether it is enabled (`RequestIsAlone`): only requests change that, the ticker's
  `record_fired` can only set `next_run_at`, and a request that has sent its columns holds the row;
* `FiresOnce`: `OccurrenceFiresOnce`, if there are finitely many schedules and the lock lasts for
  one turn over all of them (`LockIsLong`), whatever replicas crash, runs fail, and however many
  requests there are. `LockInv` counts time in two currencies. `Spent` is what a replica may have
  used up of its present entry, so the lock of the entry it works on has at least `LockTTL - Spent`
  left; `Budget` is what the rest of its list may cost, so the lock of every entry of that list
  that somebody else handled since the poll has more than `Budget - Spent` left. When time passes
  the locks shrink and `Spent` grows by the same; when a replica goes on to its next entry, the
  budget shrinks by what one entry may cost at most. So whoever reaches such an entry finds the
  lock still there.

**QuotaCounters_proofs.** From `PolicyAssumption` and `UsageAssumption`, for any policies,
callers, limits, usage per turn, number of periods and finite sets of policies and turns:
`TypeCorrect`, `Overshoot` and `ChargedAtMostOnce` (`Spec => []` of `TypeOK`, `OvershootIsBounded` and
`ChargedOnce`). The bound alone is not
inductive: with a counter at the bound and one more turn let through, the next increment
breaks it. `Inv` counts each turn as if it were going to use `MaxUsage` from the moment its
admission can no longer stop it (`MayCharge`: its increment is before it, or it was let
through, or what it is being checked against is an older period or a limit above the present
one), and says that a counter together with all of these stays within the bound
(`PendingFits`). A turn joins them only past a counter below the limit, where there is room
for all turns (`Below`); an increment comes out of its own share (`Charges`); a change of
policies starts from the present counter; and the counters of a period that has not begun
are empty (`FutureIsEmpty`), so the end of a period leaves room for whoever was let through
before.
`ChargedOnce` compares two sums, over the counters of a slot and over the turns that still owe it
something. The sums (`SumFunction`) are unfolded by induction on finite sets, stated for a fixed
function, which leaves the rule first-order: take one element out, change one value, move one
element from one sum to the other. With them a step moves one summand. What makes it inductive is
`OnePerSlot`: a turn that counts owes no slot to two policies, which is what
`_select_effective_policies` is for.

**NestedRuns_proofs.** From `NestedRunsAssumption`, for any workflows, skills, plans, depths and
numbers of calls: `TypeCorrect`, `GuardIsTheChain`, `NestingBound`, `CommitsSettled`,
`TellsTheTruth`. The invariant is about the whole stack, of which an action touches the top
only: each frame remembers the depth and the visited set of the chain below it
(`FramesRemember`), which is what makes `Leave` restore the right ones; each row that no frame
works on is settled and each frame's row fits its phase; and a streamed turn, the only request
that commits before its end, does so while nothing is nested below it.

**Conversations_proofs.** From `ConversationsAssumption`, for any turns, users, sessions and
memories: `TypeCorrect`, `Apart`, `FactsFollow`, `HistoryKept`. One part of `Inv` per store.
`Sessions`: a turn past its look-up has found the session to be its user's, or is the only one
that is inserting it. `Held`: all turns that hold a memory, in what they were given or between
their two statements, are of one user. `FactsInv`: what a turn told and what is on record of it, per
form and place. `HistoryInv` is about each of the two histories of a session: turns of it that are
under way together have met (`Meetings`); it and what was read of it hold saved turns of this session
and kind only (`Places`); so a turn that met nobody is in the history once it is saved, and in what
every later turn has loaded and will write back (`Kept`); and the turns a run was to be given are
answered, and it was given those that met nobody (`Due`). What "among the last `HistoryRuns`" means
does not depend on what later saves overwrote: a turn among the last of all that were saved is
among the last of what was loaded, a subset of them. The counts
need the set of turns to be finite, which `ConversationsAssumption` says.

**EngineRuns_proofs.** From `ShapesAssumption` and `PlanAssumption` (`None` is not a list of actions),
for any members, shapes, events, actions and runs: `TypeCorrect`, `SessionsFollow`, `StreamEnds`,
`PlanIsComplete` (`Spec => []` of `TypeOK`, `SessionsFollowTheRun`, `StreamEndsOnce`, `PlanIsOfThisRun`),
and `NoSessionLeft` (`NothingLeftOpen`). `Inv` relates the place of the run, its open sessions and what
it has said, with the place read through the pending `then` of a yield or an unwinding, and adds

* `Connected`: the open sessions followed by the members still to be connected are the members of
  the shape, in its order;
* `ToBuild`: nobody is left to be built who has a collector already, and nobody twice;
* `Gathered`: each member has at most one collector, which holds exactly its proposals in their
  order, numbered from 0, and all collectors together hold as many as were proposed.

From `Gathered` it follows what the aggregation does: flattening the collectors keeps each member's
actions together, sorting by number keeps a member's actions in order because they are sorted
already (`SortedAlready`), and loses none because every number is below `MaxActions`
(`SortedLength`). The lemmas behind it (selecting from a sequence appended to or concatenated,
flattening, the stable sort as one selection per number) are proved by induction on lengths. The
selection is `OnlyOf`, a recursive function, where one would write `SelectSeq`, whose definition
the prover cannot expand.

**Dispatch_proofs.** From `HierarchyAssumption`, for any hierarchy, codes, skills and
administrators: `TypeCorrect`, `Regular` (`ResolutionIsRegular`), `WasUp` (`ContextWasUp`), `Exact`
(`ReplacementIsExactUnlessRaced`). `Inv` says what the statements so far have established:
the history of a resolution covers the present (`Watched`), what has been read lies between
what was always held and what was ever held (`Accumulated`), a row is still on the path or has
been seen up, or seen not deleted (`Selected`); and for a replacement, whatever it has not
found was written by a racing one (`Raced`). An edit is one lemma for all of them
(`EditKeepsResolution`): it can only widen the history.

Inductions (on lengths, on the size of finite sets) are carried out on sets of numbers: the least
one at which a statement fails exists (`NatLessThanWellFounded`, `WFMin`), and it does not fail
there. The library's induction theorems themselves take an operator as a
parameter and cannot be instantiated by the provers in use.

Only model-checked: liveness (`RunSettles`, `DueIsServed`, `CancelTakesEffect`, `AbandonedIsClosed`,
`RequestEnds`), whose proofs need ENABLED. Every invariant, action property and refinement of the
passing runs is also a theorem, of which `OccurrenceFiresOnce` has the condition `LockIsLong`.

## 5. Not modelled

Reasons are given per component in `PROJECT.json`. In short:

* what only formats, validates or calls another service: attachments, knowledge, business
  objects, UI context, observability, tool adapters, text deduplication, cryptographic
  verification of tokens and webhook signatures;
* one-row requests on which nothing else depends: models, UI metadata, observations, lists;
* prompts: composition of text, and a version number whose only hazard is a request that fails
  at its one INSERT;
* within the modules: overlapping PUTs of one step list (the replacement is one action of
  `WorkflowRuns`; the race of a DELETE and an INSERT with another pair is modelled where it can
  leave something, in `Dispatch`); the limit of 100 of `list_due`; a PUT of `window_seconds`; a
  workflow of several steps in `Conversations` (several runs of the engine, of one session); tool
  calls of one agent in parallel; a failed connect of an MCP session, which leaves the client
  object to the garbage collector.

## 6. Plan

In the order of importance:

1. *Done*: all modules above, their runs, and the proofs about them.
2. `ScheduleTicker` with the limit of `list_due` as a parameter, and starvation by the oldest
   schedules.
3. `WorkflowRuns` with `replace_steps` in its statements, in the manner of `Dispatch`.
4. `QuotaCounters`: a PUT of `window_seconds`, which moves a policy to other keys; a run on
   the sentence that a policy for all models limits the total beside per-model ones.
