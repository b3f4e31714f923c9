# SinoQuant: a verification project

SinoQuant is a stock-analysis service: a FastAPI application (`app/`) that accepts
analysis requests, a Redis task queue with worker processes that run them, a graph of
LLM agents (`sinoquant/`) that does the analysis, and a number of services around it
(scheduler, market-data ingestion, paper trading, simulated strategies, notifications).
This directory holds TLA+ models of its stateful parts, the TLC runs that check them and
machine-checked proofs about them (section 7). Paths below are relative to `src/`.

## 1. Inventory

| Component | State | Operations | Talks to | Hard behaviour | What makes it correct |
|---|---|---|---|---|---|
| **Task queue** `app/services/queue_service.py`, `queue/helpers.py`, `queue/keys.py` | Redis: list `qa:ready`, hashes `qa:task:*`, `qa:batch:*`, sets `qa:processing`, `qa:user_processing:*`, `qa:completed`, `qa:failed`, `qa:batch_tasks:*`, keys `qa:visibility:*` with a TTL | enqueue, dequeue, ack, create batch, cancel, clean up expired leases | HTTP handlers, workers | several commands per operation, each atomic alone; crashes, errors and re-sent commands between them; lease time-outs | a task is in one place, runs once, gets one result; limits; leases |
| **Queue worker** `app/worker.py` | local task, result | BLPOP, run, publish the result | task queue, analysis service | dies after BLPOP; an error in the middle of publishing | as above; bounded leaks |
| **Batch stream (SSE)** `app/routers/sse.py` | counters of one poll | read batch, read each task, report | task queue | reads a moving state piecewise | "finished" is final |
| **Batch submission** `app/services/analysis_service.py` | MongoDB batch and task documents | write documents, then enqueue | task queue, MongoDB | a limit error midway | partial batches are visible as such |
| **Analysis task** `memory_state_manager.py`, `analysis/*.py` | three copies of a status: process memory, MongoDB, progress tracker | create, run, progress, complete, fail, zombie clean-up, delete | thread pool, tracker, WebSocket hub | three copies updated one after another; no terminal-state guard; restart | a terminal state stays; the copies converge |
| **Progress tracker** `progress/tracker.py` | steps, percentage in Redis | update, complete, fail | analysis threads | a simulated-progress thread and the log handler race the end and each other | final after the end; what is stored is the last state or a late snapshot |
| **Agent graph** `sinoquant/graph`, `sinoquant/agents` | messages, reports, tool counters, debate counters | analysts, tool loops, debates, judge | LLMs | parallel branches without a barrier, counter-bounded loops | each loop ends; no speech is lost; the decision comes from the last reports; the caller's copy agrees |
| **Scheduler records** `scheduler_service.py` | APScheduler jobs, `scheduler_executions` | trigger, pause, record, progress, cancel, zombie check | MongoDB, jobs | records found by a time window; events race the insert | one record per execution; cancel stops |
| **Paper trading** `app/routers/paper.py` | account, positions, orders | order, reset | MongoDB | read-compute-write over two documents | cash and shares balance |
| **Simulation** `alpha/simulation_engine.py` | status, last bar, the orders of the strategy | start, periodic update, pause, stop | strategy, MongoDB | stop racing an update; an exception in the middle of a bar; one date for the bars of all symbols | a bar dates one finished pass |
| **Quotes ingestion** `quotes_ingestion_service.py` | source index, call times | run once, rotate | data sources | hourly limit | the limit holds, each source gets its turn |
| **Rate limiter** `app/core/rate_limiter.py` | window of call times | acquire | data sources | sleeping under a lock | at most N calls in a window |
| **Basics sync** `multi_source_basics_sync_service.py` | running flag and last status of two instances, one status document | full sync | MongoDB | forced second run; an error before the try | one unforced run at a time; the status settles |
| **Sync workers** `app/worker/*_sync_service.py`, `historical_data_service.py` | a job's loop, stored price rows | look, fetch, save, report | scheduler records, rate limiter, providers | cancelled, slow or dead in any item; failing batches | cancellation is obeyed; missing days have a known reason |
| **WebSocket hub** `websocket_manager.py` | sets of connections | connect, disconnect, send | clients | send during disconnect | no dead connection kept |
| Redis helper service, database managers, data sources, configuration, users, logs, caches, CLI, frontend | little or none | input and output | | sequential | not modelled |

`PROJECT.json` lists every component with its status and every hazard with its line.

## 2. Plan

Done, in this order:

1. **Task queue**: `QueueStore`, `QueueWorker`, `QueueLease` and the abstract `TaskPool`. It is the
   one part several processes share, and every analysis of the queue path goes through it.
2. **AnalysisTask**: a task's status in memory, MongoDB and tracker, with the progress tracker.
3. **AgentGraph**: the supersteps of the LLM graph, its loops and debates.
4. **SchedulerService** and **RateLimiter**, composed with the job bodies in **SyncJobs**.
5. **PaperTrading**, **Simulation**, **HistoricalData**, **BasicsSync**, put side by side in
   **SideServices**.
6. **Proofs** of every invariant and action property that a passing run checks, and of the refinement
   of `TaskPool` (section 7): a module `...Proofs` per component.

Still wanted: the batch submission service and the quotes ingestion as components of their own, the
data-source fall-back, and more of the HTTP routes around the analysis task. Proofs left: the
invariants of those modules. Liveness stays with TLC. No module declares a RECURSIVE operator, so all
of them can be proved about.

## 3. The queue modules

### QueueStore: Redis and the request handlers

The variables are the Redis keys (`ready` is `qa:ready` with its left end first, `status` the
field of the task hash, and so on); `api` holds the program counter and locals of each
request handler. **One action is one Redis command**, or one reply plus the code up to the
next command: an asyncio handler can be interrupted exactly at its `await`s, and other
processes act between any two commands.

| Action | Code |
|---|---|
| `SubmitSingle`, `CreateBatch` | `POST /analyze`; `POST /analyze/batch` -> `create_batch`'s HSET |
| `CheckUserLimit`, `CheckGlobalLimit`, `SaveTask`, `PushReady`, `JoinBatch` | `enqueue_task`: SCARD, SCARD, HSET, LPUSH, SADD |
| `ReadForCancel`, `UnmarkUser`, `UnmarkGlobal`, `ClearVisibility`, `RemoveReady`, `MarkCancelled` | `cancel_task`: HGETALL, SREM, SREM, DEL or LREM, HSET |
| `HandlerFault` | an error raised between two commands, or the death of the process |

`Push` also models the Redis client's `retry_on_timeout=True`: an LPUSH whose reply is lost
is sent again and pushes the id twice. The history variable `resent` remembers those ids;
the queue's promises are stated for the others. The other commands are idempotent, so a
repeated one is the same command executed later; only the LPUSH is modelled twice.
Time-stamps, payloads and log lines are abstracted away. `known` and `told` are the batch and
task ids a client has received: nobody can cancel or watch an id before.
A batch of no symbols only writes its hash and is left out.

### QueueWorker: the consumer that runs

`worker` holds each worker's program counter, task and result: `Take` (BLPOP), `Start` (HSET processing),
`Claim` (SADD), `Analyse` (the analysis, which returns a result or not), then `Publish`, `Release`,
`Index` (HSET result, SREM, SADD). `FinalStatus` is the status it publishes: `process_task` asks the
result for a key `success`, which is not among the keys a successful analysis returns (`ResultKeys`), so
what is published is always `failed` (`queue_success`). `RedisError` leaves the try block before or after
the current command took effect; `ExceptPublish`, `ExceptRelease`, `ExceptIndex` are the except block.
`TakeLost` is a BLPOP whose reply is lost. `WorkerFault` is the death of the process or an error outside
the try block. `stream` is one SSE generator: `PollBatch` reads the batch's task set, `PollTask` one task
hash, `PollAgain` sleeps or gives up.

`TaskPool` is the abstract specification: an id is offered once, at most one worker takes it,
and gone is gone. `ImplementsPool` maps a task's place (in `ready`, held, neither) to its phase.

### QueueLease: the consumer API of QueueService

`dequeue_task`, `ack_task` and `cleanup_expired_tasks`, which nothing in the repository calls yet, over
the same `QueueStore`. `clock` is `int(time.time())`; a reply is taken to arrive in the second its
command was executed, everything else may take any time. `visibility[t]` is the lease hash with the key's
TTL; `DropKey` is Redis expiring it. In `lease_progress` the clock stays at 0, so no lease runs out
there: that run is about limits and progress, `lease_redelivery` about leases. There is one cleaner, as
one scheduled job would run it, and `ReadLease`, `RequeueUser`, ... `RequeueStatus` are its commands.

## 4. The analysis modules

### AnalysisTask: three copies of one status

`mem`, `doc` and `report`, `tracker` and `stored` are the copies: the entry of
`MemoryStateManager`, the MongoDB documents, the tracker object and what it saved in Redis. One
update writes several of them one after another, in an order that differs from caller to caller
(`_update_task_status`, `graph_progress_callback`, the end of `execute_analysis_background`);
`Writes` is the table of these orders and `job[t].todo` what an update has still to write, so
**one action is one write**.

| Action | Code |
|---|---|
| `Submit`, `CreateInMemory`, `InsertDocument`, `RejectSymbol` | `POST /single`, `POST /batch`; `create_analysis_task` |
| `Validate`, `CreateTracker` | the head of `execute_analysis_background` |
| `UpdateTracker`, `StoreProgress`, `UpdateMemory`, `UpdateMongo`, `SaveReport` | one write of the update in hand |
| `EnterPool`, `NodeCallback`, `GraphReturns`, `ExtractResult`, `AnalysisFails` | `_run_analysis_sync` in the thread pool |
| `FindTracker` | `ProgressLogHandler.emit` finds the first registered tracker that is running, whichever analysis logged the line |
| `SideUpdate`, `SideStore` | `simulate_progress` and `emit`, in other threads: the tracker's `to_dict()`, then the save |
| `MarkFailed...`, `Delete...`, `Clean...` | the administrator's endpoints, memory first, then MongoDB |
| `Restart` | the process dies; MongoDB and Redis stay |

The simulator and the log handler (`Savers`) are threads of their own beside the coroutine and its pool
thread: each takes its snapshot and saves it later, and nothing orders the saves. Two log lines cannot
overlap, because `logging.Handler.handle` holds the handler's lock around `emit`. Several analyses meet in
the pool and in this handler, which gives a progress line of any of them to whichever running tracker
comes first (`log_handler.py:90-96`); which one that is is left open.

`touched` and `lost` are history variables: a task an administrator wrote while it ran, and one with a
failed MongoDB write. The agreement of the copies is promised for the others only: an error between two
writes is excused, not checked, for the code logs it and goes on. The code has no terminal states, so a
task marked failed by hand goes back to running with the next progress update, and `EveryTaskEnds` says
that it ends for good all the same.

### AgentGraph: the graph of LLM agents

LangGraph runs the graph in supersteps: the nodes of one superstep read the same state (a node's name is
the graph's with `_` for a blank); each `Finish`es when it likes (its update is streamed to `propagate`
at once); `Superstep` applies the updates in the order of the node names (`Over` is Python's
`dict.update`) and starts the nodes their edges point to. Each analyst, tool node, clear node,
researcher, manager, trader, risk analyst and the judge is an action; `ShouldContinue...` are the routes
of `conditional_logic.py` and `Successors` the edges of `setup.py`. An LLM answers anything: a report is
`"short"` or `"full"` (the routing looks at 100 characters), and each path through an analyst's code
(`MarketGoogle`, `SocialFailed`, ...) says which kinds of last message it can leave. `NodeRaises` is an
exception of a node, `ValuesChunk` the stream mode without a progress callback, in which `propagate`
raises at its first chunk.

The key `messages` is the one that the graph accumulates (`AgentState` extends `MessagesState`) while
`propagate`'s `final_state.update` replaces it with every update that has one. `messages` is what the
graph has accumulated, as the set of nodes that added to it, `posted` what the superstep in progress adds,
and `reply` the caller's copy; a path through an analyst's code that returns no messages is `NoMessage`.
`CallerAgrees` says exactly where the copies part: every other key is equal, and of the messages the
caller has the trader's only. The messages decide no route but those of an analyst's own tool loop,
which `state[a]` holds. What `propagate` then does to the texts (`trading_graph.py:769-786` empties a
report of which less than 50 characters are left) comes after the last state modelled here.

Every `Msg Clear` node has an edge of its own to the bull researcher. Analysts that finish in
different supersteps start the debate several times; the guard in `bull_node` and `bear_node` then
keeps the investment debate right (`BothSidesHeard`), and a last pass through manager, trader and
judge makes the decision from the final reports (`FinalUsesEveryReport`). The risk analysts have
no such guard: `agent_debate` shows a lost speech.

## 5. The scheduler and the services beside it

### SchedulerService, RateLimiter, SyncJobs

`SchedulerService` holds the records of `scheduler_executions` and the service around them; `RateLimiter`
the sliding window of `acquire` (`InWindow` is what its `popleft` loop leaves); `SyncJobs` composes both
with the loops of the job bodies and owns `Next` and `Spec`.

| Action | Code |
|---|---|
| `CronDue`, `SkipDispatch`, `Misfire`, `StartBody` | APScheduler (external): due, dropped by `max_instances`, late, submitted |
| `FindRunning`, `RecordExecution`, `LoseExecution` | `_record_job_execution`: find, then update or insert; a database error in either |
| `TriggerJob`, `TriggerRecords` | `trigger_job` before and after its first await: a quick job can end before its "running" record exists |
| `ReadExecution`, `WriteExecution` | cancel, mark as failed, delete: find, then an unconditional write |
| `CheckZombieTasks`, `FailZombie`, `AbandonZombies` | the zombie check: the query, then one update per record, or a database error that abandons the rest |
| `Initialize`, `ShouldStop`, `LookFails`, `TakePermit`, `Work`, `UpdateProgress`, `UpdateJobProgress` | one pass of a body's loop |
| `Tick`, `Restart` | time; the process |

**Time** is the age of each record, capped one above the largest threshold, as the age of each
call is in the limiter's window. A tick is longer than any database call, so it passes only when
no handler is in the middle of one (`DatabaseIdle`); inside a tick everything interleaves freely.
A body may take any number of ticks at any step. Four shapes of body (`KindsOfJobs`) stand for the
Tushare, AKShare and BaoStock jobs that `main.py` registers; `plain` neither looks at the cancel
flag nor reports.

What the model shows of the code beside its properties: `update_job_progress` takes the newest
record whatever its state and sets it running again, so a financial job can reopen a record
(`EndedRecordsStay` names this); the flag that `cancel_job_execution` sets is obeyed by the bodies
that look for it and ignored by the others, whose record then ends by the event or the zombie check.
`_should_stop` answers no when the database does not answer (`LookFails`): `late` counts the items begun
under a visible flag since the last look that found none, `blind` the unanswered looks of the run, and
`CancelObeyed` bounds the one by the other. The exception `update_job_progress` raises for a cancelled
record is caught by its own `except`, so a financial job goes on.

### SideServices: five services that share no state

`PaperTrading`, `Simulation`, `HistoricalData`, `BasicsSync` and `RateLimiter` are modules without a
specification of their own. They touch disjoint state, so a behaviour of all is an interleaving of
one behaviour of each, and a property of one cannot depend on the others: `focus`, chosen in the
first state, says which of them moves.

- **PaperTrading**: `place_order` and `reset_account` of one user and one stock, **one action per
  database call**. `order[r]` holds the locals of a handler, among them the cash and the position
  it has read. A handler may die at any await (`HandlerFails`). Checks are made on stale reads:
  overlapping orders lose cash updates (it is set, not incremented), yet no account is overdrawn,
  and the realized profit, which is incremented, stays the sum of the trades.
- **Simulation**: `start_simulation` and `_periodic_update` beside `pause_simulation` and
  `stop_simulation`, over several symbols. `FetchRow` reads one symbol's newest row after the other; the
  first symbol that has one dates the pass (`Leads`), and that one date decides whether any bar is looked
  at. A bar dates a second pass only after the initial cycle (which does not mark its bar) or an
  exception. Nothing of the kind holds for the bars of the other symbols, which ride along: they drive the
  strategy again with every new date of the leader, and not at all while its date stands still. The
  docstring of `_periodic_update` (lines 211-216: the bars of a day are handled once) is kept for the
  leading symbol only.
- **HistoricalData**: the incremental price history. A row stands for one day of one period;
  batches are written in ascending order and a batch that fails is skipped. `get_latest_date` looks
  for the newest row of any period; `excused` collects every day dropped for a reason, and
  `GapsAreKnown` says there is no other.
- **BasicsSync**: `run_full_sync` of two service objects over one status document, with forced runs,
  errors at each write and restarts. The first write of the status stands before the `try`: when it
  fails the flag stays up (`stuck`), and each later unforced run is turned away.
- **RateLimiter**, alone with two callers.

## 6. Runs

Model values stand for users, tasks, requests, handlers and workers. A behaviour may stop when
every id is used, so deadlock is not checked, except in `sync_jobs`, where time always passes.
Handlers and workers are symmetric where a run checks safety only.

| Run | Instance | Result |
|---|---|---|
| `queue_worker` | 2 handlers, 2 workers, 2 tasks, a batch, a cancellation, 1 fault, limits 1 (1.5 million states) | `TypeOK`, `SingleCopy`, `ReadyIsUnstarted`, `LedgerAgrees`, `SlotsAccounted`, `FinishedIsFinal` hold |
| `queue_pool` | the same without batches and re-sent commands, with fairness | `ImplementsPool`, `QueuedTasksEnd` hold |
| `lease_redelivery` | 1 task, 2 workers, cleaner, cancellation, timeout 1 s, clock to 2 s, 1 fault | `TypeOK`, `SingleToken`, `NoEarlyRedelivery` hold |
| `lease_progress` | 3 tasks of one user, 2 workers, limit 1, 1 fault, with fairness | `OvershootBounded`, `QueuedTasksEnd` hold |
| `analysis_task` | 1 analysis, 2 reporting nodes, 2 other threads with 1 update each, 1 operation of an administrator, 1 fault, with fairness (1.0 million states) | `TypeOK`, `CompletedHasReport`, `CopiesAgreeAtRest`, `StoredIsLastOrLate`, `DeletedStaysDeleted`, `EndedTrackerStays`, `EveryTaskEnds` hold |
| `agent_graph` | three pairs of analysts at each research depth, all four at depth 3, one caller without callback, with fairness (0.5 million states) | `TypeOK`, `BothSidesHeard`, `FinalUsesEveryReport`, `CallerAgrees`, `JudgeHearsEnough`, `WorkflowEnds` hold |
| `sync_jobs` | 1 job of each of the four shapes, 2 dispatches, 2 API calls, 5 records, 2 items, 1 restart, with fairness (1.0 million states) | `TypeOK`, `SuccessesAreRuns`, `CancelObeyed`, `EndedRecordsStay`, `NoRecordRunsForever` hold |
| `side_services` | each service alone: 3 paper requests; 2 symbols, 3 days and 4 passes; 4 days in two periods, batches of 2; 3 runs on 2 instances; 2 callers, 2 calls in 2 units (2.0 million states) | `TypeOK`, `NothingNegative`, `PnlMatchesTrades`, `BarRepeatsAreKnown`, `StopLeavesOneBar`, `GapsAreKnown`, `SyncsBounded`, `StatusSettles`, `PermitsInWindow` hold |
| `queue_fifo` | 2 tasks, 1 worker | `TakesOldest` is violated: LPUSH + BLPOP is a stack |
| `queue_success` | 1 task, 1 worker | `SuccessIsCompleted` is violated: the result of a successful analysis lacks the key the worker asks for, and is published as failed |
| `lease_abandoned` | 1 task, 1 worker, cleaner, with fairness | `AbandonedRequeued` is violated: the lease record expires before it can be found overdue |
| `agent_debate` | the graphs of `agent_graph` | `RiskVoicesHeard` is violated: the debate starts twice and a risk analyst's speech is overwritten |

**Bounds, and why they are enough to be of interest.** A duplicated task needs two workers and one
task; a cancellation racing a worker needs one handler beside the one that enqueues; a batch with a
gap needs two tasks; every kind of fault occurs, at every command. A limit of 1 makes every limit
check matter. In the lease runs a timeout of one second and a clock of two lets a lease run out, be
found, be handed on and run out again. In `lease_progress` three tasks and one fault are needed: two
workers can never mark more than two tasks unless one of them died with its mark.

Analyses meet in the pool and in the log handler only: a second one could delay the first or hand a log
line to its tracker, and the first is delayed and gets lines without it, so one task suffices in
`analysis_task`. `MaxAdmin` 1 lets an operation fall between any two writes; `SideUpdates` 1 gives the
simulator and the log handler a save each, which overlap each other and the end; and the percentages 45
and 93 are a callback that advances and one above the 90 that `ExtractResult` sets, so progress goes
back. In `agent_graph` every loop is bounded by the code itself (`calls`, `count`); `MaxRecurLimit` 40
is below the default of the code, 100, and is never reached (the longest run has fewer than 28 supersteps),
so neither is the default. The pairs put an analyst that loops beside one that does
not, and two that loop.

In `sync_jobs` `MaxRuns` 2 and `MaxOps` 2 give two runs of a job whose events overlap a trigger, a
cancellation, a mark or a delete; 5 records are never used up (2 events, 2 triggers, 1 insert by a
financial job), so `Room` is always true. `RecentAge` 0 and `ZombieAge` 0 stand for "older than one
tick": a record is found while it is as old as its event and is overdue one tick later. `ReportEvery` 1
makes the financial body report after each item. In `side_services` two orders that overlap and a third
that reads what they left is the longest conflict over one document; three days and two symbols hold a
bar that is late, a day without a bar, a repetition and a change of the leading symbol; four days in
batches of two hold a failed batch before a good one; three calls on two instances hold a forced run
beside another and the next that finds the flag.

What the properties say (each is stated in its module with the code it is about):

- `SingleCopy`, `ReadyIsUnstarted`: an id that was sent once is in `qa:ready` once or with one
  worker, and what waits there was never run.
- `LedgerAgrees`: whatever error hits the result-writing commands, a task in `qa:failed` has status failed,
  or was cancelled since, and has given its slot back; one reported failed is in the set unless a fault hit
  its worker. `cancel_task` writes status cancelled over any status it read, a final one included
  (`queue_service.py:350`), although the endpoint documents an error for a task that has ended
  (`routers/analysis.py:1264`); the id stays in its result set.
- `SlotsAccounted`: each entry of `qa:processing` without a worker was left by one fault. While its task's
  status is still processing `cancel_task` removes it; once the status is final, and no such cancellation is
  under way, it stays (`Stuck`), and the global limit is smaller for good. It is a temporal property.
- `FinishedIsFinal`: a batch the stream reports finished is complete and done.
- `SingleToken`, `NoEarlyRedelivery`, `OvershootBounded`: the lease protocol. The user limit
  itself does not hold (the comment at `queue_service.py:116` says the second check prevents the
  race); the overshoot is at most one slot per further worker.
- `QueuedTasksEnd`: every queued task ends unless a fault loses it.
- `CompletedHasReport`, `CopiesAgreeAtRest`, `StoredIsLastOrLate`: what the three copies of a status owe
  each other, and which late save may hide the end of an analysis: the last snapshot of the simulator or
  of the log handler, when it is saved after the others.
- `DeletedStaysDeleted`, `EndedTrackerStays`, `EveryTaskEnds`: nothing comes back, the tracker's end is
  final, and each analysis ends for a client that asks.
- `BothSidesHeard`, `JudgeHearsEnough`, `FinalUsesEveryReport`, `CallerAgrees`, `WorkflowEnds`: the graph.
- `SuccessesAreRuns`, `EndedRecordsStay`, `NoRecordRunsForever`: the records of the jobs. `CancelObeyed`: a body
  that looks at the flag begins one item under it and no more, but for looks that get no answer.
- `NothingNegative` and `PnlMatchesTrades` do not promise that cash and shares balance: overlapping orders lose
  a cash update, and an order that dies between its writes leaves shares unpaid (`paper.py:282`, `:293`).
- `NothingNegative`, `PnlMatchesTrades`, `BarRepeatsAreKnown`, `StopLeavesOneBar`, `GapsAreKnown`,
  `SyncsBounded`, `StatusSettles`, `PermitsInWindow`: the services above.

**Fairness.** A worker process keeps looping and a handler is a coroutine of a running event
loop, so each worker's next command and each handler's next command is weakly fair. New
requests, faults and the stream are never forced. In `QueueLease` time, key expiry and the
cleaner are weakly fair as well. Neither is a worker obliged to take a particular task:
`QueuedTasksEnd` holds although the list is a stack because only finitely many ids are drawn;
with steady arrivals the oldest task can wait for ever (`queue_fifo`). In `AnalysisTask` the steps of
each coroutine with its thread are weakly fair (the graph's calls have time-outs, and each node reports
once); administrators, side threads' updates and restarts are not forced. In `AgentGraph` a node
finishes or raises, because an LLM call has a time-out, and LangGraph goes on. In `SyncJobs` time, the
bodies, the event handlers, a request that was read, and the zombie job (every five minutes) are weakly
fair; its update of a record is strongly fair, as the database does not fail it at every check for ever
(`AbandonZombies`); no API call, no dispatch and no crash is. That an administrator may pause the zombie
job itself through the API is not considered. `SideServices` states safety only.

## 7. Proofs

TLAPS proves every invariant and every action property of the passing runs, and the refinement of
`TaskPool`, for every value of the constants that satisfies the named assumptions. Few of these
properties are inductive by themselves. Each proof module defines the strengthening it needs, proves that
the initial states satisfy it and that every action keeps it (one case per action, one step per
conjunct that the action can disturb), and derives the properties from it. The candidates for
`SideServices` and `SyncJobs` were also run through TLC on the instances of those runs, which is the
cheap way to find out that a strengthening is wrong before a proof attempt does.

| Module | Theorems | Assumptions |
|---|---|---|
| `QueueStoreProofs` | lemmas about the store that both consumers use | `StoreAssumption` |
| `QueueWorkerProofs` | `Inductive`, `TypeCorrect`, `TaskInOnePlace`, `ReadyTasksAreUnstarted`, `LedgerInductive`, `StatusAgreesWithSets`, `LeakedSlotsAreFaults`, `StreamInductive`, `FinishedBatchesAreFinal`, `DeliversAtMostOnce` | `StoreAssumption`; the last also `~RetryOnTimeout` |
| `QueueLeaseProofs` | `LeaseInductive`, `LeaseTypes`, `OneTokenPerTask`, `RedeliveryIsLate`, `OvershootIsSmall` | `StoreAssumption`, `LeaseAssumption` |
| `AnalysisTaskProofs` | `TaskInductive`, `TaskTypes`, `LateSavesOnly`, `EndingIsFinal`, `NothingComesBack`, `CompletedIsReported`, `CopiesInductive`, `CopiesAgree` | `AnalysisAssumption` |
| `AgentGraphProofs` | `AgentInductive`, `AgentTypes`, `DebateIsWhole`, `JudgeWaits`, `CallerKeepsUp`, `NoStaleReport` | `GraphAssumption` |
| `RateLimiterProofs` | lemmas about the limiter that the next two use | `LimiterAssumption` |
| `SideServicesProofs` | `SideInductive`, `SideTypes`, `NobodyGoesShort`, `ProfitAddsUp`, `RepeatsAreKnown`, `StopIsAlmostPrompt`, `NoUnknownGap`, `RunsAreBounded`, `VerdictAtRest`, `RateIsKept` | `PaperAssumption`, `SimAssumption`, `HistoryAssumption`, `SyncAssumption` of `BasicsSync`, `LimiterAssumption` |
| `SyncJobsProofs` | `JobsInductive`, `JobTypes`, `NoFalseSuccess`, `CancellationIsObeyed`, `JobsKeepTheRate`, `EndedForGood` | `SchedulerAssumption`, `SyncAssumption` of `SyncJobs`, `LimiterAssumption` |

The assumptions say what configuration the code can be given: limits and bounds are naturals (positive
where the code divides by them or refuses zero), a task's owner is a user, a marker for "nothing" is no
value, workers are finitely many, `RecentAge` is at most `ZombieAge`.

### The queue

**Places** (`IInv`, for `TypeOK`, `SingleCopy`, `ReadyIsUnstarted`). Added: what a handler's locals can be
at each command (`LocalsOf`); an id belongs to one handler from its draw to its LPUSH, and nobody else
knows it before its hash is written (`OneOwner`); the id a handler is about to push is nowhere else and
not started (`PushedOnce`); an id without a hash occurs nowhere (`NoneIsNowhere`). `PushKeepsOnce`,
`TailKeepsOnce` and `RemoveKeepsOnce` say what LPUSH (sent once or twice), BLPOP and LREM do to the
places of the ids; LREM is defined by the order-preserving enumeration of the positions it keeps, so
no recursion is needed. Handlers that only move on are covered by `QuietMove`, new requests by
`NewRequest`, a worker that has its task by `WorksOnRest`, a BLPOP by `PopsRest`.

**Ledger** (`LedgerInv`, for `LedgerAgrees` and `SlotsAccounted`). `RunsAgree` ties the hash and the result
sets to the command a worker is at, `IdleFree` says an idle worker holds nothing, and `LeakBounded` that
the marked ids that no worker holds are no more than the faults so far: a fault strands at most the one
task of its worker. That such an entry stays is shown step by step: whoever could remove it is either a worker
that holds the task, and none does, or a `cancel_task` past its read, which `Stuck` excludes.

**Stream** (`StreamInv`, for the action property `FinishedIsFinal`). `BatchInv`: a batch a client knows
holds exactly the ids submitted, so its size no longer changes. `StreamOK`: if every task polled so far
was counted, every one of them has settled; a settled task stays so.

**Refinement** (`DeliversAtMostOnce`). With `RetryOnTimeout` FALSE no id is ever pushed twice
(`NeverResent`), so under the mapping of section 3 each step of `QueueWorker` is a step of `TaskPool` or a
stutter. With TRUE the refinement is false: a task can be delivered twice, which `SingleCopy`
excuses for the ids in `resent`.

**Leases** (`LeaseInv`, for `SingleToken`, `NoEarlyRedelivery`, `OvershootBounded`). `TokenOK` says where
the one token of a task may be (in `qa:ready`, with a worker that has no lease yet, in a lease record,
with the cleaner) and that whoever still holds the task when it is elsewhere is late. `UnseenOK`: an id
whose LPUSH is still to come is nowhere. `WorkerLocals`, `CleanerLocals` and `CleanerKnows` are what each
may rely on between two commands. For the overshoot `SlotsInv` counts the workers that have passed the
check and not yet marked (`Checking`) as slots held in advance: the excess over the limit is at most one
slot per further worker.

### The analysis

**Tasks** (`TaskInductive`). `RequestsOK`: an id belongs to one request until its job starts, and a
client is told of started jobs only. `AdminsTold` says an administrator writes only what a client knows,
and `TrackerOK` relates the stored progress to the tracker: it is the tracker's last value or the last
snapshot of one of the savers, unless a save is under way. `EndingIsFinal` and `NothingComesBack` are
action properties. `CompletedIsReported` and `CopiesAgree` need `CopyInv`: for each command of an update,
which of the three copies are already ahead (`CopiesOK`), and what a finished operation of an
administrator has left (`OpOK`).

**Agents** (`AgentInductive`). The nodes of two successive supersteps belong to alternating phases
(`InPhase`: an analyst never runs beside its own tools, nor the bull beside the bear), which is why the
guards of `bull_node` and `bear_node` suffice and `DebateOK` can count the speeches of each side. `ReportsUsed`,
`TradeFollows` and `DecisionFollows` form a chain: what is stale is about to be made again. `WritesOK` says each
finished node's update is one it computes from the state that all nodes of the superstep read, and the nodes
that start next are those its edges point to; `FinalOK` says each key of the caller's `final_state`
is current, or a node that writes it again is still to come; `TalkOK` says the same of the messages: the
caller has the trader's, or the trader is still to come, and each analyst has posted or its branch is alive.
`MayPost` lists what each node may return for them. `NoStaleReport` is `FinalUsesEveryReport`.

### The scheduler and the services

**Limiter.** `LimiterInv` has `PermitsAreCalls` (each permit inside the window is among the recorded calls)
and `SleeperKnowsOldest` (whoever sleeps under the lock sleeps until the oldest call has left the window).
`LimiterKept` and `LimiterSafe` are used in both compositions.

**Jobs** (`JobInv`). `HandlersAgree`: the record an event handler has found is of its own job and at most
`RecentAge` old. `ZombiesAreOld`: the records in the zombie check's hands are older than `ZombieAge`; as time
passes only while the database is idle, no event handler holds one of them. `RequestKnown` and `BodyRuns` tie a
cancellation and a body to their records. `SuccessesCovered`: the successes shown and those about to be shown
are no more than the runs that returned. `LateOnce`: the items begun under a visible flag are at most the
unanswered looks of the run, and one more only after the body has left the item behind; a body that read the
flag and went on would break it. `WhoWrites` lists who can change a record, so that `EndedForGood` (the
action property `EndedRecordsStay`) is a look at each writer.

**Side services.** They share no state, so each has an invariant of its own and rests while another moves
(`OthersRest`). `PaperInv` (`OrderOK`): what a handler has read and checked covers what it is about to
write, so stale reads cannot overdraw. `PnlInv`: before the first account exists no order is past asking
for one, and later the profit is the sum over the trades, the lost ones and the sales on their way. That
sum is a fold over a finite set; `SumsExist`, `SumsAgree` and `AnyOrder` prove, by a least counterexample
over cardinalities, that its defining equation has one solution and that the order of summation does not
matter (`SumOfSet`, `SumIsLocal`). `SimInv` orders the finished passes (`LeadersDescend`): the one date
the loop remembers is enough because a later pass has the same leader with a newer bar or a leader
further up the list, never one finished before; `HistoryInv` says that each day before a stored row is
stored or excused (`NoHiddenGap`), also when the batch in hand is still to be written
(`AscendingWrites`); `SyncInv` says that the runs in progress are the forced ones and at most the one
behind the flag (`FlagCounts`), that a raised flag has a run or is stuck (`FlagIsReal`), and that a
status that says "running" has a run still to write it, unless a write was lost (`RunningIsReal`).

**Only model-checked**: the liveness properties `QueuedTasksEnd` (two runs), `EveryTaskEnds`, `WorkflowEnds`
and `NoRecordRunsForever`, because fairness and ENABLED are outside the prover's reach. The properties of the
four runs that find a violation are false, of course, and TLC's counterexamples are all that is said of them.

## 8. Not modelled

- **Within the queue**: payloads, time-stamps, results, pub/sub progress messages and their order,
  the task stream of `sse.py`, `submit_batch_analysis`'s MongoDB documents, changes of the limits at
  run time (`analysis_service.py` overwrites them from settings; the constants are arbitrary), and
  Redis losing acknowledged writes.
- **Within the analysis**: the WebSocket messages that accompany an update, the list of steps and the
  time estimates of the tracker, the contents of reports, prompts, the agents' memories, and what the
  tools fetch. Two analyses share the pool and the log handler;
  the pool is modelled for any number of them, the handler's choice among their trackers is left open.
- **Within the scheduler**: job metadata, the action history, statistics. APScheduler is external: its
  actions are the ways in which this code uses it.
- **Simulated orders** (`simulation_adapter.py`, `get_total_pnl`): sequential arithmetic on floats,
  without a second actor; the sandbox that runs a user's strategy.
- **Sync workers**: what the quotes, news and financial jobs upsert; the AKShare and BaoStock
  bodies appear only as a loop that neither looks nor reports. `basics_sync_service.py`, the
  single-source predecessor of the stock-list synchronisation, has the same flag scheme.
- **Quotes ingestion**: one job, one instance at a time; a rotation index and the times of two calls are
  all it keeps, and nobody else writes them.
- **WebSocket hub and notifications**: sets of connections in one event loop; a failed send drops the
  connection and nothing is repeated.
- **Redis helper service**: a lock and queue class that no path of the application takes.
- **Database managers, data sources, configuration, users, logs, caches, CLI, frontend**: connection
  set-up, sequential fall-back over network providers, single-document edits, and input and output.
