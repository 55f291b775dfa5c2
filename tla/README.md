# A verification of the run protocol of geo-agent-platform

This directory holds TLA+ models of the server's agent runtime: what happens between the
moment a user's input is accepted and the moment a run's answer is delivered, under
steering, cancellation, approvals, tool side effects, retries and crashes of the process;
and of what surrounds a run: its child runs, the gate its tools pass, the commands and
the deliveries of the WebSocket, the automations that start runs, the files and
objects they leave, and the supervisor that keeps the services up.
TLC checks the models on small instances; TLAPS proves the results listed below for every
value of the constants.

Paths are relative to the repository; `server/` stands for `apps/server/src/`.

## 1. The system

geo-agent-platform is a TypeScript monorepo: an agent server (`apps/server`), a desktop
client, an operations console, a Python worker for meteorology, and shared packages. The
protocol of runs is in the server. A *run* belongs to a thread of a conversation; it is
executed by one active *segment* at a time of the OpenAI Agents SDK (ADR-0001), and
everything that must survive the process is in PostgreSQL.

| Component | State it keeps | Operations | What makes it correct |
|---|---|---|---|
| Run input mailbox (`server/store/postgres/runInputRepository.ts`, `modelRequestRepository.ts`, `runCheckpointRepository.ts`) | input rows (queued, leased, included, checkpointed), the run's next sequence, cursor, open lease, active model request, terminal claim | enqueue, lease, requeue, commit request, save checkpoint with or without acknowledgement, claim | inputs reach the model in order, in one request each; none is lost or confirmed early; nothing is accepted after the claim |
| Steering (`server/agent/runSteeringController.ts`) | acceptance window, per-run queue (memory); objective revision (durable) | open, enqueue, consume, bind, claim, close | window, revision and claim agree |
| SDK executor (`server/agent/runtimeSdkExecutor.ts`, `runtimeAssembly.ts`, `turnRunner.ts`) | pending lease, checkpoint context, candidate answer (memory); SDK state (durable) | assemble, replay, capture, checkpoint, judge, claim, finish | what is checkpointed is what the model was asked; only a claimed answer is delivered |
| Run engine and tasks (`server/agent/runtime.ts`, `runTaskManager.ts`) | the active execution and its abort signal | start, resume, cancel, approve | every execution ends; a last status is the last |
| Tool coordinator and ledger (`server/agent/toolExecutionCoordinator.ts`, `server/store/postgres/toolInvocationRepository.ts`, `toolResultCommitRepository.ts`) | one row per call, the run's list of unresolved calls | prepare, start, commit, terminate, confirm | an effect whose result is unknown is never repeated |
| Approvals (`server/agent-runtime/approvals/`, `runtimeApprovalPersistence.ts`, `server/ws/decisionCommand.ts`) | approval records, pending decisions of a run | ask, decide, continue | no guarded effect before its approval; every waiting run can be answered |
| Recovery (`server/store/runStore.ts`, `server/agent/runResumePolicy.ts`) | none of its own | mark orphans, admit a resumption | every orphan becomes something a user can act on |
| Child runs (`server/agent-runtime/children/ChildRunManager.ts`, `childRunRepository.ts`, `runStateRepository.ts`) | child rows, root budget, messages between runs with their sequence (durable); active tasks and waiters (memory) | spawn, message, trigger, wait, interrupt, resume, announce, reconcile | budgets are exact; messages arrive in order and once; a finished child is announced |
| Tool execution gate (`ToolExecutionGate.ts`) | active shared and exclusive leases, waiting queue, one chain per lease | run in a lane, nested runs, release | exclusion, order of arrival, every call settles |
| Control mutations (`server/ws/ControlMutationScheduler.ts`, `commandRegistry.ts`, `handler.ts`) | queue, running set, counts per process, connection and resource | schedule, authorize again, run, expire, close | conflicting commands in order; limits; nothing refused runs |
| Delivery (`server/ws/subscriptions.ts`, `WsDeliveryGate.ts`) | per run a line of snapshots and a line of positions; batches of a connection | reserve, read, fill, drain, authorize, send | order; nothing without rights; nothing held up |
| Automations (`server/automations/`) | automation record, jobs of pg-boss, the registry of tasks, the orchestration run | fire, dispatch, execute, approve, cancel, reconcile | record, job and executions agree; effects are licensed and not repeated |
| Objects and garbage collection (`server/store/object*.ts`, `contentAddressedObjectStore.ts`, `fileLifecycleService.ts`, `threadStore.ts`) | rows, metadata files, objects, the publication lock | upload, copy, publish, delete, trash, purge, collect, verify | nothing referenced is collected; the next start accepts what is there |
| Operations supervisor (`packages/operations-supervisor/src/supervisor.ts`) | one record per service: command, generation, shown state, wish, restart and health timers, start promise; the queue of operations | start, stop, restart; exit, timed restart, probe | one process per service, and its handle; what is shown is so or is about to change; what is stopped stays so; operations end |
| Run domain journal (`runDomainJournalRepository.ts`, `packages/shared-types/src/runDomain.ts`) | event log and snapshot per run | append with expected sequence, reduce | replaying the log gives the snapshot |
| Item stream | ordered buffers, fences | append, close | nothing after the fence |
| Context windows and compaction | active window per thread | open, roll over, compact | a request reads one window |
| Everything else (providers, GIS, map, worker, security, desktop, console) | – | – | listed in `PROJECT.json` with the reason each is not modelled |

How they interact: a user's message arrives over the WebSocket and is *steered* into a
running run, or starts one. The controller writes the input row and then the objective
revision. Before each model call the executor *leases* what is queued, records a step
context (revision and cursor), *commits* a model request that binds the leased rows, and
calls the provider. The response's tool calls go through the coordinator and the ledger.
The next checkpoint saves the SDK state, confirms the tool calls it holds, closes the
request and *acknowledges* the lease, in one transaction. A final answer is bound to the
newest request, judged, and must *claim* the run against the very revision and cursor it
has seen; if an input came in meanwhile, it is superseded. Cancellation, approval
decisions and crashes may come between any two of these steps.

Around it: every tool call passes the gate of its run. A run may spawn child runs, which
are runs of the same kind whose mail becomes steering input. Commands reach the runtime
through the scheduler of control mutations; snapshots and updates of a run go back to the
client through the delivery lines of its connection. An automation is a record whose jobs
are executed by walking a graph of nodes, under an orchestration run that carries the
conversation. Checkpoints, requests and files all publish objects, which the purge of a
thread collects. The server itself is one of three services the supervisor starts in the
order of their dependencies and restarts when they end.

Where it is hard: the acceptance window and the abort signal are in memory while the mailbox
and the status are durable; several operations are two transactions; checkpoints may be
retried with their outcome unknown; a recovery must decide whether inputs were already shown
to the model and whether a tool's effect happened; tool calls run beside a projector that
learns of them later; status, task, mail and completion of a child are written by different
transactions; a job queue delivers at least once while the registry that keeps executors apart
is forgotten by a crash; files and rows are in no common transaction; the supervisor queues
its operations but not the starts its timers begin. `PROJECT.json` lists the hazards at their
lines.

## 2. Modules

| Module | Lines of code it models | Kind |
|---|---|---|
| `OrderedInputDelivery` | – | abstract specification of the mailbox |
| `RunInputMailbox` | the three repositories of the mailbox, the table's checks | one action per write transaction |
| `MCRunInputMailbox` | – | TLC instance |
| `RunExecution` | engine, controller, executor, cancellation, approval, recovery | EXTENDS `RunInputMailbox`; composes the processes over it |
| `RunExecution_proofs` | – | theorems about the mailbox and about the executor |
| `MCRunExecution` | – | TLC instance |
| `ToolInvocationLedger` | coordinator, ledger, effect committer, projector, approvals, recovery policy | tool calls around their side effects |
| `ToolInvocationLedger_proofs` | – | theorems |
| `MCToolInvocationLedger` | – | TLC instance |
| `OrderedAdmission` | – | abstract specification of the gate and of the scheduler of commands |
| `ToolExecutionGate`, `MCToolExecutionGate` | the gate | leases, queue and chains |
| `ChildRuns`, `MCChildRuns` | child run manager, its repository, the budget, the task manager | children, mail and waiting under crashes |
| `ChildRuns_proofs` | – | theorems |
| `FileObjects`, `MCFileObjects` | file lifecycle, publication coordinator, collector, purge, integrity check | rows, metadata and objects |
| `FileObjects_proofs` | – | theorems |
| `ControlMutations`, `MCControlMutations` | scheduler, registry and connection handler | write commands of several connections |
| `ControlMutations_proofs` | – | theorems |
| `RunDelivery`, `MCRunDelivery` | subscriptions and delivery gate | what one connection sends |
| `Gates_proofs` | – | theorems about `ToolExecutionGate` and about `RunDelivery`, which share nothing but the module |
| `AutomationRuns`, `MCAutomationRuns` | runner, job queue, scheduled task service, task registry | one automation run |
| `AutomationRuns_proofs` | – | theorems |
| `ServiceSupervisor`, `MCServiceSupervisor` | the operations supervisor and its catalog | services, their processes, attempts and timers |
| `ServiceSupervisor_proofs` | – | theorems |

An operator commented `(mutant)` is a deliberately wrong form of the definition after it:
substituting it shows that a property notices that mistake. No specification uses one.
A comment `(bound)` marks every bound that is not in the code.

### RunInputMailbox

Each method of the repositories is one PostgreSQL transaction that locks the run's row
first, so each is one atomic action. A method that throws rolls back and is an action that
is not enabled; a repeated call that returns what it finds is a stutter. The callers are
unconstrained: any method, with any argument, at any time. What holds here therefore holds
whatever the executor does, and `RunExecution` uses these same actions.

| Code | Model |
|---|---|
| `platform_run_inputs.status / inputSequence / leaseId / modelRequestId` | `inputStatus`, `inputSequence`, `inputLease`, `inputRequest` |
| run columns `nextInputSequence`, `checkpointInputCursor`, `activeInputLease*`, `terminal*` | variables of the same names (`null` is `None`, or 0 for a number) |
| domain snapshot's `activeModelRequestId`; rows of model requests | `activeModelRequestId`, `committedRequests`, `requestInputs` |
| `sdkStateContentHash` | the same, a member of `Content` |
| CHECK constraints of `platform_runs` | `InputCursorCheck` (an invariant part), `TerminalClaimCheck` (a guard where it can fire: `leaseRunInputs` relies on it) |

`OrderedInputDelivery` knows three counters (accepted, offered, delivered) and a seal:
inputs are accepted one by one, offered to the model in batches that begin where the last
ended, and delivered whole batch by whole batch; nothing moves once sealed. The refinement
mapping takes `offered` from the lease as soon as its rows are included.

Left out: the thread entry an enqueue also writes, timestamps, and reads.

### RunExecution

`pc` names the place between two awaits the executor is in. An action is the code between
two durable effects. `mailboxVars` are durable; so are `objectiveRevision`,
`approvalPending`, `savedFinal` and the step contexts; everything else is memory and is
erased by `Crash`.

| Action | Code |
|---|---|
| `StartQueued`, `Resume`, `MarkRunning`, `CloseExecution` | `runtime.ts` `run`, `runTaskManager.ts`, `ws/runCommands.ts` |
| `OpenSteering`, `Consume`, `ClaimTerminal`, `Steer` / `SyncRevision` | `RunSteeringController` (its PQueue has concurrency 1 per run: `unsynced` holds the queue) |
| `Assemble`, `Replay` | `runtimeAssembly.ts` restore and adopt; `replayIncludedInputs` |
| `LoopTop`, `FilterCheckpoint`, `FilterConsume`, `FinalCheckpoint`, `BindCandidate`, `ContinueAfterJudging` | the loop of `runtimeSdkExecutor.ts` and its input filter |
| `Capture`, `SaveBaseline` | `captureModelRequest` and the checkpoint listener |
| `RequestApproval`, `WaitForApproval`, `DecideApproval`, `QueueApproved` | `RuntimeApprovalPersistence.persist`, `acceptApprovalDecision`, each in its two transactions |
| `Cancel`, `WriteCancelled` | `OpenAIAgentsRuntime.cancel`: abort at once, status later |
| `ExecutorThrows`, `FinishFailed`, `LoseStatus` | any await that throws; the catch block, which may itself throw before it writes the status: it flushes sinks first, and an `OrderedWriteBuffer` throws its first error again each time |
| `Crash`, `Recover` | the process; `recoverOrphanedRuns` |

The model, the tools, the Goal judge and the SDK are nondeterministic: a response is final
or asks for tools or approval; a verdict completes, clarifies, rejects or continues; a
restored state that holds a final output *may* be returned without a model call. Unresolved
tool calls at a recovery are a nondeterministic `requires_action`; `ToolInvocationLedger`
has their detail. Left out: retries of one provider call inside `modelRequestAttempts`,
projections and telemetry, hand-offs, and the path of `tryClaimTerminal` that finds its own
earlier claim (a process makes one call, so it cannot be reached).

### ToolInvocationLedger

A call takes one of four routes: *platform* (executed by the coordinator, which writes the
ledger around the effect), *inner* (the same, inside a sub-agent), *agent* (a sub-agent as
a tool) and *extension* (MCP and sandbox tools, executed by the SDK; the ledger follows the
stream's events). Rows are `invocationStatus`, `terminalOutcome`, `started`; the run's list
is `pendingToolCallIds` with `recoveryStatus`. `effects` counts what really happened.

`Prepare`, `Start`, `RunTool`, `Commit` and `Settle` are the stages of
`ToolExecutionCoordinator.execute` and its catch block; a commit's answer may be lost and a
settlement may fail. `InvokeExtension` is the SDK's call of an MCP tool;
`ProjectCalled` and `ProjectOutput` are `markSdkToolCallPending` and
`markSdkToolCallTerminal` behind the stream. `ReadTerminals` and `SaveCheckpoint` are the
two halves of `checkpointCurrentState`. An executor that fails writes a last status or fails
to (`EndInFailure`); tool calls under way outlive it, as promises do; a crash ends them.

Facts about the SDK the model uses (external): it invokes a tool once its approval hook
allows, beside the consumer of the stream; it asks the hook again for an interrupted call
after a resumption; it never repeats a call whose output its state holds.

`MaxTopCalls` bounds the calls the model makes itself.

Left out: calls no plan knows (`rejectUnplanned`), the clarification ending, hosted tools,
hand-offs, workflow step claims, values and artifacts. `failed` stands also for `aborted`.
The two-step writes of approval and cancellation are single steps here because
`RunExecution` splits them. `requires_action` has no way out in the code.

### ToolExecutionGate

| Code | Model |
|---|---|
| `activeShared`, `activeExclusive`, `waiters` | `activeShared`, `activeExclusive`, `waiting` |
| the lease in the `AsyncLocalStorage`, `exclusiveTail` of a lease | the call itself (`ParentOf`), `chain` |
| `run` outside a lease; `acquire`, `pump` | `Acquire`, `Pump` (one step: the code does not await in between) |
| `runAuthorized`, the operation, the `finally` of `runWithLease` | `Authorize`, `Finish`, `Release` |
| `run` inside a lease | `RunNested`, `AdvanceChain`, `AuthorizeNested`, `FinishNested` |
| the time limit of a sub-agent's call (`subAgentToolFactory.ts`) | `TimeOut`: the call settles before the tools it called |

Calls are never nested deeper than once, because a sub-agent is given no sub-agents.

`OrderedAdmission` is what this gate and the scheduler of `ControlMutations` have in common.
It knows who waits, behind whom, and who has been admitted, and a relation that says who is in
whose way. Tasks come and go; after each step exactly those are admitted whom nobody admitted
and nobody earlier in the queue is in the way of. So nobody passes a task that is in his way,
and nobody waits for nothing. The gate has no such search: it lets in a front of its queue, and
its two counters do not know who holds a lease. `Clashes` and `WaitsBefore` map it: two calls
are in each other's way unless both are shared, and a task has gone when its lease is given
back. What a call does under its lease, and all nested calls, are stutters.

### ChildRuns

The inside of an execution is `RunExecution`'s; here `task` says where an executor is with
respect to its mail, its status and its completion callback (`launched`, `delivering`,
`marking`, `working`, `finishing`, `failing`, `closing`, `settling`). Rows (`status`,
`parentRun`, the budget, mail, accepted inputs) are durable; tasks, waiters and calls on
their way are lost by `Crash`.

| Action | Code |
|---|---|
| `SpawnCreate`, `SpawnStart` | `spawn`: the lifecycle's transaction with the budget, then `startDetached` |
| `SendCheck`, `SendStore`, `SendContinue`, `SendMark` | `sendMessage`, one action per stretch between two awaits |
| `Interrupt`, `WriteCancelled`, `InterruptIdle`, `ResumeRun`, `ApproveRun` | `interrupt`, `cancel`, `resume`, `run:resume`, an approval |
| `MarkRunning`, `DeliverMail`, `MarkMail`, `StartWork`, `Pause`, `CheckpointMail`, `Complete`, `Throw`, `WriteFailed` | the executor's steps in `runtime.ts` and `runStore.ts` |
| `CloseExecution`, `Settle` | the completion callback and `publishCompletion` |
| `WaitCheck`, `WaitRegister`, `WaitExpire`, `WaitReturn` | `wait_child_runs` of the root |
| `Crash`, `Recover`, `Reconcile`, `ServerUp` | the start of the container |

`CloseExecution` and `Settle` may throw: the task manager only logs that (target `failed`).
`waiting` stands for an approval or a clarification; the root itself neither pauses nor
ends, except with its process. `WriteStatus` is the one place the budget is adjusted, as
`adjustActiveChildBudget` is in the code.

### FileObjects

Rows and references are in the database, `objects` and `metadata` on disk, the coordinator in
memory. A file's metadata is a directory of its own (`directories`) with `metadata.json` in it
(`metadata`): writing makes the first and then renames the second into it (`MakeDirectory`,
`WriteMetadata`), removing takes the second and then the first (`RemoveMetadata`,
`RemoveDirectory`), and either may be cut short by an error or a crash. The queue of the
file's thread keeps them apart (`HoldsQueue`). An upload is `Reserve`, `PublishFile` (which
waits for the coordinator), `StoreObject`, the two steps of its metadata, `Commit`,
`LeavePublication` and the removal of the versions it replaces; a copy of a branch the same
without an object; `PublishReference` is a checkpoint, a request or a version of the thread's
memory. `PurgeRows`, `Collect`, `ClearThread`, `ReadReferences`, `ScanMetadata`, `Sweep` and
`LeaveCollection` are `threadStore.ts` `purge` and the collector. Every step may throw
(`PublicationFails`, `RemovalFails`, `EndCollection`), and `Restart` needs `RuntimeIntegrity`,
as the server refuses to start otherwise. A content is named by its hash; leases of the
objects on other machines and temporary files are left out.

### ControlMutations

One action is one turn of the event loop and ends with the `drain` the code runs in it. The
queue is a JavaScript array pushed at its end and spliced anywhere: `ahead[m]` is what was
queued when `m` was pushed, which is all the order that matters. `books` are the three
counters, kept by `Reserve` and `Release` as the code does. For `OrderedAdmission` two
commands are in each other's way if they name a common resource; a command comes when it is
pushed and goes when it ends, is refused, expires or loses its connection, and the limits only
decide who may come. What a command does once it executes is the subject of the other modules,
but for one thing: handlers authorise again, so an execution may end `forbidden` too.

### RunDelivery

For each run a line of snapshots (`captures`: read one at a time) and a line of positions
(`slots`: an update takes one, filled; a snapshot takes one before it is read). What is
filled at the front goes to the gate, which authorizes each batch again (`ReadRights`)
and then sends it (`SendBatch`). Exceeding a limit ends the connection (`Terminate`). Byte
budgets are `Disconnect`; an update is its number, and a snapshot the number of updates it
contains.

### AutomationRuns

The `record` is the row with the execution state in its metadata; every writer goes through
`Writes`, a compare-and-set on the *status* of a whole state read earlier (`view`). A
handler's `pc` follows `executeQueuedJob`, `executePersisted` or `executeScheduled`,
`executeTracked` and the loop of `executeAutomationRun`. `job` and `deliveries` are what
pg-boss promises (external): one handler at a time, a bounded number of deliveries, and a job
taken from a handler whose time has run out. `registry` is `BackgroundTaskRegistry`. `current`
is the node an executor has entered. History variables keep what no row of the database
records: `effects`, how often a tool acted; `overwritten`, how often a write replaced a record
it was not made from; `granted`, what users have approved; and `lost`, the dispatches whose
run was left queued without a job. Any call of the database may throw, before it has committed
or after (`Throwing`; `errors` counts them): the loop then goes to its catch block (`Breaks`),
the catch block itself may throw (`Fail`, `RecordFailure`), and so may the enqueueing of a job
and the write that was to compensate for it (`Dispatch`). Users approve (`ReadApproval`,
`Respond`, `DispatchAnswer`) and cancel (`ReadCancel`, `CancelJob`, `CancelEffects`,
`WriteCancelled`) in the steps the service takes. Approval, condition and output nodes are not
told apart from tool nodes, and a node's own retries are not modelled.

### ServiceSupervisor

| Code | Model |
|---|---|
| `record.state`, `command` with `commandGeneration`, `desiredRunning`, `stopping`, `restartTimer`, `failureTimes`, `healthTimer` with `healthProbeInFlight` | `state`, `command`, `generation`, `desired`, `stopping`, `restartTimer`, `failures`, `healthTimer`, `probed` |
| `startPromise` and where its attempt is | `attempt`: `begin`, `check`, `wait` (for a dependency), `ports`, `launched`, `probing`, `ok`, `failed` |
| those who await it | the services in `wait`, the operation in `await`, the timers in `caught`; `Settle` resumes them all |
| `startSingleAttempt`, `waitForHealthy` | `BeginAttempt`, `CheckDependency`, `PortsTaken`, `Spawn`, `Launched`, `Probe` |
| `handleClose` before and after the lease file, `scheduleRestart` and its timer | `Exit`, `HandleClose`, `ScheduleRestart`, `FireRestartTimer` |
| `monitorHealth` around its probe | `AskHealth`, `HealthAnswer` |
| `execute`, `startTarget`, `stopTarget`, `restartTarget` | `Request`, `NextStart`, `NextStop` |
| `stopSingle` | `NextStop`, then `Release`, or `Hook`, `ProcessEnded`, `ProcessOutlives`, `PortsReleased` |

The supervisor is one event loop: continuations of settled promises (`Resume`) run before
the next timer, answer or exit (`Quiet`). Processes end when they like, so a stop's signals
and the one of the tenth failed probe are the exit itself; ports are free or not whenever
they are asked. Left out: the recovery of the lease file and its conflicts, `keepInfra`,
`close`, diagnostics, metrics, and lease files that cannot be written: after a close
(`supervisor.ts:579`) that is an unhandled rejection and the end of the daemon, and between two
services of a stop (`:714`) an error that ends the operation
before the next service.

## 3. Runs

| Run | Instance | States | Shows |
|---|---|---|---|
| `mailbox` | 3 inputs, 2 leases, 2 requests, 2 claims, 2 contents | 5 202 | consistency of rows and columns; exactly one request per input; the claim seals; refinement of `OrderedInputDelivery` |
| `execution` | 2 inputs, 3 model calls, 2 leases, 1 claim | 386 760 | an answer is delivered only when every accepted input was answered; memory and database agree; every execution ends; no run stays running unless its last write was lost, and then no longer than the process lives (`RunsComeToAnEnd`) |
| `ledger` | a guarded platform call, an MCP call, a sub-agent with an inner call, two of the three top calls in one run | 162 497 | the pending list is exact; no recorded effect is resumed over or repeated; approvals; a started call is settled or escalated, with the same exception |
| `gate` | an exclusive sub-agent with two exclusive tools, a shared call with one inside, a write, a read | 9 569 | lanes exclude; every call settles; refinement of `OrderedAdmission` |
| `child_runs` | 2 children, 2 messages, a wait; one child active at a time | 1 634 427 | the budget is exact; mail in order and once; a finished child is announced |
| `files` | 2 uploads of one source, a copy in another thread, a reference, 2 objects, 2 workers | 2 125 471 | references exist; ready files have their metadata, and only leftovers break the check of the next start; the coordinator loses no wake-up |
| `connection` | 4 commands, 2 connections, 2 resources, limits 2, 3 and 2 | 410 060 | conflicting commands run in order; nothing refused runs; refinement of `OrderedAdmission` |
| `delivery` | 2 runs, 3 snapshots (one of each origin), 2 updates, limit of 3 | 159 054 | the stream is consistent; nothing without rights; nothing is held up |
| `automations` | 2 guarded nodes and an error edge, 2 dispatches, 1 retry, one crash or time-out, one error | 4 100 519 | executions agree with the record; effects are licensed and not repeated; an ended run stays ended; a queued one is in somebody's hand, unless an error took its job |
| `supervisor` | 2 services, one needing the other, 2 processes each, 1 restart, 2 operations | 795 971 | what is shown is backed; a running process keeps its handle; every operation ends |
| `automation_approval`, `completion` | the same instances (the first without faults) | – | the findings of section 6 |

Why the bounds are enough for the cases of interest.

- *Mailbox*: three inputs give a lease of two with a third arriving behind it, and a second
  lease after an acknowledgement; a second request and a second claim are what could wrongly
  overlap or replace the first; a second content tells a retried checkpoint from a new one.
  Leases, requests, claims, contents and inputs are symmetric there.
- *Execution*: an input before and one during a model call, a call to answer both, and one
  more for a superseded answer; requests are numbered (the newest matters). As a requeue
  frees its lease, as many leases as inputs suffice; a second claim never gets past the
  first (`ClaimSealsMailbox`). The number of requests bounds the model calls; in the code
  `maxTurns`, the repair attempts and the Goal's rechecks bound them. At most one
  cancellation is in flight: a second finds the signal set.
- *Ledger*: calls on different routes meet only in the run's list and in a checkpoint, so two
  of them beside each other show their interaction, an inner call coming on top; one call is
  guarded at most, so a run waits for one decision at a time (`Guarded = {x1}` and
  `Guarded = {n1}` pass as well); `effects` stops at 2, which is "more than once".
- *Gate*: two nested exclusive calls make a chain, a shared lease with an exclusive call in
  it is refused, and a write between two reads makes a queue that is pumped in parts.
- *Child runs*: with one active child at a time a resumption meets a full budget; two
  messages to one run have an order; `MaxLoad` trades children (two each) against messages
  and the wait. A child of a child needs two active children: the instance with
  `MaxConcurrent = 2` and one message has it and passes as well (540 371 states).
- *Files*: two uploads of one source race for its retirement, the copy has another thread's
  content, the reference competes with both threads' purges; two workers keep the coordinator
  busy while two collections wait.
- *Connection*: one command names both resources and the others one each, so a command can
  be blocked behind a blocked one; three places for four commands, two for one connection.
- *Delivery*: two updates before, between and after the reads of three snapshots; three slots
  are exceeded by them.
- *Automations*: two nodes that need approvals make two questions, an answer a second job. The
  code gives a job two retries (`jobQueueService.ts:65`); the first differs from none in that
  the job comes back, and a second only brings it back once more, so the runs have one, and
  the theorems any number. One fault at a time is what crash recovery is made for; one error
  is a call that throws, or a call that throws together with the write that was to compensate
  for it. Handlers are symmetric. `QueuedRunIsInHand` passes as well with two errors (4.4
  million states), and with two users and two faults but no error (14.2 million), too slow for
  a run.
- *Supervisor*: a dependency and a dependent share attempts; the second process of each can
  end and exceed the limit of one restart; a second operation stops, restarts or starts what
  the first has left under way.

Deadlock is checked in `mailbox`, `execution` and `child_runs` (a status may always be
written, a process may always crash). The other systems stop when all their calls, commands
or jobs have been used.

## 4. Fairness

Weak fairness only, and only of what the server does by itself.

- *Execution, ledger*: the executor's next step, the second half of an enqueue or of a
  cancellation, the projector, each call's own steps, and the recovery after a crash. It is
  justified by time limits on model calls and tools (an await settles or throws), the
  steering queue that runs its tasks, and the supervisor or the service manager that
  restarts a dead process. Nothing makes a user steer, cancel, decide or resume, and nothing
  forbids crashes for ever. Nor does anything make a catch block's write succeed: that it may
  fail is an alternative with no fairness between the two.
- *Gate*: authorizations and operations settle, and a settled promise's continuation runs;
  nothing makes the model call a tool, and `TimeOut` need not happen.
- *Delivery*: reads of the store and of the rights end, and so do the handlers that await
  them; nothing makes a client ask, and the connection need not end.
- *Supervisor*: settled promises are resumed; the waits for a process id, for readiness, for
  the end of a process and for its ports have time limits, the hook too. No process has to
  end, no timer of a restart has to fire, no probe has to answer.

## 5. Proofs

All theorems are for arbitrary sets of inputs, leases, requests, claims, calls and commands.
Their assumptions are the named ones of the modules: `None` is no member of those sets,
requests are positive numbers and a content is named by its request (`RunExecution`), the four
routes are disjoint and at most one call is guarded (`ToolInvocationLedger`), the commands are
finitely many, each names a resource and arrives on a connection, and the limits are positive
(`ControlMutations`), each service's dependencies are a sequence of services that come before
it (`ServiceSupervisor`), calls, children, workers and threads are finitely many, calls differ
from nested calls, children from messages and from the root, files from references
(`ToolExecutionGate`, `ChildRuns`, `FileObjects`), each snapshot belongs to a run
(`RunDelivery`), a branch's copy of a file has the content of the file it copies
(`FileObjects`), and a graph's nodes are numbered along its edges (`AutomationRuns`; the
compiler refuses a graph that has no such order).

**Mailbox.** `MailboxInv` is `TypeOK`, the bookkeeping of absent fields, and the safety
invariants together; `RowsMatchLease` is the conjunction of types, of dense numbering, of the
cursor, of the lease columns against their rows, and of included rows against the active
request. None is inductive alone: that `AckInputLease` finds rows in one phase needs
`LeaseMatchesRows`; that needs `SequencesAreDense` for the end of the range; both need
`CursorSplitsMailbox`. `StepPreservesInv` has one lemma per action. From it follow
`TypeCorrect`, `MailboxIsConsistent`, `ExactlyOneRequest`, `ClaimStaysExact`, the action
properties `ClaimSeals`, `CursorMovesByLease`, `RequestsAreClosedByCheckpoint`, and
`RefinesOrderedDelivery`: each transaction is one step of the abstract specification or a
stutter.

**Execution.** First, every step of `RunNext` is one mailbox transaction or leaves the
mailbox alone: with `RunBase` (`MailboxInv`, types of the executor, the newest request
exists) this gives `RunImplementsMailbox` (`RunSpec => Spec`), so the mailbox's theorems
carry over, `RunDeliversInOrder` among them. Then three more layers, each relative to the
one before:
- `SteeringWindowIsSound`: revision, window, claim and the half-done enqueue.
- `LeaseIsFollowed`: the executor's lease is the open one; a lease the executor did not
  open itself is already included; the bound revision and the cursor describe the same
  inputs; the step in use is that of the active request.
- `AnswersSeeEveryInput`: the candidate's request is closed and the newest, so the
  revision comparison of the claim speaks about every accepted input; completing and
  clarifying imply a claim.
- `ExecutionIsWellTyped` from all of these (the checkpoint of a restored state is a
  request, and so on).

**Ledger.** `PendingListIsExact` (six transactions, one list; with the row checks of the
table), `NoGuardedEffectUnapproved` (a call past its approval hook is approved or not
guarded; nothing runs while a decision is awaited) and `LedgerIsWellTyped`. On `RowsInv` and
`ApprovalInv` of these rests `EffectInv`, which follows each call through the four places it
can be in: where its task is (`CourseOf`), which of the saved and unsaved lists hold it
(`ListsOf`), how far its row has come (`RowOf`), and what an effect has left behind
(`EffectOf`). The properties alone are not inductive: that an approved call is executed
again after a crash without a second effect needs that a call which is held back, or saved
as an interruption, has not started; and that a confirmed call is saved needs that the
terminal calls a checkpoint reads are among the outputs it then saves. From it follow
`EffectsHappenOnce`, `ConfirmedEffectsAreKept` and `ResumedRunsKnowEveryEffect`. The first and
the last speak of the calls whose effect the coordinator surrounds with ledger entries
(`Recorded`: platform, inner and agent calls), whatever MCP calls stand beside them; of MCP
calls themselves they are false (section 6).

**Gate.** Every acquire and release ends in a pump, so `Booked` is stated of any states, queue
and counters, and `PumpKeepsLeases` says that a pump turns what a step has left into a state
in which the first waiter is blocked (`LeaseInv`). `ChainInv` is about the chains of nested
calls: a chain holds the exclusive calls of its lease that have not ended, and only the first
has begun. Together they are `GateIsConsistent`. `CallsAreAdmittedInOrder` is the refinement
of `OrderedAdmission`. Its heart is `GrantedAreAdmissible`: the front of the queue a pump lets
in is the set of *all* calls that are admissible, wherever they stand, because the first call
that cannot be let in is in the way of everyone behind it (it is exclusive, or an exclusive
lease is out). `PumpSettles` adds what becomes of the order; `AcquireComes` and `ReleaseGoes`
prepare its hypotheses, and a lease taken at once is the case of an empty queue.
`LeasesAreGrantedInOrder` states one consequence in the gate's own terms
(`FirstComeFirstServed`): nobody gets a lease in a step that leaves a call waiting which
waited before it.

**Child runs.** `BudgetInv`: the counters are the cardinalities of what they count; a run
never spawned has neither task nor pending cancellation, so no status write makes a child that
no spawn has counted (`BudgetAlwaysExact`). `MailInv`: a list that is being delivered leaves
out no unaccepted mail that precedes what is on it, and all mail before one that was accepted
without a trigger has been accepted; only that makes the order of acceptance inductive when a
delivery is broken off and begun again (`MailboxKeepsOrder`). `AnnouncedInv`: between a status
write and the end of the task the callback holds the status that was written, or has thrown
(`FinishedChildrenAreAnnounced`: of the ends a child runs to itself, while its last executor
was not a user's and its callback did not throw; and of every child from the next start on).

**Files.** `LockInv` is what the coordinator promises on its own: counter and flag say who is
inside, each line names everybody who waits, once, and nobody waits for nothing. Its four
operations are four lemmas, every other action one appeal to `LockStays`. `ObjectInv` says
what a call in progress knows of its file (`Called`), what a row owes its files (`Kept`), and
what a collection has found (`Spared`). The two parts meet in the critical steps: a collection
that has read the references stays right because nobody is inside to commit another, and a
sweep removes nothing a call has stored and not yet committed because no such call is inside.
`OneReady`, one ready row per source, is what makes the retirement of its siblings safe: the
metadata that is being removed belongs to no ready row, although the removal is several steps
outside the coordinator. From `FileInv` follow `ReferencedObjectsAlwaysExist`,
`IntegrityIsBrokenByLeftoversOnly` (ready files have metadata; with no directory left without
its file and no file of a purged thread, the next start accepts what is there) and
`CoordinatorLosesNoWakeUp`.

**Delivery.** A run's part of the stream is what was handed to the gate (sent, in the
current batch, pending) followed by the positions that still wait, and `LineOK` speaks of
both as one line: a snapshot that has been read dominates all that is before it, handed over
or not, and has no unread snapshot before it; an update is covered by something before it,
if need be by a snapshot that is read only later and will then contain it; and so is the end
of the line while a subscriber listens. Draining a queue therefore moves a boundary and
changes nothing, and what other runs do adds messages that are not looked at. `ReadingOrder`
(snapshots are read in the order of their positions) makes the domination inductive.
`RightsAreKept`: rights are only lost, so what a batch may still read it could read when it
was handed in. `TypeInv` counts the positions with the cardinality theorems. From
`DeliveryInv` follow `StreamsFitTogether` and `SentIsAuthorized`, for any number of runs and
snapshots, finite or not, and any limits.

**Control mutations.** `OrderInv` says of any stages, queue positions and active keys that the
queue is in one order, that nothing held conflicts with what is held or stands before it, and
that whatever waits is blocked. Every action rearranges the queue and drains it, and
`DrainKeepsOrder` says that a drain restores all of it; `LeaveKeepsOrder` and
`EnqueueKeepsOrder` prepare its hypotheses. `BooksInv` counts the booked commands with the
library's cardinality theorems. `RefusalInv` carries what a disconnection and a revoked right
leave behind: a booked command of a closed connection is aborted, an authorized one is not
revoked. From the three follow `CommandsRunInOrder`, `NoWakeUpIsLost` (`QueuedIsBlocked`: a
command waits only for one that runs or is before it), `BooksAreExact` and the action property
`RefusalsAreFinal` (what lost its connection or its rights before its second authorization
never executes, and what executes is neither cancelled nor turned away as overload; that its
handler may find it forbidden is another matter). `CommandsAreAdmittedInOrder` is the
refinement of `OrderedAdmission`: `DrainSettles` says that one pass over the queue starts
exactly the admissible commands, because the running ones hold their keys and no others;
`EnqueueComes` and `LeaveGoes` bring each action to it. That no command stands behind itself
belongs to the invariant for it alone. There may be any finite number of commands, and any
limits of at least one.

**Automations.** Every copy of the record that a handler, an answer, a cancellation or a
reconciliation holds may be written long after it was read, so the invariant speaks of all of
them at once. `CopiesAreSound`: none says that a tool is approved which no user has approved.
`WritersReadOpenRuns`: none that may still be written was read from a completed or cancelled
run; as a write needs the status that was read, it finds such a run changed and does nothing.
`OneExecutor`: the registry's entry keeps executors apart, so the one that completes the run
is the only one beyond its start, the orchestration run is completed before the record, and no
executor can set it to running or waiting afterwards; a handler that is about to start meets
either the entry or a run that is not completed. One lemma, `PersistPreservesInv`, serves the
actions that write through `persistState`. From `AutomationInv` follow `CompletedRunsAgree`,
`EffectsNeedApproval` and the action property `FinishedRunsStayFinished`, for every graph and
any number of users, handlers, jobs, retries, faults and errors. That a node has a next one to
run needs the least of a set of numbers, which the library's theorem on well-founded relations
gives.

`ToolsActOnce` is `EffectsAreLicensed`: a tool acts with approval, and acts again only when an
older state has been written over the record. It needs two more layers. `FewInv` follows the
nodes: a node that the record, or a copy some executor goes on from, still has as pending or
waiting has acted at most `overwritten` times (`Allows`); while a node works the record has it
as running, unless a write has put it back. A write made from the record as it is
(`WritesFit`) turns no ended node into a waiting one; any other is counted, and the bound
grows with it. `OrderInv` says when nothing is counted: while no job has been taken from a live
executor, one handler is at work at a time, it goes on only from a run that is open
(`ExecutedRunsAreOpen`), and while the run waits for an answer it can at most record a failure
(`WaitingRunsRest`). So a failure is recorded in the state it was read from, or finds another
status and does nothing (`FailuresAreCurrent`), and so does the answer of a single user
(`AnswersAreCurrent`). Errors of the database add that the call which set the run to waiting
may have thrown after it committed, with the handler then on its way to record that. The
proof changed the property: a bound of one effect more per lost job, which the small run had
confirmed, is false of three nodes (section 6).

**Supervisor.** `RunningProcessesKeepTheirHandle`, for any catalog, any number of services and
restarts: `SpawnInv` says that an attempt that may still make a command finds the service
without one. It needs that a service has one attempt at a time (`StartSingle`), that an
attempt looks at the command before it waits for anything, and that nothing but an attempt
makes one. A process can then lose its handle only at the end of its service's stop, where it
does (`NoProcessIsLost`, section 6). `ShownStatesAreBacked` rests on `BackedInv`, which adds
the shape of an operation in each of its phases and, per service, what an attempt, a timer or
a close on its way still owes to the state that is shown: of the snapshot's `starting`,
`unhealthy`, `restarting` and so on, not of `waiting_dependency`, which may be shown for good
(section 6), and not of the lease file. The number of failures counted in the window has no
bound of its own: a service that was given up and is started by hand may fail again within the
window, so `Types` says no more than that it is a number.

**Only model-checked.** Liveness, which the provers installed here do not reach (neither
fairness nor `ENABLED`); and `AutomationRuns.QueuedRunIsInHand`, whose proof would have to
follow every job through its deliveries and is left to the plan.
No module uses a `RECURSIVE` operator, and no theorem needs such an induction: finite sets are
counted with the library's theorems about adding and removing one element.

## 6. Where the code and its comments disagree

Two runs find such a property violated; `PROJECT.json` has the lines and the quotes.

- `automation_approval` (`RefusedWhileRunning`): the registry of background tasks keeps a
  finished task for five minutes and refuses the same id meanwhile. An automation that paused
  for an approval and is approved within five minutes fails instead of going on.
- `completion` (`CompletionAgreesWithStatus`): a child's completion is published with the
  status it has when its task ends; a cancellation may write another status afterwards. The
  reconciliation of the next start then publishes the same key with another content, which
  throws, and the server does not come up.

More of them can be reproduced by adding a definition of the module to its `.cfg`; TLC then
finds it violated.

- `RunExecution.EndedRunIsRecorded`: the task manager only logs what a run throws, because the
  run "already owns run failure persistence" (`runTaskManager.ts:123`). Its catch block flushes
  its sinks before it writes the status (`turnRunner.ts:74`), and a sink keeps its first error
  and throws it again (`orderedWriteBuffer.ts:24-33`): a run that failed on a write of its
  projection stays `running` without an executor until the next start. `RunsComeToAnEnd` and
  the ledger's `RunningCallIsSettledOrEscalated` except it.
- `RunExecution.RecoveryReplaysIncludedInputs`: inputs already shown to the model when the
  process dies are to be replayed (`runSteeringController.ts:149-151`), but the new
  coordinator starts at the newest revision and refuses the older step of the checkpoint it
  must adopt (`toolExecutionCoordinator.ts:160`). The resumed run fails. (So `Replay` never
  has to refuse anything in the model: no assembly gets that far with an open, included
  lease.)
- `RunExecution.TerminalStatusIsFinal` (a `PROPERTY`): a cancellation writes its status over a
  finished run's, and the reverse (`runtime.ts:280`), although `runResumePolicy.ts:57` says a
  terminal run must not be rewritten.
- `RunExecution.ClaimedRunResumes`: a run that dies between its claim and its last status is
  marked recoverable (`runStore.ts:161-162`) and then fails on every resumption, because no
  request may follow a claim (`modelRequestRepository.ts:69`).
- `RunExecution.InterruptedRunHasNoPendingApproval`: a crash between the two writes of an
  approval request (`runtimeApprovalPersistence.ts:90`) leaves an interrupted run with a
  pending approval, neither resumable nor answerable.
- `RunExecution.DecisionCanBeRetried`: a crash between the two writes of a decision leaves a
  waiting run whose decision is no longer pending; answering again does nothing
  (`decisionCommand.ts:55`, against `runtime.ts:343`).
- `ToolInvocationLedger.ResumableKnowsEveryEffect` and `EffectAtMostOnce`, stated of all calls
  (`Call` instead of `Recorded`): an MCP tool's effect precedes its ledger entry
  (`runtimeSdkIntegrations.ts:347`), so a crash in between is recovered as if nothing had
  happened, and with `Guarded = {x1}` an approved MCP call is executed again
  (`toolExecutionCoordinator.ts:239`).
- `ChildRuns.ExpiredWaitSawNothing`: activity between the first snapshot of a wait and the
  registration of its listener wakes nobody; the wait runs to its time limit and reports that
  it timed out (`ChildRunManager.ts:236-238`; the snapshot it returns does hold the activity).
- `ToolExecutionGate.NestedRunsUnderItsLease`: when a sub-agent's time limit settles its call,
  the lease is released while a tool it called may still run; the next exclusive call may run
  beside it.

- `FileObjects.PendingFilesCanBeRetried`: a publication that fails at any stage is to leave a
  pending row that can be retried (`fileLifecycleService.ts:42`). A crash between the making of
  the file's directory and the renaming of `metadata.json` into it (`durableFileIo.ts:64-75`)
  leaves a directory at which the check of the next start throws (`fileStore.ts:341-343`): no
  server comes up to retry it. `OnlyLeftoversBreakIntegrity` excepts it.
- `FileObjects.NothingIsWrittenBack`: an upload that waits for the coordinator while its
  thread is purged is admitted after the purge and writes its metadata (`threadStore.ts:305`;
  the comment at `:309` excludes it); the next start finds metadata without a row and refuses.
  These are the leftovers of a purge that `OnlyLeftoversBreakIntegrity` excepts.
- `ServiceSupervisor.NoProcessIsLost`: a stop that has waited for the end of one process and
  for the ports drops whatever command the record holds by then (`supervisor.ts:707`). A
  dependent's restart may have made a new one in between; it runs on without a handle, and is
  the orphan "reported as stopped" that the comment at `:719` excludes.
- `ServiceSupervisor.StoppedStaysStopped` (a `PROPERTY`): an automatic start that waits for
  the port check or a dependency does not look at `desiredRunning` again
  (`supervisor.ts:472`), so a service that is stopped, or shut down with all others
  (`docs/operations/operations-console.md:19`), comes up after all.
- `ServiceSupervisor.AnnouncedRestartIsTried` (a `PROPERTY`): a process that ends while its
  start attempt still sleeps gets a restart timer of two seconds (`supervisor.ts:608`), whose
  start shares the doomed attempt (`:444`) and takes its failure for its own (`:618`): the
  service is declared failed without a restart.

Observations that need no run:

- A run interrupted in its first request has no checkpoint and is refused by
  `runResumePolicy.ts:45`, although `runtime.ts:185-191` could start it.
- A status write declares the recovery status clean while calls are unresolved
  (`runStore.ts:412`), after which the commit of one of them throws and it is recorded as
  failed (`CommitAgrees`).
- *Child runs.* An approval's continuation (`decisionCommand.ts:63`), `run:resume`
  (`runCommands.ts:98`) and the interruption of an idle child (`ChildRunManager.ts:254`) end a
  child without announcing it until the next start, and so does a completion callback that
  throws (`ChildRunManager.ts:306-326`, logged at `runTaskManager.ts:161-168`);
  `FinishedChildIsAnnounced` says of whom it speaks. A resumption under a full budget fails
  the child (`runStateRepository.ts:392` inside `runtime.ts:149`). A receiver's status is read
  before a message is stored and used after (`ChildRunManager.ts:217`). The start of a spawned
  child throws when a trigger came first.
- *Delivery.* A `run:subscribe` that fails leaves its subscription registered; an update
  delivered after a snapshot may be older than it; `subscribeToRun` after the connection's
  cleanup leaves a listener behind (`subscriptions.ts:90`, `handler.ts:85`).
- *Automations.* The compare-and-set looks at the status alone, so a writer may put back a
  state in which a node has not worked yet, although the executor refuses to run an
  interrupted node again to avoid repeated side effects (`automationRunner.ts:229`). When a
  job's half hour runs out under a live executor, its next deliveries are turned away and fail
  the record from what they read; the executor may read that and go on, and a node may work
  once more for each of them (three nodes, one lost job, two retries: three effects of one
  node). An answer read under one question and written under the next does the same (two
  users: two effects; timing stands in the way, as the answer would have to be on its way
  while the run executes a node). `EffectsAreLicensed` counts these writes. A cancellation
  takes effect on the job and the orchestration run before the compare-and-set that may refuse
  it, and an error between them leaves the job cancelled and the record queued. So do an error
  after the commit of an answer and before its dispatch, and a dispatch whose compensation
  throws as well (`scheduledTaskService.ts:365`, `:629`): nothing takes such a run up before
  the next start (`lost`). An orchestration run may be set to `waiting_approval` after it was
  cancelled.
- *Ledger.* A call that was started when the last status of its run was lost stays started,
  and its run running, until the next start.
- *Supervisor.* `HandlesAreKept` excepts the end of a stop, which is the subject of
  `NoProcessIsLost` above; an attempt that is bound to fail backs the state it shows until it
  has failed. A service whose automatic retries have ended (`supervisor.ts:601`) is started
  again by the automatic restart of a dependent (`:469`). A manual start that fails on a
  dependency leaves `waiting_dependency` shown for good. If one service of several cannot be
  stopped, those behind it run on although `desiredRunning` is withdrawn. A stop without a
  command may show `stopped` over a start that went on beside it. A lease file that cannot be
  written in `handleClose` is an unhandled rejection (`:558`).

## 7. Plan

The order is by how much depends on the component.

Done: `RunInputMailbox` and `OrderedInputDelivery`, `RunExecution`, `ToolInvocationLedger`,
`ToolExecutionGate`, `ChildRuns`, `FileObjects`, `ControlMutations`, `OrderedAdmission`,
`RunDelivery`, `AutomationRuns` and `ServiceSupervisor` (safety proved, liveness checked).
Every invariant and action property a run checks is stated by a theorem, except
`QueuedRunIsInHand`.

Left:

1. A proof of `QueuedRunIsInHand`.
2. `RunDomainJournal`: the reducer as a function; replay equals snapshot.
3. The item stream's fence, context windows, several approvals in one response and the
   clarification's continuation.
4. The supervisor's recovery from its lease file, with a crash of the supervisor itself.

**Not modelled.** Of the repository's code the larger part has no protocol to check: user
interfaces (desktop, operations console), computation on geodata (GIS, map, the Python
worker), adapters to model providers, speech and storage, schemas and routes. They are
listed in `PROJECT.json`, each with its reason. The map therefore covers a small share of the
repository's lines and most of those that coordinate a run.
