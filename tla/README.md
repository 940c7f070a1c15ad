# A TLA+ verification of gclm-code

gclm-code is a terminal coding agent in TypeScript. One process runs an agent
loop that streams a model's response and executes its tool calls; several such
processes, or several agents inside one, form a swarm that shares files; and
transports carry the events of a session to remote services. This directory
models the parts of it that hold the program's own concurrency, model-checks
them with TLC and proves theorems about them with TLAPS.

Paths below are relative to the repository's `src/`.

## 1. Inventory

| Component | State | Operations | Interacts with | What is hard |
|---|---|---|---|---|
| **Streaming tool executor** `services/tools/StreamingToolExecutor.ts`, consumer in `query.ts` | tracked tools and their status, results, progress, error flag, discard flag, abort controllers | addTool, processQueue, executeTool, getCompletedResults, getRemainingResults, discard | query loop (generator), tool calls (promises), abort signals, prompt submission | suspended passes over a queue, cancellation in mid call, lost wakeups, fallback to a second executor |
| **Shared task list** `utils/tasks.ts` | one file per task, high water mark, list lock, task locks | create, get, list, update, delete, block, claim, claim with busy check, unassign, reset | every agent of a team, `TaskUpdateTool`, the timer of `useTasksV2` | several processes, read-modify-write, torn reads, crashes, locks that time out |
| **Event uploader** `cli/transports/SerialBatchEventUploader.ts` | buffer, batch in flight, waiters, counters | enqueue, flush, close, drain loop | HybridTransport, CCRClient, HTTP | retry, requeue, backpressure, close at any moment |
| **Permission prompts and session state** `cli/structuredIO.ts`, `cli/print.ts`, `utils/sessionState.ts` | pending requests, resolved tool uses, replayed orphans, session state and pending action | canUseTool, sendRequest, control_response, abort, end of input, replay of an orphaned answer | tool executor, hooks, SDK host, bridge, transcript | parallel prompts, a race of hook, host and abort, duplicate and late answers, resumption |
| **Worker state uploader** `cli/transports/WorkerStateUploader.ts`, `ccrClient.ts` | current state, one PUT in flight, one pending patch | initialize, reportState, reportMetadata, enqueue, close | session state, server | coalescing while a retry sleeps, a first report during initialization |
| Hybrid transport `cli/transports/HybridTransport.ts` | stream-event buffer, timer | write, writeBatch, flush, close | event uploader | order of buffered and direct writes, grace period |
| **Turn gate and queue** `utils/QueryGuard.ts`, `utils/messageQueueManager.ts`, `utils/queueProcessor.ts`, `utils/handlePromptSubmit.ts`, `screens/REPL.tsx` | status, generation, queued commands by priority, abort controller | reserve, tryStart, end, forceEnd, enqueue, dequeue, cancel, render | prompt submission, UI effects, the running query | stale finally blocks, two ways to start a turn, lost races for the gate |
| **Teammate mailbox** `utils/teammateMailbox.ts` | one inbox file per agent, its lock | write, read, mark as read by position, by criterion, all | senders in other processes, `useInboxPoller`, `attachments.ts`, `inProcessRunner.ts`, `print.ts` | reads without the lock, marks that do not name what they mark, half-written files |
| **Scheduled-task lock** `utils/cronTasksLock.ts`, `utils/cronScheduler.ts` | lock file with owner, isOwner | acquire, probe, recover, release | sessions of one project | takeover from a dead owner, check and then unlink |
| **gclm-code-server** `gclm-code-server/` | rows of sessions, permission requests and channel events; active processes, started sessions | input, interrupt, lines and exits of a child, delivery of a channel event, archive | child CLI, SQLite, Feishu, web API | maps lost in a restart, exit before the last lines, repeated deliveries |
| Bridge `bridge/` | flush gate, work polling, tokens | poll, acknowledge, reconnect | remote service, transports | events during the initial flush |
| Query loop `query.ts`, compaction, transcript storage, MCP, hello2cc, UI, native packages | see PROJECT.json | | | mostly data, text or input and output |

For each component, what makes it correct:

- *Executor*: exclusive tools run alone and are not overtaken; each tool_use gets
  one result; every result is delivered; cancellation stops what has not begun;
  the turn ends.
- *Task list*: ids are unique; updates do not overwrite one another; a claim is
  exclusive; dependencies agree at both ends; no call waits for ever.
- *Event uploader*: order, no silent loss, bounded memory, all waiters woken.
- *Turn gate*: one turn at a time; the cleanup of a cancelled turn does not touch
  the next; no command is lost between the queue, the processor and a query.
- *Mailbox*: no message is lost to a concurrent rewrite or marked before it was
  taken in hand; each is marked in the end.
- *Cron lock*: one live owner, and always one in the end.
- *Server*: one process per session; a message of a channel is recorded, executed
  once and answered, in the turn that is its own.
- *Prompts*: each tool use is decided and recorded once; the session is reported as
  blocked while a prompt is open, and only then; a turn ends.
- *Worker state*: the server shows a moment of the session, in the end the last. *Hybrid transport*: writes keep
  their order across the buffer. *Bridge*: history before live events.

What is hard to test in the modelled code is listed under "hazards" in
PROJECT.json, at its line, with the properties that cover it or the reason
why none does; what the code gets wrong there is in section 12.

## 2. Modules and plan

| Module | Models or proves |
|---|---|
| `StreamingToolExecutor` | the executor and its consumer in the query loop |
| `StreamingToolExecutorProofs` | its typing, exclusion and queue order; one result per tool, cancellation, interruption, delivery and order of results; no wakeup is lost |
| `TaskList` | tasks.ts over a file system with locks |
| `TaskListProofs` | its typing; updates are not lost; claims are exclusive; ids are unique without deletions |
| `EventStream` | abstract: an ordered stream of events |
| `SerialBatchEventUploader` | the uploader; implements `EventStream` |
| `Subsequences`, `SerialBatchEventUploaderProofs` | what may be left out of a batch; typing, memory, progress, honest flushes, the refinement |
| `TurnGate`, `TurnGateProofs` | the guard, the command queue, its processor, a running query's drain, the cancel key; no command is lost, one chain until the cancel key |
| `CodeServer` | a session of gclm-code-server |
| `CronTasksLock`, `CronTasksLockProofs` | the lease of the scheduler; two owners presuppose a robbed one |
| `TeammateMailbox`, `TeammateMailboxProofs` | an inbox; no loss, no protocol message mistaken |
| `PermissionPrompts`, `PermissionPromptsProofs` | prompts of a headless session and the state they report; one result per tool, an open prompt is reported, an idle session has none |
| `SessionMirror` | abstract: what those who watch a session see of it |
| `Coalescing`, `WorkerState` | reports of the session's state, their coalescing, and the server's record; implements `SessionMirror` |
| `SessionServerProofs` | `CodeServer`: one process, resumption, answered once, arguments that fit; `WorkerState`: its typing, the last report is shown when all is quiet, for awaited sessions a moment is shown and the refinement |
| `MC...` | instances for TLC |

`CronTasksLock`, `TaskList` and `TeammateMailbox` share one picture of a file: each awaited
call on it is a step, `writeFile` empties and then fills it, and a process may
die in between. `TurnGate` and `StreamingToolExecutor` meet at the query: the first takes a
query as one step that ends, the second models what runs inside it. `PermissionPrompts` takes a
tool call where the executor waits for `canUseTool`, and the notifications it makes are
those that `WorkerState` accepts in any order.

Next, in this order:

1. `HybridTransport`, which composes the uploader with the stream-event buffer and
   the grace period of close; the same buffer in `CCRClient`.
2. The queue of messages between `useInboxPoller` and the end of a turn, which composes
   `TeammateMailbox` with `TurnGate`; the file of scheduled tasks, which is read and
   written without a lock, over `CronTasksLock`.
3. The flush gate of the bridge.

Specifications are written to be proved about: bounds and choices are CONSTANTS
with named assumptions, there is one action per operation or per piece of code
between two awaits, and there are no RECURSIVE operators.

## 3. StreamingToolExecutor

**State.** Tools are numbered in the order in which their blocks are streamed. `kind` says
what the model will call: whether the tool is known, concurrency safe, Bash
(its error cancels siblings) and interruptible. `attempt[i]` is the executor of
tool `i`: a streaming fallback discards the executor and creates another, so
`cur` is the live one. `status`, `results`, `pending` are the fields of
`TrackedTool`; `phase` is where the call is inside `collectResults`. `passes[e][c]` counts
the `processQueue` calls of executor `e` suspended at their await after tool `c`. `pc`, `at`,
`waitSet` are the consumer: streaming, suspended at a yield, collecting, or at
the three points of `getRemainingResults`. `emitted` is a history.

**Actions.** `AddTool`/`AddUnknownTool` are `addTool` with the part of `processQueue` that
runs at once; `ResumePass` is a later pass; `StartTool`, `CompleteTool`, `Receive` are the
pieces of `executeTool`/`collectResults`; `ToolAnswers`, `ToolTail`, `ToolRefused`,
`ToolProgress` are what a call may deliver; `YieldProgress`, `YieldResults`, `CollectEnd`
are `getCompletedResults`; `DrainScan`, `DrainCheck`, `DrainWake` are `getRemainingResults`;
`Fallback`, `StreamEnd`, `StreamToolUse`, `StreamOther` (a message without a tool, after which finished tools are yielded
as well), `SkipAddTool` are the query loop; `AbortTurn`,
`RejectPermission` come from outside.

**Interleaving.** JavaScript runs to completion between awaits. Continuations of
resolved promises (microtasks) are interleaved in any order, weaker than their
FIFO order; I/O, key presses, stream events and the consumer of `query()`
(macrotasks) run only when no microtask is runnable. This distinction is what
the liveness result is about.

**Abstractions.** Message texts, context modifiers and the set of in-progress ids
are left out (data and display). A call answers with one burst: its result and
perhaps an attachment after it. `runToolUse` turns exceptions into results, as
in the code. Of the two fallbacks of the query loop only the streaming one has
its messages modelled.

**Runs.**

| Run | Instance | Shows |
|---|---|---|
| `executor_turn` | 3 tools, 1 executor, 1 progress message, four kinds | exclusion, queue order, one result each, no lost wakeup, delivery, interrupts that spare blocking tools |
| `executor_fallback` | 3 tools of known kinds, 2 executors, 'now' messages, fair | discarded and cancelled tools stop, exclusive results in order, the turn ends |
| `executor_spin` | an exclusive and an unknown tool, fair | `TurnEnds` is *violated*: see findings |

*Bounds.* Every scheduling rule compares a tool with those before it and those
executing; three tools are the least at which a tool can wait behind a tool that
waits behind a third, and give three suspended passes at once. Two executors show a
discarded one beside a live one; a third adds only another discarded one.
One progress message per tool suffices to race with a result.

*Fairness.* Weak, for: the query loop (the stream ends or fails by its watchdog,
whoever iterates `query()` resumes it), the consumer, the suspended passes
(continuations run) and each tool's call (a tool call ends: tools have timeouts).
Progress, rejections and aborts are not fair.

**Proved**, for all numbers of tools, executors and progress messages, from
`BoundsAssumption` and `KindsAssumption`:

| Theorem | Property |
|---|---|
| `Typing` | `TypeOK` |
| `Exclusion` | `ExclusiveAccess` |
| `QueueOrder` | `NoOvertaking` |
| `OneResult` | `OneResultPerTool` |
| `Cancellation` | `CancelledToolsStop` |
| `Interruption` | `InterruptSparesBlocking`, with one executor and without 'now' messages |
| `Delivery` | `AllResultsDelivered` |
| `ResultOrder` | `ExclusiveResultsInOrder`, when every tool is known |
| `Wakeups` | `NoLostWakeup` |

None of these is inductive.

- *Scheduling.* A `processQueue` call that is resumed starts a tool beyond its cursor without
  looking back, which is right only if no exclusive tool up to the cursor is
  still queued. `ScheduleInv` adds this for every suspended pass (`PassesFree`) and for the
  scan of `getRemainingResults` (`CursorFree`), and that a tool exists only once its block was
  streamed (`StreamedOnly`), also while the consumer holds the block (`HeldIsAbsent`).
- *One result.* Between a tool's answer and its tail lies one microtask. The invariant says
  that while a tool is answering, its tail is the only microtask that can run:
  no sibling can err in between and make a second result.
- *Delivery and order.* What `emitted` holds is compared with what each tool has produced and with the
  cursor of the collector, which may be suspended at a yield while tools finish. A
  completed tool is passed over only if its results are out.
- *Waking up.* `getRemainingResults` waits for the promises it has collected, and a tool that starts while it sleeps is
  not among them. The invariant `WakeInv` says why that does no harm. Whenever the first queued tool could execute, a
  `processQueue` call is suspended that will start it (`Attended`), as nothing up to the cursor of such a call is queued
  (`PassesBehind`); and before the consumer sleeps, such a call has run, or a completed tool keeps the consumer
  awake (`Heard`, `Asleep`).

`TurnEnds` is model-checked only.

## 4. TaskList

**State.** `files`, `task`, `writer`: the task files; `writeFile` truncates a file and fills it
later, and in between a reader without the lock finds it torn (`Readable`).
`mark` and `markWriter`: the high water mark file, likewise. `listLock`, `taskLock`: the
locks of proper-lockfile. `caller[p]` is a call in progress; calls of several
processes and concurrent tool calls of one process are not told apart, since all
their shared state is on disk. `allocated` counts how often an id was given out.

**Actions.** A call begins with `Call...`, which includes the reads made before the
first lock. `LockList`, `LockTask` wait for a lock; `LockFails` is the exhausted
retry or the vanished file. Each awaited file operation is a step: `CreateScan` (the two concurrent
reads of `findHighestTaskId`, in either order), `CreateWrite`, `CreateEnd`, `ResetScan`, `ResetMark`,
`ResetList`, `ResetUnlink`, `DeleteScan`, `MarkWrite`, `MarkEnd`, `DeleteUnlink`, `DeleteRefs`,
`ClaimRead`, `ClaimList`, `BusyRead`, `UpdateCheck`, `UpdateRead`, `UpdateWrite`, `UpdateEnd`.
`Return` releases what the call holds. `Crash` kills a call in the middle; `LockStale` frees its locks.

**Abstractions.** A listing (a readdir and the reads it starts together) is one step, and so are
the two reads of `blockTask`. Two owner names of one teammate (id and name) are one.
Calls on ids that do not exist have no effect and are
not begun. A lock becomes stale only when its holder is dead. Subjects, descriptions and metadata
are left out. `claimTask` with `checkAgentBusy` has no caller in the repository; it is modelled
as the exported operation it is.

**Runs.**

| Run | Instance | Shows |
|---|---|---|
| `tasks_claim` | 2 callers, 2 calls each, 2 agents, 2 dependent tasks, 1 crash, exhausted retries; claim, complete, unassign, delete, block | `NoLostUpdate`, `ClaimExclusive` |
| `tasks_ids` | 2 callers, 2 calls each, one agent, 1 crash; create, reset, start, complete, claim with the busy check, hide timer, fair | `UniqueIds`, `CallsReturn` |

*Bounds.* Every lost update or stale decision needs two calls; the second call of a caller
lets it act on what the race left. In `tasks_ids` a busy claim waits for a task's lock while it
holds the list's, and a killed call leaves a task torn and either lock held. `tasks_claim` uses the symmetry of callers and agents, which is
sound as no task is owned at the start and only safety is checked.

*What the passing runs leave out, and why.* `UniqueIds` holds without deletions and
fails with them; `ClaimExclusive` holds for claims among themselves but not against
`TaskUpdateTool`'s automatic owner. That a busy check and its claim are atomic is not checked:
`claimTaskWithBusyCheck` is never called, and the property fails beside any operation that
sets an owner without the list's lock.

*Fairness.* A call that can take a step does: file operations end, locks that are free are
taken, and proper-lockfile takes over the lock of a process that no longer refreshes it.
Nothing forces a call to begin or a process to die.

**Proved**, for all callers, agents, ids and crashes:

- `Typing` (`TaskListProofs`): `TypeOK`, for every mix of operations.
- `Unique` (`TaskListProofs`): `UniqueIds`, for every mix of operations but `delete`, with which it is false (section 12).
  Creations and resets hold the list's lock. An id is known when it was given out, has a file, or is in the hands of a
  call, which may write its file again after a reset removed it. A known id is at most the highest file or at
  most the mark (`Recorded`); a creation reads the two in either order, and what it has found covers both when it
  writes (`Found`); a reset unlinks only what the mark it wrote covers (`Resetting`). That a finite set of ids has a
  maximum is proved by induction: see section 13.
- `AtomicUpdates` (`TaskListProofs`): `NoLostUpdate`, for every mix of operations without both `create` and `delete`; with both
  it is false (section 12). The invariant `IInv` says that a writer holds the lock of its task (`Holds`), and that what
  it has read under the lock is still in the file when it writes, unless a creation has put a new task there (`Fresh`):
  `createTask` writes its file without that task's lock and relies on the id being new. That it is new also to the
  calls in progress is what the known ids of `Unique` are for; so no other call writes the file that is being
  created (`Sole`), and what a writer has read is there (`Exact`).
- `Claims` (`TaskListProofs`): `ClaimExclusive`, when the agents are gentle (`GentleAgents`): they create, claim,
  unassign, delete, block and reset, and update without setting an owner. The
  property is false for `start`, the automatic owner of `TaskUpdateTool`. The invariant
  adds to `IInv` that a claim that has read an unowned task will write to one that still is. It needs no fresh ids: a
  task created over another one has no owner.

`CallsReturn` is model-checked only.

## 5. SerialBatchEventUploader and EventStream

`EventStream` is the promise: events are accepted in order into one queue, and a prefix of it is
delivered or given up at a time; unsendable events may be skipped; close keeps
at most the batch on its way.

`SerialBatchEventUploader` is the class: `pending`, `batch` (taken by the drain loop and not settled), `drain`
(off, sending, sleeping), the counters, and the calls. A step is what runs between two awaits, so
`Enqueue`, `Resume`, `SendSucceeds` and `DropBatch` each contain the run of the drain loop
up to its next await (`Loop`, `TakeBatch`, `Stop`). Resolving a promise only makes its waiter
runnable: a released enqueue is `woken`, and `Resume` looks again. Events are numbered as they are pushed.
Sizes in bytes become a choice: with a byte limit a batch may end after any event. Delays are
untimed. `onBatchDropped` does not throw.

**Runs.** `uploader_stream` (3 enqueues of 1 to 3 events, room for 2, batches of 2, drop after 2
failures, an unsendable event, a flush and a close at any time): `IsOrderedStream` is the
refinement, with `queue <- batch \o pending` and `open <- ~closed`; `FlushIsHonest`,
`MemoryBounded`, `NothingLeftBehind`, `WaitersReturn`. A burst of 3 never fits, which
the liveness property excludes, as the callers of the class do. The run stops when
all calls have been made, so deadlock is not checked.

*Bounds.* One batch in flight, one batch's worth of room and an enqueue beyond it make backpressure, requeue
over the limit and wakeups occur; two consecutive failures make requeue and drop both occur.

*Fairness.* A post is answered or times out (15 s in HybridTransport), timers fire,
continuations run. With a failure limit this suffices: no success is assumed.

**Proved**, for all bounds, batch sizes, limits and callers: `Typing` (`TypeOK`), `Memory`
(`MemoryBounded`), `Progress` (`NothingLeftBehind`), `Honest` (`FlushIsHonest`) and `Refinement` (`IsOrderedStream`: each step of
the uploader is a step of `EventStream` or a stutter under the mapping above). The
invariant adds to the types that a batch is within the size limit and holds nothing that cannot be
sent (`BatchIsSound`), that while the loop sleeps the queue begins with an event that can be sent, so
that a requeued batch makes the next one non-empty (`RetryIsSound`), that a blocked or woken enqueue
still has events to push (`CallsAreSound`), and that what a flush waits for is still held unless
something was dropped (`Waits`). The liveness properties are model-checked only.

## 6. TurnGate

**State.** `status` and `generation` are `QueryGuard`; `queue` is `commandQueue`; `controller` is the abort
controller that the interface holds and `aborted` those that were aborted; `chain[c]` is a run of
`executeUserInput` that began with command `c`: processing input, or in its query. `rendered` is what the
last render saw, which decides whether the effect that empties the queue runs
again; `jsx` whether a local JSX interface holds the screen, in which case it does not. `settled` is a history: commands that reached
the transcript, the input box, or were refused, and those taken by the drain of a query.

**Actions.** `Submit` (a key press: executed, queued behind a running query or an external load, or an immediate command), `Post` (notifications,
cron prompts), `Incoming` (`handleIncomingPrompt`), `InputDone` (the end of `processUserInput`, then `onQuery`,
which may lose `tryStart` and queue its text again: what is only images, or meta, is not), `QueryEnd` (the finally of `onQuery` and of
the chain), `DrainBegins`/`DrainEnds` (a query takes queued commands as attachments, with an
await between the look and the removal), `AgentDrains`, `Cancel` (escape), `Pop` (back into the
input box), `Render` (React renders and runs its effects), `ToggleJsx` (an interface such as `/config` opens or closes; meanwhile no key reaches the
prompt). A step is what runs between two
awaits that wait for something outside.

**Run.** `turn_gate`: three commands with every outcome of processing, one cancellation; a typed one is a prompt of images only, a
bash or a slash command, a posted one has each priority and addressee, and a received one is a prompt.
`GuardIsHeld`, `NothingLost` and `OneChainUntilCancel` hold, and under fairness `QueueServed`:
a command of the main thread leaves the queue, unless an interface takes the screen, which the user may leave
open for ever. Three commands are the least at which one runs, one waits in front and one behind
it; one cancellation makes a stale chain beside a new one. The interface may be
left idle for ever, so deadlock is not checked.

*Fairness.* Renders happen; processing, queries and attachments end. The user does
nothing that fairness forces.

**Proved**, for every number of commands and cancellations, every kind of command and every outcome of
processing, from `ConstantsAssumption`:

| Theorem | Property |
|---|---|
| `Typing` | `TypeOK` |
| `Guard` | `GuardIsHeld` |
| `OneChain` | `OneChainUntilCancel` |
| `NoCommandLost` | `NothingLost` |

- *Typing.* Besides the types, a chain is sound: it is named after the first of its commands, and an idle one has
  none (`TypeInv`).
- *Guard.* Generations are given out once: no chain has one above the counter, and a chain has one exactly
  while it queries (`GuardInv`). So the end of a query of an old generation finds the guard of a newer one and
  leaves it alone.
- *One chain.* Until the first cancellation each live chain is the one whose controller the interface
  holds, and the guard is not idle (`OneInv`); so no second one passes the guard.
- *Nothing lost.* A chain that begins would overwrite one with the same first command. That none is there
  needs that a command is in one entry of the queue or in one chain only (`InOnePlace`); that it is
  somewhere unless settled (`Somewhere`); and that the commands of a query are settled when it ends
  (`QueriesAreSettled`).

Taking commands out of the queue is a recursive function, `Kept`. Its meaning (`KeptFacts`: the range of what
is kept) is proved by induction: see section 13. `QueueServed` is model-checked only.

## 7. CodeServer

**State.** The row of one session, the rows of its permission requests and channel events,
the bridge's two maps (`activeProcess`, `started`), the children as far as the bridge can see them,
whether the CLI's transcript exists, the deliveries that await their receipt, and
two histories: how many processes have taken the prompt of an event (`executions`), and whether one has ended
before it took arguments that fitted (`cutShort`).

**Actions.** Handlers run on one thread and SQLite is synchronous, so a step is a handler
up to its await: `WebInput`, `HandleStdoutLine`, `Exit`, `SpawnError`, `DeliverSpawns`, `DeliverFails`, `Receipt`, `ReceiptFails`, `Archive`. `Restart` forgets the maps and keeps the rows; the children may go on.
`Write` and `AcceptArguments` are the child. It takes its arguments if they fit the transcript: `--resume` needs a conversation, and
`--session-id` one that does not exist (`main.tsx:1281`); otherwise it writes an error or ends. A message counts as
executed when a process takes its arguments, and not when one is spawned.

**Run.** `code_server`: one event, one permission request, two children, two unread lines, two
deliveries at a time, one restart. `OneExecution` holds and `ProcessedForever` (an answered message is not started again); under
fairness also `EventServed`: a recorded message is in the end answered, and a process has taken it as its prompt
unless the server was restarted or a process ended too early. The exceptions are the code's: after a
restart the CLI refuses the conversation and the message is answered all the same (`AnsweredIsExecuted`, see below). Two children are an old process and its successor; two lines let an exit
overtake a result; two deliveries are a repeated one.

*Fairness.* The event loop delivers lines and exits. That Feishu repeats a message until
it is answered, and that neither it nor `spawn` fails for ever, are assumptions on the
environment (strong fairness of `DeliverSpawns` and `Receipt`).

**Proved** (`SessionServerProofs`), for all events, requests, children and bounds: `ServerTyping`, `OneProcess` (`OneExecution`), `Resumption` (`LaterTurnsResume`),
`AnsweredOnce` (`ProcessedForever`), from `TypeOK`, `OneExecution` and `StartedIsKnown` (a session that was started in this life of
the server is in the map); and `Fitness` (`ArgumentsFit`): until a restart, or a process that ends too early, the CLI takes the
arguments of every process. That is the part of `EventServed` that is no liveness: `startedSessions` holds
exactly the sessions that have a transcript or a process about to write one (`FitInv`). `EventServed` itself is model-checked only.

## 8. CronTasksLock

**State.** The lock file with its inode, so that a session may write to a file that
was unlinked; per session its process, whether its scheduler was stopped or is
the owner, and the step it is at; whether the directory exists. `Hidden` are sessions whose process the others cannot
probe: that of another user (`EPERM`), or process 1 of a container. `robbed` is a history: a lock of a running process was
unlinked or overwritten.

**Actions.** `Start`, `Probe`, `Stop`, the steps `TryCreateExclusive`, `MakeDirectory`, `Write`, `ReadLock`, `Overwrite`, `Unlink`, `ReleaseRead`, `ReleaseUnlink`, and `Die`, after
which a session may be resumed by a new process.

**Run.** `cron_lock`: three sessions of two processes each. Two owners exist only after a robbery
(`OneOwnerUnlessRobbed`), and as long as a session probes somebody owns the lease in the end
(`SomeoneOwns`). Three sessions are the least at which one recovers a lock while
another replaces it and a third looks; one of the three is hidden. Processes are bounded, so the system
stops.

*Fairness.* Calls on the file return and the probe's timer goes off.

**Proved**, for all sessions and processes: `Typing` and `Exclusion` (`OneOwnerUnlessRobbed`). As long as nobody was robbed an
owner's lock is in the file, and a session between creating and writing has
the file open, empty and to itself (`Claims`); so there is one claim at most.

## 9. TeammateMailbox

**State.** The inbox file as `readMailbox` sees it: a file that is missing, empty or garbled is an
inbox without messages. `lock` is proper-lockfile's. `call[c]` is a call in progress: a message is
identified with the call of `writeToMailbox` that sends it, and `Marks` are slots for calls that
mark. `reader` is what the agent is: a session (`useInboxPoller`), a lead without terminal (`print.ts`)
or a teammate in the lead's process (`inProcessRunner.ts`); all of them attach messages in their
turns. `delivered`, `written` and `clobbered` are histories.

**Actions.** `Send` and `Initialize` create the file ('wx', outside the lock), or it cannot be created and the
message is given up (`SendFails`); `LockAndRead`, `LockFails`, `Truncate`, `Fill` are the
critical section that all writers share; `Poll`, `Attach` and `WaitForNext` read without the lock, take in
hand what they find, and call the mark each of them uses: all, what is no
protocol message, or a position. `SenderDies`, `ReaderDies`, `LockStale` are the faults.

**Run.** `mailbox`: 3 messages (peer, lead, a request to shut down), 2 marks, every reader, 1 death, exhausted
retries. `WrittenStay` and `ProtocolIsHandled` hold and, under fairness, `EachIsRead`. A session that marks what it has not
read is among the disagreements below.

*Bounds.* Three messages give every rank of `WaitForNext` and a position that moves if something is
lost in front of it; two marks are a poll's and an attachment's at once. The
system may stop when all messages are read, so deadlock is not checked.

*Fairness.* Calls on the file return, a free lock is taken by the next retry, a stale one is
found, and the agent polls (a lead without terminal: between its turns, while it
has teammates). `EachIsRead` needs no luck with retries: a mark that gives up is called
again by the next poll.

**Proved**, for all messages and marks: `Typing`, `NoLoss` (`WrittenStay`) and `NoneMistaken` (`ProtocolIsHandled`). The invariant says what each
call that holds the lock is about to write: everything written before, once
each, and its own message (`Kept`); at the old positions, so that a position read without
the lock stays that of its message (`Positions`). Both hold until a late creation or a death
in the middle of a rewrite empties the file (`clobbered`).

*Left out.* The queue of messages that wait in AppState for the end of a turn, the
poll of a teammate for permission responses, and a lead that looks at a
teammate's transcript and so attaches from its inbox.

## 10. PermissionPrompts

**State.** `call[t]` is where the `canUseTool` call of a tool use stands: checking the rules, waiting
for an answer, settled but not resumed, running the tool. `pending`, `resolved` and `closed` are
fields of `StructuredIO`; `handled` and `orphans` belong to the replay in `print.ts`; `state` and
`shown` are `currentState` and the pending action of `sessionState.ts`. `sent` and `wire` are the host
and the answers on their way, up to `MaxCopies` of each. `results` counts the tool results in
the transcript, which survives a crash, as the wire does. `deaf` marks prompts whose abort
listener was added too late; `granted` and `winner` are histories.

**Actions.** `Check`, `DecideByRule`, `Ask`, `Resume` are the pieces of `createCanUseTool` between its awaits, `Forget` is
the finally block of `sendRequest`, and `HookAllows`, `HookPasses` are the hook, whose win runs the finally
block of the call in the same step. `Respond` is `processLine` with a control response: it settles a
request, ignores a duplicate or replays an orphan. `Abort` and `CloseInput` reject what listens;
`StartTurn`, `EndTurn`, `StartOrphan`, `FinishOrphan` are `run`, which reports that it is idle when its queue is
empty (`Drain`); an orphan of a tool that is gone leaves no result; `Crash` is a death and a resumption.

**Interleaving.** The continuations of a settled request are microtasks; they are taken in any
order with what else happens, except that a tool does not finish before the finally
block of its request has run.

**Run.** `prompts`: 2 tools with hooks, 2 copies of an answer, 1 crash. `OneResult` and `PromptIsShown` hold and, under
fairness, `TurnEnds`. The converse of `PromptIsShown`, that a session reported as blocked has an open prompt, fails: see
the disagreements below.

*Bounds.* Two prompts are what the finally block compares; a second copy is the duplicate, and one
crash separates a request from its answer. `MaxResolved` is 2, so nothing is evicted: with
1, `OneResult` fails, as a tool that runs while a thousand others are resolved would be replayed.
The system stops when all tools are finished, so deadlock is not checked.

*Fairness.* Continuations run, checks and tools return, the host answers (once) and its
answers are read. A user who never answers keeps a turn open, and so he should.

**Proved**, for any number of tools, copies and crashes, from `PromptsAssumption` (which says that the tools are
finitely many):

| Theorem | Property |
|---|---|
| `Typing` | `TypeOK` |
| `DecidedOnce` | `OneResult`, when the tools are no more than `MaxResolved` |
| `Shown` | `PromptIsShown` |
| `Idle` | `IdleBetweenTurns` |

- *What is reported.* `running` is reported when `pendingRequests` is empty, which says that no call waits because
  who waits is in it (`WaitingIsPending`); and a turn waits for each call that has a pending request
  (`PendingIsOpen`, `OpenIsInTurn`).
- *One result.* A result is written by a call or by an orphan. An answer becomes an orphan when its
  tool has no result, no pending request and is not known as resolved. `DecidedIsResolved` says that such
  a tool has no call under way: one that was decided is among the resolved, or was never asked for, or the
  input is closed. So only a call that a crash has interrupted is replayed (`OrphansAreLost`), and once
  in a life, since `handled` holds the orphans. In the next life its result is in the transcript.
- The hypothesis is what the eviction costs: with one more tool than resolved ids TLC finds two results.
  That an abort tracks all the prompts it reaches, in any order of their listeners, is proved by
  induction over that order (`TrackAllFacts`).

*Left out.* The other requests that share `sendRequest` (network permissions of the sandbox,
elicitations, hook callbacks, MCP messages), the abort of a single tool by its sibling, and
an answer the bridge injects, which takes the first branch of `Respond` or is dropped. A network
permission is reported by nobody, and one that is open when a prompt is answered keeps
`running` from being reported.

## 11. WorkerState

**State.** A patch is a function from some of the fields of the worker's record to values; the keys of
`external_metadata` are fields like `worker_status`, since both kinds of merge let the last value win.
`current` is what `reportState` compares with; `pending`, `payload`, `upload` are the uploader; `server` is the record, at first
what a crashed worker has left. Four histories refine what is seen: `reports` is what the session reported, `carried` how much
of that has gone into a PUT, `shown` how much the server shows, `settled` the fields that `initialize` can overwrite no more; no guard reads the last
three, and no assignment outside them.
The specification is `WorkerSpec` and has no name in common with `CodeServer`: one module proves about both.

**Actions.** `NotifyState` is `notifySessionStateChanged`: the state, unless it is a repetition, then the pending action and the
progress line, each enqueued by itself. `NotifyMetadata` and `Close` are the other calls. `InitApplied`, `InitReturns`, `InitFails` are
`initialize`, whose PUT does not go through the uploader. `PutSucceeds`, `PutFails`, `Wake` are `sendWithRetry` and `drain`.

**Run.** Only a session that is resumed waits for `initialize` before it reports (`print.ts:5057`); a fresh one does not
(`remoteIO.ts:127-167`). `awaits` says which kind a behaviour is of, and `worker` has both: five patches after that of `initialize`, one
kind of prompt, PUTs that fail with and without effect, close at any moment. Of a session that waits it checks `ShowsAMoment` and
the refinement `IsSessionMirror`; of every session `QuietIsCurrent` and, under fairness, `ShownInTheEnd`. The latter say of every settled field
that its last report is shown when nothing is left to send, and in the end; a field is not settled if it was last reported while the PUT of `initialize`
was on its way. Where a session waits every field is settled. Where it does not, the properties fail without that exception, and so
do the first two: see below.

*Bounds.* Five patches let a turn begin during `initialize` and end after it, and a prompt (two) or the end of a turn (three)
meet others in every state of the uploader. The session stops at the bound, so deadlock is not checked.

*Fairness.* Timers fire, and a PUT that is tried again and again succeeds (strong fairness, as a
PUT may fail any number of times).

*Assumed.* A PUT that timed out was applied before the next one is sent, or never.

**Proved** (`SessionServerProofs`), for all details, models and numbers of reports, from `WorkerStateAssumption`:

| Theorem | Property | For |
|---|---|---|
| `WorkerTyping` | `WorkerTypeOK` | every session |
| `Moments` | `ShowsAMoment` | every session; it speaks of those that wait |
| `Quiet` | `QuietIsCurrent` | every session |
| `Refinement` | `IsSessionMirror` | every session; one that does not wait has no mirror |

- *Moments.* `Moment(R, k)` is the record after the first `k` reports of `R`. A patch `Carries` from `a` to `b` when it takes the record
  from every moment between them to `b`. The invariant (`MirrorInv`) says that the server shows the moment `shown`, that the
  patch being sent carries from there to `carried`, and the pending one from `carried` to the last report. A PUT that failed may or
  may not have been applied: either way the server is between `shown` and `carried`, where the patch still works, so that it
  can be sent again. Patches that carry from `a` to `b` and from `b` to `c` coalesce to one from `a` to `c` (`CarriesBoth`): that
  is the absorption before a retry, and by induction the pending slot (`CarriesAll`).
- *Repeated states.* A state that `reportState` drops repeats `currentState`. The invariant of `Quiet` (`SettledInv`) follows each settled field: the record
  with the patches under way applied to it agrees with the last report, and `currentState` is that report as soon as the state is settled
  (`StatusKnown`), so that what is dropped is on its way or shown. For an awaited session a dropped state makes a moment like the one before it (`Repetition`).
- *The refinement.* A step reports, or shows a moment between `shown` and the last. The instance `Mirror` has its own copy of the merge, which is shown to be the same one (`MirrorMergedIs`).
- *The merge of a sequence* is a fold over the sets of positions; what it gives for a longer sequence is proved by
  induction over positions, from the existence of the recursive function behind it (`FoldsExists`, `MergedAppend`).
- That `Moments` and `Refinement` say something only of sessions that wait is what the disagreement below costs: a report made during
  the PUT of `initialize` is not ordered with it at the server.

## 12. Findings

`getRemainingResults` can spin without ever waiting: with an exclusive tool executing
and an unknown tool after it, completed but not yet deliverable, each round
awaits only resolved promises, so I/O is never served (`executor_spin`).

Further disagreements that the models reach and no run of the project is kept for. The properties that have
a name are defined in the modules and can be checked as said.

| Property | What happens | Instance |
|---|---|---|
| `CancelTerminates` (`TurnGate`) | a cancelled chain's finally gives up the reservation of the prompt submitted after it (`handlePromptSubmit.ts:603`); a third prompt then replaces the abort controller, and cancelling aborts the wrong one while a query runs on | 3 commands, 2 cancels, `Typed <- PromptOnly`, nothing posted or incoming, `Outcomes <- QueryOnly` |
| `OneOwner` (`CronTasksLock`) | a lock that was created and not yet written reads as corrupt and is unlinked (`cronTasksLock.ts:165`): two owners | 2 sessions, 2 processes |
| `LiveLocksStay` (`CronTasksLock`) | `isProcessRunning` reports the process of another user as not running, "conservative for lock recovery (we won't steal a live lock)" (`genericProcessUtils.ts:18`). The lock of the scheduled tasks is stolen by exactly that: its living owner is taken for dead, and the lock is unlinked | 2 sessions, one of them hidden, 1 process each |
| `ExclusiveAcrossFallback` (`StreamingToolExecutor`) | `discard` does not abort: an exclusive tool of the discarded executor runs beside one of the new one | 2 exclusive tools, 2 executors |
| `UniqueIds` (`TaskList`) | an id is given twice when a deletion falls between the two reads of `findHighestTaskId` | 3 callers, `TwoTasks`, `Operations = {"create", "delete"}`, ids up to 3, no faults |
| `NoLostUpdate` (`TaskList`) | so a creation overwrites a task that an update has read: the update then brings the deleted task back in place of the new one | 3 callers, 2 calls each, `TwoTasks`, `Operations = {"create", "delete", "update"}`, ids up to 3, no faults |
| `EdgesAgree` (`TaskList`) | two `blockTask` calls on one task lose one end of an edge | 2 callers, `ThreeTasks`, `Operations = {"block"}` |
| `FlushesReturn` (`SerialBatchEventUploader`) | a flush called after close, with a post in flight that then fails, never returns | one enqueue, one flush, all bounds 1, no failure limit, fair |
| `NoneSkipped` (`TeammateMailbox`) | `markMessagesAsRead` marks whatever the file holds by then: a message that arrives between the poll's read and its mark (`useInboxPoller.ts:201`) is marked unseen. The comment at 860 promises no "permanent message loss". `markMessagesAsReadByPredicate` does the same to plain messages | `Readers = {"session"}`, 2 messages, 1 mark, no faults |
| `BlockedIsAsked` (`PermissionPrompts`) | a hook that decides a prompt leaves the session reported as blocked: the finally block (`structuredIO.ts:653`) runs before the rejected request has left `pendingRequests`, and finds it | 2 tools, `WithHooks`, 1 copy, no crash |
| `ShownIsAsked` (`PermissionPrompts`) | of several open prompts only the last one asked is shown, also after it was answered (`sessionState.ts:102`) | 2 tools, no hooks, 1 copy, no crash |
| `LoserIgnored` (`PermissionPrompts`) | a hook that allows after the host has answered still adds its permission rules (`structuredIO.ts:821`); the comment at 566 says "the loser is cancelled/ignored" | 2 tools, `WithHooks`, 1 copy, no crash |
| `AbortForwarded` (`PermissionPrompts`) | a prompt whose rules were being checked when the turn was aborted opens afterwards and does not hear of it (`structuredIO.ts:573`): the turn waits for an answer | 2 tools, `WithHooks`, 1 copy, no crash |
| `QuietIsComplete` (`WorkerState`) | `initialize` sets `currentState` to idle after its own PUT (`ccrClient.ts:498`): a report made meanwhile may be overwritten at the server, and the end of the first turn is dropped as a repetition, so that `running` is shown until the next turn | `MaxReports = 5`, no fairness |
| `EventExecutedOnce` (`CodeServer`) | a message delivered again while the receipt of its first delivery is awaited, or after it failed, starts a second process | as `code_server` |
| `AnsweredIsExecuted` (`CodeServer`) | after a restart the next turn is started with `--session-id`, which `main.tsx:1281` refuses for a conversation that exists: the message is marked as processed and was never executed | as `code_server` |
| `ResultOfTheTurn` (`CodeServer`) | 'exit' of a process comes before its last lines are read (`localCliExecutionBridge.ts:207`): its result is applied to the row of the next turn | as `code_server` |

Without a property of their own: results of safe tools are not yielded in the
order received; an abort between the yield of a message and its `addTool` leaves the
block without a result until the next request is built; a 'now' message
interrupts tools that block; an update recreates a deleted task; unassigning
reopens a task completed meanwhile; a blocker being rewritten does not block;
the hide timer deletes a task created after its check; a child that exits without a result leaves the row
'running'; a cancelled slash command clears the abort controller of the turn
after it.

## 13. What is only model-checked, and what is not modelled

Liveness (`TurnEnds`, `CallsReturn`, `WaitersReturn`, `QueueServed`, `EventServed`, `SomeoneOwns`, `EachIsRead`, `ShownInTheEnd`) is checked by TLC on the
instances above: liveness under fairness and ENABLED are beyond the prover. The library's induction theorems take an
operator as a parameter, which the provers cannot instantiate. Where a proof needs induction over data it is
done with a set in place of the predicate (`SetInduction`, from the well-foundedness of finite sets), and
recursion is written as a recursive function. Every safety property of the runs that pass has a theorem.

The other way round, what is proved and simple is not checked again: the type invariants of the executor, of the event
uploader, of `CodeServer`, of `WorkerState`, of the cron lock and of the mailbox, `LaterTurnsResume` and `ArgumentsFit` (`CodeServer`) and `IdleBetweenTurns` (`PermissionPrompts`) are in no configuration. TLC
confirmed each of them on the instance of its module before it was proved.

Details that the models leave out, or take one way:

- *Consumer of `query()`* (`StreamingToolExecutor`). It resumes as a macrotask, so that aborts and answers of tools may come before it, as with a consumer that
  waits for something. A plain `for await`, as in `REPL.tsx`, resumes in a microtask and may be ahead of other microtasks that the same step has made
  runnable; such orders are left out. Interleaving it with all microtasks would be too weak: TLC then finds `OneResultPerTool` violated by a run
  in which the consumer resumes between the answer of a tool and its tail, which cannot be, as an answer comes from I/O and finds no other microtask pending.
- *Drain* (`TurnGate`). Every command that a query takes counts as settled, though an error in building its attachment is swallowed with it.
- *Lost race* (`TurnGate`). A prompt that is only images and loses `tryStart` is not queued again, as the code has it; it counts
  as settled since the code drops it on purpose (`onQuery` keeps only text).
- *Lead without terminal* (`TeammateMailbox`). `print.ts` marks and then hands over what it read; the model has it in hand at the read,
  which differs only if the lead dies in between: the message is then marked and never handled.
- *Queue of `run`* (`PermissionPrompts`). Of the queue that `run` drains before it reports that it is idle only the orphaned permissions are modelled;
  prompts that are queued behind them are turns of their own.

The repository is far larger than what is modelled, and most of the rest is no
subject for it: the terminal interface and the native packages are input and
output; the query loop outside the executor, compaction, hello2cc and the
prompts depend on what a model replies and on text; the bash parser, formats
and settings are functions over strings; the MCP client and the HTTP side of
the bridge are connections of external libraries. PROJECT.json gives the reason for each
component that is `not_modelled`; those marked planned are in section 2.

## 14. Running it

    tlc -config ExecutorTurn.cfg MCStreamingToolExecutor.tla
    tlapm StreamingToolExecutorProofs.tla

Each run of PROJECT.json names its module and configuration. Operators commented "Mutant of X" are X with a
plausible bug; put in its place they make the property named in PROJECT.json fail.
