# Kimi Code: TLA+ models of the agent runtime

Kimi Code is a coding agent written in Rust (a port of a TypeScript program) with
a Tauri desktop shell. This directory models the parts that decide *when* things
happen in an agent and what is left of them after an error or a crash: prompts are
queued and steered, turns are started, retried, cancelled and ended, tool calls run
side by side, users are asked, and all of it is written to a journal and to a small
database. Paths below are relative to `src/crates/agent-core-v2/src/` unless they
start with `crates/` or `apps/`.

    PromptLifecycle    what a prompt's handle promises        (abstract)
          ^ implements
    PromptScheduler    the prompt actor and its worker tasks
          | runs on                       | enqueues turns in
    SchedulerRunner                  AgentLoop ---------- a step's tool calls --> ToolBatch
    who owns the actor, parking      turns, steps, queues, disposal                | ask the user
                                          | takes turn ids from                Interaction
                                     TurnClock
                                          | dispatches ops to
                                     WireService ---- appends records to --> AppendLog

    DurableMap <-- implements -- MiniDb      one writer per directory: LockFile

## 1. Inventory

Status is in `PROJECT.json`; this is what each part keeps and does.

| Component | State | Operations | Talks to | Hard behaviour | Correct when |
|---|---|---|---|---|---|
| Turn clock (`agent/loop_/turn_ops.rs`) | durable next id, cancelled ids, last ended; reserved id in memory | turn.prompt, turn.cancel, turn.ended, loop events, reserve_turn_id | wire log, loop | counter read before the lock; crash loses the reservation | no id is used twice; started turns are counted |
| Agent loop (`agent/loop_/loop_service.rs`) | active turn, line of turns, stand-alone requests, waiters, disposing | enqueue, pump_turns, run, cancel, settled, dispose | provider, tools, hooks, prompt scheduler, goal, tasks | every operation takes the lock several times; tasks on several threads | one turn at a time, none forgotten, every promise settled |
| Step requests (`step_request.rs`, `step_request_queue.rs`) | Pending, Materialized, Aborted; queue per turn | enqueue, merge, take batch, abort, drain | agent loop | taken back while being taken | a request is in one place |
| Prompt scheduler (`agent/prompt/scheduler_actor.rs`) | pending, launching, active, steer, children | Enqueue, Steer, Abort, Clear, the reports of its tasks, shutdown | agent loop, submit hook, compaction | reports arrive after what they report on is gone | each prompt is owned until settled, once |
| Its runner (same file) | Dormant, Running, Parking, Closed; generation | ensure_runner, park, close | clients, workers | message sent while the actor is being parked | no lost wake-up, one owner |
| Prompt service (`agent/prompt/service.rs`) | - | enqueue, steer, abort, clear, undo, retry, inject | scheduler, loop | - | see scheduler |
| Full compaction (`agent/full_compaction/`) | active job, overflow rounds | begin, cancel, finish | context memory, loop | history changes while it runs | history is replaced only if unchanged |
| Tool executor (`agent/tool_executor/`, `agent/tool_dedupe/`) | prepared calls, active and queued tasks, waiting duplicates | prepare, schedule, run, finalize | tools, hooks, permissions | a dropped `next()`, panics, a duplicate waiting for its original | conflicting calls never overlap, every call is answered |
| Interaction, approval, questions (`session/interaction/` ...) | parked requests, resolved ids | request, respond, dismiss, cancel with the turn | user interface, agents | a reused id, abort against answer, the sweep of another turn | a waiting request can be answered |
| Wire service (`wire/wire_service.rs`) | models, dispatch queue, chain of blob tasks, restore phase | seal, restore, dispatch, flush | append log, blobs | dispatch from several threads; records overtaking the chain | the journal tells what was applied |
| Append log (`persistence/backends/node_fs/append_log_store.rs`) | pending batch, epoch, generation, failure | append, flush, rewrite, read, acquire, close | file system | rewrite with a batch in flight; retired generations; torn lines | what a flush vouched for is in the file, in order |
| minidb (`crates/minidb`) | store, WAL, snapshot | set, del, batch, compact, recover | file system | crash between two renames; failed write; compaction next to writes | the directory is a durable map |
| Lock file (`crates/minidb/src/lockfile.rs`) | owner file, watch sidecars | acquire, renew, release | other processes | takeover by several at once, death on the way | one holder, and the file names it |
| Background tasks (`agent/task/`) | registered tasks, persisted results | register, finish, stop, restore | loop (notification) | end races stop | one notification per task |
| Swarm (`session/swarm/`) | slots, suspended runs | run batch, suspend, resume | agents | rate limit hits several runs | every run gets an outcome |
| Lifecycle machine (`_base/lifecycle/`), session and agent lifecycle | phases, handlers | begin, commit, roll back, dispose | all services | one of several handlers fails | rollback undoes what was done |
| MCP (`agent/mcp/`) | connections | connect, reconnect, close | MCP servers | late connect after close | no connection outlives its owner |
| Cron (`session/cron/`) | jobs, next due | tick, fire | loop | missed ticks | a due job fires once |
| OAuth (`crates/oauth`) | tokens | refresh, login | network, file | two refreshes | one refresh at a time |
| Goal, permissions, step retry, requester, context memory, transcript, events, DI, config, providers, OS back ends, web server, desktop | various | various | various | mostly data or I/O | see `PROJECT.json` |

The hazards that the properties are aimed at are listed in `PROJECT.json`, each at
its line; those without a property say why.

## 2. Plan

Done: the path of a prompt from the client to the end of its turn; a step's tool
calls; the questions it asks; the journal it is written to, from dispatch to the
lines of the file; the database and its lock; and the proofs of section 6.

Next, in this order:

1. Background tasks and the agent run batch.
2. The lifecycle machine and the order of disposal (this also closes the question left
   by the scheduler's exit, section 5); full compaction; cron; MCP; OAuth.

## 3. Modules

### TurnClock

The durable `TurnModelState` and the in-memory reservation. `ReadClock` and
`ReserveTurnId` are the two halves of `reserve_turn_id`, on either side of the lock;
`QueueTurn`, `ClaimTurn`, `PromptTurn`, `AppendLoopEvent`, `CancelActiveTurn`,
`CancelQueuedTurn`, `DispatchCancel`, `ReleaseTurn` and `EndTurn` are the loop's steps
that change either counter, and the reducers are inside them. `Restart` may happen
at any point and keeps only the durable part. A dispatch to the wire is one step
that is durable at once; what wire and log make of it is WireService's and
AppendLog's subject.

### AgentLoop

One action is what one thread does between two acquisitions of the service's lock,
or between two awaits. A caller's program counter walks through `enqueue`
(`EnqueueRegister`, `EnqueueReadActive`, then new turn, join or no turn, then the
pump), `cancel` (`CancelActive`, `CancelQueued`, `CancelDropped`), a receipt's abort
and `settled`; a turn's task walks through `begin_loop_step`, `take_next_batch`,
`set_running`, materialization, the step, the after-step hooks, the error handlers,
retry, release, pump and the settling of its result. `Dispose` and its steps are a
thread of their own. Provider, tools and hooks are external and may answer anything
the code handles. Turns are named by the request that created them; ids are
TurnClock's subject.

Threads: the desktop shell starts the core with `tauri::async_runtime::spawn`
(`apps/kimi-code/src-tauri/src/lib.rs:988`), a multi-threaded runtime, and the service is shared
behind locks; so two callers and a turn's task really run in parallel, also between
two synchronous statements. The other modules rest on the same fact.

Not in the model: a turn's `ready` promise, published events, telemetry, file
tracking and the request trace; `shutdown`'s wait for tasks; a caller that asks for
the head position; and a request that becomes aborted between the drain of the
stand-alone queue and its assignment to the new turn, which are one step here.

### PromptScheduler and PromptLifecycle

`SchedulerState` is `sched`; each prompt's record is a row of `prompt`; the spawned
tasks are `jobs`; the loop's turns are `turns`. A command or an event is one action,
because one task owns the state and no handler awaits in the middle of a change.
Handlers are functions on the actor's state, so that `Drive`, which most of them
end with, is part of them as in the code. `Receiving` has the actor's bias: a command is taken only when
no event waits. The loop is external, and here its `cancel` always takes effect and
a receipt's abort always retracts the turn; AgentLoop shows when that is not so
(section 5). Clients choose ids from a set smaller than the number of prompts, so
that reuse happens.

`PromptLifecycle` says what a handle shows: accepted, running one at a time or steered
into the running one, whose fate it shares, and final once terminal.

### SchedulerRunner

`ensure_runner` before and after each send, the bounded command channel, the
unbounded event channel, the runner task with idle time-out, parking, drain, restart
and exit, and `begin_shutdown` (token first, controller second). What a handler does is
reduced to whether it starts a worker, queues work, or abandons it, and when its caller is
answered: at once, or, for a steer and for the enqueue that opened a launch, with the report of the
worker (`owed`; a steer that finds another in flight waits behind it), or by a clear. The slots for launch,
active turn and steer are not told apart, so more may happen here than in the code; that an
enqueue may also wait for a compaction is left out. Generations wrap
(the code's counter has 64 bits); the proofs hold for any modulus, even 1.

### ToolBatch

One call of `execute`. `PrepareOne` takes the calls in order through preflight,
`resolve_execution` and the hooks; what a hook decides is a choice (`Block`,
`Substitute`, `Allow`, `HookFails`), but `tool_dedupe`, the first of them, is modelled:
`check_tool_call` opens a key or makes the call a duplicate, `finalize_result` tells
the duplicates. `AddTask` is both `add` and the loop of `take_ready_tasks`;
`conflict` and the operators under it are those of `tool_contract.rs`, with a path as the
sequence of its components. The executor's loop is a select over `next()` and the
finalizations: `FinalizationReturns` drops `next()`, also while it is reaping the tasks
behind a panic. `Reaped` is one round of the reaping: a JoinSet that has become empty is not
awaited, so the scheduler is cleared and the error returned in that same step. `Interfere`, which `ConflictsRunInOrder` is stated with, is not the code's
relation: it says what two accesses really share.

### Interaction

The kernel (`park`, `respond`, `cancel_pending_for_turn`, the memory of resolved ids) and
the four ways it is used: an approval, a user tool, a question, and a question of a
background task. Removal and delivery are two steps (`take`, then `Send`), as the
channel is served after the unlock. `SeesAbort`, `ChecksResolved` and `Withdraws`
are the question's race between answer and abort; `GraceEnds` drops an aborted tool's
future. Agents count turns separately and ids are reused. How long an id is
remembered is abstracted: it may be forgotten at any time.

### WireService

`Seal` and the steps of `restore` (replay, rewrite, rehydration), each of which may fail
or be interrupted; `Dispatch`, by which one thread drains and the others queue;
`append_to_journal` with its chain of tasks; `flush`. The change of the models (`ApplyOp`) and the hand-over to
the journal (`JournalOp`) are two steps, because `execute_group` gives up the lock in between. A flush takes
the tail and awaits it; its future may be dropped (`FlushDropped`), and the chain then runs with nobody waiting. What
a flush cannot know of is named: the op whose record is not with the journal yet (`Unjournaled`), and the records of a
running chain whose tail another flush has taken (`CutOff`). A record's `form` counts the
migrations it has been through, and journals of an older, this and a newer version
are initial states. The log is taken to do what module AppendLog promises: it keeps the
order, and a crash takes away only what is behind the last flush.

### AppendLog

One log. A generation (`LogState`) has its pending records, flags, epoch and the fair
queue of its operation mutex; a task or call takes a slot of `logOps` and walks through
mutex, wait for the generation before, drain, and write. An append that fails or
is cut short by a crash leaves any prefix of the batch and perhaps a torn line.
`append_value` and `acquire` are two steps each, because a release does not take
`task_admission` and may retire the generation in between; in `rewrite_values`, whose caller holds
a handle (`wire_service.rs:171`), no release can come between the look-up, the epoch and the mutex, and they are
one step. A rewrite has the file replaced before it drains: until then the records appended behind the
rewriter's back are in memory only (`LiveTail`), also those a flush has returned Ok for. A replacement that
fails may have taken place (an error of `sync_dir` after the rename). Not in the model: the branch of
`schedule_flush` without a runtime, and a rewrite whose future is dropped. The history variables say what a
flush has vouched for and which of the two known disturbances has happened.

### MiniDb and DurableMap

`write_lock` lets one write through at a time: frame queued, store changed, frame on disk,
return, or the change taken back (`del` changes the store first). The flush task and the
compaction run beside it. Compaction is a step per await, up to the two renames,
and every one of them may fail; `CrashDb` may come at any point and leaves the files.
`DurableMap` is the promise: a write changes all its keys at once or nothing, and
neither crash nor compaction changes the map. `calm` marks the two cases the code does
not survive: a snapshot taken while a write was under way (section 5), and a rollback that fails. The first is
broad: not every such snapshot loses the write, but nothing is claimed from then on. And since a crash
leaves the files as they are, `CrashDb` stands for an error return after which the database is reopened, too.

### LockFile

Every operation on the file system is one action, so contenders interleave between any
two: watch, reap, create, inspect, bid, rename, settle, scan. Any of them may fail (`AcquireFails`), the future of
`acquire` may be dropped at any await (`AcquireDropped`: its watch stays, and a link or rename already handed
to the blocking pool may still be done), and a process may die at any time and leaves its files. Lock
files may share a process, and with it the pid by which a watch is ignored as one's own (`OneProcess`). `Unix`
chooses the branch of `pid_alive`. `ReleaseInspects` and `ReleaseRemoves` are `release` and also `release_sync`, which gives the
lock up even if the file cannot be removed.

`outrun` marks the three cases the protocol does not survive on Unix, and `left` the processes whose
name the code may leave in the file without holding the lock (section 5). A watch that a live process leaves behind makes
whoever takes over settle until that process ends; the loop in the code has no bound either.

## 4. Runs

The runs exhaust their state spaces, except those that stop at a violation.
`CHECK_DEADLOCK FALSE` is given because every one of these systems may stop: all calls made, the service
shut down or a bound spent; that nothing gets stuck before is what the
liveness properties, `LogNeverStuck` and `BatchNeverStuck` say.

Three runs check several modules in one. `MCAgentServices`, `MCToolsAndStorage` and
`MCRunnerAndDb` extend modules that share no variable; the variable `running`
chooses one at the start, only that one moves, and the others stay at their initial
state. The state space is the disjoint union of the modules' own, so each property is checked
exactly as if its module were run alone.

| Run | Instance | Shows |
|---|---|---|
| `prompt_scheduler` | 2 prompts, 2 ids, 1 injected turn, 1 steer, 1 clear, aborts, shutdown | `OwnedUntilSettled`, `NoOrphanTurn`, `CancelsHaveCause`, `LiveIdsUnique`, `ChildrenHaveActiveParent`, and `PromptLifecycle` is implemented |
| `prompt_liveness` | 2 prompts, 1 steer, 1 compaction, fair | `EveryPromptSettles` |
| `agent_services` | loop: 2 callers, 2 requests of 3 kinds, 1 cancel or abort, 1 wait, disposal, no step limit | `OneTurnAtATime`, `PumpComing`, `WaitersHaveCause` |
| | clock: 2 callers, ids 0..2, any number of restarts | `TurnIdsNeverReused`; `StartedTurnsAreCounted` while calls have not overlapped |
| | interaction: 2 requests of 4 kinds, 2 agents, 2 ids, 2 turns each | `WaitingIsPending`, `EntriesAreSwept` |
| `agent_loop_live` | 1 caller, 2 requests of 2 kinds, step limit 1, 1 cancel, 1 wait, disposal, fair | `EveryTurnSettles`, `SettledCallsReturn` |
| `tools_and_storage` | batch: 3 calls, a directory and a file in it, 1 panic | `ConflictsRunInOrder`, `OneResultEach`, `BatchNeverStuck` |
| | wire: 2 threads, 2 flushers, 3 ops, 1 error or crash | `AppliedInOrder`, `QueuedIsApplied`, `JournalIsHistory`, `FlushCovers`, `MigratedOnce` |
| | log: 2 records, 3 tasks at a time, 2 generations, 1 rewrite, 1 call, 1 error or crash | `FileInOrder`, `FlushedIsDurable`, `FlushComing`, `RewriteKeepsTail`, `LogNeverStuck` |
| | lock: 3 processes, 4 lock files of which 2 share a process, 3 attempts, 1 renewal, Unix, a stale file or none | `HolderOwnsFile`, `NobodyLockedOut` |
| `runner_and_db` | runner: 2 clients, 1 worker, capacity 1, 2 generations, fair | `OneOwner`, `NoLostWakeup`, `ParkedIsQuiescent`; `EveryCallReturns`, `EveryReportReceived`, `ShutdownCompletes` |
| | database: 2 keys, 2 writes of any keys, 1 compaction, 2 errors or crashes, fair | `StoreIsRecoverable`, `CompactionEnds`, and `DurableMap` is implemented |
| `tool_duplicate`, `minidb_compaction`, `interaction_turn`, `log_torn`, `wire_queue`, `agent_loop_panic` | smallest instance that shows it | the findings of section 5 |

`ImplementsDurableMap` is stated step by step (each step is one of DurableMap's or
leaves its variables alone, as long as `calm` holds) and not as an instance of its
whole specification, because what is promised ends with the first uncalm step.

Why the bounds are enough. A stale report needs a prompt whose slot was emptied and
another that took it: two prompts and one clear. Losing a wake-up needs one sender and one
parking; a second client fills the channel of capacity one. Two pumps racing, a claim inside a
cancellation and an enqueue inside a disposal each need two threads and two turns, which two
callers, two requests and the turns' own tasks give. Ids 0 to 2 let a cancelled turn
lie between two started ones (ids 0 to 3 give the same result). Overtaking in the tool
scheduler needs an active call, a queued one that conflicts with it and a third; a call that stays queued with no task
needs four: one that panics, one whose finalization drops the reaping `next()`, one that is
joined after that, and the one in the queue (`MCToolBatchPanic.cfg`). A record
overtaking the blob chain needs a task, a flush and one more op. A rewrite that
meets a batch in flight needs one record before and one after. A take-over by two contenders
of whom one dies needs a third that profits, and siblings that meet at the gate need one process with two lock
files. A rotation error
followed by a crash needs two faults, and a frame on each side of the base offset two writes.
Where the invariants are proved (section 6) the bounds do not matter.

Symmetry is used only in runs that check no liveness; the refinement checked under it is a safety
property whose formula does not name an id.

### Component configurations

Each module but TurnClock can also be run alone, with the bounds of the table above (`MCLockFile.cfg`: 3 lock files of 3 processes, 4 attempts), its type invariant and its
other properties. All of these pass, and TLC's coverage reports that each of the module's actions is taken
(in the runs above it only reports which module moves), `SelectPanics` in `MCToolBatchPanic.cfg`:

| Configuration | Module | Adds |
|---|---|---|
| `MCSchedulerRunner.cfg`, `MCWire.cfg`, `MCLockFile.cfg`, `MCMiniDb.cfg`, `MCInteraction.cfg` | the module of that name (`MCWire`: WireService) | the type invariant; for the runner also that it never deadlocks |
| `MCAgentLoop.cfg` | `MCAgentLoop` | the type invariant |
| `MCToolBatch.cfg` | `MCToolBatch` | the type invariant, and `BatchGuardsSuffice`: `CanGoOn` enables a step |
| `MCToolBatchPanic.cfg` | `MCToolBatch` | 4 calls that write one file, none rejected, blocked or substituted, 1 panic: `BatchNeverStuck` where a dropped `next()` has left a call queued |
| `MCAppendLog.cfg` | AppendLog | the type invariant, `LogGuardsSuffice`: `OpCanGoOn` enables a step, and, under fairness, `LogCallsReturn`: every task and call ends |
| `MCPromptSteer.cfg` | `MCPromptScheduler` | 3 prompts: reuse of an id that a steer has reserved |

### Fairness

Weak fairness, for each task or thread separately, of the steps it has begun: the
runtime polls every ready task, a lock is released, and the file system answers. From outside:
the submit hook returns, a turn ends (the provider answers or times out, tools return), a compaction
finishes, and `begin_shutdown`, once it cancelled the token, goes on to close the
controller. No command, cancellation, steer, write or shutdown is ever assumed to come.
A client that waits for room in the command channel gets it when it becomes free often enough (strong
fairness of `ClientSend`): tokio hands out the permits of a bounded channel in the order of the requests. So
`EveryCallReturns` covers the whole call, the wait for room included.
`agent_loop_live` has a step limit of one and one caller, to keep the liveness check short; a settled receipt
meets other callers only in the safety runs. With `MaxSteps = 2` both properties hold as well (660,827 states).
`EveryTurnSettles` needs the step limit: without it a model that asks for a
continuation after every step runs for ever, as the code allows. It excepts the one turn
a disposal may leave behind (`LeftBehind`), which `MCAgentLoopDispose.cfg` shows (section 5).

## 5. Findings

1. `tool_duplicate`. A call that a later hook blocks is rejected without the finalizing
   hooks, so a duplicate of it in the same step waits for ever, and the turn with it.
   The same happens behind a call whose tool panics.
2. `minidb_compaction`. A write's frame may be on disk before the store has the change; a
   compaction that takes its base offset after the one and its live view before the
   other has the write in neither file.
3. `interaction_turn`. The end of a turn cancels what is pending under the *number* of the turn;
   an agent that is in a turn with the same number loses its questions.
4. `log_torn`. A torn last line is skipped when it is read and never removed; the next append
   makes it a corrupted line in the middle, and the log cannot be read any more.
5. `wire_queue`. Between the drain's last look at the queue and the clearing of it another thread may
   queue an op; it is dropped although its dispatch returned Ok.
6. `agent_loop_panic`. `begin_loop_step` looks at the queue, then takes from it, under
   two locks; an abort in between makes the `expect` panic and the turn fail.

Further disagreements, each with a configuration that violates the property named:

- `MCWireOrder.cfg` (`WireService`, `JournalKeepsOrder`): flush takes the tail of the blob chain,
  and the next record without blobs is appended past the tasks still running, against "preserving
  journal order" (`wire/wire_service.rs:5-7`).
- `MCAppendLogTail.cfg` (`AppendLog`, `InFlightIsLiveTail`): a flush already waiting for the mutex
  when a rewrite is called reads the new epoch, drains, and the rewrite replaces the file with the
  drained records in it, against "preserving that append as the live tail"
  (`append_log_store.rs:313-314`). `RewriteKeepsTail` says when it does hold.
- `MCAppendLogCutover.cfg` (`AppendLog`, `VouchedSurvives`): a flush whose record was appended after a
  rewrite was called sees the other epoch and returns Ok with the record still pending; a crash after the file is replaced
  and before the rewrite drains (`append_log_store.rs:329-342`) loses it. `FlushedIsDurable` excepts the live tail.
- `MCLockFileDeath.cfg` (`LockFile`, `SingleWriter`): a contender that replaces the file and dies, or fails, between
  the winner's two looks leaves two holders: the winner, and whoever takes the dead one's
  file over. A renew whose rename comes after the release (the task is aborted, the rename is not)
  has the same effect.
- `MCLockFileSibling.cfg` (`SingleWriter`): two lock files of one process (`cluster/index.rs:844`) that
  pass the gate together both win, because each ignores the other's watch and takes the other's name for its own.
- `MCLockFileWindows.cfg` (`SingleWriter`): elsewhere than on Unix every other process counts as dead
  (`lockfile.rs:330-333`), so a living owner is taken over.
- `MCAgentLoopLateStep.cfg` (`MCAgentLoop`, `StepsSettleWithTurn`): `enqueue` may add a step to a turn that
  has just ended; its promise is dropped unsettled, against `loop_service.rs:124`.
- `MCAgentLoopRetract.cfg` (`RetractedTurnStops`): `set_running` overwrites the cancellation of
  the step it is about to start, and `cancel` looks at the active slot before the line while a
  turn may move from the line to the slot; the turn of a retracted receipt runs on, against
  `scheduler_actor.rs:1300-1301`.
- `MCAgentLoopDispose.cfg` (`CreatedTurnsSettle`): `enqueue` checks `disposing` before, and pushes its turn
  after, a disposal; the turn is never run nor cancelled.
- `MCPromptWorkers.cfg` (`MCPromptScheduler`, `OneTaskOfEachKind`): `clear_all` empties the slots without
  waiting, so two launches can produce events, against the comment on the event channel
  (`scheduler_actor.rs:610-611`). The unbounded channel tolerates it, and the other runs show that the
  late reports do no harm.

Most of these are two lock scopes that were one synchronous region in the
single-threaded original. For the same reason `StartedTurnsAreCounted` is stated only
while calls have not overlapped: two threads may push turns against the order of
their ids, and `turn.prompt`, which has no id, then counts another turn's.

Also seen, without a property that fails: an `acquire` that returns an error (`lockfile.rs:130`, `:133`) or is dropped behind its
rename leaves the file naming a live process that does not hold the lock, and so does `release_sync`, which ignores
that the file could not be removed; all others are locked out until that process ends (`NobodyLockedOut` excepts them by
`left`). A wire flush returns Ok while the record of an applied op is not with the journal yet, or while
a chain is running whose tail another flush has taken (`FlushCovers` excepts both). Once the actor has exited, a launch that was assigned its
turn just before shutdown reports to nobody (`NoOrphanTurn` is stated for the actor's life);
a record whose blobs cannot be off-loaded is dropped from the journal while the model keeps its effect
(`dropped` in WireService); a record pushed to a generation of the log that has just been retired may be written after
records of the next one (`latePush` in AppendLog); a path that is the root contains nothing
(`path_is_within`, `tool/tool_contract.rs:414`), so no instance here searches the root; and after a
panic, if `next()` is dropped while reaping, calls may stay queued with no task left, and the executor's select
panics (`SelectPanics`), which ends the stream without an error; or, if a duplicate of such a call waits for its
result, the batch waits for ever (the last case of `Orphaned`).

## 6. Proofs

For all values of the constants, under the assumptions named in the modules
(`MaxTurnIdAssumption`, `RunnerAssumption`, `LoopAssumption`, `BoundsAssumption`, `OutcomesAssumption`,
`AskAssumption`, `DbAssumption`, `LockAssumption`, `LogAssumption`, `BatchAssumption`, `WireAssumption`: bounds are natural numbers, capacity and modulus positive, kinds
and outcomes known). None needs the sets of callers, clients or workers to be finite. The proofs about X are in
`X_proofs`, but those about TurnClock are in `AgentLoop_proofs` and those about LockFile in `MiniDb_proofs`.

- **TurnClock**: `ClockTypeCorrect`, `IdsFresh`, `StartedAreCounted`. `TurnIdsNeverReused` is not inductive: it says
  nothing of a caller that has read the clock and not yet taken the lock.
  `IdsBelowCounters` adds that ids in memory are below the reservation, ids in the log
  below the durable clock, and that an id in the log is below the clock value such a
  caller holds *or* below the reservation, whichever it will take its id from. `StartedAreCounted`
  needs `CountedInv`: the clock never stands at a cancelled id (`advance` skips them all, a lemma by the least-number
  principle), and every id that was handed out and not passed is cancelled, being cancelled,
  in the line or with its caller; so the turn that is claimed next has the clock's own id.
- **SchedulerRunner**: `TypeCorrect`, `SingleOwner`, `WakeupsKept`, `ParkedHasNothing`. The
  invariant couples the controller's state with the place of the current generation's task:
  begin, drain events, drain commands, finish. The task in the parking states is quiescent, every
  message sent after its drain has a sender that is yet to call `ensure_runner`, and
  that call turns Parking into a restart.
- **AgentLoop**: `OneTurn`, `NoTurnForgotten`, `WaitersAreWoken`. `LoopInv` adds to the three
  that a thread about to start a turn holds the claimed, active one, and that it is the only
  such thread. Most of a turn's steps leave the slots alone; lemmas `StepsWork`
  and `CallsMove` reduce them to two shapes, and each action that touches a slot has a
  lemma of its own.
- **PromptScheduler**: all five invariants and the refinement of `PromptLifecycle`. The handlers of the model
  are functions from an actor value to an actor value, so the lemmas are about those: what each helper
  (`Drive`, the settling of a prompt, the clearing of the slots) does to a good value, field by field; an
  action then only installs the value its handler returns. `PromptInv` says which slot holds which prompt (a
  prompt is running iff it is the active one, steered iff it is in a child set, pending iff it is
  in the line, in the launch slot or selected by the steer), that living ids are unique, and that reports are
  about prompts that exist; from it follow `PromptsAreOwned`, `LivingIdsAreUnique`, `ChildrenHaveTheirParent` and
  `SchedulerShowsLifecycle`. `NoOrphanTurn` and `CancelsHaveCause` need `TurnInv`: a launch, its monitor and the
  events they sent agree on the turn; a launch reports once; one that is still to be handled
  belongs to the launch slot unless its prompt was given up; and one reported as anything but started
  has a turn that is over or cancelled. With that a late report cannot make the scheduler
  forget a live turn or cancel somebody else's.
- **Interaction**: `AsksInvariant`, `AskTypeCorrect`, `NoRequestIsLost`, `LeftEntriesAreSwept`. `AskInv` adds to the two
  properties that an entry is that of an open request made under its id, that a turn outlasts the requests that are part of it,
  and that nothing is sent to a request that is yet to be parked. `pending_order.retain` is modelled by
  `Retained`, which numbers the ids that stay by their rank; a lemma shows that it lists exactly those, each once.
- **MiniDb**: `DbInvariant`, `DbTypeCorrect`, `StoreRecoverable`, `DirectoryIsDurable`. `DbInv` says where the change of the write under way is
  (store, files, both or neither), that nobody writes during the rotation, and what replaying the
  old files, the new ones, and the new snapshot with the old WAL (which is what a crash between the two renames
  leaves) gives: always the same map. What replaying a sequence of frames gives
  is a lemma by the least-number principle, which needs no induction theorem. The parts about
  the files are stated while `calm` holds.
- **LockFile**: `LockTypeCorrect`, `NobodyIsLockedOut`, `LockIsExclusive`, for any number of lock files, any number of
  them in one process, and both branches of `pid_alive`. `HolderInv` adds that while a bid is on its way there is a file and nobody holds
  the lock (`BidsExclude`), that bidders are of different processes (`BiddersApart`), that whoever removes the file
  holds it (`RemoversHold`), and that a bidder who has seen its own name is still named, or was replaced by
  somebody alive who is not done either (`SeenOrReplaced`). Like the property it is stated for Unix and while nothing is in `outrun`.
- **AppendLog**: `LogInvariant`, `RecordsAreFlushed`, `FileKeepsOrder`, `FlushIsDurable`, `TailSurvivesRewrite`, `LogCanGoOn`. The invariant has three
  parts. `StoreOK` always holds: the queue of an operation mutex has whoever holds it or waits for it, a batch is
  the front of what is pending, what is pending and not failed has a task to come, and a generation works only
  when those before it have settled. `DataOK` holds as long as no record was pushed to a retired
  generation (`latePush`, section 5): a settled generation has nothing left to write, records are pending in the
  order of acceptance across generations and after what is in the file, every record is in the file, pending or given
  up, what a call vouches for is in its batch or in an earlier generation, and a rewrite that is next in line has its
  tail. None of the four properties speaks of the queue or of settling, and none is inductive without them: that only one task writes or rewrites
  at a time (`OneWorker`) follows from both. The invariant is about any generations and
  tasks, so that one lemma covers each shape of change (a task joins a queue, a task is spawned, the head of a queue goes on, it
  leaves, a generation is added) and the actions only show which shape they are. The third part, `VouchInv`, is about the records a flush has vouched for: each is in the file,
  given up, or pending in a generation that has failed or is being rewritten, and the next batch of its generation
  has it. What a batch does to the file,
  whole, cut short or glued to a torn line, is the subject of the lemmas on `Spliced`. `LogCanGoOn` is the absence of a deadlock among the
  mutexes and the waits for earlier generations. It needs `Retiring`: a generation that is retired and not settled has its release in its
  queue. Then the head of the first queue that is not empty can go on, since the generation before it has an empty queue and is retired, and so has settled.
- **ToolBatch**: `BatchInvariant`, `BatchTypeCorrect`, `ConflictingCallsInOrder`, `OneResultPerCall`, `DuplicatesInvariant`, `BatchCanGoOn`. `take_ready_tasks` is a fold
  over the queue, and what it leaves is a lemma about each of its prefixes (`Placed`): each task has started
  or is queued, in the same order, and one that has started conflicts with no active or earlier one. `BatchInv` adds that a call that has not
  started is still queued unless an error cleared the scheduler, that tasks in the JoinSet are active, and which
  finalization goes with which task; without the first a call could start past one that the scheduler has
  forgotten. `InOrder` is about the code's own `conflict`; that accesses which share a file conflict
  (`InterferenceConflicts`, over paths as sequences) is what makes it `ConflictsRunInOrder`, and it is there that
  the theorem needs that no recursive access is at the root (section 5). `DuplicatesInv` is about `deferreds`: one call opens a key, the key is closed when that
  call is finalized, and a duplicate that has not been told is registered with an open key. So with an empty JoinSet and nothing but waiting
  duplicates left, the original of one of them was blocked, has ended without a result, or is queued for ever, and the duplicate is `Orphaned`: that is `BatchCanGoOn`.
- **WireService**: `WireInvariant`, `WireTypeCorrect`, `OpsAppliedInOrder`, `QueuedOpsApplied`, `JournalTellsHistory`, `FlushedOpsDurable`,
  `RecordsMigratedOnce`. None of the five properties is inductive: they do not say what is on its way. `WireInv` does. `OneDrains`: one thread drains, and before restore has returned there is nothing but the journal
  and the models. `Numbered`: what is in journal, models and chain comes before what is in the group, and that before the queue. `Queued`: what a
  dispatch was told Ok for is applied or waits, and the queue that is about to be cleared holds only what came late or is refused.
  `OneChain`: a task awaits its predecessor or nobody, and behind a running task all of its chain runs;
  there is one chain as long as nothing was appended past it.
  `InTurn`: until then the order is kept and what the chain will append comes behind the journal. `AtHand`: the record a thread is about
  to hand over comes behind all that were handed over, and before what waits. `Kept`: what is applied is in the journal,
  with the thread that applied it, or in a running task, and what a flush covers in the chain that the flush awaits; this is why its return
  makes it durable. `Shaped`: the form of each record by the journal's version, in every phase of restore.

Model-checked only: liveness; of the two properties stated with ENABLED, `BatchNeverStuck` and `LogNeverStuck`, that the guards proved to hold
(`CanGoOn`, `OpCanGoOn`) enable a step (the prover has no rules for either here); the full type invariant of AgentLoop, whose
queues are filtered with `SelectSeq`, about which the library has no theorem (the
proofs use `LoopTypes`, its part about the slots); and the findings.

## 7. Not modelled, and why

Parts listed in section 2 are planned. Not planned: providers, protocol and
transcript encoding, operating-system back ends and the web server (I/O and data
conversion), dependency injection, configuration, plugins, skills and telemetry
(construction and lookup), the event bus (synchronous fan-out), and the desktop user
interface. Of minidb: indexes, expiry and eviction (data), the reader of values on disk, fsync policies
that promise less, and clusters. Content of messages, text and timing are abstracted everywhere:
an idle time-out, a settle delay or a grace may end whenever the code could be waiting for it.
