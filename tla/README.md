# TLA+ development of pi-crew

This directory holds TLA+ modules that model the parts of pi-crew in which
several actors share state, the TLC configurations that check them on small
instances, and TLAPS proofs for every value of the constants.  All paths below
are relative to the root of the repository; `runtime/` and `state/` stand for
`src/runtime/` and `src/state/`.  Line numbers are those of the modelled
commit; `PROJECT.json` maps every definition to the lines it translates.

## 1. The system

pi-crew runs a *team* of coding agents inside one host process (the Pi
extension).  A **run** is a set of tasks with dependencies.  The runner
(`executeTeamRun`) starts ready tasks, each in a **dispatch unit**; a unit
starts a **worker** (a child process, a live session or an embedded session),
retries it, and settles with the task array as it last saw it.  The runner
merges that array into the durable state (`manifest.json` with the run's status,
`tasks.json` with the tasks), and finalizes the run when nothing is left.  Other
sessions, in processes of their own, read and write the same files: they cancel
runs, answer questions, recover runs whose process died.  There is no database;
files, `O_EXCL` lock files, a kernel socket and the merge rules are all the
coordination there is.

### Inventory

| Component | State | Operations | What makes it correct | Modelled |
|---|---|---|---|---|
| Worker slots: `runtime/scheduling/semaphore.ts`, `global-worker-cap.ts`, `nested-slots.ts`, `runtime/run-worker.ts` | `#current`, `#queue`, the two budgets | acquire, release, abort of a waiter, handoff | counted exactly, bounded, FIFO, no leak on any exit, no starvation | `WorkerSlots`, `SlotPool` |
| Embedded tier: `runtime/task-runner/hybrid-tier.ts` | ceiling of embedded ids, fault counters | run, fault, reroute to subprocess | ceiling released on every path | ceiling and reroute in `WorkerSlots` |
| Delegation: `runtime/broker/crew-broker-delegate-request.ts` | nested slots, delegate counters, shadow tasks | admit, finish | parent and child cannot block each other | admission and slot in `WorkerSlots` |
| Run lock: `state/coordination/locks.ts`, `process-lock.ts` | lock file, `runLockHeldTokens`, socket (where it is a file, that too) | acquire (sync, async), steal, release, sweep | mutual exclusion, takeover from the dead only, no lock left behind | `RunLock` |
| Status contracts, merge gates: `state/contracts.ts`, `runtime/merge-gate.ts`, `runtime/task-runner/state-helpers.ts` | none (pure rules) | transition table, guards of saves, merges | no stale copy undoes a verdict | `Contracts` |
| Team run: `runtime/team-runner.ts`, `dispatch-batch.ts`, `merge-loop.ts`, `budget-enforcement.ts`, `finalize-run.ts`, `recovery/retry-executor.ts` | manifest, tasks (in memory and on disk), `pendingUnits`, `dispatchedTaskIds`, `runController` | dispatch, retry, merge, drain, finalize, catch | order of dependencies, verdicts kept, terminal end, no unit left | `TeamRun` |
| Manifest and task store: `state/stores/state-store.ts` | the two files, a cache, coalesced writes | guarded saves, `updateRunStatus` | no save erases a terminal decision | saves as `TeamRun` uses them |
| Task graph: `runtime/scheduling/task-graph.ts`, `task-graph-scheduler.ts` | an execution plan (waves) | build, ready tasks | topological order, cycles reported | plan and ready rule in `TeamRun` |
| Task worker: `runtime/task-runner/pre-execution.ts`, `child-executor.ts`, `post-execution.ts` | the task's record | start, heartbeat, final persist | one verdict per attempt | its writes in `TeamRun` |
| Cancel: `extension/team-tool/cancel.ts` | none of its own | cancel a run | the cancel is respected | its locked section in `TeamRun` |
| Workspace lock: `runtime/workspace-lock.ts` | a lock file with a heartbeat | acquire, refresh, steal, release | one run per working tree, a lost lock is noticed | `WorkspaceLock` |
| Event log: `state/event-log/` | log file, archives, sequence numbers, generation, cursors | append (two lock families, batches), rotate, compact, read on | no number twice, no accepted event lost, no reader skips one | `EventLog` |
| Waiting tasks: `runtime/broker/crew-broker.ts`, `runtime/broker/protocol/wait-resolve.ts`, the ask tool in `prompt/prompt-runtime.ts`, `extension/team-tool/respond.ts` | parked tasks, the run's slot `waitState`, response rows | ask, poll, answer, requeue, sweep, heal | each answer reaches its task, once; the slot covers every park | `Ask` |
| Task claims: `state/coordination/task-claims.ts` | owner, token, lease | claim, renew, release | one owner per lease | only the lease, as `Recovery` reads it |
| Recovery: `runtime/recovery/crash-recovery.ts`, `runtime/stale-reconciler.ts`, `state/stores/active-run-registry.ts`, resume in `extension/team-tool.ts` | registry, manifest, tasks, heartbeat file | adopt, cancel orphans, purge, reconcile, poll, resume | no live run is taken for dead, a dead one is settled, one runner | `Recovery` |
| Scheduler, batch barrier: `runtime/scheduling/scheduler.ts`, `batch-barrier.ts` | timers, a barrier | fire, register, notify | one notification | no |
| Atomic write: `state/atomic-write.ts` | temp files, pending writes | write, coalesce, flush | replaced as a whole, a buffered copy never replaces a newer file | the buffered write in `Ask` |
| Child supervision: `runtime/child-pi/`, `runtime/heartbeat/` | processes, timers | spawn, kill | every turn ends | no: operating-system effects; used as the assumption that a turn ends |
| Broker: `runtime/broker/` | sockets, requests | route | | `wait.request`, `wait.resolve` in `Ask`, delegation in `WorkerSlots`; not the transport |
| Goal loop: `runtime/goal-workflow/goal-loop-runner.ts`, `runtime/background-runner.ts`, `extension/team-tool/goal.ts` | goal state file, the runner's copy of it | start, pause, resume, stop, clear; turn, verdict, lost lock | one turn at a time, what the user set wins, the loop ends | `GoalLoop` |
| Mailbox: `state/coordination/mailbox.ts` | messages, delivery states | send, acknowledge, replay | delivered at least once, not twice | no; only the response row in `Ask` |
| Dynamic workflows, chains: `runtime/goal-workflow/`, `runtime/chain-runner.ts` | none of their own | start runs one after another | | no |
| Worktrees: `src/worktree/` | git | create, remove | | no: effects of git |
| Extension, tools, UI; configuration, models, observability | none that outlives a call | | | no: no concurrency to check |

### How the components interact

* A dispatch unit calls `runWorker`, which waits for a slot of the process-wide
  semaphore; an embedded attempt takes a ceiling entry before that; a worker that
  delegates waits for its grandchild with the slot in hand.
* Runner, workers and foreign sessions meet in two files.  Three disciplines are
  in use side by side: sections under the run lock (merge, final persist,
  cancel, the last save), guarded saves without it (the end of an iteration, the
  catch clause, the retry's give-up), and in-memory copies that are stale from
  the moment they are taken.
* The caller's `AbortSignal` reaches everyone in the process; a cancel from
  another session reaches only the disk.
* A worker that has a question calls the broker, which parks its task on disk
  (`waiting`) and notes the question in the manifest's single slot
  (`waitState`).  The worker's tool polls the mailbox; the leader answers
  through it, or, when the worker is gone, by queueing the task again with the
  answer in its steers.  The runner sweeps parks whose deadline has passed.
* Every session, when it starts and later from time to time, looks at all runs
  it can see and cancels, repairs or fails those that seem abandoned; a session
  resumes such a run by becoming its owner.  Runs at work show themselves by
  the registry, the manifest's age, a heartbeat file, claims and heartbeats.
* Goal loops of one working tree, each in a background process, queue for the
  tree's lock; the session that started them writes the same goal file.
* Every process appends to a run's event log; readers go on from the last
  sequence number they saw, through compactions and rotations.

### Behaviours that are hard

An abort against a handoff; a waiter that leaves while it is being served; two
acquirers between the resolution of a promise and its continuation; a stealer
between its comparison and its unlink; a guard evaluated before an awaited
write; a retry visible as a failure to a merge; a stale sibling snapshot; a
cancel anywhere; a drain that must wait for units in back-off; a lock that
expires while its owner is suspended; a state file written by a session while a
loop works on a copy of it; a compaction around an append; a death between any
two saves and a second session that settles the run at that moment; an answer, a
deadline and a heartbeat for the same task at once.  The list
`hazards` of `PROJECT.json` gives each with its line and the properties that
watch it.

## 2. Modules

    SlotPool  <---refines---  WorkerSlots    <--  WorkerSlotsProofs
    RunLock                                  <--  RunLockProofs
    WorkspaceLock  <--  GoalLoop             <--  WorkspaceLockProofs, GoalLoopProofs
    EventLog                                 <--  EventLogProofs
    Contracts  <--  TeamRun                  <--  TeamRunProofs
    Contracts  <--  Recovery                 <--  RecoveryProofs
    Contracts  <--  Ask                      <--  AskProofs

An arrow to a module comes from those that extend it.  For TLC each of
`WorkerSlots`, `RunLock`, `GoalLoop`, `EventLog`, `TeamRun`, `Recovery` and `Ask` has
an `MC` module of its own with the instances.

**The grain.**  JavaScript runs one callback at a time, so inside a process an
action is the code between two awaits.  Between processes every call on the file
system is a step of its own wherever the model is about that (`RunLock`).
The same holds for `WorkspaceLock` and for `EventLog`, where every call on
the lock files and every write of the log is a step; in `Recovery` a step is a
look (unlocked reads), a judgement under the run lock, or one of the saves that
follow, with the death of any process possible in between.

Some definitions are *mutants*: plausible defects, written just before the
definition they vary, with a comment that says so (`ReleaseNoHandoff`,
`MergeTaskUnguarded`, `CreateByRename`, `ReadTopOnce`, `AdoptUnchecked`,
`RespondDeadTwice` and their like).  No specification uses them; they show that
each property can fail (`mutants` of `PROJECT.json` says which).

### WorkerSlots (and SlotPool)

| TLA+ | code |
|---|---|
| `current`, `queue` | `Semaphore.#current`, `#queue` |
| `Acquire`, `Release` | `Semaphore.acquire`, `release`: the handoff leaves `#current` alone |
| `Abort` | the waiter's abort listener: splice, then reject |
| `StartSubprocess`, `Spawn`, `AbortedBeforeSpawn`, `Finish` | `runWorker` / `withWorkerSlot`, the pre-spawn guard, the finally |
| `StartEmbedded`, `CeilingExhausted`, `Refused`, `Reroute` | `runEmbeddedTier` and the fallback decision |
| `Delegate`, `FinishGrandchild` | `handleDelegateRequest` and the lifecycle's finally |

The promise of a granted or rejected waiter is settled in one callback and its
continuation runs in a later one: `granted` and `refused` are states of their
own, in which an abort may still fire.  `SlotPool` says what a semaphore promises
its callers (bounded, a waiter only while all slots are taken, a freed slot goes
to a waiter); `PoolSpec` is the refinement.

### RunLock

| TLA+ | code |
|---|---|
| `Create`, `Write`, `Verify` | `writeLockFile` and the post-claim verification |
| `Snapshot`, `CanSteal`, `Check`, `Unlink` | `readLockSnapshot`, the steal with its token comparison, `releaseLock`, `releaseOwnLock` |
| `Register`, `DropFile` | `acquireRunLockGuarded`: the continuation of the awaited acquisition, the retreat when the socket is taken |
| `Listen`, `Probe`, `RemoveCorpse` | `acquireProcessLock`: bind the socket; on `EADDRINUSE` give up, or, where the socket is a file, see whether anyone accepts, and if nobody does remove the file and listen again |
| `Leave`, `SocketClosed` | the finally blocks of `withRunLock` and `withRunLockSync` |
| `Sweep` | `sweepStaleLocks` |
| `Age`, `Crash` | a holder older than `staleMs`; `kill -9`, or an exit whose handler unlinks the socket file |

`address` says what the socket is: the kernel's own (an abstract socket or a
pipe), which is free when its process is gone, or the path of a file, which a
killed process leaves there (`Corpse` is one from before).  A server whose file
another caller has removed still listens, at no address (`Listening`), and its
close removes whatever is at the path.  `raced` notes that a socket file was bound
while another caller, having found the dead one, was about to remove it.  Three
refused connects are taken to mean that nobody listens, and the sweep of socket
files a day old is left out.

`procOf` is fixed at the start: one run covers placements of the contexts in one
process and in two.  A context in a synchronous stretch (`InTurn`) has its
process to itself.

### Contracts and TeamRun

`Contracts` holds the transition table, the guard of manifest saves
(`Preserve`), a worker's persist (`PersistOwn`) and the merge gate (`MergeTask`).
Timestamps are abstracted to who writes: a unit's verdict about its own task is
the newest there is, its copy of a sibling is older than the disk's.

| TLA+ | code |
|---|---|
| `Assigned`, `HasCycle`, `Lower`, `Ready` | `buildExecutionPlan`, `dagReadyTaskIds`, `getReadyTasks`, and the snapshot it falls back to |
| `Top`, `Select` | the head of the loop in `team-runner.ts`; `selectDispatchBatch`, `dispatchBatch` |
| `BeginAttempt`, `Prepare`, `Finish`, `PersistVerdict` | one attempt: fresh load, persist as running, the locked final persist (guard and awaited write are two steps) |
| `Heartbeat` | `persistHeartbeat` of a child worker |
| `AfterFailure`, `Retry`, `GiveUp` | `executeWithRetry`, the back-off, its catch branch |
| `Merge`, `Post`, `Save`, `CheckManifest`, `WriteManifest` | `mergeUnitResult` and the rest of the iteration |
| `Settle`, `SetFailed` | `handleFailedTask`, `terminaliseRunWithDrain`; `Orders` and `MergeAll` merge the drained units one after another, in any order |
| `SetCancelled`, `SetBlocked` | `updateRunStatus` on those exits |
| `Finalize`, `Closeout` | `finalizeRun` up to its lock, and the locked save |
| `Drained`, `Caught`, `SetCaught` | finally and catch of `executeTeamRun` |
| `Cancel`, `Abort` | `handleCancel` in another process; the caller's signal |

What `TeamRun` leaves out: plan approval and adaptive plans, the budget abort,
surface degradation, whole-task reruns (`maxRetriesPerTask` is 0 by default),
coalesced task groups, parked (`waiting`) tasks (see `Ask`), delegate shadow tasks, a worker
function that throws, the manifest cache, coalesced writes and the SQLite backend
(`PI_CREW_STATE_BACKEND=sqlite`; the JSON files are the default), the signal a
cancel sends to a background runner, a run lock that stays busy, and a crash of
the runner.  Sections under the run lock exclude each other by assumption; what
the lock really gives is the subject of `RunLock`.

### WorkspaceLock and GoalLoop

| TLA+ | code |
|---|---|
| `Read`, `Steal`, `Create`, `CheckAge`, `Write`, `Verify`, `Undo`, `Poll` | `acquireWorkspaceLock` and `claimLock`: look at the file, unlink a stale one, `O_EXCL`, the content, the reread, the retreat, the next attempt |
| `Heartbeat`, `Compare`, `Rename`, `Reread` | `refreshWorkspaceLockHeartbeat`: compare, replace, read back |
| `Release`, `Unlink` | `safeRelease` |
| `Expire`, `Die`, `Recycle` | the heartbeat grows old; the owner is killed; its pid is given to another process |
| `Start`, `Request`, `Commit`, `Clear` | the tool calls of `goal.ts`: a flip is a read and a write, in one turn or overlapping (`overlap`) |
| `Boot`, `Enter`, `NotAcquired` | `background-runner.ts` up to the loop, with and without the lock |
| `Top`, `Begin`, `TurnReturns`, `Judged` | one turn of `runGoalLoop`: reload, checks, the save that counts the turn, its end, the verdict |
| `SetStatus`, `SetSaved`, `After`, `Exit` | `compareAndSetStatus`, then leaving the loop and releasing the lock |
| `Beat`, `Lost`, `LostSaved` | the heartbeat's callback and what a lost lock leads to |
| `Abort`, `Killed` | the caller's signal; `kill -9` |

`fate` says which owners may be suspended or killed in a behaviour.  A
suspended owner's file grows old although it lives, and may be taken.  A turn is
one step that returns one of the setting's verdicts, or never returns where the
setting has none; objective, budget and feedback are data.

Not modelled: a spawn that fails, `reclaimStaleLocks` (nothing calls it), the
hint patch, `failOnWorkspaceBusy`, events, transient input/output errors of the
refresh.

### EventLog

| TLA+ | code |
|---|---|
| `Begin`, `TakeFamily`, `GiveUp` | `appendEvent` and `appendEventAsync` (`setting.sync`), `appendEventBuffered`; the lock of the family with its wait |
| `SeeStale`, `RemoveStale` | the two calls that reclaim a lock of a dead process |
| `ReadTop`, `Reserve` | `reserveSequenceLocked` under `.seqlock`: the largest number of sidecar and log, then one number or a batch of them |
| `TakeNested`, `GiveUpNested`, `ReadTail`, `Replace`, `Recheck` | compaction: the tail since the read, the new inode, the count after the write |
| `Check`, `Rotate`, `Create` | rotation: the size once more, rename to an archive, a new empty file unless there is one |
| `SizeCheck`, `OpenFile`, `Write`, `Tick`, `Return` | the skip of an event that does not fit, the append, the end |
| `Kill` | a process dies with the locks it holds |
| `ReadLive`, `ReadArchives` | a reader that goes on from a sequence number |

A file is its sequence of events and its size their number.  `slow` lets a
family's lock look stale while its holder lives; `reclaimers` names the writers
that reclaim, at most one for each dead process: with two the reclaim is not
exclusive (section 6).

Not modelled: fsync, torn and poisoned lines, the generation sidecar and cursors
by byte offset, the reader's 4 MB tail and cap of 5000 events, the archive sweep,
the worker-thread writer, `compactEventLog` and `rotateEventLog` (nothing calls
them), the bookkeeping of promises.

### Recovery

| TLA+ | code |
|---|---|
| `Begin`, `Dispatch`, `Report`, `Finish`, `End`, `Block`, `GiveUp`, `Ask`, `Answered`, `Approve` | a runner, as far as the others can see it on disk |
| `Crash`, `Elapse`, `Prune` | a death; time, in horizons of the reconciler; an entry of the registry found invalid |
| `LookOrphan`, `JudgeOrphan`, `SettleOrphan` | `cancelOrphanedRuns` |
| `LookPurge`, `JudgePurge`, `SettlePurge`, `Drop` | `purgeStaleActiveRunIndex` |
| `LookStale`, `FastPath`, `TakeResult`, `Repair`, `Spare`, `SettleStale` | `reconcileAllStaleRuns` with `stale-reconciler.ts` |
| `LookPoll`, `PollStatus`, `PollTasks` | the owner's status poll of a background run |
| `LookResume`, `Adopt`, `Reset`, `Enter`, `Register` | `handleResume` and the start of the adopted run |

Ages are abstracted to what the horizons tell apart.  The lock is one variable:
a pass has it from its judgement to its last save, and it is free again when its
holder dies.  `hidden` notes that a live run has become invisible, which the
code allows (section 6); the properties say what holds until then.

Assumed: a runner beats every minute and its workers report within half an hour;
sections under the lock are short against the horizons; one session survives.
Left out: the branch of resume for disabled workers, the admission cap, the
adoption of goal and dynamic-workflow runs, quarantine of corrupt manifests,
vanished directories, temporary workspaces, reaping of processes, the poll's
"once per run", `applyRecoveryPlan` and `declineRecoveryPlan` (nothing calls them).

### Ask

| TLA+ | code |
|---|---|
| `Ask` | `handleWaitRequest`: park the task, take the slot; the reply may get lost |
| `PickUp`, `Expire` | the tool's poll finds the row, or its own deadline |
| `Resolve`, `ResolveLost` | `handleWaitResolve`, and the call that never arrives |
| `Healed`, `RespondAlive`, `RespondDead`, `RespondAgain` | `handleRespond`: the self-heal from the slot, the response row for a live worker, the requeue for a dead one, a respond to a task that does not wait |
| `Deliver` | the staged row reaches the mailbox |
| `Pulse`, `WithOwn` | `persistHeartbeat` with `mergeTaskUpdateWithDisk`, buffered |
| `FlushCheck`, `Flush`, `Superseded` | the coalesced write of `atomic-write.ts`: compare with the file's stat, then write; a direct write cancels it |
| `Sweep` | the runner's sweep of expired parks |
| `Repoint` | which park the slot is given to when one ends |
| `Dispatch`, `Settle`, `Merge`, `SaveTasks`, `SaveManifest`, `Finish` | the parts of the team run that write task or slot |
| `Exit`, `Crash`, `Reconcile`, `Resume` | a worker, the runner die; the run is reconciled and resumed |
| `LooksAlive`, `Shielded` | a recent heartbeat; the intentional wait that protects a run |

One worker lives per task.  A deadline is a number of half-minutes left, `Grace`
the hour by which the shield outlives it.  Where a runner has the broker in its
process (`apart` is false) stat and write of a flush are one step; otherwise the
broker may write in between.  Time passes (`Tick`) when what takes well under half
a minute is done (`Prompt`): polls, buffered writes, the heartbeat of a worker that
runs (every 15 s by default) and the steps of the loop.  Two things may take
longer and time passes over them: the delivery of a row, a call over the network
made after the lock is free again, and the verification of a dead worker's result
by its unit, whose heartbeat has stopped.  `late` and `overtaken` note the
questions that meet such a stretch.  `replaced` notes that one of the whole-file saves
from an earlier copy has put an older park or slot back (section 6).

Left out: run status and cancel, an ask that is aborted, handles of live sessions,
the forced respond and its challenge, the 24-hour horizon, parks without a
question; a respond to several tasks is several responds; merge and heartbeat
compare copies whole where the code compares fields.

## 3. Runs

| Run | Instance | Question |
|---|---|---|
| `slots` | 3 attempts, 1 slot, a queue of 2, ceiling 1, nested budget 2, grandchildren 2 deep | accounting of the three pools, FIFO, abort against handoff, refinement of `SlotPool`, starvation and delegation deadlock |
| `run_lock` | 2 async contexts and a sync one in 5 placements over 2 processes, a kernel socket or a socket file (free or left by a dead process); files age, both processes may die; 5 tokens | exclusion, tokens, leftovers, progress |
| `run_lock_sync_async` | the same contexts, one process | **violated**: see 6.1 |
| `team_run` | 3 tasks, 2 slots, 7 settings | 9 properties of the durable state, the loop and the units |
| `team_run_retries` | 2 independent tasks, 2 attempts, nothing from outside | **violated**: see 6.2 |
| `team_run_erased` | 2 tasks, 1 slot, a foreign cancel | **violated**: see 6.3 |
| `team_run_veto` | 2 tasks in a chain, a veto | **violated**: see 6.4 |
| `goal_loop` | 4 runners of 3 goals, 2 turns, 9 settings | one turn at a time, what the session sets wins, a lost lock is noticed, settled lock and loop |
| `event_log` | 2 or 3 writers in 1 to 3 processes and a reader, 10 settings | sequence numbers, no loss, no skip, every append ends |
| `event_terminal` | 2 synchronous writers, a log that one event fills | **violated**: see 6.5 |
| `recovery` | a background or foreground run of 1 or 2 tasks, 2 or 3 sessions, 6 settings | one runner, live runs kept, settled runs rest, every interrupted run settled |
| `ask` | 2 tasks, 2 questions with timeouts of 1 or 2, `Grace` 2, 3 settings | shield, one answer per question, an asker can be answered, an injected answer is kept |

**Why the bounds are enough.**  *Slots*: one slot makes every waiting parent
block all others; with three attempts and a queue of two the queue can be empty,
partly filled, full and over-full, a waiter can leave from its head or its tail,
and handoffs can cross aborts; grandchildren have grandchildren.  The theorems
cover larger sizes.  *Lock*: two async contexts are one contender per side of each
race, the third context adds the synchronous kind and a bystander; every pair
is met in one process and across two.  A token is in use only while an attempt,
a snapshot, the set or the file refers to it, so five tokens leave a fresh one
nearly always; with none `Create` waits, which restricts nothing but the number
of simultaneous corpses.  *Team run*: three tasks on two slots give a queued
task while two units race, a sibling to be stale about, and a second wave.  The
seven settings vary dependencies (none, a chain, a wave with a bystander, a
dependency listed twice), attempts (1 and 2), the verdicts and what may happen
(heartbeat, veto, foreign cancel, abort), so that each combination two
mechanisms share is met; all of them at once would only multiply states.

*Goals*: two runners of the same goal (one resumed behind the other) and one each
of two more goals: an owner, an heir, and an heir to race it.  Two turns make the
last one different from the first.  *Events*: a size is a number of events, and
limits of one or two make each append meet a compaction or a rotation; two
appends per writer let a writer find what its first one left, and a third writer
makes a lock change hands twice.  *Recovery*: ages stop at the longest horizon
that a pass compares with; two sessions race over one run, the third may resume
what the other two settle; two tasks let a pass find one finished and one not.
*Ask*: two parks with different deadlines are the least in which the slot must
move from one to the other, two questions allow a task to ask again; symmetry
over the tasks is sound, as the module names none and the run checks invariants only.
The run does not go on from a state with `replaced`, in which each of its invariants
is true by its first words, and remains so.

Deadlock is checked in `slots`, `event_log` and `ask` (in `event_log` a behaviour
in which all is written may stutter by `Finished`).  In `run_lock` every process
may be dead, a team run and a goal loop end, a settled run rests: there the
system really stops, and `CHECK_DEADLOCK` is off.

### What the properties say

* `WorkerSlots`: `PoolsSound` (counts and queue agree with who is where,
  through every handoff, abort and rejection, in all three pools),
  `NoOvertaking`, `AbortedNeverAdmitted`, `PoolSpec`; `WaiterServed`,
  `DelegateReturns`.
* `RunLock`: `AsyncExclusion` (in and across processes, whatever was stolen or
  left; with a socket file until it is `raced` for, see section 6), `HeldTokensLive`, `NoLockLeft`; within one process `RegisteredLockKept`
  and `WaitersProgress`.  The latter two are stated for one process because
  they fail across two: read, compare and unlink are three calls, the unlink of
  a stealer may remove a newer claim (`locks.ts:276-290`), and two processes may
  undo each other's half-written files in turn without end.
* `TeamRun`, always: `CompletedRunSettled`, `NoUnitOutlivesRun`, `WavesInOrder`,
  `DispatchedNeverSkipped` (an abort skips no task it had dispatched; a veto is no
  abort).
* `TeamRun`, under the settings named in them: `RunEndsTerminal` (no abort, and no
  foreign cancel of a run that retries), `VerdictsStay` (neither foreign cancel
  nor veto; and a failure that is being retried may be taken back), `RunnerEnds`
  (with a plan of waves: neither), `WorkKept` (one attempt, no cancel).  Section 6 says what
  happens outside of those settings.
* `WorkspaceLock`: `SettledStays` (once the contenders for a stale file have
  met, the winner keeps the lock while it refreshes it), `NoStrayFile` (a file
  that is left was left by a dead owner).
* `GoalLoop`: `OneTurnAtATime` (nobody dies or is suspended), `ExternalStateWins`
  (a runner's step changes no state but `running`, unless writes overlap),
  `NoTurnAfterLoss`, `LossNoticed`; `RunnersEnd` (no `clear`, no turn that hangs, no repeated suspension, at most one heir: two heirs can
  undo each other without end, `workspace-lock.ts:351-358`).
* `EventLog`: `SeqUnique` always; `AcceptedStays` as long as nothing was compacted
  or only one family writes and no lock was stolen; `CursorSkipsNothing` with one
  family; `AppendsEnd`.
* `Recovery`, until a live run is invisible: `OneRunner`, `LiveRunKept`,
  and always `SettledRunRests` (a run that reads cancelled or completed has no
  task under way, even if the process that settled it died between its saves);
  `RunSettles` (an interrupted run ends or is taken
  up; not one that waits for an approval or has not started, and not one owned
  by the survivor).
* `Ask`: `ParksShielded` (every open park keeps the run safe from recovery until
  its deadline), `AnsweredOnce` (a question is not answered both ways, unless its row was
  in delivery while time passed: `late`),
  `Answerable` (while a tool polls, an answer finds its park, on disk or by
  way of the slot),
  `InjectedKept` (an answer given by requeue waits for the next worker, unless
  the task still had a unit at work on it: `overtaken`).  All
  of them until `replaced`.

## 4. Fairness

* A continuation whose promise has settled runs (the event loop): `WorkerStep`,
  the steps of a lock context, `RunnerStep`.  Where other callers may disable it
  again in between (a lock, a shared slot) fairness is strong: the event loop
  serves its queues in order, and waiters retry with a bounded delay.
* A worker's turn ends, because `child-pi` bounds it by a turn limit and a
  response timeout, with any verdict (`Finish` in both modules).
* The run lock is obtained in the end (`SF_vars(UnitStep(t))`): retries with
  back-off against sections that all end.
* `GoalLoop`: the session completes a write it began, a dead owner's file grows
  old, a runner goes on (strong fairness: the lock's owner changes), file-system
  steps complete, the heartbeat's timer fires.
* `EventLog`: every writer goes on (waits give up after their limit by themselves).
* `Recovery`: time passes, a live session goes on with the pass it began, and the
  survivor looks at stale runs again and again (a timer of the extension).
* `Ask` states none.  Its liveness is left out for its size, and because the code
  promises little: an expired park is swept only at a turn of the loop in which
  the runner's copy shows it, and a resumed run whose only unfinished task is
  parked ends `blocked` with the park never swept.
* Nothing else is fair: nobody has to call, to abort, to delegate, to cancel; no
  deadline has to pass; no file has to age.

## 5. Proofs

The theorems hold for every value of the constants that satisfies the named
assumptions (`SlotsAssumption`, `RunLockAssumption`, `TeamRunAssumption`,
`LockAssumption`, `GoalAssumption`, `EventLogAssumption`, `SettingsAssumption`,
`AskAssumption`): any number of actors, tasks, slots and settings.

**WorkerSlotsProofs.**  `TypeCorrect`, `PoolsAlwaysSound`, `NoSlotAfterAbort`,
`SemaphoreImplementsPool`, `NobodyOvertakes`: every safety property of the slots.
The parts of the invariant together are inductive,
none is alone: the count needs a queue without duplicates and in step with `pc`,
since a handoff moves a slot without counting, and the queue needs the count to
know that nobody waits while a slot is free.  The refinement maps the holders
and the waiters; every step is a pool step or a stutter.  Lemmas say what the
splice of the abort listener does.

**RunLockProofs.**  `RunLockTyped`, `TokensExact`, `AsyncHoldersExclude`,
`NoLockLeftOver`, `RegisteredKept`: every safety property of the run lock.  The
inductive invariant adds to the type that attempts past their create have a
token (`HasToken`), that no two share one (`TokensApart`), that a registered
token belongs to an attempt past its registration (`HeldOwned`), and, until a
socket file has been raced for, that whoever listens is the one the address leads
to and that what is about to be removed is nobody's (`SocketBound`).  A kernel
address is never probed and so never raced for (`KernelAddress`).  The lock file
plays no part in the exclusion of async holders: the proof shows that the socket
alone carries it.  For the lock file, `FileOwned` says where its creator stands: writing it, or, once it
is written, somewhere between its verification and its own unlink, with the token
in it; so the comparison that sends an attempt away never sends the owner.  This
holds across processes.  Within one, `OneTurn` adds that a single context is in a
synchronous stretch and what that stretch relies on (`TurnOf`): the claim it has
made is still there, what it steals is over age or unregistered, what it releases
is its own.

**TeamRunProofs.**  Every safety property of `TeamRun`, one layer of invariant
for each theorem, each resting on the ones before it.
`UnitsAllSettled`: `pendingUnits` is exactly the set of units in flight, and no
way leads to `done` or `caught` but through the drain (`OutOfLoop`).
`TeamRunTyped` (`TInv`): no copy ever holds `waiting`, a unit in back-off has an
attempt left, and what `MergeAll` returns stays in its domain.
`WavesKept` (`WavesInv`): while anything is in flight, a task that *some* copy
(disk, runner, any unit's snapshot) has as done is not worked on any more, and its
result is on the disk or with its own settled unit; so no merge of an older
snapshot takes a dependency back under a running dependent.
`CompletedSettled` (`CompletedInv`): only the close-out comes by `completed`,
with no unit left and with its own copy of the tasks written.
`DispatchedKept` (`SkipInv`): what was dispatched and merged is over in both
copies, so `Blocked` does not touch it; a skipped task on the disk is one for the
runner.
`VerdictsKept` (`VerdictInv`): without cancel and veto, what is over for the runner
is over on the disk, and what is over anywhere is not worked on, in both cases
but for a failure, which may be retried.
`EndsTerminal` (`EndInv`): a terminal manifest stays terminal but for the one
persist that read it before a cancel, and from there the loop finds another exit.
The lemmas on the merge gate (`MergeFacts`), on what a unit's step leaves alone
(`StepOfOthers`, `StepOfOwn`) and on `MergeAll` (`MergeAllSteps`, `MergeAllIn`,
`MergedTask`: what every single merge keeps, all of them keep) carry most of it.
Induction over the number of merges is by the least counterexample: a set of
numbers that is not empty has a least one since the finite subsets are
well-founded (`LeastOfBounded`, `UpTo`, `Recursion`).

**WorkspaceLockProofs.**  `NoStrayFileAlways`, `SettledStaysAlways`, and
`LockExclusiveAlways`: without deaths and suspensions at most one process has
the lock.  The invariant ties the file to its owner's place in the code: who has
created it and has not unlinked it is named by it.

**GoalLoopProofs.**  `LoopUsesLock`: every step of the loop is a step of the
lock or leaves it alone, so what is proved of the lock holds in the composition.
`OneTurnAlways` follows from it and from where a loop may be while it has the
lock; `ExternalStateAlwaysWins`; `GoalTypeOK`.
`NoTurnAfterLossAlways` (`LossInv`): a loss shows only while the loop awaits
(`LossTold`); one runner works for a goal that is not resumed (`OneRunnerEach`);
and after `onOwnershipLost` neither the runner's copy, nor the file, nor what it has
read of it says "running", and no turn is being recorded (`LossEnds`).

**EventLogProofs.**  `EventTypeOK`, `Reservations`, `SeqNumbersUnique`,
`AcceptedAlwaysStays`, `CursorAlwaysFollows`.  For the first three: the holder
of `.seqlock` is unique (`SeqLockHeld`, where at most one writer reclaims a dead
process's locks); the base it read is still the largest number given away; until
the first reservation the log is untouched, so that numbers may start from what
the file shows; every other step only moves events that have their number.  The
sequence numbers a reader has seen need their bound in the type.
The other two rest on `KeepInv`, which needs three more facts for every instance.
An event is in no file before its own writer writes it, and in one from then on
(`OwnEvents`).  Until a compaction leaves something out every inode has a name
(`Uncompacted`): a compaction under way has read a file that repeats nothing and is
longer than what it keeps, so its replacement is what ends this.  And with one
family and no lock taken from a living holder (`CalmInv`) the writer inside is
alone (`Exclusive`); what a compaction has read is the live file as it still is
(`CompactPart`); the events of an append come after all that are written (`Above`),
so the archives before the live file (`Ordered`); and what the live file has got
since the reader looked at it comes after all the reader has seen (`Follows`).  A
page of the reader is therefore all there is up to its last event, although the
two halves of a read are separate steps.

**RecoveryProofs.**  `RecoveryTyped`, `RunInvAlways`, `OneRunnerAlways`,
`LiveRunKeptAlways`, `SettledRunRestsAlways`.  `RunInv` adds to the type: who is
inside the lock has it alone and has made sure, under it, that the run is
deserted (`Locked`); a run at work is registered and its runner alive, beats, and
is the background process's own while the manifest says so (`Shown`); a terminal
manifest has closed tasks (`Closed`) or is one save away from it.  Lemma
`Spares`: no judgement is passed on a run that shows itself.  Together they give
that a pass never rewrites a run with a live runner, and that resume adds none.

**AskProofs.**  `TypeCorrect`, `ParksAlwaysShielded`, `OpenParkHoldsRecovery`,
`AnsweredOnceAlways`, `AlwaysAnswerable`, `InjectedAlwaysKept`.  For the first three the
invariant is that the slot *covers* every open park: its deadline is not later
than the slot's plus `Grace`.  A new slot covers all others since `Grace` is at
least the largest timeout; when a park ends, `Repoint` picks the latest of those
that remain; a park the self-heal restores has the slot's own time; time lowers
both together.  Any other save of either file sets `replaced`.
`AnsweredOnceAlways` (`Once`): no question has a number that is still to be given
(`Numbered`), two tasks never share one (`Apart`), a question answered by a fresh
start is neither parked nor named by the slot (`InjectedEnded`), and a worker
found alive stays so until its row is delivered or time passes (`StagedLive`), so
that a second respond takes the same way as the first.
`AlwaysAnswerable` (`PollInv`): park and slot have the number and the time of the
question the tool polls for (`PollKnown`); while no answer and no buffered write
has come in between, the task is parked in `tasks.json` and in that write
(`AwaitParked`).
`InjectedAlwaysKept` (`RunnerInv`, `BufferInv`, `SteersInv`): a buffered heartbeat is
that of a unit at work; a buffered write that is not being written yet is
`tasks.json` with that heartbeat; a task the runner holds for queued has in its
copy every answer the file has; and what a task with a unit at work has came in
under that unit.

**Only model-checked.**  All liveness properties, for which the provers have
neither fairness nor ENABLED.  Every invariant and every action property the
passing runs check is the statement of a theorem.

## 6. Where the code and its words differ

Each of these has a run that ends in the violation named.

1. **Sync and async holders of the run lock** (`SyncAsyncExclusion`).
   `acquireRunLockGuarded` registers its token after an `await`
   (`locks.ts:692-698`), although `locks.ts:481-484` says that no await comes in
   between.  In the gap another context of the process judges the file a corpse
   of its own pid and steals it; a synchronous caller then takes the file and
   enters while the first context, with the socket, enters too.
2. **Retries** (`RetriesRunOut`).  The failed status of an attempt that is to be
   retried is on disk; a sibling's merge brings it into the runner's copy and
   `handleFailedTask` gives the whole run up (`dispatch-batch.ts:828-832`
   promises up to three attempts).
3. **An erased cancel** (`NoTerminalErased`).  `saveRunManifestAsync` evaluates
   its guard before an awaited write; `state-store.ts:595-599` promises that no
   raw save erases a terminal status.
4. **A vetoed dependency** (`RunnerEndsVetoed`).  A task skipped by a hook stays
   in the first unfinished wave and is offered again for ever, while
   `team-runner-characterization.test.ts:773` states that such a run terminates.
5. **A terminal event in a full log** (`TerminalPersisted`).  `event-log.ts:1062`
   and `50-52` say that terminal events are always persisted; at `1108` (and
   `691`) one that finds the log over its limit is skipped like any other, and
   without the attempt to make room that others get.

Seen while modelling, and the reason for the conditions in the properties.

*Run lock*

* Where the socket is a file (darwin, BSD), `process-lock.ts:225-234` probes it,
  removes it and listens again in three steps.  Two callers that both find a
  dead holder's file may take over one after the other: the second removes the
  file the first has bound meanwhile, and both are in.  The close of a server
  removes whatever file is at the path as well.  `AsyncExclusion` excepts this
  race (`raced`) and nothing else.

*Team run and slots*

* `updateRunStatus` checks the transition from the caller's copy, so with a
  foreign cancel the disk can go from `cancelled` to `failed`.
* A child worker's heartbeat (`child-executor.ts:660`) writes `running` over a
  task that a foreign cancel has ended.
* A unit in back-off that is drained by `handleFailedTask` takes the catch
  branch of its retry loop (`dispatch-batch.ts:1001-1025`) and marks the run as
  cancelled, so a run that failed can end cancelled although nobody cancelled it.
* A veto lives in memory until the next save; a sibling's merge, which is based
  on the disk, queues the task again.
* With retries the unlocked save at the end of an iteration
  (`team-runner.ts:1194`) can put an earlier `failed` over a fresh `completed`.
* With an abort, a worker's awaited manifest write may come after the give-up's
  `cancelled` and leave the run as `running`.
* With retries a foreign cancel can do the same: a retry reads `cancelled` just
  before an unlocked save overwrites it, its unit cancels the run once more on the
  runner's way, and a sibling's final persist, whose guard came before, writes
  `running` last.
* A failure that is being retried is taken back by the runner's copy when it
  adopts a disk on which the retry has begun.
* A task whose end a foreign cancel wrote and a later save erased is offered again
  by a plan of waves; a hook may then veto it, and a task that has run reads
  `skipped`.
* A full semaphore queue counts as a fault of the embedded tier.
* A dependency listed twice raises the in-degree twice and is lowered once
  (`task-graph.ts:63-67`): the plan then reports a cycle, and the loop goes by
  the snapshot, in which only `completed` satisfies a dependency.  A run that
  would have gone on after a `needs_attention` is blocked instead.  Such a
  workflow passes `validateWorkflowForTeam`, real cycles do not; the model has
  the former and not the latter.


*Workspace lock and goals*

* `goal.ts:415-418` says that a resumed goal does not acquire the workspace lock
  again; the background process it spawns does, like any other, and the model
  follows the code.
* Two processes that steal the same stale file can both have the lock until the
  next heartbeat (`workspace-lock.ts:351-358` unlinks whatever is there); the
  refresh compares and renames in two calls.
* `goal.ts:553-554` refuses to clear a loop that still runs, but the guard
  (`566`) looks at the state only: stop, then clear removes the file under a
  running loop, which goes on with its stale copy (`goal-loop-runner.ts:814-822`)
  and writes the file anew.
* `handleStart` saves its initial copy a second time once the process is
  spawned; what the loop has written by then is lost.
* Pause does not look at the state: a goal that has ended can be paused and
  then resumed.  A resume while the old turn is still running queues a second
  runner, whose copy takes the count of turns back.
* The lock of `compareAndSetStatus` orders it against its like only; flips of
  the session that overlap lose one of them.

*Event log*

* Two processes that reclaim the same dead process's lock may both go on, and
  numbers repeat: `statSync` and `rmSync` are two calls, although
  `event-log.ts:129-132` says "`O_EXCL` is used to atomically verify-and-remove".
* The two lock families do not exclude each other: an append of the one between
  the tail's read and the rename of a compaction of the other is lost
  (`event-log-rotation.ts:188`: "so no event is lost").
* A reader by byte offset between the rename and the new generation
  (`event-log-rotation.ts:403-423`) takes the old offset for the new file.
* A living holder's `.seqlock` is taken by its age alone, after a second
  (`sequence-cache.ts:243`), so a process suspended inside it may reserve the
  numbers of another; the model takes it from the dead only.
* The wait for a lock (5 s) is shorter than the age at which it is stale (10 s):
  appends right after a death fail.  `persistSequence` swallows write errors.

*Recovery*

* The purge unregisters outside the lock (`crash-recovery.ts:796`, `910`, `672`):
  a resume in between loses its entry, and another resume is admitted.
* A live foreground or adopted run whose manifest is not written for half an
  hour is in nobody's view: claims last five minutes and are not renewed, and
  resume does not look at the heartbeat file; a resume of the live run is
  admitted.  So is one after a cancel, while the old runner drains.
* The adoption of the special kinds holds the lock but registers after it
  (`team-tool.ts:408-434`, `518`, `602`).
* A single stale task marks the whole run as failed, and the tasks that wait
  stay `waiting` in it (`stale-reconciler.ts`, `crash-recovery.ts:1255`).
* `checkResultFile` saves `completed` or `cancelled`, after which the transition to
  `failed` throws; the error is caught and the entry stays.
* Orphan and purge passes cancel runs whose tasks have all completed; a run that
  dies queued or planning is settled by its owner's poll only; a death after the
  fast path's first save makes the next pass cancel the tasks it queued.
* A foreground run that lives longer than a day may be cancelled.

*Waiting tasks*

* `post-execution.ts:999` and `team-runner.ts:1232` write whole manifests from
  copies taken at dispatch: a sibling's end erases or reverts the slot, which
  `wait-resolve.ts:39-45` and `crew-broker.ts:1718-1728` guard against elsewhere.
  A slot that comes back lets the self-heal of `respond.ts:155-215` restore a park
  that has ended, and its question is answered a second time.
* The unlocked save at the end of an iteration (`team-runner.ts:1194`) erases a
  park made since the merge; the merge gate lets a sibling's older snapshot take
  a task from running or queued to waiting, and back to queued.
* The flush of a heartbeat compares, then writes: with the broker in another
  process a park may fall in between, and is healed only if the slot names it.
* A row is staged under the lock and delivered after it (`respond.ts:301-339`,
  `493-496`; two attempts, each with a connect of at most 2.5 s and requests of at
  most 5 s, `respond-delivery.ts:68-73`), and a worker is dead when its heartbeat
  is a minute old (`dispatch-batch.ts:64-72`): a second respond may find it dead before the row is
  there, and queue the task with the answer that is then delivered as well
  (`AnsweredOnce` excepts `late`).
* An answer injected while the dead worker's unit is still finishing is
  overwritten by the final persist: the heartbeat stops with the worker
  (`child-executor.ts:1125`), and verification (`post-execution.ts:729-738`) may
  take minutes before the persist (`998-1001`) (`InjectedKept` excepts
  `overtaken`).  That persist ends a park and leaves the slot pointing at it.
* Once a response row exists and the asker is gone, later responds do nothing
  until a sweep; a requeue while a resumed runner idles waits for the next merge.
* After a resume a waiting task's worker has no heartbeat, looks dead, and is
  answered by requeue.
* As the grace (an hour) is not less than the largest timeout (an hour), the
  broker's rule to keep an existing slot is not needed for the shield.

*Mailbox* (read, not modelled)

* A message and its delivery entry are written under two locks in turn
  (`mailbox.ts:1133-1190`, `1248-1283`): an acknowledgement in between is replaced
  by `queued`, and the message is replayed; the index of request ids still
  protects those who ask.  A death between hand-over and acknowledgement has
  the same effect.
* `updateMailboxMessageReply` lists the archives before it takes the lock;
  `validateMailbox` repairs without the delivery lock.

## 7. What is not modelled

* *Delivery states and replay of the mailbox*: independent of the rows `Ask`
  uses; the next component to take up, with the pickup of messages.
* *Task claims as tool calls, the batch barrier, the scheduler's timers*: small,
  each with little to interleave.
* *The task graph step by step*: `TeamRun` uses the plan it computes; cycles are
  rejected before.
* *In the team run*: plan approval, adaptive plans, the budget abort, reruns, a
  busy run lock; the store's cache.  The first two multiply the loop's state by
  plans; `TeamRun` and `Ask` are two modules because together they are beyond TLC.
* *Cursors by byte offset and the generation sidecar*, next to the sequence
  numbers `EventLog` has.
* *Dynamic workflows and chains* call runs one after another.
* *Child supervision, worktrees*: effects of the operating system and of git.
  *Transport of the broker*: sockets; what its requests do is modelled.
* *User interface, configuration, models, prompts, observability*: no state that
  outlives a call, no concurrency.  They are most of the repository's lines.
