------------------------------- MODULE TeamRun -------------------------------
(***************************************************************************)
(* One team run: the scheduler loop (runtime/team-runner.ts), its dispatch *)
(* units with their retries (dispatch-batch.ts, retry-executor.ts,         *)
(* task-runner/), the merge of settled units, the drains, finalization,    *)
(* and a cancel that comes from outside.  The run's durable state is the   *)
(* status in manifest.json and the task statuses in tasks.json; runner,    *)
(* units and cancel all write both.                                        *)
(*                                                                         *)
(* Grain.  A step is the code between two awaits.  A save that is awaited  *)
(* is two steps: the guard reads the disk in one and the file is replaced  *)
(* in a later one.  A section under the run lock is one step when all its  *)
(* writes are the runner's; the worker's final persist is two, because     *)
(* writers that take no lock may come between.                             *)
(***************************************************************************)
EXTENDS Contracts, FiniteSetsExt, Functions

CONSTANTS
  Tasks,        \* the run's tasks
  Slots,        \* resolveBatchConcurrency().maxConcurrent
  Settings      \* the settings and surroundings a run may have

\* What may happen: a child worker's heartbeat (a live session's persists no
\* status), a before_task_start hook's veto, a cancel from another session,
\* the caller's AbortSignal.
Event == {"heartbeat", "veto", "cancel", "signal"}

ASSUME TeamRunAssumption ==
  /\ IsFiniteSet(Tasks) /\ Tasks # {}
  /\ Slots \in Nat \ {0}
  /\ Settings \subseteq [deps : [Tasks -> SUBSET Tasks], repeated : SUBSET Tasks,
                        attempts : Nat \ {0},
                        verdicts : SUBSET {"completed", "failed", "needs_attention"},
                        may : SUBSET Event]

VARIABLES
  setting,     \* deps: the dependsOn of each task; repeated: the tasks that
               \* list one of theirs twice; attempts: RetryPolicy.maxAttempts; verdicts: those a
               \* worker may come to; may: what may happen
  diskRun,     \* manifest.json: the run's status
  diskTask,    \* tasks.json: the status of each task
  memRun,      \* the runner's manifest.status
  memTask,     \* the runner's tasks
  pc,          \* where the runner stands
  next,        \* where it goes after the save or drain it is in
  carry,       \* the status an awaited manifest save of the runner will write
  pending,     \* the tasks of pendingUnits
  dispatched,  \* dispatchedTaskIds
  unit,        \* each dispatch unit
  lock,        \* the unit that holds the run lock; {} when it is free
  signal,      \* the caller's AbortSignal has fired
  stopped      \* runController was aborted by a drain

runner == <<setting, memRun, memTask, pc, next, carry, pending, dispatched, stopped>>
disk == <<diskRun, diskTask>>
vars == <<runner, disk, unit, lock, signal>>

UnitStage == {"none", "prepare", "running", "persist", "backoff", "giveup", "settled"}

\* snap and run: the tasks and the run status the attempt has loaded, and at
\* last its result; verdict and carry: what its final persist will write.
Unit == [stage : UnitStage, attempt : Nat, run : RunStatus,
         snap : [Tasks -> TaskStatus], verdict : TaskStatus, carry : RunStatus]

RunnerPc == {"top", "select", "wait", "post", "save", "checkManifest", "writeManifest",
             "setCancelled", "setFailed", "setBlocked", "settle", "finalize",
             "closeout", "drain", "caught", "setCaught", "done"}

TypeOK ==
  /\ setting \in Settings
  /\ diskRun \in RunStatus /\ memRun \in RunStatus /\ carry \in RunStatus
  /\ diskTask \in [Tasks -> TaskStatus] /\ memTask \in [Tasks -> TaskStatus]
  /\ pc \in RunnerPc /\ next \in RunnerPc
  /\ pending \in SUBSET Tasks /\ dispatched \in SUBSET Tasks
  /\ unit \in [Tasks -> Unit]
  /\ \A t \in Tasks : unit[t].attempt <= setting.attempts
  /\ lock \in {{}} \cup {{t} : t \in Tasks}
  /\ signal \in BOOLEAN /\ stopped \in BOOLEAN

NoUnit == [stage |-> "none", attempt |-> 0, run |-> "running",
           snap |-> [t \in Tasks |-> "queued"], verdict |-> "queued", carry |-> "running"]

Init ==
  /\ setting \in Settings
  /\ diskRun = "running" /\ memRun = "running" /\ carry = "running"
  /\ diskTask = [t \in Tasks |-> "queued"] /\ memTask = diskTask
  /\ pc = "top" /\ next = "top"
  /\ pending = {} /\ dispatched = {}
  /\ unit = [t \in Tasks |-> NoUnit]
  /\ lock = {}
  /\ signal = FALSE /\ stopped = FALSE

Stop == signal \/ stopped
Goto(l) == pc' = l /\ UNCHANGED next
GotoVia(l, then) == pc' = l /\ next' = then

-----------------------------------------------------------------------------
(* Dispatch units *)

Settled(run, tasks) == [NoUnit EXCEPT !.stage = "settled", !.run = run, !.snap = tasks]

\* The head of attempt n: a fresh load without the lock, a retry re-queues its
\* own failure on a run still active, and a task somebody else has ended is
\* returned as it is.
BeginAttempt(t, n) ==
  LET retried == n > 1 /\ diskRun \notin TerminalRun /\ diskTask[t] = "failed"
      fresh == IF retried THEN [diskTask EXCEPT ![t] = "queued"] ELSE diskTask
  IN IF Stop THEN [NoUnit EXCEPT !.stage = "giveup"]
     ELSE IF fresh[t] \notin {"queued", "running"} THEN Settled(diskRun, fresh)
     ELSE [NoUnit EXCEPT !.stage = "prepare", !.attempt = n, !.run = diskRun, !.snap = fresh]

\* prepareTaskExecution: an aborted signal returns a cancelled task that nobody
\* persists; otherwise the task is persisted as running.
Prepare(t) ==
  /\ unit[t].stage = "prepare"
  /\ \/ /\ Stop
        /\ unit' = [unit EXCEPT ![t] =
             Settled(@.run, [@.snap EXCEPT ![t] = "cancelled"])]
        /\ UNCHANGED diskTask
     \/ /\ ~Stop /\ lock = {}
        /\ diskTask' = [diskTask EXCEPT ![t] = PersistOwn(@, "running")]
        /\ unit' = [unit EXCEPT ![t].stage = "running", ![t].snap = NoUnit.snap]
  /\ UNCHANGED <<runner, diskRun, lock, signal>>

\* A child worker's heartbeat persists the whole task, status included; a live
\* session's looks at the disk first and so never changes a status.
Heartbeat(t) ==
  /\ "heartbeat" \in setting.may
  /\ unit[t].stage = "running" /\ lock = {}
  /\ diskTask' = [diskTask EXCEPT ![t] = PersistOwn(@, "running")]
  /\ UNCHANGED <<runner, diskRun, unit, lock, signal>>

\* finalizeTaskResult, under the run lock: the manifest save has read the disk,
\* its write is still to come.  An abort ends the worker with any verdict.
Finish(t, v) ==
  /\ unit[t].stage = "running" /\ lock = {}
  /\ unit' = [unit EXCEPT ![t].stage = "persist", ![t].verdict = v,
                          ![t].carry = Preserve(diskRun, unit[t].run)]
  /\ lock' = {t}
  /\ UNCHANGED <<runner, disk, signal>>

\* One attempt too many.
AfterFailureOneMore(t, tasks) ==
  IF signal THEN [unit[t] EXCEPT !.stage = "giveup"]
  ELSE IF stopped \/ unit[t].attempt > setting.attempts THEN Settled(unit[t].run, tasks)
  ELSE [unit[t] EXCEPT !.stage = "backoff"]

\* Where a failed attempt leads: the last one, and one aborted by a drain, is
\* the unit's result; an aborted caller cancels the run.
AfterFailure(t, tasks) ==
  IF signal THEN [unit[t] EXCEPT !.stage = "giveup"]
  ELSE IF stopped \/ unit[t].attempt = setting.attempts THEN Settled(unit[t].run, tasks)
  ELSE [unit[t] EXCEPT !.stage = "backoff"]

\* The manifest's write, the task's persist, the release of the lock.
PersistVerdict(t) ==
  LET tasks == [diskTask EXCEPT ![t] = PersistOwn(@, unit[t].verdict)]
  IN /\ unit[t].stage = "persist"
     /\ diskRun' = unit[t].carry
     /\ diskTask' = tasks
     /\ lock' = {}
     /\ unit' = [unit EXCEPT ![t] =
          IF tasks[t] = "failed" THEN AfterFailure(t, tasks)
          ELSE Settled(@.run, tasks)]
     /\ UNCHANGED <<runner, signal>>

\* The back-off sleep ends, by its timer or by the abort.
Retry(t) ==
  /\ unit[t].stage = "backoff"
  /\ unit' = [unit EXCEPT ![t] = BeginAttempt(t, @.attempt + 1)]
  /\ UNCHANGED <<runner, disk, lock, signal>>

\* The catch branch of the retry loop: the RUN is marked cancelled, unlocked.
GiveUp(t) ==
  /\ unit[t].stage = "giveup"
  /\ CanTransitionRun(diskRun, "cancelled")
  /\ diskRun' = "cancelled"
  /\ unit' = [unit EXCEPT ![t] = Settled("cancelled",
       [diskTask EXCEPT ![t] = IF @ \in {"queued", "running"} THEN "cancelled" ELSE @])]
  /\ UNCHANGED <<runner, diskTask, lock, signal>>

AllSettled == \A t \in pending : unit[t].stage = "settled"

-----------------------------------------------------------------------------
(* The scheduler loop *)

CancelAll(tasks) == [t \in Tasks |-> IF tasks[t] \in TerminalTask THEN tasks[t] ELSE "cancelled"]
Blocked(tasks) == [t \in Tasks |-> IF tasks[t] = "queued" THEN "skipped" ELSE tasks[t]]

\* mergeTaskUpdatesPreservingTerminal with the result of one unit.
MergeUnit(base, t) == [s \in Tasks |-> MergeTask(base[s], unit[t].snap[s], s = t)]

\* pendingUnits is a map in the order of dispatch: here any order.
Orders == Bijection(1 .. Cardinality(pending), pending)

\* ... and with the results of all units that are in flight, one by one.
MergeAll(order) ==
  LET merged[k \in 0 .. Cardinality(pending)] ==
        IF k = 0 THEN diskTask ELSE MergeUnit(merged[k - 1], order[k])
  IN merged[Cardinality(pending)]

Dependencies == \E t \in Tasks : setting.deps[t] # {}

\* buildExecutionPlan: the tasks of the first n waves.  A dependency listed
\* twice is counted twice and taken off once, so its task is in no wave.
Assigned[n \in 0 .. Cardinality(Tasks)] ==
  IF n = 0 THEN {}
  ELSE {t \in Tasks \ setting.repeated : setting.deps[t] \subseteq Assigned[n - 1]}

HasCycle == Assigned[Cardinality(Tasks)] # Tasks

\* There is a plan of waves to go by.
Planned == Dependencies /\ ~HasCycle

\* The waves before that of t.
Lower(t) == UNION {Assigned[n] : n \in {k \in 0 .. Cardinality(Tasks) : t \notin Assigned[k]}}

Done == {t \in Tasks : memTask[t] \in {"completed", "needs_attention"}}

\* The waves are not looked at.
ReadyByStatus == {t \in Tasks : memTask[t] = "queued"}

\* With a plan: the tasks of the first wave that is not done, whatever else
\* their status is.  Without: the queued tasks whose dependencies completed.
Ready ==
  IF Planned
  THEN {t \in Tasks \ Done : Lower(t) \subseteq Done}
  ELSE {t \in Tasks : /\ memTask[t] = "queued"
                      /\ \A s \in setting.deps[t] : memTask[s] = "completed"}

\* drainPendingUnits: abort what is in flight, wait for all of it, go on.
Drain(then) ==
  /\ GotoVia("drain", then)
  /\ stopped' = (stopped \/ pending # {})

\* The top of the loop, up to its first effect: adopt a terminal decision made
\* outside, cancel on the caller's signal, fail on a failed task, or select.
Top ==
  /\ pc = "top"
  /\ \/ /\ pending = {} /\ \A t \in Tasks : memTask[t] # "queued"
        /\ Goto("finalize")
        /\ UNCHANGED <<memRun, memTask, stopped>>
     \/ /\ pending # {} \/ \E t \in Tasks : memTask[t] = "queued"
        /\ CASE diskRun \in TerminalRun ->
                  /\ memRun' = diskRun /\ memTask' = diskTask
                  /\ Drain("done")
             [] diskRun \notin TerminalRun /\ signal ->
                  /\ memTask' = CancelAll(memTask)
                  /\ GotoVia("save", "setCancelled")
                  /\ UNCHANGED <<memRun, stopped>>
             [] diskRun \notin TerminalRun /\ ~signal
                  /\ \E t \in Tasks : memTask[t] = "failed" ->
                  /\ Goto("settle")
                  /\ stopped' = (stopped \/ pending # {})
                  /\ UNCHANGED <<memRun, memTask>>
             [] OTHER ->
                  /\ Goto("select")
                  /\ UNCHANGED <<memRun, memTask, stopped>>
  /\ UNCHANGED <<setting, disk, carry, pending, dispatched, unit, lock, signal>>

\* selectDispatchBatch and dispatchBatch: start as many ready tasks as there
\* are slots, but for those a before_task_start hook vetoes or has vetoed; with
\* nothing ready and nothing in flight the run is blocked.
Select ==
  /\ pc = "select"
  /\ LET ready == Ready \ pending
         free == Max({0, Slots - Cardinality(pending)})
         size == Min({free, Cardinality(ready)})
     IN \/ /\ ready = {} /\ pending = {}
           /\ memTask' = Blocked(memTask)
           /\ GotoVia("save", "setBlocked")
           /\ UNCHANGED <<diskRun, memRun, pending, dispatched, unit>>
        \/ /\ ready \cup pending # {}
           /\ \E batch \in kSubset(size, ready) : \E vetoed \in SUBSET batch :
                LET start == {t \in batch \ vetoed : memTask[t] # "skipped"}
                IN /\ vetoed = {} \/ "veto" \in setting.may
                   /\ memTask' = [t \in Tasks |-> IF t \in vetoed THEN "skipped" ELSE memTask[t]]
                   /\ memRun' = IF vetoed = {} THEN memRun ELSE Preserve(diskRun, memRun)
                   /\ diskRun' = IF vetoed = {} THEN diskRun ELSE memRun'
                   /\ pending' = pending \cup start
                   /\ dispatched' = dispatched \cup start
                   /\ unit' = [t \in Tasks |-> IF t \in start THEN BeginAttempt(t, 1) ELSE unit[t]]
                   /\ Goto(IF pending' = {} THEN "top" ELSE "wait")
  /\ UNCHANGED <<setting, diskTask, carry, stopped, lock, signal>>

\* The merged unit stays in pendingUnits.
MergeKeepsUnit(t) ==
  /\ pc = "wait" /\ lock = {}
  /\ t \in pending /\ unit[t].stage = "settled"
  /\ memRun' = Preserve(diskRun, "running") /\ diskRun' = memRun'
  /\ memTask' = MergeUnit(diskTask, t) /\ diskTask' = memTask'
  /\ unit' = [unit EXCEPT ![t] = NoUnit]
  /\ carry' = unit[t].run
  /\ Goto(IF memRun' \in PreservedRun THEN "finalize" ELSE "post")
  /\ UNCHANGED <<setting, pending, dispatched, stopped, lock, signal>>

\* mergeUnitResult, under the run lock: the disk is the base, a terminal run
\* status found there is kept and ends the loop.
Merge(t) ==
  /\ pc = "wait" /\ lock = {}
  /\ t \in pending /\ unit[t].stage = "settled"
  /\ memRun' = Preserve(diskRun, "running") /\ diskRun' = memRun'
  /\ memTask' = MergeUnit(diskTask, t) /\ diskTask' = memTask'
  /\ pending' = pending \ {t}
  /\ unit' = [unit EXCEPT ![t] = NoUnit]
  /\ carry' = unit[t].run
  /\ Goto(IF memRun' \in PreservedRun THEN "finalize" ELSE "post")
  /\ UNCHANGED <<setting, dispatched, stopped, lock, signal>>

\* The rest of the iteration: a cancelled result or an aborted signal cancels
\* the run, else the merged tasks and the manifest are saved, without the lock.
Post ==
  /\ pc = "post"
  /\ IF carry = "cancelled" \/ signal
     THEN /\ memRun' = "cancelled" /\ diskRun' = "cancelled"
          /\ memTask' = CancelAll(memTask)
          /\ carry' = "cancelled"
          /\ GotoVia("save", "writeManifest")
     ELSE /\ carry' = "running"
          /\ GotoVia("save", "checkManifest")
          /\ UNCHANGED <<memRun, memTask, diskRun>>
  /\ UNCHANGED <<setting, diskTask, pending, dispatched, unit, lock, signal, stopped>>

\* saveRunTasksAsync without the lock: the whole array, as the runner has it.
Save ==
  /\ pc = "save"
  /\ diskTask' = memTask
  /\ pc' = next /\ UNCHANGED next
  /\ UNCHANGED <<setting, diskRun, memRun, memTask, carry, pending, dispatched, stopped,
                 unit, lock, signal>>

\* saveRunManifestAsync without the lock: the guard, then the awaited write.
CheckManifest ==
  /\ pc = "checkManifest"
  /\ carry' = Preserve(diskRun, memRun)
  /\ Goto("writeManifest")
  /\ UNCHANGED <<setting, disk, memRun, memTask, pending, dispatched, stopped, unit, lock, signal>>

WriteManifest ==
  /\ pc = "writeManifest"
  /\ diskRun' = carry
  /\ carry' = "running"
  /\ IF memRun = "cancelled" THEN Drain("done") ELSE Goto("top") /\ UNCHANGED stopped
  /\ UNCHANGED <<setting, diskTask, memRun, memTask, pending, dispatched, unit, lock, signal>>

\* updateRunStatus from the runner's own status; an illegal transition throws
\* out of the loop, to the catch clause of executeTeamRun.
SetStatus(at, status, then) ==
  /\ pc = at
  /\ IF CanTransitionRun(memRun, status)
     THEN /\ diskRun' = Preserve(diskRun, status) /\ memRun' = diskRun'
          /\ then
     ELSE Drain("caught") /\ UNCHANGED <<diskRun, memRun>>
  /\ UNCHANGED <<setting, diskTask, memTask, carry, pending, dispatched, unit, lock, signal>>

SetCancelled == SetStatus("setCancelled", "cancelled", Drain("done"))
SetBlocked == SetStatus("setBlocked", "blocked", Drain("done"))
SetFailed == SetStatus("setFailed", "failed", Goto("finalize") /\ UNCHANGED stopped)

\* The results of the drained units are thrown away.
SettleWithoutMerge ==
  /\ pc = "settle" /\ AllSettled
  /\ memTask' = Blocked(memTask)
  /\ unit' = [t \in Tasks |-> IF t \in pending THEN NoUnit ELSE unit[t]]
  /\ pending' = {}
  /\ GotoVia("save", "setFailed")
  /\ UNCHANGED <<setting, disk, memRun, carry, dispatched, stopped, lock, signal>>

\* terminaliseRunWithDrain once every unit has settled: their results are
\* merged under the lock, what was dispatched and has no verdict is cancelled,
\* what was not is skipped.
Settle ==
  /\ pc = "settle" /\ AllSettled
  /\ \E order \in Orders :
     LET base == IF pending = {} THEN memTask ELSE MergeAll(order)
         cancelled == [t \in Tasks |->
           IF t \in dispatched /\ base[t] \notin TerminalTask THEN "cancelled" ELSE base[t]]
     IN /\ memTask' = Blocked(cancelled)
        /\ IF pending = {}
           THEN UNCHANGED <<disk, memRun>>
           ELSE /\ lock = {}
                /\ diskTask' = base
                /\ memRun' = Preserve(diskRun, "running") /\ diskRun' = memRun'
  /\ unit' = [t \in Tasks |-> IF t \in pending THEN NoUnit ELSE unit[t]]
  /\ pending' = {}
  /\ GotoVia("save", "setFailed")
  /\ UNCHANGED <<setting, carry, dispatched, stopped, lock, signal>>

\* A status derived without a look at the tasks, and one left as it was.
FinalizeBlind ==
  /\ pc = "finalize"
  /\ carry' = IF memRun \in {"failed", "cancelled"} THEN memRun ELSE "completed"
  /\ Goto("closeout")
  /\ UNCHANGED <<setting, disk, memRun, memTask, pending, dispatched, stopped, unit, lock, signal>>

FinalizeUndecided ==
  /\ pc = "finalize"
  /\ carry' = memRun
  /\ Goto("closeout")
  /\ UNCHANGED <<setting, disk, memRun, memTask, pending, dispatched, stopped, unit, lock, signal>>

\* finalizeRun up to its lock: heal what the disk knows better, derive the
\* status.  Effectiveness and policy may turn a success into a failure.
Finalize ==
  LET healed == [t \in Tasks |->
        IF /\ pending = {} /\ memTask[t] \in {"running", "waiting"}
           /\ diskTask[t] \in TerminalTask
        THEN diskTask[t] ELSE memTask[t]]
      some(S) == \E t \in Tasks : healed[t] \in S
  IN /\ pc = "finalize"
     /\ memTask' = healed
     /\ IF some({"failed"}) THEN carry' = "failed"
        ELSE IF some({"waiting", "running"}) THEN carry' = "blocked"
        ELSE \/ carry' \in {"failed", "blocked"}
             \/ carry' = IF some({"queued"}) THEN "blocked"
                         ELSE IF memRun \in {"failed", "cancelled"} THEN memRun
                         ELSE "completed"
     /\ Goto("closeout")
     /\ UNCHANGED <<setting, disk, memRun, pending, dispatched, stopped, unit, lock, signal>>

\* The locked save: a terminal disk, and an aborted signal, win over what was
\* derived, and then the disk's tasks win as well.
Closeout ==
  /\ pc = "closeout" /\ lock = {}
  /\ IF diskRun \in PreservedRun \/ signal
     THEN /\ memRun' = IF diskRun \in PreservedRun THEN diskRun ELSE "cancelled"
          /\ memTask' = diskTask
          /\ diskRun' = memRun'
          /\ Drain("done")
          /\ UNCHANGED diskTask
     ELSE IF CanTransitionRun(memRun, carry)
     THEN /\ memRun' = carry /\ diskRun' = carry
          /\ diskTask' = memTask
          /\ Drain("done")
          /\ UNCHANGED memTask
     ELSE Drain("caught") /\ UNCHANGED <<disk, memRun, memTask>>
  /\ carry' = "running"
  /\ UNCHANGED <<setting, pending, dispatched, unit, lock, signal>>

\* The finally block does not wait.
DrainedAtOnce ==
  /\ pc = "drain"
  /\ pc' = next /\ UNCHANGED next
  /\ UNCHANGED <<setting, disk, memRun, memTask, carry, pending, dispatched, stopped, unit, lock, signal>>

\* The finally block: every unit has settled, their results are dropped.
Drained ==
  /\ pc = "drain" /\ AllSettled
  /\ pending' = {}
  /\ unit' = [t \in Tasks |-> NoUnit]
  /\ pc' = next /\ UNCHANGED next
  /\ UNCHANGED <<setting, disk, memRun, memTask, carry, dispatched, stopped, lock, signal>>

\* The catch clause of executeTeamRun: load the disk, fail what is not over,
\* save; then fail the run, where an illegal transition is swallowed.
Caught ==
  /\ pc = "caught"
  /\ memRun' = diskRun
  /\ memTask' = [t \in Tasks |-> IF diskTask[t] \in TerminalTask THEN diskTask[t] ELSE "failed"]
  /\ GotoVia("save", "setCaught")
  /\ UNCHANGED <<setting, disk, carry, pending, dispatched, stopped, unit, lock, signal>>

SetCaught ==
  /\ pc = "setCaught"
  /\ IF CanTransitionRun(memRun, "failed")
     THEN diskRun' = "failed" /\ memRun' = "failed"
     ELSE UNCHANGED <<diskRun, memRun>>
  /\ Goto("done")
  /\ UNCHANGED <<setting, diskTask, memTask, carry, pending, dispatched, stopped, unit, lock, signal>>

-----------------------------------------------------------------------------
(* The environment *)

\* handleCancel from another session (forced), in one run-lock section: the
\* runner's process is not told.
Cancel ==
  /\ "cancel" \in setting.may /\ lock = {}
  /\ CanTransitionRun(diskRun, "cancelled")
  /\ diskRun' = "cancelled"
  /\ diskTask' = CancelAll(diskTask)
  /\ UNCHANGED <<runner, unit, lock, signal>>

\* The caller's signal: this session's cancel, or a SIGTERM.
Abort ==
  /\ "signal" \in setting.may /\ ~signal /\ pc # "done"
  /\ signal' = TRUE
  /\ UNCHANGED <<runner, disk, unit, lock>>

-----------------------------------------------------------------------------
RunnerStep ==
  \/ Top \/ Select \/ (\E t \in Tasks : Merge(t)) \/ Post
  \/ Save \/ CheckManifest \/ WriteManifest
  \/ SetCancelled \/ SetBlocked \/ SetFailed
  \/ Settle \/ Finalize \/ Closeout \/ Drained \/ Caught \/ SetCaught

UnitStep(t) ==
  \/ Prepare(t) \/ (\E v \in setting.verdicts : Finish(t, v)) \/ PersistVerdict(t)
  \/ Retry(t) \/ GiveUp(t)

Next ==
  \/ RunnerStep
  \/ \E t \in Tasks : UnitStep(t) \/ Heartbeat(t)
  \/ Cancel \/ Abort

Spec == Init /\ [][Next]_vars

\* The event loop serves the runner and every unit, a worker's turn is bounded
\* by its timeouts, the run lock is obtained in the end.
FairSpec == Spec /\ SF_vars(RunnerStep) /\ \A t \in Tasks : SF_vars(UnitStep(t))

-----------------------------------------------------------------------------
(* Safety *)

\* A run recorded as completed has no task left to do, in progress or failed:
\* what finalizeRun derived from the runner's copy is true of tasks.json, for
\* all the unlocked saves of runner, units and a foreign cancel.
CompletedRunSettled ==
  diskRun = "completed" => \A t \in Tasks : diskTask[t] \notin {"queued", "running", "failed"}

\* Whatever a cancel from another session overwrites or is overwritten by, the
\* runner leaves a terminal status behind: no finished run looks alive.  (An
\* abort of the caller can, and so can a retry that has read a cancel before it
\* was overwritten: a sibling's manifest write may land last.)
RunEndsTerminal ==
  /\ pc = "done"
  /\ "signal" \notin setting.may
  /\ "cancel" \notin setting.may \/ setting.attempts = 1
  => diskRun \in TerminalRun

\* The drain of the finally block: executeTeamRun never returns with a worker
\* still in flight, and the loop forgets no unit while it runs.
NoUnitOutlivesRun ==
  /\ pc = "done" => \A t \in Tasks : unit[t].stage = "none"
  /\ \A t \in Tasks : t \in pending <=> unit[t].stage # "none"

\* A worker starts, and stays at work, only while the runner holds every task
\* it depends on done, and with a plan every task of an earlier wave: no merge,
\* save or adoption of a foreign state takes a dependency back under a running
\* dependent.
WavesInOrder ==
  \A t \in Tasks : unit[t].stage \in {"prepare", "running", "persist", "backoff"} =>
    setting.deps[t] \cup (IF Planned THEN Lower(t) ELSE {}) \subseteq Done

\* A task that was ever dispatched is never marked skipped by an abort, since
\* resume does not re-queue skipped tasks (RT-NEW-2 of budget-enforcement.ts).
\* A veto is no abort: it may meet a task a foreign cancel ended, offered again.
DispatchedNeverSkipped ==
  [][(pc = "select" => pc' = "save") =>
       \A t \in dispatched : memTask'[t] = "skipped" => memTask[t] = "skipped"]_vars

\* With no foreign session and no veto, a task that is over in the runner's
\* copy stays over: no stale snapshot of a slower sibling brings it back.  Only
\* a failure whose unit is still at its retries may be taken back.
VerdictsStay ==
  [][{"cancel", "veto"} \cap setting.may = {} =>
       \A t \in Tasks :
         memTask[t] \in TerminalTask /\ ~(t \in pending /\ memTask[t] = "failed")
           => memTask'[t] \in TerminalTask]_vars

(* Liveness *)

\* executeTeamRun returns: no cancel, abort, failure or back-off leaves the
\* loop waiting or spinning.  (With a plan of waves a veto can, and so can a
\* foreign cancel that was overwritten: RunnerEndsVetoed.)
RunnerEnds ==
  (Planned => {"cancel", "veto"} \cap setting.may = {}) => <>(pc = "done")

\* Without retries and cancels, the work of a unit that settled as completed
\* is in tasks.json when the run is over, whatever happened to its siblings.
WorkKept ==
  setting.attempts = 1 /\ {"cancel", "signal"} \cap setting.may = {} =>
    \A t \in Tasks :
      (unit[t].stage = "settled" /\ unit[t].snap[t] = "completed")
        ~> (pc = "done" /\ diskTask[t] = "completed")

(* What the code's comments, tests and documents say and the code does not keep *)

\* "hook-skip: before_task_start blocking all tasks -> run terminates (no
\* deadlock)": a veto ends the run with dependencies as it does without.
RunnerEndsVetoed == <>(pc = "done")

\* "Guard here so NO raw save can erase a terminal disk status": no step takes
\* the run from a preserved status back to one that is not.
NoTerminalErased == [][(diskRun \in PreservedRun) => (diskRun' \in PreservedRun)]_vars

\* "transient hangs now retry up to maxAttempts": the run is given up over a
\* task whose unit is not in the middle of its retries.
RetriesRunOut ==
  pc = "settle" => \E t \in Tasks : memTask[t] = "failed" /\ unit[t].stage \in {"none", "settled"}
=============================================================================
