--------------------------------- MODULE Ask ---------------------------------
(***************************************************************************)
(* A worker's question to the leader.  The `ask` tool parks its task       *)
(* through the broker (crew-broker.ts, wait-resolve.ts) and polls the      *)
(* mailbox (prompt-runtime.ts); the leader's `respond` either puts a row   *)
(* into the mailbox or, when the worker looks dead, queues the task again  *)
(* with the answer injected (respond.ts); the runner sweeps parks whose    *)
(* deadline has passed (dispatch-batch.ts).  All of them write tasks.json  *)
(* and the one run-level slot manifest.waitState under the run lock, while *)
(* heartbeats are buffered and flushed without it (state-helpers.ts,       *)
(* atomic-write.ts), a worker's verdict saves the manifest as it was when  *)
(* the worker was started (post-execution.ts), and the runner saves its    *)
(* own copies after a merge (team-runner.ts).                              *)
(*                                                                         *)
(* One step of Tick is half a minute.  Deadlines are kept as the time that *)
(* is left and heartbeats as their age, so that a behaviour may go on for  *)
(* ever.  A critical section of the run lock is one step.                  *)
(***************************************************************************)
EXTENDS Contracts

CONSTANTS
  Tasks, None,
  MaxAsks,        \* bound: the questions asked in all
  MaxTimeout,     \* the longest timeout of a question, WAIT_REQUEST_TIMEOUT_SEC_MAX
  Grace,          \* PARKED_ASK_GRACE_MS
  Verdicts,       \* how a worker's task may end
  Settings        \* apart: the runner is a process of its own, away from the
                  \* broker; crash: the runner may die once; lossy: a call to
                  \* the broker may fail, or its reply be lost

ASSUME AskAssumption ==
  /\ None \notin Tasks /\ MaxAsks \in Nat /\ MaxTimeout \in Nat
  /\ Grace \in Nat /\ Grace >= MaxTimeout
  /\ Verdicts \subseteq {"completed", "failed"}
  /\ Settings \subseteq [apart : BOOLEAN, crash : BOOLEAN, lossy : BOOLEAN]

Asks == 1..MaxAsks

\* A heartbeat of this age no longer proves its worker alive (60 s).
StaleBeat == 2

Left == -(Grace + 1)..MaxTimeout
Later(l) == IF l > -(Grace + 1) THEN l - 1 ELSE l

VARIABLES
  setting,
  task,       \* tasks.json
  beat,       \* age of the heartbeat tasks.json has of each task
  slot,       \* manifest.waitState
  rows,       \* the questions the mailbox has a response row for
  staged,     \* rows a respond has decided on and not yet delivered
  worker,     \* each task's worker process
  asked,      \* questions asked so far
  runner,     \* the runner's phase and its copies of tasks and slot
  unit,       \* the runner's unit of each task
  buffer,     \* the runner's coalesced write of tasks.json
  crashes,    \* whether the runner has died or run has been resumed
  injected,   \* history: questions answered by queueing the task again
  got,        \* history: answers the asker picked up from the mailbox
  told,       \* history: answers given to a new worker at its start
  outrun,     \* history: questions asked between a flush's check and its write
  late,       \* history: questions whose row was in delivery while time passed
  overtaken,  \* history: questions injected before the task's unit had settled
  replaced    \* history: a save from an older copy has changed a park or the slot

disk == <<task, slot>>
answers == <<rows, staged, injected, got, told, outrun, late, overtaken>>
memory == <<runner, unit, buffer>>
vars == <<setting, task, beat, slot, rows, staged, worker, asked, runner, unit,
          buffer, crashes, injected, got, told, outrun, late, overtaken, replaced>>

NoSlot == [task |-> None, ask |-> 0, left |-> 0]
Slots == {NoSlot} \cup [task : Tasks, ask : Asks, left : Left]

Task(s, q, l, n) == [status |-> s, ask |-> q, left |-> l, steers |-> n]
Statuses == {"queued", "running", "waiting", "completed", "failed"}
TaskTable ==
  [Tasks -> [status : Statuses, ask : 0..MaxAsks, left : Left, steers : SUBSET Asks]]
Fresh == [t \in Tasks |-> Task("queued", 0, 0, {})]

Gone == [at |-> "none", ask |-> 0, left |-> 0]
AtWork == [at |-> "work", ask |-> 0, left |-> 0]
NoUnit == [at |-> "none", slot |-> NoSlot, tasks |-> Fresh]
NoBuffer == [task |-> None, tasks |-> Fresh, checked |-> FALSE]
Down == [phase |-> "down", tasks |-> Fresh, slot |-> NoSlot]

up == runner.phase # "down"

\* The broker lives in the session that started the run: in the runner's own
\* process, or apart from it.
BrokerUp == up \/ setting.apart

Init ==
  /\ setting \in Settings
  /\ task = Fresh /\ beat = [t \in Tasks |-> StaleBeat] /\ slot = NoSlot
  /\ rows = {} /\ staged = {} /\ asked = 0
  /\ worker = [t \in Tasks |-> Gone]
  /\ runner = [Down EXCEPT !.phase = "sweep"]
  /\ unit = [t \in Tasks |-> NoUnit] /\ buffer = NoBuffer
  /\ crashes = "none"
  /\ injected = {} /\ got = {} /\ told = {} /\ outrun = {}
  /\ late = {} /\ overtaken = {} /\ replaced = FALSE

-----------------------------------------------------------------------------
(* Parks and the slot *)

Parked(tasks, t) == tasks[t].status = "waiting" /\ tasks[t].ask # 0

\* A slot that is cleared with the park it names.
RepointClearing(tasks, cur, ended) ==
  IF cur.task \in ended THEN {NoSlot} ELSE {cur}

\* repointWaitState: when the park the slot names has ended, the slot goes to
\* the park with the latest deadline that is left, if there is one.  ended is
\* the set of tasks whose park just ended; tasks is the table without them.
Repoint(tasks, cur, ended) ==
  LET open == {t \in Tasks : Parked(tasks, t) /\ t \notin ended}
      last == {t \in open : \A u \in open : tasks[u].left <= tasks[t].left}
  IN IF cur.task \notin ended THEN {cur}
     ELSE IF open = {} THEN {NoSlot}
     ELSE {[task |-> t, ask |-> tasks[t].ask, left |-> tasks[t].left] : t \in last}

\* A buffered write that nothing stops.
SupersededNever == buffer

\* A write of tasks.json by another hand: the buffered one is cancelled, or
\* found stale when it is about to be flushed, unless that check is behind it.
Superseded == IF buffer.checked THEN buffer ELSE NoBuffer

\* isWaitingWorkerAlive.
LooksAlive(t) == beat[t] < StaleBeat

\* isWaitAnswerPending.
Shielded == slot # NoSlot /\ slot.left + Grace >= 0

-----------------------------------------------------------------------------
(* The worker *)

\* wait.request for n steps of time.  The slot stays with another task's park
\* that is still open and has more time left.  The worker may never see the
\* broker's reply and then goes on with its work.
Ask(t, n, heard) ==
  LET q == asked + 1
      keep == /\ slot # NoSlot /\ slot.left > n /\ slot.task # t
              /\ Parked(task, slot.task) /\ task[slot.task].ask = slot.ask
  IN /\ BrokerUp /\ worker[t].at = "work" /\ asked < MaxAsks
     /\ heard \/ setting.lossy
     /\ task[t].status = "running"
     /\ task' = [task EXCEPT ![t] = Task("waiting", q, n, @.steers)]
     /\ slot' = IF keep THEN slot ELSE [task |-> t, ask |-> q, left |-> n]
     /\ worker' = [worker EXCEPT ![t] =
                     IF heard THEN [at |-> "poll", ask |-> q, left |-> n] ELSE @]
     /\ asked' = q
     /\ buffer' = Superseded
     /\ outrun' = IF buffer.checked THEN outrun \cup {q} ELSE outrun
     /\ UNCHANGED <<setting, beat, rows, staged, injected, got, told, late, overtaken, runner,
                    unit, crashes, replaced>>

\* The tool's loop looks for the answer first and at the deadline second.
PickUp(t) ==
  /\ worker[t].at = "poll" /\ worker[t].ask \in rows
  /\ worker' = [worker EXCEPT ![t].at = "resolve"]
  /\ got' = got \cup {worker[t].ask}
  /\ UNCHANGED <<setting, disk, beat, rows, staged, injected, told, outrun, late, overtaken,
                 asked, memory, crashes, replaced>>

Expire(t) ==
  /\ worker[t].at = "poll" /\ worker[t].ask \notin rows /\ worker[t].left <= 0
  /\ worker' = [worker EXCEPT ![t].at = "resolve"]
  /\ UNCHANGED <<setting, disk, beat, answers, asked, memory, crashes, replaced>>

\* wait.resolve: refused, with nothing cleared, unless the task is parked on
\* that very question.
Resolve(t) ==
  LET q == worker[t].ask
  IN /\ BrokerUp /\ worker[t].at = "resolve"
     /\ worker' = [worker EXCEPT ![t] = AtWork]
     /\ IF Parked(task, t) /\ task[t].ask = q
        THEN /\ task' = [task EXCEPT ![t] = Task("running", 0, 0, @.steers)]
             /\ slot' \in IF slot.ask = q THEN Repoint(task', slot, {t}) ELSE {slot}
             /\ buffer' = Superseded
        ELSE UNCHANGED <<disk, buffer>>
     /\ UNCHANGED <<setting, beat, answers, asked, runner, unit, crashes, replaced>>

\* Best effort: a call that fails leaves the task parked, and the worker goes on.
ResolveLost(t) ==
  /\ worker[t].at = "resolve" /\ (setting.lossy \/ ~BrokerUp)
  /\ worker' = [worker EXCEPT ![t] = AtWork]
  /\ UNCHANGED <<setting, disk, beat, answers, asked, memory, crashes, replaced>>

\* The process ends, with its work or before.
Exit(t) ==
  /\ worker[t].at # "none"
  /\ worker' = [worker EXCEPT ![t] = Gone]
  /\ UNCHANGED <<setting, disk, beat, answers, asked, memory, crashes, replaced>>

-----------------------------------------------------------------------------
(* The leader *)

\* The park a respond to t finds: the one in tasks.json, or the one it puts
\* back there from the slot when tasks.json says the task is at work.
Healed(t) ==
  IF /\ ~Parked(task, t) /\ slot.task = t /\ slot.left > 0 /\ task[t].status = "running"
  THEN [task EXCEPT ![t] = Task("waiting", slot.ask, slot.left, @.steers)]
  ELSE task

\* A worker that looks alive gets a row, after the lock is free again.
RespondAlive(t) ==
  LET found == Healed(t) IN
  /\ Parked(found, t) /\ found[t].ask \notin rows /\ LooksAlive(t)
  /\ staged' = staged \cup {found[t].ask}
  /\ task' = found
  /\ buffer' = IF found = task THEN buffer ELSE Superseded
  /\ UNCHANGED <<setting, slot, beat, rows, injected, got, told, outrun, late, overtaken,
                 worker, asked, runner, unit, crashes, replaced>>

\* An answer to a dead worker's task whatever the mailbox already has.
RespondDeadTwice(t) ==
  LET found == Healed(t)
      q == found[t].ask
  IN /\ Parked(found, t) /\ ~LooksAlive(t)
     /\ task' = [found EXCEPT ![t] = Task("queued", 0, 0, @.steers \cup {q})]
     /\ slot' \in Repoint(task', slot, {t})
     /\ injected' = injected \cup {q}
     /\ overtaken' = IF unit[t].at = "work" THEN overtaken \cup {q} ELSE overtaken
     /\ buffer' = Superseded
     /\ UNCHANGED <<setting, beat, rows, staged, got, told, outrun, late, worker, asked,
                    runner, unit, crashes, replaced>>

\* The task of a dead one is queued again with the answer, and its park ends.
RespondDead(t) ==
  LET found == Healed(t)
      q == found[t].ask
  IN /\ Parked(found, t) /\ q \notin rows /\ ~LooksAlive(t)
     /\ task' = [found EXCEPT ![t] = Task("queued", 0, 0, @.steers \cup {q})]
     /\ slot' \in Repoint(task', slot, {t})
     /\ injected' = injected \cup {q}
     /\ overtaken' = IF unit[t].at = "work" THEN overtaken \cup {q} ELSE overtaken
     /\ buffer' = Superseded
     /\ UNCHANGED <<setting, beat, rows, staged, got, told, outrun, late, worker, asked,
                    runner, unit, crashes, replaced>>

\* With the row there already nothing more is done, and nothing at all for a
\* task u that does not wait; but the park the slot names is put back.
RespondAgain(t) ==
  LET found == Healed(t) IN
  /\ found # task
  /\ found[t].ask \in rows \/ \E u \in Tasks \ {t} : task[u].status # "waiting"
  /\ task' = found
  /\ buffer' = Superseded
  /\ UNCHANGED <<setting, beat, slot, answers, worker, asked, runner, unit, crashes, replaced>>

\* An append with the question as its idempotency key, by a call over the
\* network that may take its time.
Deliver(q) ==
  /\ q \in staged
  /\ staged' = staged \ {q} /\ rows' = rows \cup {q}
  /\ late' = IF q \in injected THEN late ELSE late \ {q}
  /\ UNCHANGED <<setting, disk, beat, injected, got, told, outrun, overtaken, worker, asked,
                 memory, crashes, replaced>>

-----------------------------------------------------------------------------
(* The runner: heartbeats and their buffered writes *)

Running(t) == up /\ unit[t].at = "work"

\* Between the check of a buffered write and the write itself the runner does
\* nothing else.
Undistracted == up /\ ~buffer.checked

\* A heartbeat that replaces the record, park and all.
WithOwnBlind(tasks, t) ==
  [tasks EXCEPT ![t] = Task(PersistOwn("running", "running"), 0, 0, {})]

\* persistSingleTaskUpdate of a heartbeat: the unit's copy of its own task, at
\* work since it was started, over what tasks.json has; a park there survives
\* (mergeTaskUpdateWithDisk).  The unit's copy has no steers left.
WithOwn(tasks, t) ==
  LET s == PersistOwn(tasks[t].status, "running")
  IN [tasks EXCEPT ![t] = IF s = "waiting" THEN [@ EXCEPT !.steers = {}]
                          ELSE Task(s, 0, 0, {})]

Pulse(t) ==
  /\ Undistracted /\ Running(t) /\ worker[t].at # "none"
  /\ beat[t] # 0 /\ buffer = NoBuffer
  /\ buffer' = [task |-> t, tasks |-> WithOwn(task, t), checked |-> FALSE]
  /\ UNCHANGED <<setting, disk, beat, answers, worker, asked, runner, unit, crashes, replaced>>

\* The flush of the buffer looks at the file's time and size, and then writes.
\* Only a writer in another process gets between the two.
FlushCheck ==
  /\ Undistracted /\ setting.apart /\ buffer # NoBuffer
  /\ buffer' = [buffer EXCEPT !.checked = TRUE]
  /\ UNCHANGED <<setting, disk, beat, answers, worker, asked, runner, unit, crashes, replaced>>

Flush ==
  /\ up /\ buffer # NoBuffer /\ (buffer.checked \/ ~setting.apart)
  /\ task' = buffer.tasks
  /\ beat' = [beat EXCEPT ![buffer.task] = 0]
  /\ buffer' = NoBuffer
  /\ replaced' = (replaced \/ \E t \in Tasks :
                    /\ buffer.tasks[t] # task[t]
                    /\ \/ Parked(buffer.tasks, t)
                       \/ t # buffer.task /\ buffer.tasks[t].steers # task[t].steers)
  /\ UNCHANGED <<setting, slot, answers, worker, asked, runner, unit, crashes>>

-----------------------------------------------------------------------------
(* The runner: its loop *)

Expired(t) == Parked(task, t) /\ task[t].left <= 0

\* sweepExpiredWaitingTasks, at the head of every turn of the loop, and only if
\* the runner's own copy shows a park that is over: an expired park of a dead
\* worker is queued again, and the runner's copy is what tasks.json has.
Sweep ==
  LET hint == \E t \in Tasks : Parked(runner.tasks, t) /\ runner.tasks[t].left <= 0
      dead == {t \in Tasks : Expired(t) /\ ~LooksAlive(t)}
      swept == [t \in Tasks |-> IF t \in dead THEN Task("queued", 0, 0, task[t].steers)
                                ELSE task[t]]
  IN /\ Undistracted /\ runner.phase = "sweep"
     /\ IF hint /\ \E t \in Tasks : Expired(t)
        THEN /\ task' = swept
             /\ slot' \in Repoint(swept, slot, dead)
             /\ runner' = [phase |-> "select", tasks |-> swept, slot |-> slot']
             /\ buffer' = IF dead = {} THEN buffer ELSE NoBuffer
        ELSE /\ runner' = [runner EXCEPT !.phase = "select"]
             /\ UNCHANGED <<disk, buffer>>
     /\ UNCHANGED <<setting, beat, answers, worker, asked, unit, crashes, replaced>>

\* A unit starts: the task goes to work with a heartbeat, and the new worker
\* gets the steers the runner's copy has.
Dispatch(t) ==
  /\ Undistracted /\ runner.phase = "select" /\ buffer = NoBuffer
  /\ runner.tasks[t].status = "queued" /\ unit[t].at = "none" /\ worker[t].at = "none"
  /\ task' = WithOwn(task, t)
  /\ beat' = [beat EXCEPT ![t] = 0]
  /\ worker' = [worker EXCEPT ![t] = AtWork]
  /\ told' = told \cup runner.tasks[t].steers
  /\ runner' = [runner EXCEPT !.tasks[t] = Task("running", 0, 0, {})]
  /\ unit' = [unit EXCEPT ![t] = [NoUnit EXCEPT !.at = "work", !.slot = runner.slot]]
  /\ UNCHANGED <<setting, slot, rows, staged, injected, got, outrun, late, overtaken, asked,
                 buffer, crashes, replaced>>

\* Nothing left to start: what the runner still has as queued is in flight.
Idle == \A t \in Tasks : runner.tasks[t].status = "queued" => unit[t].at # "none"

\* The worker's process has ended, and its unit writes the verdict: the
\* manifest as it was when the unit was started, and over any park of its own
\* the final status; it keeps the table it has written.
SettledTask(t, v) == Task(PersistOwn(task[t].status, v), 0, 0, {})

Settle(t, v) ==
  /\ Undistracted /\ buffer = NoBuffer /\ Running(t) /\ worker[t].at = "none"
  /\ task' = [task EXCEPT ![t] = SettledTask(t, v)]
  /\ slot' = unit[t].slot
  /\ unit' = [unit EXCEPT ![t] = [at |-> "settled", slot |-> NoSlot, tasks |-> task']]
  /\ replaced' = (replaced \/ slot' # slot)
  /\ UNCHANGED <<setting, beat, answers, worker, asked, runner, buffer, crashes>>

\* mergeUnitResult: over what the disk has, every record of the unit's table,
\* the siblings' too, that the merge gate lets through.
Merged(t) ==
  [u \in Tasks |->
     LET upd == unit[t].tasks[u]
     IN IF MergeTask(task[u].status, upd.status, u = t) = upd.status THEN upd ELSE task[u]]

Merge(t) ==
  /\ Undistracted /\ buffer = NoBuffer /\ runner.phase = "select" /\ Idle /\ unit[t].at = "settled"
  /\ task' = Merged(t)
  /\ runner' = [phase |-> "tasks", tasks |-> Merged(t), slot |-> slot]
  /\ unit' = [unit EXCEPT ![t] = NoUnit]
  /\ replaced' = (replaced \/ task' # task)
  /\ UNCHANGED <<setting, slot, beat, answers, worker, asked, buffer, crashes>>

\* What follows a merge is saved without the lock, tasks first.
SaveTasks ==
  /\ Undistracted /\ runner.phase = "tasks"
  /\ task' = runner.tasks
  /\ replaced' = (replaced \/ task' # task)
  /\ runner' = [runner EXCEPT !.phase = "manifest"]
  /\ buffer' = NoBuffer
  /\ UNCHANGED <<setting, slot, beat, answers, worker, asked, unit, crashes>>

SaveManifest ==
  /\ Undistracted /\ runner.phase = "manifest"
  /\ slot' = runner.slot
  /\ replaced' = (replaced \/ slot' # slot)
  /\ runner' = [runner EXCEPT !.phase = "sweep"]
  /\ UNCHANGED <<setting, task, beat, answers, worker, asked, unit, buffer, crashes>>

\* Nothing queued and nobody at work: the run ends, saving the runner's copies,
\* with the final statuses it finds on disk.
Finish ==
  /\ Undistracted /\ buffer = NoBuffer /\ runner.phase = "select" /\ Idle
  /\ \A t \in Tasks : unit[t].at = "none"
  /\ task' = [t \in Tasks |-> IF task[t].status \in TerminalTask THEN task[t]
                               ELSE runner.tasks[t]]
  /\ slot' = runner.slot
  /\ replaced' = (replaced \/ task' # task \/ slot' # slot)
  /\ runner' = Down /\ crashes' = "over"
  /\ UNCHANGED <<setting, beat, answers, worker, asked, unit, buffer>>

-----------------------------------------------------------------------------
(* Crash, repair, resume, and time *)

\* What the runner had in memory is lost; the workers go on for a while.
Crash ==
  /\ up /\ setting.crash /\ crashes = "none"
  /\ runner' = Down
  /\ unit' = [t \in Tasks |-> NoUnit] /\ buffer' = NoBuffer
  /\ crashes' = "crashed"
  /\ UNCHANGED <<setting, disk, beat, answers, worker, asked, replaced>>

\* applyReconcileAtOpenFastPath, for a runner that had a process of its own:
\* unless a question shields the run, what was at work or parked is queued.
Reconcile ==
  LET open == {t \in Tasks : task[t].status \in {"running", "waiting"}}
  IN /\ crashes = "crashed" /\ setting.apart /\ ~Shielded /\ open # {}
     /\ task' = [t \in Tasks |-> IF t \in open THEN Task("queued", 0, 0, task[t].steers)
                                  ELSE task[t]]
     /\ beat' = [t \in Tasks |-> IF t \in open THEN StaleBeat ELSE beat[t]]
     /\ UNCHANGED <<setting, slot, answers, worker, asked, memory, crashes, replaced>>

\* A resume that starts its tasks from nothing.
ResumeAfresh ==
  LET again == [t \in Tasks |->
                  IF task[t].status \in {"failed", "running", "queued"}
                  THEN Task("queued", 0, 0, {}) ELSE task[t]]
  IN /\ crashes = "crashed"
     /\ task' = again
     /\ runner' = [phase |-> "sweep", tasks |-> again, slot |-> slot]
     /\ crashes' = "resumed"
     /\ UNCHANGED <<setting, slot, beat, answers, worker, asked, unit, buffer, replaced>>

\* handleResume: all but what is complete or parked is queued again.
Resume ==
  LET again == [t \in Tasks |->
                  IF task[t].status \in {"failed", "running"}
                  THEN Task("queued", 0, 0, task[t].steers) ELSE task[t]]
  IN /\ crashes = "crashed"
     /\ task' = again
     /\ runner' = [phase |-> "sweep", tasks |-> again, slot |-> slot]
     /\ crashes' = "resumed"
     /\ UNCHANGED <<setting, slot, beat, answers, worker, asked, unit, buffer, replaced>>

Aged(tasks) == [t \in Tasks |-> IF tasks[t].ask = 0 THEN tasks[t]
                                ELSE [tasks[t] EXCEPT !.left = Later(@)]]
AgedSlot(s) == IF s = NoSlot THEN s ELSE [s EXCEPT !.left = Later(@)]

\* What happens well within half a minute: the tool's poll and its report, the
\* heartbeat of a worker that runs, and what the runner does between its waits.
\* A staged row's delivery and the verification of a worker's result, which no
\* heartbeat goes along with, may take longer.
Prompt ==
  /\ buffer = NoBuffer
  /\ \A t \in Tasks :
       /\ worker[t].at # "resolve"
       /\ worker[t].at = "poll" => worker[t].ask \notin rows /\ worker[t].left > 0
       /\ Running(t) /\ worker[t].at # "none" => beat[t] = 0
  /\ runner.phase \in {"select", "down"} /\ ~buffer.checked
  /\ \A t \in Tasks :
       /\ unit[t].at # "settled"
       /\ up /\ runner.tasks[t].status = "queued" /\ unit[t].at = "none"
            => worker[t].at # "none"
  /\ (up /\ Idle) => \E t \in Tasks : unit[t].at # "none"

Tick ==
  /\ Prompt
  /\ task' = Aged(task) /\ slot' = AgedSlot(slot)
  /\ beat' = [t \in Tasks |-> IF beat[t] < StaleBeat THEN beat[t] + 1 ELSE StaleBeat]
  /\ worker' = [t \in Tasks |-> IF worker[t].at = "poll"
                                 THEN [worker[t] EXCEPT !.left = Later(@)] ELSE worker[t]]
  /\ runner' = [runner EXCEPT !.tasks = Aged(@), !.slot = AgedSlot(@)]
  /\ unit' = [t \in Tasks |-> [unit[t] EXCEPT !.slot = AgedSlot(@)]]
  /\ late' = late \cup staged
  /\ UNCHANGED <<setting, rows, staged, injected, got, told, outrun, overtaken, asked, buffer,
                 crashes, replaced>>

WorkerStep(t) ==
  \/ \E n \in 1..MaxTimeout, heard \in BOOLEAN : Ask(t, n, heard)
  \/ PickUp(t) \/ Expire(t) \/ Resolve(t) \/ ResolveLost(t) \/ Exit(t)

LeaderStep ==
  \/ \E t \in Tasks : RespondAlive(t) \/ RespondDead(t) \/ RespondAgain(t)
  \/ \E q \in Asks : Deliver(q)

LoopStep ==
  \/ FlushCheck \/ Flush
  \/ \E t \in Tasks : Dispatch(t) \/ Merge(t)
  \/ \E t \in Tasks, v \in Verdicts : Settle(t, v)
  \/ Sweep \/ SaveTasks \/ SaveManifest \/ Finish

Next ==
  \/ \E t \in Tasks : WorkerStep(t) \/ Pulse(t)
  \/ LeaderStep \/ LoopStep
  \/ Crash \/ Reconcile \/ Resume \/ Tick

Spec == Init /\ [][Next]_vars

-----------------------------------------------------------------------------
(* Properties *)

\* Everything keeps its shape.
TypeOK ==
  /\ setting \in Settings
  /\ task \in TaskTable /\ beat \in [Tasks -> 0..StaleBeat] /\ slot \in Slots
  /\ rows \subseteq Asks /\ staged \subseteq Asks /\ asked \in 0..MaxAsks
  /\ worker \in [Tasks -> [at : {"none", "work", "poll", "resolve"},
                            ask : 0..MaxAsks, left : Left]]
  /\ runner \in [phase : {"down", "sweep", "select", "tasks", "manifest"},
                  tasks : TaskTable, slot : Slots]
  /\ unit \in [Tasks -> [at : {"none", "work", "settled"}, slot : Slots, tasks : TaskTable]]
  /\ buffer \in [task : Tasks \cup {None}, tasks : TaskTable, checked : BOOLEAN]
  /\ crashes \in {"none", "crashed", "resumed", "over"}
  /\ injected \subseteq Asks /\ got \subseteq Asks /\ told \subseteq Asks
  /\ outrun \subseteq Asks /\ late \subseteq Asks /\ overtaken \subseteq Asks
  /\ replaced \in BOOLEAN

\* The slot is the one thing that keeps recovery away from a run whose workers
\* wait in silence: as long as any park has time left, it outlasts that park
\* (wait-resolve.ts:39-45).
ParksShielded ==
  ~replaced => \A t \in Tasks :
    Parked(task, t) => slot # NoSlot /\ slot.left + Grace >= task[t].left

\* A question is answered through the mailbox or by a fresh start of its task,
\* never both (respond.ts, EXACTLY-ONE-DISPATCH), but for a question whose row
\* was still on its way while time passed: respond delivers after it has let go
\* of the lock, and a second respond may find the worker dead before the row is
\* there.
AnsweredOnce == ~replaced => injected \cap (got \cup rows \cup staged) \subseteq late

\* As long as the tool polls and its time is not up, an answer finds its park,
\* in tasks.json or, when a flush has written over it, by way of the slot if
\* that still names it.
Answerable ==
  \A t \in Tasks :
    worker[t].at = "poll" /\ worker[t].left > 0 /\ ~replaced
      => \/ worker[t].ask \in injected
         \/ Healed(t)[t].ask = worker[t].ask
         \/ worker[t].ask \in outrun /\ ~(slot.task = t /\ task[t].status = "running")

\* An answer given to a task that was queued again waits there until a new
\* worker has been told.  The task must not have a unit that still verifies its
\* dead worker's result: the verdict of that unit is written over the answer
\* (post-execution.ts:998-1001).
InjectedKept ==
  ~replaced =>
    \A q \in injected \ (told \cup overtaken) : \E t \in Tasks : q \in task[t].steers
=============================================================================
