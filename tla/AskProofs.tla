------------------------------ MODULE AskProofs ------------------------------
(***************************************************************************)
(* What holds of Ask for any number of tasks and questions, any timeouts   *)
(* and any grace period that is at least the longest timeout: its state    *)
(* keeps its shape, and, until a save from an older copy intervenes, a park *)
(* with time left is shielded from recovery, a question is answered in one *)
(* way only, the answer to a tool that polls finds its park, and an answer *)
(* given to a queued task waits for the next worker.                       *)
(***************************************************************************)
EXTENDS Ask, TLAPS

Row == [status : Statuses, ask : 0..MaxAsks, left : Left, steers : SUBSET Asks]
Worker == [at : {"none", "work", "poll", "resolve"}, ask : 0..MaxAsks, left : Left]
Unit == [at : {"none", "work", "settled"}, slot : Slots, tasks : TaskTable]
Runner == [phase : {"down", "sweep", "select", "tasks", "manifest"},
           tasks : TaskTable, slot : Slots]
Buffer == [task : Tasks \cup {None}, tasks : TaskTable, checked : BOOLEAN]

\* Time that passes leaves a deadline in its range.
LEMMA LeftRange ==
  /\ 0 \in Left
  /\ \A l \in Left : l \in Int /\ Later(l) \in Left /\ Later(l) \in Int
  /\ 1..MaxTimeout \subseteq Left
BY AskAssumption DEF Left, Later

\* The rows that handlers write are rows.
LEMMA RowType ==
  ASSUME NEW s \in Statuses, NEW n \in SUBSET Asks
  PROVE  /\ Task(s, 0, 0, n) \in Row
         /\ \A q \in Asks, l \in Left : Task(s, q, l, n) \in Row
BY LeftRange, AskAssumption DEF Task, Row, Asks

LEMMA FreshType == Fresh \in TaskTable /\ NoSlot \in Slots
<1>1. Task("queued", 0, 0, {}) \in Row
  BY RowType DEF Statuses
<1> QED
  BY <1>1 DEF Fresh, TaskTable, Row, Slots

LEMMA ConstTypes ==
  /\ NoUnit \in Unit /\ NoBuffer \in Buffer /\ Down \in Runner
  /\ Gone \in Worker /\ AtWork \in Worker
BY FreshType, LeftRange, AskAssumption
   DEF NoUnit, NoBuffer, Down, Gone, AtWork, Unit, Buffer, Runner, Worker

\* A table with one row exchanged is a table.
LEMMA TableExcept ==
  ASSUME NEW tasks \in TaskTable, NEW t \in Tasks, NEW r \in Row
  PROVE  [tasks EXCEPT ![t] = r] \in TaskTable
BY DEF TaskTable, Row

LEMMA RowOf ==
  ASSUME NEW tasks \in TaskTable, NEW t \in Tasks
  PROVE  /\ tasks[t] \in Row /\ tasks[t].status \in Statuses
         /\ tasks[t].ask \in 0..MaxAsks
         /\ tasks[t].left \in Left /\ tasks[t].steers \in SUBSET Asks
BY DEF TaskTable, Row

\* What a re-pointed slot may be: itself, empty, or an open park with the
\* latest deadline.
LEMMA RepointType ==
  ASSUME NEW tasks \in TaskTable, NEW cur \in Slots, NEW ended \in SUBSET Tasks,
         NEW s \in Repoint(tasks, cur, ended)
  PROVE  s \in Slots
<1>1. CASE cur.task \notin ended
  BY <1>1 DEF Repoint
<1>2. CASE cur.task \in ended
  <2>1. CASE s = NoSlot
    BY <2>1, FreshType
  <2>2. CASE s # NoSlot
    <3>1. PICK t \in Tasks : /\ Parked(tasks, t)
                             /\ s = [task |-> t, ask |-> tasks[t].ask, left |-> tasks[t].left]
      BY <1>2, <2>2 DEF Repoint
    <3>2. tasks[t].ask \in Asks /\ tasks[t].left \in Left
      BY <3>1, RowOf, AskAssumption DEF Parked, Asks
    <3> QED
      BY <3>1, <3>2 DEF Slots
  <2> QED BY <2>1, <2>2
<1> QED BY <1>1, <1>2

\* A slot that names a task is a full one.
LEMMA SlotOf ==
  ASSUME NEW s \in Slots, s # NoSlot
  PROVE  s.task \in Tasks /\ s.ask \in Asks /\ s.left \in Left
BY DEF Slots

LEMMA SlotNames ==
  ASSUME NEW s \in Slots, s.task \in Tasks
  PROVE  s # NoSlot
BY AskAssumption DEF Slots, NoSlot

LEMMA AgedType ==
  /\ \A tasks \in TaskTable : Aged(tasks) \in TaskTable
  /\ \A s \in Slots : AgedSlot(s) \in Slots
<1>1. ASSUME NEW tasks \in TaskTable PROVE Aged(tasks) \in TaskTable
  <2>1. ASSUME NEW t \in Tasks PROVE [tasks[t] EXCEPT !.left = Later(@)] \in Row
    BY <1>1, <2>1, RowOf, LeftRange DEF Row
  <2> QED BY <1>1, <2>1, RowOf DEF Aged, TaskTable, Row
<1>2. ASSUME NEW s \in Slots PROVE AgedSlot(s) \in Slots
  BY <1>2, LeftRange DEF AgedSlot, Slots
<1> QED BY <1>1, <1>2

\* What a heartbeat makes of a table.
LEMMA OwnType ==
  ASSUME NEW tasks \in TaskTable, NEW t \in Tasks
  PROVE  WithOwn(tasks, t) \in TaskTable
<1> DEFINE s == PersistOwn(tasks[t].status, "running")
<1>1. s \in Statuses
  BY RowOf DEF PersistOwn, Statuses
<1>2. Task(s, 0, 0, {}) \in Row
  BY <1>1, RowType
<1>3. [tasks[t] EXCEPT !.steers = {}] \in Row
  BY RowOf DEF Row
<1> HIDE DEF s
<1>4. WithOwn(tasks, t) = IF s = "waiting" THEN [tasks EXCEPT ![t] = [tasks[t] EXCEPT !.steers = {}]]
                          ELSE [tasks EXCEPT ![t] = Task(s, 0, 0, {})]
  BY DEF WithOwn, s, TaskTable
<1> QED BY <1>2, <1>3, <1>4, TableExcept

LEMMA HealedType ==
  ASSUME TypeOK, NEW t \in Tasks
  PROVE  Healed(t) \in TaskTable
<1> USE DEF TypeOK
<1>1. CASE Healed(t) = task
  BY <1>1
<1>2. CASE Healed(t) # task
  <2>1. slot.task = t
    BY <1>2 DEF Healed
  <2>2. slot.ask \in Asks /\ slot.left \in Left
    BY <2>1, SlotNames, SlotOf
  <2> DEFINE r == Task("waiting", slot.ask, slot.left, task[t].steers)
  <2>3. r \in Row
    BY <2>2, RowType, RowOf DEF Statuses
  <2>4. Healed(t) = [task EXCEPT ![t] = r]
    BY <1>2 DEF Healed, TaskTable
  <2>5. task \in TaskTable
    OBVIOUS
  <2> HIDE DEF r
  <2>6. [task EXCEPT ![t] = r] \in TaskTable
    BY <2>3, <2>5, TableExcept
  <2> QED BY <2>4, <2>6
<1> QED BY <1>1, <1>2

LEMMA SupersededType == TypeOK => Superseded \in Buffer
BY ConstTypes DEF TypeOK, Superseded, Buffer

LEMMA MergedType == TypeOK => \A t \in Tasks : Merged(t) \in TaskTable
BY DEF TypeOK, Merged, TaskTable

-----------------------------------------------------------------------------
(* The state keeps its shape *)

LEMMA InitType == Init => TypeOK
<1> SUFFICES ASSUME Init PROVE TypeOK
  OBVIOUS
<1>1. runner \in Runner
  BY FreshType DEF Init, Runner, Down
<1>2. worker \in [Tasks -> Worker] /\ unit \in [Tasks -> Unit] /\ buffer \in Buffer
  BY ConstTypes DEF Init
<1>3. beat \in [Tasks -> 0..StaleBeat] /\ task \in TaskTable /\ slot \in Slots
  BY FreshType DEF Init, StaleBeat
<1>4. /\ setting \in Settings /\ asked \in 0..MaxAsks /\ crashes = "none"
      /\ rows = {} /\ staged = {} /\ injected = {} /\ got = {} /\ told = {} /\ outrun = {}
      /\ late = {} /\ overtaken = {} /\ replaced = FALSE
  BY AskAssumption DEF Init
<1> QED
  BY <1>1, <1>2, <1>3, <1>4 DEF TypeOK, Runner, Worker, Unit, Buffer

LEMMA WorkerType ==
  ASSUME TypeOK, NEW t \in Tasks, WorkerStep(t)
  PROVE  TypeOK'
<1> USE DEF TypeOK
<1>1. ASSUME NEW n \in 1..MaxTimeout, NEW heard \in BOOLEAN, Ask(t, n, heard)
      PROVE  TypeOK'
  <2> DEFINE r == Task("waiting", asked + 1, n, task[t].steers)
  <2>1. asked + 1 \in Asks /\ n \in Left
    BY <1>1, LeftRange, AskAssumption DEF Ask, Asks
  <2>2. r \in Row
    BY <2>1, RowType, RowOf DEF Statuses
  <2>3. task' = [task EXCEPT ![t] = r]
    BY <1>1 DEF Ask, TaskTable
  <2> HIDE DEF r
  <2>4. task' \in TaskTable
    BY <2>2, <2>3, TableExcept
  <2>5. slot' \in Slots
    BY <1>1, <2>1 DEF Ask, Slots
  <2>6. worker' \in [Tasks -> Worker]
    BY <1>1, <2>1, AskAssumption DEF Ask, Worker, Asks
  <2>7. buffer' \in Buffer
    BY <1>1, SupersededType DEF Ask
  <2>8. asked' \in 0..MaxAsks /\ outrun' \subseteq Asks
    BY <1>1, <2>1, AskAssumption DEF Ask, Asks
  <2> QED
    BY <1>1, <2>4, <2>5, <2>6, <2>7, <2>8 DEF Ask, Worker, Buffer
<1>2. CASE PickUp(t)
  <2>1. worker[t].ask \in Asks
    BY <1>2 DEF PickUp
  <2>2. worker' \in [Tasks -> Worker]
    BY <1>2 DEF PickUp, Worker
  <2> QED BY <1>2, <2>1, <2>2 DEF PickUp, Worker, disk, memory
<1>3. CASE Expire(t)
  <2>1. worker' \in [Tasks -> Worker]
    BY <1>3 DEF Expire, Worker
  <2> QED BY <1>3, <2>1 DEF Expire, Worker, disk, memory, answers
<1>4. CASE Resolve(t)
  <2> DEFINE r == Task("running", 0, 0, task[t].steers)
  <2>1. worker' \in [Tasks -> Worker]
    BY <1>4, ConstTypes DEF Resolve, Worker
  <2>2. r \in Row
    BY RowType, RowOf DEF Statuses
  <2>3. task' = task \/ task' = [task EXCEPT ![t] = r]
    BY <1>4 DEF Resolve, TaskTable, disk
  <2> HIDE DEF r
  <2>4. task' \in TaskTable
    BY <2>2, <2>3, TableExcept
  <2>5. slot' = slot \/ slot' \in Repoint(task', slot, {t})
    BY <1>4 DEF Resolve, disk
  <2>6. slot' \in Slots
    BY <2>4, <2>5, RepointType
  <2>7. buffer' \in Buffer
    BY <1>4, SupersededType DEF Resolve, Buffer
  <2> QED
    BY <1>4, <2>1, <2>4, <2>6, <2>7 DEF Resolve, Worker, Buffer, answers
<1>5. CASE ResolveLost(t)
  <2>1. worker' \in [Tasks -> Worker]
    BY <1>5, ConstTypes DEF ResolveLost, Worker
  <2> QED BY <1>5, <2>1 DEF ResolveLost, Worker, disk, memory, answers
<1>6. CASE Exit(t)
  <2>1. worker' \in [Tasks -> Worker]
    BY <1>6, ConstTypes DEF Exit, Worker
  <2> QED BY <1>6, <2>1 DEF Exit, Worker, disk, memory, answers
<1> QED BY <1>1, <1>2, <1>3, <1>4, <1>5, <1>6 DEF WorkerStep

LEMMA LeaderType ==
  ASSUME TypeOK, LeaderStep
  PROVE  TypeOK'
<1> USE DEF TypeOK
<1>1. ASSUME NEW t \in Tasks, RespondAlive(t) PROVE TypeOK'
  <2>1. Healed(t) \in TaskTable
    BY HealedType
  <2>2. Healed(t)[t].ask \in Asks
    BY <1>1, <2>1, RowOf, AskAssumption DEF RespondAlive, Parked, Asks
  <2>3. buffer' \in Buffer
    BY <1>1, SupersededType DEF RespondAlive, Buffer
  <2> QED BY <1>1, <2>1, <2>2, <2>3 DEF RespondAlive, Buffer
<1>2. ASSUME NEW t \in Tasks, RespondDead(t) PROVE TypeOK'
  <2> DEFINE found == Healed(t)
             r == Task("queued", 0, 0, found[t].steers \cup {found[t].ask})
  <2>1. found \in TaskTable
    BY HealedType
  <2>2. found[t].ask \in Asks
    BY <1>2, <2>1, RowOf, AskAssumption DEF RespondDead, Parked, Asks
  <2>3. r \in Row
    BY <2>1, <2>2, RowType, RowOf DEF Statuses
  <2>4. task' = [found EXCEPT ![t] = r]
    BY <1>2, <2>1 DEF RespondDead, TaskTable
  <2>5. slot' \in Repoint(task', slot, {t}) /\ injected' = injected \cup {found[t].ask}
    BY <1>2 DEF RespondDead
  <2>6. buffer' \in Buffer
    BY <1>2, SupersededType DEF RespondDead
  <2> HIDE DEF r, found
  <2>7. task' \in TaskTable
    BY <2>1, <2>3, <2>4, TableExcept
  <2>8. slot' \in Slots
    BY <2>5, <2>7, RepointType
  <2> QED
    BY <1>2, <2>2, <2>5, <2>6, <2>7, <2>8 DEF RespondDead, Buffer
<1>3. ASSUME NEW t \in Tasks, RespondAgain(t) PROVE TypeOK'
  <2>1. task' \in TaskTable
    BY <1>3, HealedType DEF RespondAgain
  <2>2. buffer' \in Buffer
    BY <1>3, SupersededType DEF RespondAgain
  <2> QED BY <1>3, <2>1, <2>2 DEF RespondAgain, Buffer, answers
<1>4. ASSUME NEW q \in Asks, Deliver(q) PROVE TypeOK'
  BY <1>4 DEF Deliver, disk, memory
<1> QED BY <1>1, <1>2, <1>3, <1>4 DEF LeaderStep
LEMMA LoopType ==
  ASSUME TypeOK, LoopStep
  PROVE  TypeOK'
<1> USE DEF TypeOK
<1>1. CASE FlushCheck
  <2>1. buffer' \in Buffer
    BY <1>1 DEF FlushCheck, Buffer
  <2> QED BY <1>1, <2>1 DEF FlushCheck, Buffer, disk, answers
<1>2. CASE Flush
  <2>1. beat' \in [Tasks -> 0..StaleBeat]
    <3>1. beat' = [beat EXCEPT ![buffer.task] = 0] /\ 0 \in 0..StaleBeat
      BY <1>2 DEF Flush, StaleBeat
    <3>2. beat \in [Tasks -> 0..StaleBeat]
      OBVIOUS
    <3> QED BY <3>1, <3>2, Zenon
  <2>2. task' \in TaskTable /\ buffer' \in Buffer /\ replaced' \in BOOLEAN
    BY <1>2, ConstTypes DEF Flush
  <2> QED BY <1>2, <2>1, <2>2 DEF Flush, Buffer, answers
<1>3. ASSUME NEW t \in Tasks, Dispatch(t) PROVE TypeOK'
  <2> DEFINE r == Task("running", 0, 0, {})
  <2>1. r \in Row
    BY RowType DEF Statuses
  <2>2. runner.tasks \in TaskTable /\ runner.tasks[t].steers \subseteq Asks
    BY RowOf
  <2>3. runner' = [runner EXCEPT !.tasks = [runner.tasks EXCEPT ![t] = r]]
    BY <1>3 DEF Dispatch
  <2> HIDE DEF r
  <2>4. [runner.tasks EXCEPT ![t] = r] \in TaskTable
    BY <2>1, <2>2, TableExcept
  <2>5. runner' \in Runner
    BY <2>3, <2>4 DEF Runner
  <2>6. task' \in TaskTable
    BY <1>3, OwnType DEF Dispatch
  <2>7. worker' \in [Tasks -> Worker]
    BY <1>3, ConstTypes DEF Dispatch, Worker
  <2>8. unit' \in [Tasks -> Unit]
    BY <1>3, FreshType DEF Dispatch, Unit, NoUnit
  <2>9. beat' \in [Tasks -> 0..StaleBeat] /\ told' \subseteq Asks
    BY <1>3, <2>2 DEF Dispatch, StaleBeat
  <2> QED
    BY <1>3, <2>5, <2>6, <2>7, <2>8, <2>9 DEF Dispatch, Runner, Worker, Unit
<1>4. ASSUME NEW t \in Tasks, Merge(t) PROVE TypeOK'
  <2>1. Merged(t) \in TaskTable
    BY MergedType
  <2>2. unit' \in [Tasks -> Unit]
    BY <1>4, ConstTypes DEF Merge, Unit
  <2>3. runner' \in Runner
    BY <1>4, <2>1 DEF Merge, Runner
  <2>4. replaced' \in BOOLEAN
    BY <1>4 DEF Merge
  <2> QED BY <1>4, <2>1, <2>2, <2>3, <2>4 DEF Merge, Unit, Runner, answers
<1>5. ASSUME NEW t \in Tasks, NEW v \in Verdicts, Settle(t, v) PROVE TypeOK'
  <2> DEFINE r == SettledTask(t, v)
  <2>1. PersistOwn(task[t].status, v) \in Statuses
    BY RowOf, AskAssumption DEF PersistOwn, Statuses
  <2>2. r \in Row
    BY <2>1, RowType DEF SettledTask
  <2>3. task' = [task EXCEPT ![t] = r]
    BY <1>5 DEF Settle
  <2> HIDE DEF r
  <2>4. task' \in TaskTable
    BY <2>2, <2>3, TableExcept
  <2>5. slot' \in Slots /\ unit' \in [Tasks -> Unit]
    BY <1>5, <2>4, FreshType DEF Settle, Unit
  <2>6. replaced' \in BOOLEAN
    BY <1>5 DEF Settle
  <2> QED BY <1>5, <2>4, <2>5, <2>6 DEF Settle, Unit, answers
<1>6. CASE Sweep
  <2> DEFINE dead == {t \in Tasks : Expired(t) /\ ~LooksAlive(t)}
             swept == [t \in Tasks |-> IF t \in dead THEN Task("queued", 0, 0, task[t].steers)
                                       ELSE task[t]]
  <2>1. ASSUME NEW t \in Tasks PROVE Task("queued", 0, 0, task[t].steers) \in Row
    BY RowType, RowOf DEF Statuses
  <2>2. swept \in TaskTable
    BY <2>1, RowOf DEF TaskTable, Row
  <2>3. \/ /\ task' = swept /\ slot' \in Repoint(swept, slot, dead)
           /\ runner' = [phase |-> "select", tasks |-> swept, slot |-> slot']
           /\ buffer' \in {buffer, NoBuffer}
        \/ /\ runner' = [runner EXCEPT !.phase = "select"]
           /\ UNCHANGED <<disk, buffer>>
    BY <1>6 DEF Sweep
  <2> HIDE DEF swept, dead
  <2>4. ASSUME slot' \in Repoint(swept, slot, dead), task' = swept PROVE slot' \in Slots
    <3>1. dead \in SUBSET Tasks
      BY DEF dead
    <3> QED BY <2>2, <2>4, <3>1, RepointType
  <2>5. task' \in TaskTable /\ slot' \in Slots
    BY <2>2, <2>3, <2>4 DEF disk
  <2>6. runner' \in Runner
    BY <2>2, <2>3, <2>5 DEF Runner
  <2>7. buffer' \in Buffer
    BY <2>3, ConstTypes DEF Buffer
  <2> QED BY <1>6, <2>5, <2>6, <2>7 DEF Sweep, Runner, Buffer, answers
<1>7. CASE SaveTasks
  <2>1. runner' \in Runner
    BY <1>7 DEF SaveTasks, Runner
  <2>2. task' \in TaskTable /\ buffer' \in Buffer /\ replaced' \in BOOLEAN
    BY <1>7, ConstTypes DEF SaveTasks
  <2> QED BY <1>7, <2>1, <2>2 DEF SaveTasks, Runner, Buffer, answers
<1>8. CASE SaveManifest
  <2>1. runner' \in Runner
    BY <1>8 DEF SaveManifest, Runner
  <2>2. slot' \in Slots /\ replaced' \in BOOLEAN
    BY <1>8 DEF SaveManifest
  <2> QED BY <1>8, <2>1, <2>2 DEF SaveManifest, Runner, answers
<1>9. CASE Finish
  <2>1. task' \in TaskTable
    BY <1>9, RowOf DEF Finish, TaskTable, Row
  <2>2. runner' \in Runner
    BY <1>9, ConstTypes DEF Finish
  <2>3. slot' \in Slots /\ replaced' \in BOOLEAN
    BY <1>9 DEF Finish
  <2> QED BY <1>9, <2>1, <2>2, <2>3 DEF Finish, Runner, answers
<1> QED
  BY <1>1, <1>2, <1>3, <1>4, <1>5, <1>6, <1>7, <1>8, <1>9 DEF LoopStep
LEMMA RestType ==
  /\ TypeOK /\ (Crash \/ Reconcile \/ Resume \/ Tick) => TypeOK'
  /\ \A t \in Tasks : TypeOK /\ Pulse(t) => TypeOK'
<1> USE DEF TypeOK
<1>1. ASSUME TypeOK, Crash PROVE TypeOK'
  <2>1. runner' \in Runner /\ unit' \in [Tasks -> Unit] /\ buffer' \in Buffer
    BY <1>1, ConstTypes DEF Crash
  <2> QED BY <1>1, <2>1 DEF Crash, Runner, Unit, Buffer, disk, answers
<1>2. ASSUME TypeOK, NEW t \in Tasks
      PROVE  Task("queued", 0, 0, task[t].steers) \in Row /\ task[t] \in Row
  BY <1>2, RowType, RowOf DEF Statuses
<1>3. ASSUME TypeOK, Reconcile PROVE TypeOK'
  <2>1. task' \in TaskTable
    BY <1>2, <1>3 DEF Reconcile, TaskTable, Row
  <2>2. beat' \in [Tasks -> 0..StaleBeat]
    BY <1>3 DEF Reconcile, StaleBeat
  <2> QED BY <1>3, <2>1, <2>2 DEF Reconcile, answers, memory
<1>4. ASSUME TypeOK, Resume PROVE TypeOK'
  <2>1. task' \in TaskTable
    BY <1>2, <1>4 DEF Resume, TaskTable, Row
  <2>2. runner' \in Runner
    BY <1>4, <2>1 DEF Resume, Runner
  <2> QED BY <1>4, <2>1, <2>2 DEF Resume, Runner, answers
<1>5. ASSUME TypeOK, Tick PROVE TypeOK'
  <2>1. task' \in TaskTable /\ slot' \in Slots
    BY <1>5, AgedType DEF Tick
  <2>2. beat' \in [Tasks -> 0..StaleBeat]
    <3>1. ASSUME NEW n \in 0..StaleBeat
          PROVE  (IF n < StaleBeat THEN n + 1 ELSE StaleBeat) \in 0..StaleBeat
      BY <3>1 DEF StaleBeat
    <3>2. beat' = [t \in Tasks |-> IF beat[t] < StaleBeat THEN beat[t] + 1 ELSE StaleBeat]
      BY <1>5 DEF Tick
    <3>3. \A t \in Tasks : beat[t] \in 0..StaleBeat
      BY <1>5
    <3> QED BY <3>1, <3>2, <3>3
  <2>3. worker' \in [Tasks -> Worker]
    <3>1. worker' = [t \in Tasks |-> IF worker[t].at = "poll"
                                     THEN [worker[t] EXCEPT !.left = Later(@)] ELSE worker[t]]
      BY <1>5 DEF Tick
    <3>2. ASSUME NEW w \in Worker PROVE [w EXCEPT !.left = Later(@)] \in Worker
      <4>1. w.left \in Left
        BY <3>2 DEF Worker
      <4>2. Later(w.left) \in Left
        BY <4>1, LeftRange
      <4> QED BY <3>2, <4>2 DEF Worker
    <3>3. worker \in [Tasks -> Worker]
      BY <1>5 DEF Worker
    <3> QED BY <3>1, <3>2, <3>3
  <2>4. runner' \in Runner
    BY <1>5, AgedType DEF Tick, Runner
  <2>5. unit' \in [Tasks -> Unit]
    <3>1. unit' = [t \in Tasks |-> [unit[t] EXCEPT !.slot = AgedSlot(@)]]
      BY <1>5 DEF Tick
    <3>2. ASSUME NEW u \in Unit PROVE [u EXCEPT !.slot = AgedSlot(@)] \in Unit
      BY <3>2, AgedType DEF Unit
    <3>3. unit \in [Tasks -> Unit]
      BY <1>5 DEF Unit
    <3> QED BY <3>1, <3>2, <3>3
  <2> QED
    BY <1>5, <2>1, <2>2, <2>3, <2>4, <2>5 DEF Tick, Runner, Unit, Worker, answers
<1>6. ASSUME TypeOK, NEW t \in Tasks, Pulse(t) PROVE TypeOK'
  <2>1. buffer' \in Buffer
    BY <1>6, OwnType DEF Pulse, Buffer
  <2> QED BY <1>6, <2>1 DEF Pulse, Buffer, disk, answers
<1> QED BY <1>1, <1>3, <1>4, <1>5, <1>6

LEMMA StepType == TypeOK /\ [Next]_vars => TypeOK'
<1>1. CASE Next
  BY <1>1, WorkerType, LeaderType, LoopType, RestType DEF Next
<1>2. CASE UNCHANGED vars
  BY <1>2 DEF TypeOK, vars
<1> QED BY <1>1, <1>2

\* Whatever the number of tasks and questions and whatever the faults, every
\* file and every copy in memory keeps its shape.
THEOREM TypeCorrect == Spec => []TypeOK
BY InitType, StepType, PTL DEF Spec
-----------------------------------------------------------------------------
(* The slot outlasts every park *)

Outlasts(s, l) == s # NoSlot /\ s.left + Grace >= l
Covers(tasks, s) == \A t \in Tasks : Parked(tasks, t) => Outlasts(s, tasks[t].left)

\* Parks that a table has in common with a covered one are covered.
LEMMA FewerParks ==
  ASSUME NEW old, NEW new, NEW s, Covers(old, s),
         \A t \in Tasks : Parked(new, t) => Parked(old, t) /\ new[t].left = old[t].left
  PROVE  Covers(new, s)
BY DEF Covers

\* The re-pointing keeps a table covered whose parks of the ended tasks are gone.
LEMMA RepointCovers ==
  ASSUME NEW tasks \in TaskTable, NEW cur \in Slots, Covers(tasks, cur),
         NEW ended \in SUBSET Tasks, \A t \in ended : ~Parked(tasks, t),
         NEW s \in Repoint(tasks, cur, ended)
  PROVE  Covers(tasks, s)
<1> DEFINE open == {t \in Tasks : Parked(tasks, t) /\ t \notin ended}
<1>1. CASE cur.task \notin ended
  BY <1>1 DEF Repoint
<1>2. CASE cur.task \in ended /\ open = {}
  BY <1>2 DEF Covers
<1>3. CASE cur.task \in ended /\ open # {}
  <2>1. PICK t \in Tasks : /\ Parked(tasks, t)
                           /\ \A u \in open : tasks[u].left <= tasks[t].left
                           /\ s = [task |-> t, ask |-> tasks[t].ask, left |-> tasks[t].left]
    BY <1>3 DEF Repoint
  <2>2. s # NoSlot
    BY <2>1, AskAssumption DEF NoSlot
  <2>3. ASSUME NEW u \in Tasks, Parked(tasks, u) PROVE s.left + Grace >= tasks[u].left
    <3>1. tasks[u].left \in Int /\ tasks[t].left \in Int
      BY RowOf, LeftRange
    <3>2. tasks[u].left <= tasks[t].left
      BY <2>1, <2>3
    <3> QED BY <2>1, <3>1, <3>2, AskAssumption
  <2> QED BY <2>2, <2>3 DEF Covers, Outlasts
<1> QED BY <1>1, <1>2, <1>3

\* A park that comes back from the slot is as long as the slot.
LEMMA HealedCovers ==
  ASSUME TypeOK, Covers(task, slot), NEW t \in Tasks
  PROVE  Covers(Healed(t), slot)
<1> DEFINE r == Task("waiting", slot.ask, slot.left, task[t].steers)
<1>1. CASE Healed(t) = task
  BY <1>1
<1>2. CASE slot.task = t /\ Healed(t) = [task EXCEPT ![t] = r]
  <2>1. slot # NoSlot /\ slot.left \in Int
    BY <1>2, SlotNames, SlotOf, LeftRange DEF TypeOK
  <2>2. Outlasts(slot, r.left)
    BY <2>1, AskAssumption DEF Outlasts, Task
  <2>3. \A u \in Tasks : Healed(t)[u] = IF u = t THEN r ELSE task[u]
    BY <1>2 DEF TypeOK, TaskTable
  <2> HIDE DEF r
  <2> QED BY <2>2, <2>3 DEF Covers, Parked
<1>3. \/ Healed(t) = task
      \/ slot.task = t /\ Healed(t) = [task EXCEPT ![t] = r]
  BY DEF Healed, TypeOK, TaskTable
<1> QED BY <1>1, <1>2, <1>3

LEMMA LaterKeeps ==
  ASSUME NEW l \in Left, NEW m \in Left, m + Grace >= l
  PROVE  Later(m) + Grace >= Later(l)
BY AskAssumption DEF Left, Later

\* Time passes for the parks and the slot alike.
LEMMA AgedCovers ==
  ASSUME TypeOK, Covers(task, slot)
  PROVE  Covers(Aged(task), AgedSlot(slot))
<1> SUFFICES ASSUME NEW t \in Tasks, Parked(Aged(task), t)
             PROVE  Outlasts(AgedSlot(slot), Aged(task)[t].left)
  BY DEF Covers
<1>1. task[t].left \in Left /\ task \in TaskTable
  BY RowOf DEF TypeOK
<1>2. Parked(task, t) /\ Aged(task)[t].left = Later(task[t].left)
  BY <1>1 DEF Parked, Aged, TaskTable
<1>3. slot # NoSlot /\ slot.left + Grace >= task[t].left
  BY <1>2 DEF Covers, Outlasts
<1>4. slot.task \in Tasks /\ slot.left \in Left
  BY <1>3, SlotOf DEF TypeOK
<1>5. /\ AgedSlot(slot) = [slot EXCEPT !.left = Later(slot.left)]
      /\ AgedSlot(slot).left = Later(slot.left) /\ AgedSlot(slot).task = slot.task
  BY <1>3 DEF AgedSlot, TypeOK, Slots
<1>6. AgedSlot(slot) # NoSlot
  BY <1>4, <1>5, AskAssumption DEF NoSlot
<1> QED BY <1>1, <1>2, <1>3, <1>4, <1>5, <1>6, LaterKeeps DEF Outlasts

Kept == replaced' \/ Covers(task', slot')

LEMMA WorkerKeeps ==
  ASSUME TypeOK, TypeOK', Covers(task, slot), NEW t \in Tasks, WorkerStep(t)
  PROVE  Covers(task', slot')
<1>1. ASSUME NEW n \in 1..MaxTimeout, NEW heard \in BOOLEAN, Ask(t, n, heard)
      PROVE  Covers(task', slot')
  <2> DEFINE r == Task("waiting", asked + 1, n, task[t].steers)
  <2>1. \A u \in Tasks : task'[u] = IF u = t THEN r ELSE task[u]
    BY <1>1 DEF Ask, TypeOK, TaskTable
  <2>2. r.left = n
    BY DEF Task
  <2> HIDE DEF r
  <2>3. CASE slot' = slot /\ slot # NoSlot /\ slot.left > n
    <3>1. slot.left \in Int
      BY <2>3, SlotOf, LeftRange DEF TypeOK
    <3>2. Outlasts(slot, n)
      BY <2>3, <3>1, AskAssumption DEF Outlasts
    <3> QED BY <2>1, <2>2, <2>3, <3>2 DEF Covers, Parked
  <2>4. CASE slot' = [task |-> t, ask |-> asked + 1, left |-> n]
    <3>1. slot' # NoSlot
      BY <2>4, AskAssumption DEF NoSlot
    <3>2. ASSUME NEW l \in Left PROVE n + Grace >= l
      BY <3>2, AskAssumption DEF Left
    <3>3. \A u \in Tasks : task'[u].left \in Left
      BY RowOf DEF TypeOK
    <3> QED BY <2>4, <3>1, <3>2, <3>3 DEF Covers, Outlasts
  <2> QED BY <1>1, <2>3, <2>4 DEF Ask
<1>2. CASE Resolve(t)
  <2>1. CASE UNCHANGED disk
    BY <2>1 DEF disk
  <2>2. CASE ~UNCHANGED disk
    <3>1. \A u \in Tasks : task'[u] = IF u = t THEN Task("running", 0, 0, task[t].steers)
                                      ELSE task[u]
      BY <1>2, <2>2 DEF Resolve, TypeOK, TaskTable
    <3>2. Covers(task', slot) /\ ~Parked(task', t)
      BY <3>1 DEF Covers, Parked, Task
    <3>3. slot' = slot \/ slot' \in Repoint(task', slot, {t})
      BY <1>2, <2>2 DEF Resolve
    <3>4. task' \in TaskTable /\ slot \in Slots
      BY DEF TypeOK
    <3> QED BY <3>2, <3>3, <3>4, RepointCovers
  <2> QED BY <2>1, <2>2
<1>3. CASE PickUp(t) \/ Expire(t) \/ ResolveLost(t) \/ Exit(t)
  BY <1>3 DEF PickUp, Expire, ResolveLost, Exit, disk
<1> QED BY <1>1, <1>2, <1>3 DEF WorkerStep

LEMMA LeaderKeeps ==
  ASSUME TypeOK, TypeOK', Covers(task, slot), LeaderStep
  PROVE  Covers(task', slot')
<1>1. ASSUME NEW t \in Tasks, RespondAlive(t) \/ RespondAgain(t) PROVE Covers(task', slot')
  BY <1>1, HealedCovers DEF RespondAlive, RespondAgain
<1>2. ASSUME NEW t \in Tasks, RespondDead(t) PROVE Covers(task', slot')
  <2> DEFINE found == Healed(t)
             r == Task("queued", 0, 0, found[t].steers \cup {found[t].ask})
  <2>1. found \in TaskTable /\ Covers(found, slot)
    BY HealedType, HealedCovers
  <2>2. task' = [found EXCEPT ![t] = r] /\ slot' \in Repoint(task', slot, {t})
    BY <1>2, <2>1 DEF RespondDead, TaskTable
  <2>3. r.status = "queued"
    BY DEF Task
  <2> HIDE DEF found, r
  <2>4. \A u \in Tasks : task'[u] = IF u = t THEN r ELSE found[u]
    BY <2>1, <2>2 DEF TaskTable
  <2>5. Covers(task', slot) /\ ~Parked(task', t)
    BY <2>1, <2>3, <2>4 DEF Covers, Parked
  <2>6. task' \in TaskTable /\ slot \in Slots
    BY DEF TypeOK
  <2> QED BY <2>2, <2>5, <2>6, RepointCovers
<1>3. ASSUME NEW q \in Asks, Deliver(q) PROVE Covers(task', slot')
  BY <1>3 DEF Deliver, disk
<1> QED BY <1>1, <1>2, <1>3 DEF LeaderStep
\* A heartbeat neither makes a park nor moves its deadline.
LEMMA OwnCovers ==
  ASSUME NEW tasks \in TaskTable, NEW t \in Tasks, NEW s, Covers(tasks, s)
  PROVE  Covers(WithOwn(tasks, t), s)
<1> DEFINE r == PersistOwn(tasks[t].status, "running")
           new == IF r = "waiting" THEN [tasks[t] EXCEPT !.steers = {}] ELSE Task(r, 0, 0, {})
<1>1. \A u \in Tasks : WithOwn(tasks, t)[u] = IF u = t THEN new ELSE tasks[u]
  BY DEF WithOwn, TaskTable
<1>2. r = "waiting" => tasks[t].status = "waiting"
  BY DEF PersistOwn
<1>3. CASE r = "waiting"
  <2>1. /\ new.status = tasks[t].status /\ new.ask = tasks[t].ask
        /\ new.left = tasks[t].left
    BY <1>3, RowOf DEF Row
  <2> HIDE DEF r, new
  <2>2. \A u \in Tasks : Parked(WithOwn(tasks, t), u) =>
          Parked(tasks, u) /\ WithOwn(tasks, t)[u].left = tasks[u].left
    BY <1>1, <2>1 DEF Parked
  <2> QED BY <2>2 DEF Covers
<1>4. CASE r # "waiting"
  <2>1. new.ask = 0
    BY <1>4 DEF Task
  <2> HIDE DEF r, new
  <2>2. \A u \in Tasks : Parked(WithOwn(tasks, t), u) =>
          Parked(tasks, u) /\ WithOwn(tasks, t)[u].left = tasks[u].left
    BY <1>1, <2>1 DEF Parked
  <2> QED BY <2>2 DEF Covers
<1> QED BY <1>3, <1>4

LEMMA LoopKeeps ==
  ASSUME TypeOK, TypeOK', Covers(task, slot), LoopStep
  PROVE  Kept
<1>1. CASE FlushCheck
  BY <1>1 DEF FlushCheck, Kept, disk
<1>2. CASE Flush
  <2>1. CASE replaced'
    BY <2>1 DEF Kept
  <2>2. CASE ~replaced'
    <3>1. \A t \in Tasks : Parked(task', t) => task'[t] = task[t]
      BY <1>2, <2>2 DEF Flush
    <3>2. \A t \in Tasks : Parked(task', t) => Parked(task, t) /\ task'[t].left = task[t].left
      BY <3>1 DEF Parked
    <3>3. Covers(task', slot)
      BY <3>2 DEF Covers
    <3> QED BY <1>2, <3>3 DEF Flush, Kept
  <2> QED BY <2>1, <2>2
<1>3. ASSUME NEW t \in Tasks, Dispatch(t) PROVE Kept
  BY <1>3, OwnCovers DEF Dispatch, Kept, TypeOK
<1>4. ASSUME NEW t \in Tasks, Merge(t) PROVE Kept
  BY <1>4 DEF Merge, Kept
<1>5. ASSUME NEW t \in Tasks, NEW v \in Verdicts, Settle(t, v) PROVE Kept
  <2>1. \A u \in Tasks : task'[u] = IF u = t THEN SettledTask(t, v) ELSE task[u]
    BY <1>5 DEF Settle, TypeOK, TaskTable
  <2>2. SettledTask(t, v).ask = 0
    BY DEF SettledTask, Task
  <2>3. Covers(task', slot)
    BY <2>1, <2>2 DEF Covers, Parked
  <2>4. replaced' \/ slot' = slot
    BY <1>5 DEF Settle, TypeOK
  <2> QED BY <2>3, <2>4 DEF Kept
<1>6. CASE Sweep
  <2> DEFINE dead == {t \in Tasks : Expired(t) /\ ~LooksAlive(t)}
             swept == [t \in Tasks |-> IF t \in dead THEN Task("queued", 0, 0, task[t].steers)
                                       ELSE task[t]]
  <2>1. \/ task' = swept /\ slot' \in Repoint(swept, slot, dead)
        \/ UNCHANGED disk
    BY <1>6 DEF Sweep
  <2>2. CASE UNCHANGED disk
    BY <2>2 DEF Kept, disk
  <2>3. CASE task' = swept /\ slot' \in Repoint(swept, slot, dead)
    <3>1. dead \subseteq Tasks
      OBVIOUS
    <3> HIDE DEF dead
    <3>2. \A t \in Tasks : IF t \in dead THEN swept[t].status = "queued"
                                          ELSE swept[t] = task[t]
      BY DEF Task
    <3> HIDE DEF swept
    <3>3. \A t \in dead : ~Parked(swept, t)
      BY <3>1, <3>2 DEF Parked
    <3>4. Covers(swept, slot)
      BY <3>2 DEF Covers, Parked
    <3>5. swept \in TaskTable /\ slot \in Slots
      BY <2>3 DEF TypeOK
    <3>6. Covers(swept, slot')
      BY <2>3, <3>1, <3>3, <3>4, <3>5, RepointCovers
    <3> QED BY <2>3, <3>6 DEF Kept
  <2> QED BY <2>1, <2>2, <2>3
<1>7. CASE SaveTasks \/ SaveManifest \/ Finish
  BY <1>7 DEF SaveTasks, SaveManifest, Finish, Kept
<1> QED BY <1>1, <1>2, <1>3, <1>4, <1>5, <1>6, <1>7 DEF LoopStep

LEMMA RestKeeps ==
  ASSUME TypeOK, TypeOK', Covers(task, slot)
  PROVE  /\ Crash \/ Reconcile \/ Resume \/ Tick => Covers(task', slot')
         /\ \A t \in Tasks : Pulse(t) => Covers(task', slot')
<1>1. CASE Crash
  BY <1>1 DEF Crash, disk
<1>2. CASE Reconcile
  <2>1. \A t \in Tasks : Parked(task', t) => task'[t] = task[t]
    BY <1>2 DEF Reconcile, Parked, Task
  <2> QED BY <1>2, <2>1 DEF Reconcile, Covers, Parked
<1>3. CASE Resume
  <2>1. \A t \in Tasks : Parked(task', t) => task'[t] = task[t]
    BY <1>3 DEF Resume, Parked, Task
  <2> QED BY <1>3, <2>1 DEF Resume, Covers, Parked
<1>4. CASE Tick
  BY <1>4, AgedCovers DEF Tick
<1>5. ASSUME NEW t \in Tasks, Pulse(t) PROVE Covers(task', slot')
  BY <1>5 DEF Pulse, disk
<1> QED BY <1>1, <1>2, <1>3, <1>4, <1>5

\* A save from an older copy is not undone.
LEMMA ReplacedStays ==
  ASSUME TypeOK, replaced, [Next]_vars
  PROVE  replaced'
<1>1. CASE \E t \in Tasks : WorkerStep(t)
  BY <1>1 DEF WorkerStep, Ask, PickUp, Expire, Resolve, ResolveLost, Exit
<1>2. CASE LeaderStep
  BY <1>2 DEF LeaderStep, RespondAlive, RespondDead, RespondAgain, Deliver
<1>3. CASE LoopStep
  BY <1>3 DEF LoopStep, FlushCheck, Flush, Dispatch, Merge, Settle, Sweep, SaveTasks,
       SaveManifest, Finish
<1>4. CASE Crash \/ Reconcile \/ Resume \/ Tick \/ \E t \in Tasks : Pulse(t)
  BY <1>4 DEF Crash, Reconcile, Resume, Tick, Pulse
<1>5. CASE UNCHANGED vars
  BY <1>5 DEF vars
<1> QED BY <1>1, <1>2, <1>3, <1>4, <1>5 DEF Next

\* For any timeouts, with a grace period that is at least the longest of them:
\* the slot outlasts every open park until a save from an older copy changes a
\* park or the slot (wait-resolve.ts:55-75, crew-broker.ts:1718-1728).
THEOREM ParksAlwaysShielded == Spec => []ParksShielded
<1>1. ParksShielded = (~replaced => Covers(task, slot))
  BY DEF ParksShielded, Covers, Outlasts
<1>2. Init => ParksShielded
  BY DEF Init, ParksShielded, Fresh, Parked, Task
<1>3. TypeOK /\ TypeOK' /\ ParksShielded /\ [Next]_vars => ParksShielded'
  <2> SUFFICES ASSUME TypeOK, TypeOK', ParksShielded, [Next]_vars, ~replaced'
               PROVE  Covers(task', slot')
    BY DEF ParksShielded, Covers, Outlasts, Parked
  <2>1. ~replaced /\ Covers(task, slot)
    BY <1>1, ReplacedStays
  <2>2. CASE Next
    BY <2>1, <2>2, WorkerKeeps, LeaderKeeps, LoopKeeps, RestKeeps DEF Next, Kept
  <2>3. CASE UNCHANGED vars
    BY <2>1, <2>3 DEF vars
  <2> QED BY <2>2, <2>3
<1> QED BY TypeCorrect, StepType, <1>2, <1>3, PTL DEF Spec

\* As long as a park has time left recovery takes the run for one that waits
\* for an answer: stale-reconciler.ts:122-138 holds it off.
THEOREM OpenParkHoldsRecovery ==
  Spec => [](~replaced => \A t \in Tasks :
               Parked(task, t) /\ task[t].left >= 0 => Shielded)
<1>1. TypeOK /\ ParksShielded =>
        (~replaced => \A t \in Tasks : Parked(task, t) /\ task[t].left >= 0 => Shielded)
  <2> SUFFICES ASSUME TypeOK, ParksShielded, ~replaced, NEW t \in Tasks,
                      Parked(task, t), task[t].left >= 0
               PROVE  Shielded
    OBVIOUS
  <2>1. slot # NoSlot /\ slot.left + Grace >= task[t].left
    BY DEF ParksShielded
  <2>2. slot.left \in Int /\ task[t].left \in Int
    BY <2>1, SlotOf, RowOf, LeftRange DEF TypeOK
  <2> QED BY <2>1, <2>2, AskAssumption DEF Shielded
<1> QED BY TypeCorrect, ParksAlwaysShielded, <1>1, PTL

-----------------------------------------------------------------------------
(* One answer to a question *)

\* Only a task that waits has a question.
WaitsOnly(tasks) == \A t \in Tasks : tasks[t].ask # 0 => tasks[t].status = "waiting"

\* Questions are numbered in the order they are asked.
Numbered ==
  /\ \A t \in Tasks : task[t].ask <= asked
  /\ slot.ask <= asked
  /\ rows \cup staged \cup injected \subseteq 1..asked

\* A question belongs to one task, in tasks.json and in the slot.
Apart ==
  /\ \A t, u \in Tasks : task[t].ask = task[u].ask /\ task[t].ask # 0 => t = u
  /\ \A t \in Tasks : task[t].ask = slot.ask /\ slot.ask # 0 => slot.task = t

\* A task queued with an answer has left its park, and no slot leads back there.
InjectedEnded ==
  \A q \in injected : slot.ask # q /\ \A t \in Tasks : task[t].ask # q

\* A worker found alive stays so until its row is delivered, if no time passes.
StagedLive ==
  \A q \in staged \ late :
                    /\ \A t \in Tasks : task[t].ask = q => LooksAlive(t)
                    /\ slot.ask = q /\ slot.left > 0 => LooksAlive(slot.task)

Once == /\ WaitsOnly(task) /\ WaitsOnly(buffer.tasks)
        /\ got \subseteq rows /\ injected \cap (rows \cup staged) \subseteq late
        /\ Numbered /\ Apart /\ InjectedEnded /\ StagedLive

\* Where a slot comes from that was re-pointed.
LEMMA RepointTo ==
  ASSUME NEW tasks, NEW cur, NEW ended, NEW s \in Repoint(tasks, cur, ended)
  PROVE  \/ cur.task \notin ended /\ s = cur
         \/ cur.task \in ended /\ s = NoSlot
         \/ /\ cur.task \in ended /\ s.task \in Tasks \ ended /\ Parked(tasks, s.task)
            /\ s.ask = tasks[s.task].ask /\ s.left = tasks[s.task].left
<1>1. CASE cur.task \notin ended
  BY <1>1 DEF Repoint
<1>2. CASE cur.task \in ended /\ s # NoSlot
  <2>1. PICK t \in Tasks \ ended :
          Parked(tasks, t) /\ s = [task |-> t, ask |-> tasks[t].ask, left |-> tasks[t].left]
    BY <1>2 DEF Repoint
  <2> QED BY <1>2, <2>1
<1> QED BY <1>1, <1>2

\* No park begins, and none is changed but by its end.
ParksEnd ==
  \A t \in Tasks :
    \/ task'[t].ask = 0
    \/ task'[t].ask = task[t].ask /\ task'[t].left = task[t].left /\ task'[t].status = task[t].status

\* The slot stays, or is emptied, or goes to an open park.
SlotMoves ==
  \/ slot' = slot
  \/ slot' = NoSlot
  \/ /\ slot'.task \in Tasks /\ Parked(task', slot'.task)
     /\ slot'.ask = task'[slot'.task].ask /\ slot'.left = task'[slot'.task].left

\* Under the saves of the runner nothing changes as long as none replaces
\* a park.
LEMMA SavesKeep ==
  ASSUME TypeOK, ~replaced',
         \/ SaveTasks \/ SaveManifest \/ Finish \/ \E t \in Tasks : Merge(t)
  PROVE  UNCHANGED <<disk, beat, answers, asked, worker>> /\ buffer' \in {buffer, NoBuffer}
BY DEF SaveTasks, SaveManifest, Finish, Merge, disk, answers

\* What a step other than a question or an answer does to parks and slot.
LEMMA EndsOnly ==
  ASSUME TypeOK, TypeOK', ~replaced', WaitsOnly(task), WaitsOnly(buffer.tasks),
         LoopStep \/ Crash \/ Reconcile \/ Resume \/ \E t \in Tasks : Pulse(t) \/ Resolve(t)
  PROVE  ParksEnd /\ SlotMoves /\ WaitsOnly(task)' /\ WaitsOnly(buffer.tasks)'
         /\ UNCHANGED <<asked, rows, staged, injected, got, late>>
<1>0. WaitsOnly(NoBuffer.tasks)
  BY DEF WaitsOnly, NoBuffer, Fresh, Task
<1>1. CASE FlushCheck
  <2>1. buffer'.tasks = buffer.tasks
    BY <1>1 DEF FlushCheck, TypeOK
  <2> QED
    BY <1>1, <2>1 DEF FlushCheck, ParksEnd, SlotMoves, WaitsOnly, disk, answers
<1>2. CASE Flush
  <2>1. task' = buffer.tasks /\ buffer' = NoBuffer /\ slot' = slot
    BY <1>2 DEF Flush
  <2>2. \A t \in Tasks : task'[t] # task[t] => ~Parked(buffer.tasks, t)
    BY <1>2 DEF Flush
  <2>3. \A t \in Tasks : task'[t] # task[t] => task'[t].ask = 0
    BY <2>1, <2>2 DEF Parked, WaitsOnly
  <2> QED
    BY <1>0, <1>2, <2>1, <2>3 DEF Flush, answers, ParksEnd, SlotMoves, WaitsOnly
<1>3. ASSUME NEW t \in Tasks, Dispatch(t) \/ Pulse(t)
      PROVE  /\ ParksEnd /\ SlotMoves /\ WaitsOnly(task)' /\ WaitsOnly(buffer.tasks)'
             /\ UNCHANGED <<asked, rows, staged, injected, got, late>>
  <2> DEFINE r == PersistOwn(task[t].status, "running")
             new == IF r = "waiting" THEN [task[t] EXCEPT !.steers = {}] ELSE Task(r, 0, 0, {})
  <2>1. \A u \in Tasks : WithOwn(task, t)[u] = IF u = t THEN new ELSE task[u]
    BY DEF WithOwn, TypeOK, TaskTable
  <2>2. \/ new.ask = 0
        \/ new.ask = task[t].ask /\ new.left = task[t].left /\ new.status = task[t].status
    <3>1. r = "waiting" => task[t].status = "waiting"
      BY DEF PersistOwn
    <3>2. task[t] \in Row
      BY RowOf DEF TypeOK
    <3> QED BY <3>1, <3>2 DEF Task, Row
  <2> HIDE DEF new
  <2>3. WaitsOnly(WithOwn(task, t))
    BY <2>1, <2>2 DEF WaitsOnly
  <2>4. slot' = slot /\ UNCHANGED <<asked, rows, staged, injected, got, late>>
    BY <1>3 DEF Dispatch, Pulse, disk, answers
  <2>5. CASE Dispatch(t)
    <3>1. task' = WithOwn(task, t) /\ buffer' = buffer
      BY <2>5 DEF Dispatch
    <3> QED BY <2>1, <2>2, <2>3, <2>4, <3>1 DEF ParksEnd, SlotMoves
  <2>6. CASE Pulse(t)
    <3>1. task' = task /\ buffer'.tasks = WithOwn(task, t)
      BY <2>6 DEF Pulse, disk
    <3> QED BY <2>3, <2>4, <3>1 DEF ParksEnd, SlotMoves
  <2> QED BY <1>3, <2>5, <2>6
<1>4. ASSUME NEW t \in Tasks, NEW v \in Verdicts, Settle(t, v)
      PROVE  /\ ParksEnd /\ SlotMoves /\ WaitsOnly(task)' /\ WaitsOnly(buffer.tasks)'
             /\ UNCHANGED <<asked, rows, staged, injected, got, late>>
  <2>1. \A u \in Tasks : task'[u] = IF u = t THEN SettledTask(t, v) ELSE task[u]
    BY <1>4 DEF Settle, TypeOK, TaskTable
  <2>2. SettledTask(t, v).ask = 0
    BY DEF SettledTask, Task
  <2>3. slot' = slot /\ UNCHANGED <<asked, rows, staged, injected, got, late, buffer>>
    BY <1>4 DEF Settle, answers, TypeOK
  <2> QED BY <2>1, <2>2, <2>3 DEF ParksEnd, SlotMoves, WaitsOnly
<1>5. CASE Sweep
  <2> DEFINE dead == {t \in Tasks : Expired(t) /\ ~LooksAlive(t)}
             swept == [t \in Tasks |-> IF t \in dead THEN Task("queued", 0, 0, task[t].steers)
                                       ELSE task[t]]
  <2>1. /\ buffer' \in {buffer, NoBuffer} /\ UNCHANGED <<asked, rows, staged, injected, got, late>>
        /\ \/ task' = swept /\ slot' \in Repoint(swept, slot, dead)
           \/ UNCHANGED disk
    BY <1>5 DEF Sweep, answers
  <2>2. CASE UNCHANGED disk
    BY <1>0, <2>1, <2>2 DEF ParksEnd, SlotMoves, WaitsOnly, disk
  <2>3. CASE task' = swept /\ slot' \in Repoint(swept, slot, dead)
    <3>1. \A t \in Tasks : swept[t].ask = 0 \/ swept[t] = task[t]
      BY DEF Task
    <3> HIDE DEF swept, dead
    <3>2. slot' \in Repoint(task', slot, dead)
      BY <2>3
    <3>3. SlotMoves
      BY <3>2, RepointTo DEF SlotMoves
    <3>4. ParksEnd /\ WaitsOnly(task)' /\ WaitsOnly(buffer.tasks)'
      BY <1>0, <2>1, <2>3, <3>1 DEF ParksEnd, WaitsOnly
    <3> QED BY <2>1, <3>3, <3>4
  <2> QED BY <2>1, <2>2, <2>3
<1>6. CASE SaveTasks \/ SaveManifest \/ Finish \/ \E t \in Tasks : Merge(t)
  BY <1>0, <1>6, SavesKeep DEF ParksEnd, SlotMoves, WaitsOnly, disk, answers
<1>7. CASE Crash
  BY <1>0, <1>7 DEF Crash, ParksEnd, SlotMoves, WaitsOnly, disk, answers
<1>8. CASE Reconcile \/ Resume
  <2>1. \A t \in Tasks : task'[t].ask = 0 \/ task'[t] = task[t]
    BY <1>8 DEF Reconcile, Resume, Task
  <2>2. slot' = slot /\ buffer' = buffer /\ UNCHANGED <<asked, rows, staged, injected, got, late>>
    BY <1>8 DEF Reconcile, Resume, answers, memory
  <2> QED BY <2>1, <2>2 DEF ParksEnd, SlotMoves, WaitsOnly
<1>9. ASSUME NEW t \in Tasks, Resolve(t)
      PROVE  /\ ParksEnd /\ SlotMoves /\ WaitsOnly(task)' /\ WaitsOnly(buffer.tasks)'
             /\ UNCHANGED <<asked, rows, staged, injected, got, late>>
  <2>1. UNCHANGED <<asked, rows, staged, injected, got, late>> /\ buffer' \in {buffer, NoBuffer}
    BY <1>9 DEF Resolve, answers, Superseded
  <2>2. CASE UNCHANGED disk
    BY <1>0, <2>1, <2>2 DEF ParksEnd, SlotMoves, WaitsOnly, disk
  <2>3. CASE ~UNCHANGED disk
    <3>1. task' = [task EXCEPT ![t] = Task("running", 0, 0, task[t].steers)]
          /\ (slot' = slot \/ slot' \in Repoint(task', slot, {t}))
      BY <1>9, <2>3 DEF Resolve, disk, TypeOK, TaskTable
    <3>2. \A u \in Tasks : task'[u].ask = 0 \/ task'[u] = task[u]
      BY <3>1 DEF Task, TypeOK, TaskTable
    <3>3. SlotMoves
      <4>1. CASE slot' = slot
        BY <4>1 DEF SlotMoves
      <4>2. CASE slot' \in Repoint(task', slot, {t})
        BY <4>2, RepointTo DEF SlotMoves
      <4> QED BY <3>1, <4>1, <4>2
    <3> QED BY <1>0, <2>1, <3>2, <3>3 DEF ParksEnd, WaitsOnly
  <2> QED BY <2>2, <2>3
<1> QED BY <1>1, <1>2, <1>3, <1>4, <1>5, <1>6, <1>7, <1>8, <1>9 DEF LoopStep

\* Such a step keeps questions apart.
LEMMA QuestionsKept ==
  ASSUME TypeOK, TypeOK', ParksEnd, SlotMoves, UNCHANGED <<asked, rows, staged, injected>>,
         Numbered, Apart, InjectedEnded
  PROVE  Numbered' /\ Apart' /\ InjectedEnded'
<1>0. NoSlot.ask = 0 /\ 0 \notin injected /\ 0 \notin staged
  BY DEF NoSlot, Numbered
<1>1. \A t \in Tasks : task'[t].ask = 0 \/ task'[t].ask = task[t].ask
  BY DEF ParksEnd
<1>2. slot'.ask = 0 \/ (slot'.ask = slot.ask /\ slot'.task = slot.task)
      \/ (slot'.task \in Tasks /\ slot'.ask = task'[slot'.task].ask)
  BY <1>0 DEF SlotMoves
<1>3. asked \in Nat
  BY AskAssumption DEF TypeOK
<1>4. Numbered'
  BY <1>1, <1>2, <1>3 DEF Numbered
<1>5. Apart'
  BY <1>1, <1>2 DEF Apart
<1>6. InjectedEnded'
  BY <1>0, <1>1, <1>2 DEF InjectedEnded
<1> QED BY <1>4, <1>5, <1>6

\* No heartbeat grows old while an answer is on its way, but by the repair of a
\* run that no question shields.
LEMMA LiveKept ==
  ASSUME TypeOK, TypeOK', ParksEnd, SlotMoves, UNCHANGED <<staged, late>>, StagedLive, Numbered,
         \A t \in Tasks : LooksAlive(t) => LooksAlive(t)'
  PROVE  StagedLive'
<1> SUFFICES ASSUME NEW q \in staged \ late
             PROVE  /\ \A t \in Tasks : task'[t].ask = q => beat'[t] < StaleBeat
                    /\ slot'.ask = q /\ slot'.left > 0 => beat'[slot'.task] < StaleBeat
  BY DEF StagedLive, LooksAlive
<1>0. q # 0 /\ NoSlot.ask = 0
  BY DEF Numbered, NoSlot
<1>1. \A t \in Tasks : beat[t] < StaleBeat => beat'[t] < StaleBeat
  BY DEF LooksAlive
<1>2. \A t \in Tasks : task'[t].ask = q => beat'[t] < StaleBeat
  BY <1>0, <1>1 DEF ParksEnd, StagedLive, LooksAlive
<1>3. ASSUME slot'.ask = q, slot'.left > 0 PROVE beat'[slot'.task] < StaleBeat
  <2>1. CASE slot' = slot
    <3>1. slot.task \in Tasks /\ beat[slot.task] < StaleBeat
      BY <1>0, <1>3, <2>1, SlotOf DEF StagedLive, TypeOK, LooksAlive
    <3> QED BY <1>1, <2>1, <3>1
  <2>2. CASE slot'.task \in Tasks /\ slot'.ask = task'[slot'.task].ask
    BY <1>2, <1>3, <2>2
  <2> QED BY <1>0, <1>3, <2>1, <2>2 DEF SlotMoves
<1> QED BY <1>2, <1>3

LEMMA BeatsKept ==
  ASSUME TypeOK, TypeOK', ~replaced',
         LoopStep \/ Crash \/ Resume \/ \E t \in Tasks : Pulse(t) \/ WorkerStep(t)
  PROVE  \A t \in Tasks : LooksAlive(t) => LooksAlive(t)'
<1>1. \/ beat' = beat
      \/ \E t : beat' = [beat EXCEPT ![t] = 0]
  BY DEF LoopStep, FlushCheck, Flush, Dispatch, Merge, Settle, Sweep, SaveTasks, SaveManifest,
         Finish, Crash, Resume, Pulse, WorkerStep, Ask, PickUp, Expire, Resolve, ResolveLost, Exit
<1>2. \A t \in Tasks : beat'[t] = beat[t] \/ beat'[t] = 0
  BY <1>1 DEF TypeOK
<1> QED BY <1>2 DEF LooksAlive, StaleBeat

\* A new question has a new number.
LEMMA AskOnce ==
  ASSUME TypeOK, TypeOK', Once, NEW t \in Tasks, NEW n \in 1..MaxTimeout, NEW heard \in BOOLEAN,
         Ask(t, n, heard)
  PROVE  Once'
<1>0. WaitsOnly(NoBuffer.tasks)
  BY DEF WaitsOnly, NoBuffer, Fresh, Task
<1>1. /\ \A u \in Tasks : u # t => task'[u] = task[u]
      /\ task'[t].ask = asked + 1 /\ task'[t].status = "waiting"
  BY DEF Ask, Task, TypeOK, TaskTable
<1>2. /\ asked' = asked + 1 /\ buffer' \in {buffer, NoBuffer}
      /\ slot' = slot \/ (slot'.task = t /\ slot'.ask = asked + 1)
      /\ UNCHANGED <<rows, staged, injected, got, late, beat>>
  BY DEF Ask, Superseded
<1>3. asked \in Nat /\ slot.ask <= asked /\ slot.ask \in Int
      /\ \A u \in Tasks : task[u].ask <= asked /\ task[u].ask \in Int
  <2>1. slot.ask \in Int
    BY AskAssumption DEF TypeOK, Slots, NoSlot, Asks
  <2>2. \A u \in Tasks : task[u].ask \in Int
    BY RowOf DEF TypeOK
  <2>3. asked \in Nat
    BY AskAssumption DEF TypeOK
  <2> QED BY <2>1, <2>2, <2>3 DEF Once, Numbered
<1>4. asked + 1 \notin rows \cup staged \cup injected
  BY <1>3 DEF Once, Numbered
<1>5. /\ WaitsOnly(task') /\ WaitsOnly(buffer'.tasks)
      /\ got' \subseteq rows' /\ injected' \cap (rows' \cup staged') \subseteq late'
  BY <1>0, <1>1, <1>2 DEF Once, WaitsOnly
<1>6. Numbered'
  BY <1>1, <1>2, <1>3 DEF Once, Numbered
<1>7. Apart'
  BY <1>1, <1>2, <1>3 DEF Once, Apart
<1>8. InjectedEnded'
  BY <1>1, <1>2, <1>4 DEF Once, InjectedEnded
<1>9. StagedLive'
  BY <1>1, <1>2, <1>4 DEF Once, StagedLive, LooksAlive
<1> QED BY <1>5, <1>6, <1>7, <1>8, <1>9 DEF Once

\* A park that a respond puts back is the one the slot names.
LEMMA HealedRows ==
  ASSUME TypeOK, NEW t \in Tasks
  PROVE  /\ \A u \in Tasks : u # t => Healed(t)[u] = task[u]
         /\ \/ Healed(t) = task
            \/ /\ slot.task = t /\ slot # NoSlot /\ slot.left > 0 /\ task[t].status = "running"
               /\ Healed(t)[t] = Task("waiting", slot.ask, slot.left, task[t].steers)
BY SlotNames DEF Healed, TypeOK, TaskTable

LEMMA HealedParts ==
  ASSUME TypeOK, NEW t \in Tasks, Once
  PROVE  /\ WaitsOnly(Healed(t))
         /\ \A u \in Tasks : Healed(t)[u].ask <= asked
         /\ \A u, v \in Tasks :
              Healed(t)[u].ask = Healed(t)[v].ask /\ Healed(t)[u].ask # 0 => u = v
         /\ \A u \in Tasks : Healed(t)[u].ask = slot.ask /\ slot.ask # 0 => slot.task = u
         /\ \A u \in Tasks : Healed(t)[u].ask \notin injected
         /\ \A u \in Tasks : Healed(t)[u].ask \in staged \ late => LooksAlive(u)
         /\ \A u \in Tasks : Healed(t)[u].steers = task[u].steers
<1>1. 0 \notin injected /\ 0 \notin staged
  BY DEF Once, Numbered
<1>2. CASE Healed(t) = task
  BY <1>1, <1>2 DEF Once, WaitsOnly, Numbered, Apart, InjectedEnded, StagedLive
<1>3. CASE /\ slot.task = t /\ slot # NoSlot /\ slot.left > 0
           /\ Healed(t)[t] = Task("waiting", slot.ask, slot.left, task[t].steers)
  <2>1. /\ Healed(t)[t].ask = slot.ask /\ Healed(t)[t].status = "waiting"
        /\ Healed(t)[t].steers = task[t].steers
    BY <1>3 DEF Task
  <2>2. \A u \in Tasks : u # t => Healed(t)[u] = task[u]
    BY HealedRows
  <2>3. slot.ask # 0
    BY <1>3 DEF TypeOK, Slots, Asks
  <2> QED
    BY <1>1, <1>3, <2>1, <2>2, <2>3 DEF Once, WaitsOnly, Numbered, Apart, InjectedEnded, StagedLive
<1> QED BY <1>2, <1>3, HealedRows

\* An answer goes to a live worker's mailbox, or to the task of a dead one
\* whose question no row answers.
LEMMA RespondOnce ==
  ASSUME TypeOK, TypeOK', Once, NEW t \in Tasks,
         RespondAlive(t) \/ RespondDead(t) \/ RespondAgain(t)
  PROVE  Once'
<1> DEFINE found == Healed(t)
           q == found[t].ask
<1>0. /\ WaitsOnly(NoBuffer.tasks) /\ WaitsOnly(Superseded.tasks)
      /\ found \in TaskTable /\ q \in 0..MaxAsks
  BY HealedType, RowOf DEF WaitsOnly, NoBuffer, Fresh, Task, Superseded, Once
<1>1. CASE RespondAlive(t) \/ RespondAgain(t)
  <2>1. /\ task' = found /\ UNCHANGED <<slot, rows, injected, got, late, asked, beat>>
        /\ WaitsOnly(buffer'.tasks)
        /\ staged' = staged \/ (staged' = staged \cup {q} /\ LooksAlive(t) /\ q # 0)
    BY <1>0, <1>1 DEF RespondAlive, RespondAgain, answers, Parked, Once
  <2> HIDE DEF found
  <2>2. /\ WaitsOnly(found) /\ \A u \in Tasks : found[u].ask <= asked
        /\ \A u, v \in Tasks : found[u].ask = found[v].ask /\ found[u].ask # 0 => u = v
        /\ \A u \in Tasks : found[u].ask = slot.ask /\ slot.ask # 0 => slot.task = u
        /\ \A u \in Tasks : found[u].ask \notin injected
        /\ \A u \in Tasks : found[u].ask \in staged \ late => LooksAlive(u)
    BY HealedParts DEF found
  <2>3. Numbered'
    <3>1. q # 0 => q \in 1..asked
      BY <1>0, <2>2, AskAssumption DEF TypeOK
    <3> QED BY <2>1, <2>2, <3>1 DEF Numbered, Once
  <2>4. Apart'
    BY <2>1, <2>2 DEF Apart
  <2>5. InjectedEnded'
    BY <2>1, <2>2 DEF InjectedEnded, Once
  <2>6. StagedLive'
    BY <2>1, <2>2 DEF StagedLive, Once, LooksAlive
  <2> QED BY <2>1, <2>2, <2>3, <2>4, <2>5, <2>6 DEF Once, WaitsOnly
<1>2. CASE RespondDead(t)
  <2> DEFINE r == Task("queued", 0, 0, found[t].steers \cup {q})
  <2>1. /\ task' = [found EXCEPT ![t] = r] /\ slot' \in Repoint(task', slot, {t})
        /\ injected' = injected \cup {q} /\ buffer' = Superseded
        /\ UNCHANGED <<rows, staged, got, late, asked, beat>>
        /\ ~LooksAlive(t) /\ q # 0 /\ q \notin rows
    BY <1>0, <1>2 DEF RespondDead, Parked, TaskTable
  <2>2. r.ask = 0
    BY DEF Task
  <2> HIDE DEF r, found
  <2>3. task'[t].ask = 0 /\ \A u \in Tasks : u # t => task'[u] = found[u]
    BY <1>0, <2>1, <2>2 DEF TaskTable
  <2>4. /\ WaitsOnly(found) /\ \A u \in Tasks : found[u].ask <= asked
        /\ \A u, v \in Tasks : found[u].ask = found[v].ask /\ found[u].ask # 0 => u = v
        /\ \A u \in Tasks : found[u].ask = slot.ask /\ slot.ask # 0 => slot.task = u
        /\ \A u \in Tasks : found[u].ask \notin injected
        /\ \A u \in Tasks : found[u].ask \in staged \ late => LooksAlive(u)
    BY HealedParts DEF found
  <2>5. \/ slot' = slot /\ slot.task # t
        \/ slot' = NoSlot
        \/ /\ slot'.task \in Tasks /\ slot'.task # t
           /\ slot'.ask = task'[slot'.task].ask /\ slot'.left = task'[slot'.task].left
    <3>1. slot' \in Repoint(task', slot, {t})
      BY <2>1
    <3> QED BY <3>1, RepointTo
  <2>6. NoSlot.ask = 0 /\ q \in 1..asked /\ q \notin injected /\ q \notin staged \ late
    BY <1>0, <2>1, <2>4, AskAssumption DEF NoSlot, TypeOK
  <2>7. asked \in Nat
    BY AskAssumption DEF TypeOK
  <2>8. Numbered'
    BY <2>1, <2>3, <2>4, <2>5, <2>6, <2>7 DEF Numbered, Once
  <2>9. Apart'
    BY <2>3, <2>4, <2>5, <2>6 DEF Apart
  <2>10. InjectedEnded'
    <3>1. slot'.ask # q /\ \A u \in Tasks : task'[u].ask # q
      BY <2>1, <2>3, <2>4, <2>5, <2>6
    <3>2. ASSUME NEW p \in injected
          PROVE  slot'.ask # p /\ \A u \in Tasks : task'[u].ask # p
      <4>1. p # 0
        BY <3>2 DEF Once, Numbered
      <4> QED BY <2>3, <2>4, <2>5, <2>6, <3>2, <4>1 DEF Once, InjectedEnded
    <3> QED BY <2>1, <3>1, <3>2 DEF InjectedEnded
  <2>11. StagedLive'
    <3> SUFFICES ASSUME NEW p \in staged \ late
                 PROVE  /\ \A u \in Tasks : task'[u].ask = p => beat[u] < StaleBeat
                        /\ slot'.ask = p /\ slot'.left > 0 => beat[slot'.task] < StaleBeat
      BY <2>1 DEF StagedLive, LooksAlive
    <3>1. p # 0
      BY DEF Once, Numbered
    <3>2. \A u \in Tasks : task'[u].ask = p => beat[u] < StaleBeat
      BY <2>3, <2>4, <3>1 DEF LooksAlive
    <3>3. slot'.ask = p /\ slot'.left > 0 => beat[slot'.task] < StaleBeat
      BY <2>5, <2>6, <3>1, <3>2 DEF Once, StagedLive, LooksAlive
    <3> QED BY <3>2, <3>3
  <2>12. /\ WaitsOnly(task') /\ WaitsOnly(buffer'.tasks)
         /\ got' \subseteq rows' /\ injected' \cap (rows' \cup staged') \subseteq late'
    BY <1>0, <2>1, <2>3, <2>4, <2>6 DEF WaitsOnly, Once
  <2> QED BY <2>8, <2>9, <2>10, <2>11, <2>12 DEF Once
<1> QED BY <1>1, <1>2

LEMMA NextOnce ==
  ASSUME TypeOK, TypeOK', Once, ~replaced', [Next]_vars
  PROVE  Once'
<1>1. ASSUME NEW t \in Tasks, NEW n \in 1..MaxTimeout, NEW heard \in BOOLEAN, Ask(t, n, heard)
      PROVE  Once'
  BY <1>1, AskOnce
<1>2. ASSUME NEW t \in Tasks, RespondAlive(t) \/ RespondDead(t) \/ RespondAgain(t)
      PROVE  Once'
  BY <1>2, RespondOnce
<1>3. CASE LoopStep \/ Crash \/ Resume \/ \E t \in Tasks : Pulse(t) \/ Resolve(t)
  <2>1. ParksEnd /\ SlotMoves /\ WaitsOnly(task)' /\ WaitsOnly(buffer.tasks)'
        /\ UNCHANGED <<asked, rows, staged, injected, got, late>>
    BY <1>3, EndsOnly DEF Once
  <2>2. \A t \in Tasks : LooksAlive(t) => LooksAlive(t)'
    BY <1>3, BeatsKept DEF WorkerStep
  <2> QED BY <2>1, <2>2, QuestionsKept, LiveKept DEF Once
<1>4. CASE Reconcile
  <2>1. ParksEnd /\ SlotMoves /\ WaitsOnly(task)' /\ WaitsOnly(buffer.tasks)'
        /\ UNCHANGED <<asked, rows, staged, injected, got, late>>
    BY <1>4, EndsOnly DEF Once
  <2>2. \A t \in Tasks : task'[t].ask = 0
    BY <1>4 DEF Reconcile, Task, Once, WaitsOnly
  <2>3. slot' = slot /\ (slot.ask = 0 \/ ~(slot.left > 0))
    <3>1. slot' = slot /\ ~Shielded
      BY <1>4 DEF Reconcile
    <3>2. slot # NoSlot => slot.left \in Int
      BY SlotOf, LeftRange DEF TypeOK
    <3> QED BY <3>1, <3>2, AskAssumption DEF Shielded, NoSlot
  <2>4. 0 \notin staged
    BY DEF Once, Numbered
  <2>5. StagedLive'
    BY <2>1, <2>2, <2>3, <2>4 DEF StagedLive
  <2> QED BY <2>1, <2>5, QuestionsKept DEF Once
<1>5. CASE Tick
  <2>1. /\ \A t \in Tasks : task'[t].ask = task[t].ask /\ task'[t].status = task[t].status
        /\ slot'.ask = slot.ask /\ slot'.task = slot.task
    <3>1. \A t \in Tasks : task[t] \in Row
      BY RowOf DEF TypeOK
    <3>2. task' = Aged(task) /\ slot' = AgedSlot(slot)
      BY <1>5 DEF Tick
    <3>3. \A t \in Tasks : task'[t].ask = task[t].ask /\ task'[t].status = task[t].status
      BY <3>1, <3>2 DEF Aged, Row
    <3>4. slot'.ask = slot.ask /\ slot'.task = slot.task
      BY <3>2 DEF AgedSlot, TypeOK, Slots
    <3> QED BY <3>3, <3>4
  <2>2. UNCHANGED <<asked, rows, staged, injected, got>> /\ late' = late \cup staged
        /\ buffer'.tasks = buffer.tasks
    BY <1>5 DEF Tick
  <2> QED
    BY <2>1, <2>2 DEF Once, WaitsOnly, Numbered, Apart, InjectedEnded, StagedLive
<1>6. ASSUME NEW t \in Tasks, PickUp(t) \/ Expire(t) \/ ResolveLost(t) \/ Exit(t)
      PROVE  Once'
  BY <1>6 DEF PickUp, Expire, ResolveLost, Exit, disk, memory, answers, Once, WaitsOnly, Numbered,
       Apart, InjectedEnded, StagedLive, LooksAlive
<1>7. ASSUME NEW q \in Asks, Deliver(q) PROVE Once'
  BY <1>7 DEF Deliver, disk, memory, Once, WaitsOnly, Numbered, Apart, InjectedEnded, StagedLive,
       LooksAlive
<1>8. CASE UNCHANGED vars
  BY <1>8 DEF vars, Once, WaitsOnly, Numbered, Apart, InjectedEnded, StagedLive, LooksAlive
<1> QED
  BY <1>1, <1>2, <1>3, <1>4, <1>5, <1>6, <1>7, <1>8 DEF Next, WorkerStep, LeaderStep

\* For any number of tasks and questions: an answer that starts a task afresh
\* is never also picked up, or to be picked up, by the tool (respond.ts,
\* EXACTLY-ONE-DISPATCH), as long as no save brings an older park or slot back
\* and the answer's row has not been on its way while time passed.
THEOREM AnsweredOnceAlways == Spec => []AnsweredOnce
<1>1. Init => Once
  BY DEF Init, Once, WaitsOnly, Numbered, Apart, InjectedEnded, StagedLive, NoBuffer, NoSlot,
      Fresh, Task
<1>2. TypeOK /\ TypeOK' /\ (~replaced => Once) /\ [Next]_vars => (~replaced => Once)'
  BY NextOnce, ReplacedStays
<1>3. (~replaced => Once) => AnsweredOnce
  BY DEF AnsweredOnce, Once
<1> QED BY TypeCorrect, StepType, <1>1, <1>2, <1>3, PTL DEF Spec

-----------------------------------------------------------------------------
(* An answer finds its question *)

\* A tool that still polls for an answer nobody has given, with no flush come
\* in between.
Awaits(t) ==
  /\ worker[t].at = "poll" /\ worker[t].left > 0
  /\ worker[t].ask \notin injected \cup outrun

\* What is parked, or named by the slot, for a tool that polls is its question.
PollKnown(t) ==
  worker[t].at = "poll" =>
    /\ worker[t].ask # 0
    /\ Parked(task, t) => task[t].ask = worker[t].ask /\ task[t].left = worker[t].left
    /\ slot.task = t => slot.ask = worker[t].ask /\ slot.left = worker[t].left

\* And it is parked, also in the write the runner has buffered.
AwaitParked(t) ==
  Awaits(t) => Parked(task, t) /\ (buffer # NoBuffer => Parked(buffer.tasks, t))

PollInv == \A t \in Tasks : PollKnown(t) /\ AwaitParked(t)

\* Where no park begins, the questions that tools poll for stay known.
LEMMA KnownKept ==
  ASSUME TypeOK, TypeOK', ParksEnd, SlotMoves, NEW t \in Tasks, PollKnown(t),
         worker'[t] = worker[t] \/ worker'[t].at # "poll"
  PROVE  PollKnown(t)'
<1> SUFFICES ASSUME worker'[t].at = "poll", worker' [t] = worker[t]
             PROVE  PollKnown(t)'
  BY DEF PollKnown
<1>1. Parked(task', t) => task'[t].ask = worker[t].ask /\ task'[t].left = worker[t].left
  BY DEF ParksEnd, Parked, PollKnown
<1>2. slot'.task = t => slot'.ask = worker[t].ask /\ slot'.left = worker[t].left
  <2>1. NoSlot.task # t
    BY AskAssumption DEF NoSlot
  <2> QED BY <1>1, <2>1 DEF SlotMoves, PollKnown
<1> QED BY <1>1, <1>2 DEF PollKnown, Parked

\* A heartbeat leaves the parks of all tasks where they are.
LEMMA OwnParks ==
  ASSUME TypeOK, NEW t \in Tasks, NEW u \in Tasks, Parked(task, u)
  PROVE  Parked(WithOwn(task, t), u)
<1>1. CASE u # t
  BY <1>1 DEF WithOwn, Parked, TypeOK, TaskTable
<1>2. CASE u = t
  <2>1. task[t].status = "waiting" /\ PersistOwn("waiting", "running") = "waiting"
    BY <1>2 DEF Parked, PersistOwn, TerminalTask
  <2>2. WithOwn(task, t)[t] = [task[t] EXCEPT !.steers = {}]
    BY <2>1 DEF WithOwn, TypeOK, TaskTable
  <2>3. task[t] \in Row
    BY RowOf DEF TypeOK
  <2> QED BY <1>2, <2>1, <2>2, <2>3 DEF Parked, Row
<1> QED BY <1>1, <1>2

\* No step of the runner, no repair and no other worker's end takes the park
\* of a tool that polls away.
LEMMA AwaitKept ==
  ASSUME TypeOK, TypeOK', Once, ParksShielded, ~replaced, ~replaced', NEW t \in Tasks,
         PollKnown(t), AwaitParked(t), Awaits(t),
         worker'[t] = worker[t] \/ worker'[t].at # "poll",
         LoopStep \/ Crash \/ Reconcile \/ Resume \/ \E u \in Tasks : Pulse(u) \/ Resolve(u)
  PROVE  AwaitParked(t)'
<1> SUFFICES ASSUME worker'[t] = worker[t]
             PROVE  Parked(task', t) /\ (buffer' # NoBuffer => Parked(buffer'.tasks, t))
  BY DEF AwaitParked, Awaits, Parked
<1>0. /\ Parked(task, t) /\ (buffer # NoBuffer => Parked(buffer.tasks, t))
      /\ worker[t].at = "poll" /\ task[t].left > 0
  BY DEF AwaitParked, PollKnown, Awaits
<1>1. CASE FlushCheck
  BY <1>0, <1>1 DEF FlushCheck, disk, Parked, TypeOK
<1>2. CASE Flush
  BY <1>0, <1>2 DEF Flush
<1>3. ASSUME NEW u \in Tasks, Dispatch(u) \/ Pulse(u)
      PROVE  Parked(task', t) /\ (buffer' # NoBuffer => Parked(buffer'.tasks, t))
  BY <1>0, <1>3, OwnParks DEF Dispatch, Pulse, disk
<1>4. ASSUME NEW u \in Tasks, NEW v \in Verdicts, Settle(u, v)
      PROVE  Parked(task', t) /\ (buffer' # NoBuffer => Parked(buffer'.tasks, t))
  <2>1. u # t
    BY <1>0, <1>4 DEF Settle
  <2> QED BY <1>0, <1>4, <2>1 DEF Settle, Parked, TypeOK, TaskTable
<1>5. CASE Sweep
  <2>1. ~Expired(t)
    <3>1. task[t].left \in Int
      BY RowOf, LeftRange DEF TypeOK
    <3> QED BY <1>0, <3>1 DEF Expired
  <2>2. task'[t] = task[t] /\ buffer' \in {buffer, NoBuffer}
    BY <1>5, <2>1 DEF Sweep, disk
  <2> QED BY <1>0, <2>2 DEF Parked
<1>6. CASE SaveTasks \/ SaveManifest \/ Finish \/ \E u \in Tasks : Merge(u)
  BY <1>0, <1>6, SavesKeep DEF disk
<1>7. CASE Crash
  BY <1>0, <1>7 DEF Crash, disk
<1>8. CASE Reconcile
  <2>1. slot # NoSlot /\ slot.left + Grace >= task[t].left
    BY <1>0 DEF ParksShielded
  <2>2. slot.left \in Int /\ task[t].left \in Int
    BY <2>1, SlotOf, RowOf, LeftRange DEF TypeOK
  <2>3. Shielded
    BY <1>0, <2>1, <2>2, AskAssumption DEF Shielded
  <2> QED BY <1>8, <2>3 DEF Reconcile
<1>9. CASE Resume
  BY <1>0, <1>9 DEF Resume, Parked
<1>10. ASSUME NEW u \in Tasks, Resolve(u)
       PROVE  Parked(task', t) /\ (buffer' # NoBuffer => Parked(buffer'.tasks, t))
  <2>1. u # t
    BY <1>0, <1>10 DEF Resolve
  <2>2. task'[t] = task[t] /\ buffer' \in {buffer, NoBuffer}
    BY <1>10, <2>1 DEF Resolve, disk, Superseded, TypeOK, TaskTable
  <2> QED BY <1>0, <2>2 DEF Parked
<1> QED
  BY <1>1, <1>2, <1>3, <1>4, <1>5, <1>6, <1>7, <1>8, <1>9, <1>10 DEF LoopStep

LEMMA LaterPositive ==
  ASSUME NEW l \in Left, Later(l) > 0
  PROVE  l > 0
BY AskAssumption DEF Left, Later

LEMMA AskPoll ==
  ASSUME TypeOK, Once, PollInv, NEW t \in Tasks, NEW n \in 1..MaxTimeout, NEW heard \in BOOLEAN,
         Ask(t, n, heard)
  PROVE  PollInv'
<1>1. /\ \A u \in Tasks : u # t => task'[u] = task[u] /\ worker'[u] = worker[u]
      /\ task'[t] = Task("waiting", asked + 1, n, task[t].steers)
      /\ worker'[t] = IF heard THEN [at |-> "poll", ask |-> asked + 1, left |-> n] ELSE worker[t]
      /\ worker[t].at = "work" /\ injected' = injected
      /\ \/ slot' = slot /\ slot.task # t
         \/ slot' = [task |-> t, ask |-> asked + 1, left |-> n]
  BY DEF Ask, TypeOK, TaskTable
<1>2. \/ buffer' = buffer /\ outrun' = outrun \cup {asked + 1}
      \/ buffer' = NoBuffer /\ outrun' = outrun
  BY DEF Ask, Superseded
<1>3. /\ task'[t].ask = asked + 1 /\ task'[t].left = n /\ task'[t].status = "waiting"
      /\ asked + 1 # 0
  BY <1>1, AskAssumption DEF Task, TypeOK
<1>4. ASSUME NEW u \in Tasks PROVE PollKnown(u)'
  <2>1. CASE u # t
    BY <1>1, <2>1 DEF PollInv, PollKnown, Parked
  <2>2. CASE u = t
    BY <1>1, <1>3, <2>2 DEF PollKnown
  <2> QED BY <2>1, <2>2
<1>5. ASSUME NEW u \in Tasks PROVE AwaitParked(u)'
  <2>1. CASE u # t
    BY <1>1, <1>2, <2>1 DEF PollInv, AwaitParked, Awaits, Parked
  <2>2. CASE u = t
    <3>1. CASE ~heard
      BY <1>1, <2>2, <3>1 DEF AwaitParked, Awaits
    <3>2. CASE heard
      <4>1. worker'[t].ask = asked + 1
        BY <1>1, <3>2
      <4>2. Parked(task', t)
        BY <1>3 DEF Parked
      <4> QED BY <1>2, <2>2, <4>1, <4>2 DEF AwaitParked, Awaits, Parked
    <3> QED BY <3>1, <3>2
  <2> QED BY <2>1, <2>2
<1> QED BY <1>4, <1>5 DEF PollInv

LEMMA RespondPoll ==
  ASSUME TypeOK, TypeOK', Once, PollInv, NEW t \in Tasks,
         RespondAlive(t) \/ RespondDead(t) \/ RespondAgain(t)
  PROVE  PollInv'
<1> DEFINE found == Healed(t)
<1>1. ASSUME NEW u \in Tasks, worker[u].at = "poll", Parked(found, u)
      PROVE  found[u].ask = worker[u].ask /\ found[u].left = worker[u].left
  <2>1. CASE found[u] = task[u]
    BY <1>1, <2>1 DEF PollInv, PollKnown, Parked
  <2>2. CASE /\ u = t /\ slot.task = t
             /\ found[t] = Task("waiting", slot.ask, slot.left, task[t].steers)
    BY <1>1, <2>2 DEF PollInv, PollKnown, Task
  <2> QED BY <2>1, <2>2, HealedRows
<1>2. ASSUME NEW u \in Tasks, Parked(task, u) PROVE found[u] = task[u]
  BY <1>2, HealedRows DEF Parked
<1>3. outrun' = outrun /\ worker' = worker
  BY DEF RespondAlive, RespondDead, RespondAgain, answers
<1>4. CASE RespondAlive(t) \/ RespondAgain(t)
  <2>1. /\ task' = found /\ slot' = slot /\ injected' = injected
        /\ buffer' = buffer \/ buffer' = NoBuffer
    BY <1>4 DEF RespondAlive, RespondAgain, Superseded, answers
  <2> HIDE DEF found
  <2>2. ASSUME NEW u \in Tasks PROVE PollKnown(u)'
    BY <1>1, <1>3, <2>1 DEF PollInv, PollKnown, Parked
  <2>3. ASSUME NEW u \in Tasks PROVE AwaitParked(u)'
    BY <1>2, <1>3, <2>1 DEF PollInv, AwaitParked, Awaits, Parked
  <2> QED BY <2>2, <2>3 DEF PollInv
<1>5. CASE RespondDead(t)
  <2>1. /\ found \in TaskTable /\ Parked(found, t)
        /\ task' = [found EXCEPT ![t] = Task("queued", 0, 0, found[t].steers \cup {found[t].ask})]
        /\ slot' \in Repoint(task', slot, {t}) /\ injected' = injected \cup {found[t].ask}
        /\ buffer' = buffer \/ buffer' = NoBuffer
    BY <1>5, HealedType DEF RespondDead, Superseded, TaskTable
  <2> HIDE DEF found
  <2>2. task'[t].ask = 0 /\ \A u \in Tasks : u # t => task'[u] = found[u]
    BY <2>1 DEF TaskTable, Task
  <2>3. \A u \in Tasks : worker[u].at = "poll" /\ Parked(task', u) =>
          task'[u].ask = worker[u].ask /\ task'[u].left = worker[u].left
    BY <1>1, <2>2 DEF Parked
  <2>4. \/ slot' = slot
        \/ slot' = NoSlot
        \/ /\ slot'.task \in Tasks /\ Parked(task', slot'.task)
           /\ slot'.ask = task'[slot'.task].ask /\ slot'.left = task'[slot'.task].left
    <3>1. slot' \in Repoint(task', slot, {t})
      BY <2>1
    <3> QED BY <3>1, RepointTo
  <2>5. NoSlot.task \notin Tasks
    BY AskAssumption DEF NoSlot
  <2>6. ASSUME NEW u \in Tasks, worker[u].at = "poll", slot'.task = u
        PROVE  slot'.ask = worker[u].ask /\ slot'.left = worker[u].left
    BY <2>3, <2>4, <2>5, <2>6 DEF PollInv, PollKnown
  <2>7. ASSUME NEW u \in Tasks PROVE PollKnown(u)'
    BY <1>3, <2>3, <2>6 DEF PollInv, PollKnown, Parked
  <2>8. ASSUME NEW u \in Tasks PROVE AwaitParked(u)'
    <3>1. CASE u = t
      <4>1. ~(worker[t].at = "poll" /\ worker[t].ask \notin injected')
        BY <1>1, <2>1
      <4> QED BY <1>3, <3>1, <4>1 DEF AwaitParked, Awaits
    <3>2. CASE u # t
      BY <1>2, <1>3, <2>1, <2>2, <3>2 DEF PollInv, AwaitParked, Awaits, Parked
    <3> QED BY <3>1, <3>2
  <2> QED BY <2>7, <2>8 DEF PollInv
<1> QED BY <1>4, <1>5

LEMMA TickPoll ==
  ASSUME TypeOK, PollInv, Tick
  PROVE  PollInv'
<1>1. \A u \in Tasks : task[u] \in Row /\ worker[u].left \in Left
  BY RowOf DEF TypeOK
<1>2. \A u \in Tasks : /\ task'[u].ask = task[u].ask /\ task'[u].status = task[u].status
                       /\ task[u].ask # 0 => task'[u].left = Later(task[u].left)
  BY <1>1 DEF Tick, Aged, Row
<1>3. /\ slot'.ask = slot.ask /\ slot'.task = slot.task
      /\ slot # NoSlot => slot'.left = Later(slot.left)
  BY DEF Tick, AgedSlot, TypeOK, Slots
<1>4. \A u \in Tasks : /\ worker'[u].at = worker[u].at /\ worker'[u].ask = worker[u].ask
                       /\ worker[u].at = "poll" => worker'[u].left = Later(worker[u].left)
  BY DEF Tick, TypeOK
<1>5. buffer' = NoBuffer /\ injected' = injected /\ outrun' = outrun
  BY DEF Tick, Prompt, answers
<1>6. ASSUME NEW u \in Tasks PROVE PollKnown(u)'
  <2>1. slot.task = u => slot # NoSlot
    BY AskAssumption DEF NoSlot
  <2> QED BY <1>2, <1>3, <1>4, <2>1 DEF PollInv, PollKnown, Parked
<1>7. ASSUME NEW u \in Tasks PROVE AwaitParked(u)'
  <2>1. Awaits(u)' => Awaits(u)
    BY <1>1, <1>4, <1>5, LaterPositive DEF Awaits
  <2> QED BY <1>2, <1>5, <2>1 DEF PollInv, AwaitParked, Parked
<1> QED BY <1>6, <1>7 DEF PollInv

LEMMA NextPoll ==
  ASSUME TypeOK, TypeOK', Once, ParksShielded, PollInv, ~replaced, ~replaced', [Next]_vars
  PROVE  PollInv'
<1>1. ASSUME NEW t \in Tasks, NEW n \in 1..MaxTimeout, NEW heard \in BOOLEAN, Ask(t, n, heard)
      PROVE  PollInv'
  BY <1>1, AskPoll
<1>2. ASSUME NEW t \in Tasks, RespondAlive(t) \/ RespondDead(t) \/ RespondAgain(t)
      PROVE  PollInv'
  BY <1>2, RespondPoll
<1>3. CASE LoopStep \/ Crash \/ Reconcile \/ Resume \/ \E t \in Tasks : Pulse(t) \/ Resolve(t)
  <2>1. ParksEnd /\ SlotMoves /\ injected' = injected
    BY <1>3, EndsOnly DEF Once
  <2>2. \A t \in Tasks : worker'[t] = worker[t] \/ worker'[t].at # "poll"
    <3>1. \/ worker' = worker
          \/ \E t : worker' = [worker EXCEPT ![t] = AtWork]
      BY <1>3 DEF LoopStep, FlushCheck, Flush, Dispatch, Merge, Settle, Sweep, SaveTasks,
           SaveManifest, Finish, Crash, Reconcile, Resume, Pulse, Resolve
    <3> QED BY <3>1 DEF TypeOK, AtWork
  <2>3. outrun' = outrun
    BY <1>3 DEF LoopStep, FlushCheck, Flush, Dispatch, Merge, Settle, Sweep, SaveTasks,
         SaveManifest, Finish, Crash, Reconcile, Resume, Pulse, Resolve, answers
  <2>4. ASSUME NEW t \in Tasks PROVE PollKnown(t)' /\ AwaitParked(t)'
    <3>1. PollKnown(t) /\ AwaitParked(t)
      BY DEF PollInv
    <3>2. CASE Awaits(t)
      BY <1>3, <2>1, <2>2, <3>1, <3>2, KnownKept, AwaitKept
    <3>3. CASE ~Awaits(t)
      BY <2>1, <2>2, <2>3, <3>1, <3>3, KnownKept DEF AwaitParked, Awaits
    <3> QED BY <3>2, <3>3
  <2> QED BY <2>4 DEF PollInv
<1>4. CASE Tick
  BY <1>4, TickPoll
<1>5. ASSUME NEW t \in Tasks, PickUp(t) \/ Expire(t) \/ ResolveLost(t) \/ Exit(t)
      PROVE  PollInv'
  <2>1. UNCHANGED <<task, slot, buffer, injected, outrun>>
    BY <1>5 DEF PickUp, Expire, ResolveLost, Exit, disk, memory, answers
  <2>2. \A u \in Tasks : worker'[u] = worker[u] \/ worker'[u].at # "poll"
    BY <1>5 DEF PickUp, Expire, ResolveLost, Exit, TypeOK, AtWork, Gone
  <2> QED BY <2>1, <2>2 DEF PollInv, PollKnown, AwaitParked, Awaits, Parked
<1>6. ASSUME NEW q \in Asks, Deliver(q) PROVE PollInv'
  BY <1>6 DEF Deliver, disk, memory, PollInv, PollKnown, AwaitParked, Awaits, Parked
<1>7. CASE UNCHANGED vars
  BY <1>7 DEF vars, PollInv, PollKnown, AwaitParked, Awaits, Parked
<1> QED BY <1>1, <1>2, <1>3, <1>4, <1>5, <1>6, <1>7 DEF Next, WorkerStep, LeaderStep

\* For any number of tasks, questions and timeouts: while the tool polls and
\* its time is not up, a respond finds its question, parked or by way of the
\* slot, unless a flush in another process had passed its check before the
\* question was asked (respond.ts:155-215).
THEOREM AlwaysAnswerable == Spec => []Answerable
<1>1. Init => Once /\ PollInv
  BY DEF Init, Once, WaitsOnly, Numbered, Apart, InjectedEnded, StagedLive, NoBuffer, NoSlot,
      Fresh, Task, Gone, PollInv, PollKnown, AwaitParked, Awaits
<1>2. TypeOK /\ TypeOK' /\ ParksShielded /\ (~replaced => Once /\ PollInv) /\ [Next]_vars =>
        (~replaced => Once /\ PollInv)'
  BY NextOnce, NextPoll, ReplacedStays
<1>3. TypeOK /\ (~replaced => Once /\ PollInv) => Answerable
  <2> SUFFICES ASSUME TypeOK, PollInv, NEW t \in Tasks, worker[t].at = "poll", worker[t].left > 0,
                      worker[t].ask \notin injected
               PROVE  \/ Healed(t)[t].ask = worker[t].ask
                      \/ worker[t].ask \in outrun /\ ~(slot.task = t /\ task[t].status = "running")
    BY DEF Answerable
  <2>1. CASE Parked(task, t)
    BY <2>1, HealedRows DEF PollInv, PollKnown, Parked
  <2>2. CASE ~Parked(task, t) /\ slot.task = t /\ task[t].status = "running"
    <3>1. slot.ask = worker[t].ask /\ slot.left = worker[t].left
      BY <2>2 DEF PollInv, PollKnown
    <3>2. Healed(t) = [task EXCEPT ![t] = Task("waiting", slot.ask, slot.left, task[t].steers)]
      BY <2>2, <3>1 DEF Healed, TypeOK, TaskTable
    <3> QED BY <3>1, <3>2 DEF Task, TypeOK, TaskTable
  <2>3. CASE ~Parked(task, t) /\ ~(slot.task = t /\ task[t].status = "running")
    BY <2>3 DEF PollInv, AwaitParked, Awaits
  <2> QED BY <2>1, <2>2, <2>3
<1> QED BY TypeCorrect, ParksAlwaysShielded, StepType, <1>1, <1>2, <1>3, PTL DEF Spec

-----------------------------------------------------------------------------
(* An answer given to a queued task waits there *)

\* The runner's memory: nothing without a runner, and a buffered heartbeat is
\* that of a unit at work.
RunnerInv ==
  /\ crashes \in {"crashed", "over"} => ~up
  /\ ~up => buffer = NoBuffer /\ \A t \in Tasks : unit[t].at = "none"
  /\ buffer # NoBuffer => buffer.task \in Tasks /\ unit[buffer.task].at = "work"

\* A buffered write nothing has come after is tasks.json with that heartbeat.
\* One that is being written brings no answer back, and no queued task to work.
BufferInv ==
  buffer # NoBuffer =>
    /\ ~buffer.checked => buffer.tasks = WithOwn(task, buffer.task)
    /\ buffer.tasks[buffer.task].steers = {}
    /\ \A t \in Tasks : buffer.tasks[t].steers \subseteq injected
    /\ \A t \in Tasks \ {buffer.task} : task[t].status = "queued" =>
         \/ buffer.tasks[t] = task[t]
         \/ Parked(buffer.tasks, t)
         \/ buffer.tasks[t].steers # task[t].steers

\* The next worker of a task the runner holds for queued is told what the
\* task has in tasks.json; a task at work has been told of all but what came in
\* under its unit.
SteersInv ==
  /\ \A t \in Tasks : /\ task[t].steers \subseteq injected
                      /\ Running(t) => task[t].steers \subseteq overtaken
  /\ \A t \in Tasks : up /\ runner.tasks[t].status = "queued" /\ unit[t].at = "none" =>
       task[t].status = "queued" /\ task[t].steers = runner.tasks[t].steers

AnswersKept == BufferInv /\ SteersInv /\ InjectedKept

LEMMA NextRunner ==
  ASSUME TypeOK, TypeOK', RunnerInv, [Next]_vars
  PROVE  RunnerInv'
<1> USE DEF up
<1>1. ASSUME UNCHANGED <<runner, unit, crashes>>, buffer' \in {buffer, NoBuffer}
      PROVE  RunnerInv'
  BY <1>1 DEF RunnerInv
<1>2. ASSUME NEW t \in Tasks, WorkerStep(t) PROVE RunnerInv'
  BY <1>1, <1>2 DEF WorkerStep, Ask, PickUp, Expire, Resolve, ResolveLost, Exit, memory,
     Superseded
<1>3. CASE LeaderStep
  BY <1>1, <1>3 DEF LeaderStep, RespondAlive, RespondDead, RespondAgain, Deliver, memory,
     Superseded
<1>4. ASSUME NEW t \in Tasks, Pulse(t) PROVE RunnerInv'
  <2>1. /\ buffer'.task = t /\ Running(t) /\ UNCHANGED <<runner, unit, crashes>>
    BY <1>4 DEF Pulse
  <2> QED BY <2>1 DEF RunnerInv, Running
<1>5. CASE FlushCheck
  <2>1. /\ buffer # NoBuffer /\ buffer'.task = buffer.task
        /\ UNCHANGED <<runner, unit, crashes>>
    BY <1>5 DEF FlushCheck, TypeOK
  <2> QED BY <1>5, <2>1 DEF FlushCheck, Undistracted, RunnerInv
<1>6. CASE Flush
  BY <1>6 DEF Flush, RunnerInv
<1>7. ASSUME NEW t \in Tasks, Dispatch(t) PROVE RunnerInv'
  <2>1. /\ runner'.phase = runner.phase /\ up /\ crashes' = crashes
        /\ buffer' = NoBuffer
    BY <1>7 DEF Dispatch, Undistracted, TypeOK
  <2> QED BY <2>1 DEF RunnerInv
<1>8. ASSUME NEW t \in Tasks, Merge(t) \/ \E v \in Verdicts : Settle(t, v) PROVE RunnerInv'
  <2>1. /\ up /\ up' /\ crashes' = crashes
        /\ buffer' = NoBuffer
    BY <1>8 DEF Merge, Settle, Undistracted
  <2> QED BY <2>1 DEF RunnerInv
<1>9. CASE Sweep \/ SaveTasks \/ SaveManifest
  <2>1. up /\ up' /\ UNCHANGED <<unit, crashes>> /\ buffer' \in {buffer, NoBuffer}
    BY <1>9 DEF Sweep, SaveTasks, SaveManifest, Undistracted, TypeOK
  <2> QED BY <2>1 DEF RunnerInv
<1>10. CASE Finish
  BY <1>10 DEF Finish, Down, RunnerInv
<1>11. CASE Crash
  BY <1>11 DEF Crash, Down, RunnerInv, NoUnit
<1>12. CASE Reconcile
  <2>1. ~up
    BY <1>12 DEF Reconcile, RunnerInv
  <2> QED BY <1>12, <2>1 DEF Reconcile, memory, RunnerInv
<1>13. CASE Resume
  <2>1. ~up /\ up' /\ crashes' = "resumed" /\ UNCHANGED <<unit, buffer>>
    BY <1>13 DEF Resume, RunnerInv
  <2> QED BY <2>1 DEF RunnerInv
<1>14. CASE Tick
  <2>1. \A t \in Tasks : unit'[t].at = unit[t].at
    BY <1>14 DEF Tick, TypeOK
  <2>2. runner'.phase = runner.phase /\ UNCHANGED <<crashes, buffer>> /\ buffer = NoBuffer
    BY <1>14 DEF Tick, Prompt, TypeOK
  <2> QED BY <2>1, <2>2 DEF RunnerInv
<1>15. CASE UNCHANGED vars
  BY <1>15 DEF vars, RunnerInv
<1> QED
  BY <1>2, <1>3, <1>4, <1>5, <1>6, <1>7, <1>8, <1>9, <1>10, <1>11, <1>12, <1>13, <1>14, <1>15
  DEF Next, LoopStep

\* A step that moves no answer about.
SteersStay == UNCHANGED <<injected, told, overtaken>> /\ \A t \in Tasks : task'[t].steers = task[t].steers

LEMMA StayKeepsInjected ==
  ASSUME SteersStay, InjectedKept, ~replaced
  PROVE  InjectedKept'
BY DEF SteersStay, InjectedKept

\* A step that takes answers from one task only, answers that came in under its
\* unit.
LEMMA OvertakenErased ==
  ASSUME UNCHANGED <<injected, told, overtaken>>, InjectedKept, ~replaced,
         NEW t \in Tasks, task[t].steers \subseteq overtaken,
         \A u \in Tasks : u # t => task'[u].steers = task[u].steers
  PROVE  InjectedKept'
BY DEF InjectedKept

\* What a heartbeat leaves of a table.
LEMMA OwnRows ==
  ASSUME TypeOK, NEW t \in Tasks
  PROVE  /\ \A u \in Tasks : u # t => WithOwn(task, t)[u] = task[u]
         /\ WithOwn(task, t)[t].steers = {}
BY RowOf DEF WithOwn, TypeOK, TaskTable, Task, Row

\* While a task is queued only a respond can have made it so after the check
\* of a buffered write; other steps leave its row alone.
LEMMA BufferKept ==
  ASSUME TypeOK, BufferInv, injected' = injected,
         \/ buffer' = NoBuffer
         \/ buffer' = buffer /\ (~buffer.checked => task' = task)
            /\ \A t \in Tasks : task'[t] = task[t] \/ task'[t].status # "queued"
  PROVE  BufferInv'
<1>1. CASE buffer' = NoBuffer
  BY <1>1 DEF BufferInv
<1>2. CASE buffer' = buffer /\ (~buffer.checked => task' = task)
           /\ \A t \in Tasks : task'[t] = task[t] \/ task'[t].status # "queued"
  BY <1>2 DEF BufferInv, Parked
<1> QED BY <1>1, <1>2

\* The runner's queued tasks under a step that is not its own.
LEMMA QueuedKept ==
  ASSUME TypeOK, SteersInv, SteersStay, UNCHANGED <<runner, unit>>,
         \A t \in Tasks : task[t].status = "queued" => task'[t].status = "queued"
  PROVE  SteersInv'
BY DEF SteersInv, SteersStay, Running, up

\* A park put back from the slot keeps its task's steers; it was at work.
LEMMA HealedSteers ==
  ASSUME TypeOK, NEW t \in Tasks
  PROVE  \A u \in Tasks : /\ Healed(t)[u].steers = task[u].steers
                          /\ task[u].status = "queued" => Healed(t)[u] = task[u]
                          /\ Healed(t)[u] = task[u] \/ Healed(t)[u].status = "waiting"
<1>1. CASE Healed(t) = task
  BY <1>1
<1>2. CASE /\ task[t].status = "running"
           /\ Healed(t)[t] = Task("waiting", slot.ask, slot.left, task[t].steers)
  <2>1. Healed(t)[t].steers = task[t].steers /\ Healed(t)[t].status = "waiting"
    BY <1>2 DEF Task
  <2> QED BY <1>2, <2>1, HealedRows
<1> QED BY <1>1, <1>2, HealedRows

\* Questions, their end and the healing of their parks.
LEMMA OthersKeepAnswers ==
  ASSUME TypeOK, TypeOK', AnswersKept, ~replaced,
         \/ \E t \in Tasks : WorkerStep(t) \/ RespondAlive(t) \/ RespondAgain(t)
         \/ \E q \in Asks : Deliver(q)
  PROVE  AnswersKept'
<1>1. /\ UNCHANGED <<injected, told, overtaken, runner, unit>> /\ buffer' \in {buffer, NoBuffer}
  BY DEF WorkerStep, Ask, PickUp, Expire, Resolve, ResolveLost, Exit, RespondAlive, RespondAgain,
     Deliver, memory, answers, Superseded
<1>2. /\ \A t \in Tasks : task'[t] = task[t] \/ (task'[t].status # "queued" /\ task[t].status # "queued")
      /\ \A t \in Tasks : task'[t].steers = task[t].steers
      /\ task' = task \/ buffer' = Superseded
  <2>1. ASSUME NEW t \in Tasks, NEW n \in 1..MaxTimeout, NEW heard \in BOOLEAN, Ask(t, n, heard)
        PROVE  /\ \A u \in Tasks : u # t => task'[u] = task[u]
               /\ task'[t].status = "waiting" /\ task[t].status = "running"
               /\ task'[t].steers = task[t].steers /\ buffer' = Superseded
    BY <2>1 DEF Ask, Task, TypeOK, TaskTable
  <2>2. ASSUME NEW t \in Tasks, Resolve(t)
        PROVE  \/ task' = task
               \/ /\ \A u \in Tasks : u # t => task'[u] = task[u]
                  /\ task'[t].status = "running" /\ task[t].status = "waiting"
                  /\ task'[t].steers = task[t].steers /\ buffer' = Superseded
    BY <2>2 DEF Resolve, Task, TypeOK, TaskTable, Parked, disk
  <2>3. ASSUME NEW t \in Tasks, PickUp(t) \/ Expire(t) \/ ResolveLost(t) \/ Exit(t)
        PROVE  task' = task
    BY <2>3 DEF PickUp, Expire, ResolveLost, Exit, disk
  <2>4. ASSUME NEW t \in Tasks, RespondAlive(t) \/ RespondAgain(t)
        PROVE  task' = Healed(t) /\ (task' = task \/ buffer' = Superseded)
    BY <2>4 DEF RespondAlive, RespondAgain
  <2>5. ASSUME NEW q \in Asks, Deliver(q) PROVE task' = task
    BY <2>5 DEF Deliver, disk
  <2> QED BY <2>1, <2>2, <2>3, <2>4, <2>5, HealedSteers DEF WorkerStep
<1>3. buffer' = buffer /\ ~buffer.checked => task' = task \/ buffer' = NoBuffer
  BY <1>2 DEF Superseded
<1>4. SteersStay
  BY <1>1, <1>2 DEF SteersStay
<1>5. BufferInv'
  BY <1>1, <1>2, <1>3, BufferKept DEF AnswersKept
<1>6. SteersInv'
  BY <1>1, <1>2, <1>4, QueuedKept DEF AnswersKept
<1>7. InjectedKept'
  BY <1>4, StayKeepsInjected DEF AnswersKept
<1> QED BY <1>5, <1>6, <1>7 DEF AnswersKept

\* The answer is put where the task's next worker is told of it, unless a unit
\* is still at the task; a heartbeat's write that is under way does not have it.
LEMMA RespondDeadKeeps ==
  ASSUME TypeOK, TypeOK', Once, RunnerInv, AnswersKept, ~replaced, NEW t \in Tasks, RespondDead(t)
  PROVE  AnswersKept'
<1> DEFINE found == Healed(t)
           q == found[t].ask
<1>1. /\ UNCHANGED <<told, runner, unit>> /\ injected' = injected \cup {q}
      /\ buffer' \in {buffer, NoBuffer} /\ (buffer' = buffer => buffer.checked \/ buffer = NoBuffer)
      /\ overtaken' = IF unit[t].at = "work" THEN overtaken \cup {q} ELSE overtaken
      /\ found[t].status = "waiting" /\ found \in TaskTable
  BY HealedType DEF RespondDead, Superseded, Parked
<1>2. task' = [found EXCEPT ![t] = Task("queued", 0, 0, found[t].steers \cup {q})]
  BY <1>1 DEF RespondDead, TaskTable
<1>3. /\ \A u \in Tasks : u # t => task'[u] = task[u]
      /\ task'[t].steers = task[t].steers \cup {q} /\ task'[t].status = "queued"
  <2> DEFINE r == Task("queued", 0, 0, found[t].steers \cup {q})
  <2>1. /\ \A u \in Tasks : u # t => found[u] = task[u]
        /\ found[t].steers = task[t].steers
    BY HealedRows, HealedSteers
  <2>2. r.steers = found[t].steers \cup {q} /\ r.status = "queued"
    BY DEF Task
  <2> HIDE DEF r, found, q
  <2>3. \A u \in Tasks : task'[u] = IF u = t THEN r ELSE found[u]
    BY <1>1, <1>2 DEF r, TaskTable
  <2> QED BY <2>1, <2>2, <2>3
<1>4. q \notin injected
  BY HealedParts
<1>5. task[t].status # "queued"
  BY <1>1, HealedSteers
<1> HIDE DEF found, q
<1>6. BufferInv'
  <2>1. CASE buffer' = NoBuffer
    BY <2>1 DEF BufferInv
  <2>2. CASE buffer' = buffer /\ buffer.checked
    <3>1. buffer # NoBuffer => buffer.tasks[t].steers # task'[t].steers
      BY <1>3, <1>4, <2>2 DEF AnswersKept, BufferInv
    <3> QED BY <1>1, <1>3, <2>2, <3>1 DEF AnswersKept, BufferInv, Parked
  <2> QED BY <1>1, <2>1, <2>2
<1>7. SteersInv'
  BY <1>1, <1>3, <1>5 DEF AnswersKept, SteersInv, Running, up
<1>8. InjectedKept'
  BY <1>1, <1>3 DEF AnswersKept, InjectedKept
<1> QED BY <1>6, <1>7, <1>8 DEF AnswersKept

\* The runner, its heartbeats and their flush.
LEMMA LoopKeepsAnswers ==
  ASSUME TypeOK, TypeOK', RunnerInv, RunnerInv', AnswersKept, ~replaced, ~replaced',
         LoopStep \/ \E t \in Tasks : Pulse(t)
  PROVE  AnswersKept'
<1>0. injected' = injected
  BY DEF LoopStep, Pulse, FlushCheck, Flush, Dispatch, Merge, Settle, Sweep, SaveTasks,
     SaveManifest, Finish, answers
<1>1. ASSUME NEW t \in Tasks, Pulse(t) PROVE AnswersKept'
  <2>1. /\ buffer' = [task |-> t, tasks |-> WithOwn(task, t), checked |-> FALSE]
        /\ UNCHANGED <<task, runner, unit, injected, told, overtaken>>
    BY <1>1 DEF Pulse, disk, answers
  <2>2. BufferInv'
    BY <2>1, OwnRows DEF AnswersKept, SteersInv, BufferInv
  <2> QED
    BY <2>1, <2>2 DEF AnswersKept, SteersInv, InjectedKept, Running, up
<1>2. CASE FlushCheck
  <2>1. /\ buffer'.task = buffer.task /\ buffer'.tasks = buffer.tasks /\ buffer'.checked
        /\ UNCHANGED <<task, runner, unit, injected, told, overtaken>> /\ buffer # NoBuffer
    BY <1>2 DEF FlushCheck, disk, answers, TypeOK
  <2>2. BufferInv'
    BY <2>1 DEF AnswersKept, BufferInv, Parked
  <2> QED
    BY <2>1, <2>2 DEF AnswersKept, SteersInv, InjectedKept, Running, up
<1>3. CASE Flush
  <2>1. /\ task' = buffer.tasks /\ buffer' = NoBuffer /\ buffer # NoBuffer
        /\ UNCHANGED <<runner, unit, injected, told, overtaken>>
        /\ buffer.task \in Tasks /\ Running(buffer.task)
    BY <1>3 DEF Flush, answers, RunnerInv, Running
  <2>2. \A t \in Tasks : task'[t] # task[t] =>
          ~Parked(buffer.tasks, t) /\ (t = buffer.task \/ task'[t].steers = task[t].steers)
    BY <1>3 DEF Flush
  <2>3. /\ \A t \in Tasks : t # buffer.task => task'[t].steers = task[t].steers
        /\ task'[buffer.task].steers = {} /\ task[buffer.task].steers \subseteq overtaken
    BY <2>1, <2>2 DEF AnswersKept, BufferInv, SteersInv
  <2>4. \A t \in Tasks \ {buffer.task} : task[t].status = "queued" => task'[t] = task[t]
    BY <2>1, <2>2, <2>3 DEF AnswersKept, BufferInv
  <2>5. unit[buffer.task].at = "work"
    BY <2>1 DEF Running
  <2>6. SteersInv'
    BY <2>1, <2>3, <2>4, <2>5 DEF AnswersKept, SteersInv, Running, up
  <2>7. InjectedKept'
    BY <2>1, <2>3, OvertakenErased DEF AnswersKept
  <2> QED BY <2>1, <2>6, <2>7 DEF AnswersKept, BufferInv
<1>4. ASSUME NEW t \in Tasks, Dispatch(t) PROVE AnswersKept'
  <2>1. /\ up /\ up' /\ runner.tasks[t].status = "queued" /\ unit[t].at = "none"
        /\ task' = WithOwn(task, t) /\ UNCHANGED <<injected, overtaken>>
        /\ told' = told \cup runner.tasks[t].steers
        /\ buffer = NoBuffer /\ buffer' = NoBuffer
    BY <1>4 DEF Dispatch, Undistracted, up, TypeOK
  <2>2. /\ \A u \in Tasks : u # t => runner'.tasks[u] = runner.tasks[u] /\ unit'[u] = unit[u]
        /\ unit'[t].at = "work"
    BY <1>4 DEF Dispatch, TypeOK, TaskTable, NoUnit
  <2>3. task[t].steers \subseteq told'
    BY <2>1 DEF AnswersKept, SteersInv
  <2>4. InjectedKept'
    BY <2>1, <2>3, OwnRows DEF AnswersKept, InjectedKept
  <2>5. SteersInv'
    BY <2>1, <2>2, OwnRows DEF AnswersKept, SteersInv, Running
  <2> QED BY <2>1, <2>4, <2>5 DEF AnswersKept, BufferInv
<1>5. ASSUME NEW t \in Tasks, NEW v \in Verdicts, Settle(t, v) PROVE AnswersKept'
  <2>1. /\ Running(t) /\ buffer' = NoBuffer /\ UNCHANGED <<runner, injected, told, overtaken>>
        /\ \A u \in Tasks : task'[u] = IF u = t THEN SettledTask(t, v) ELSE task[u]
        /\ \A u \in Tasks : u # t => unit'[u] = unit[u]
        /\ unit'[t].at = "settled"
    BY <1>5 DEF Settle, answers, TypeOK, TaskTable
  <2>2. SettledTask(t, v).steers = {} /\ task[t].steers \subseteq overtaken
    BY <2>1 DEF SettledTask, Task, AnswersKept, SteersInv
  <2>3. InjectedKept'
    BY <2>1, <2>2, OvertakenErased DEF AnswersKept
  <2>4. SteersInv'
    BY <2>1, <2>2 DEF AnswersKept, SteersInv, Running, up
  <2> QED BY <2>1, <2>3, <2>4 DEF AnswersKept, BufferInv
<1>6. ASSUME NEW t \in Tasks, Merge(t) PROVE AnswersKept'
  <2>1. /\ task' = task /\ runner'.tasks = task /\ buffer' = NoBuffer
        /\ UNCHANGED <<injected, told, overtaken>>
        /\ \A u \in Tasks : u # t => unit'[u] = unit[u]
        /\ unit'[t].at = "none" /\ up
    BY <1>6 DEF Merge, Undistracted, answers, TypeOK, NoUnit
  <2> QED
    BY <2>1 DEF AnswersKept, BufferInv, SteersInv, InjectedKept, Running, up
<1>7. CASE Sweep
  <2> DEFINE dead == {t \in Tasks : Expired(t) /\ ~LooksAlive(t)}
             swept == [t \in Tasks |-> IF t \in dead THEN Task("queued", 0, 0, task[t].steers)
                                       ELSE task[t]]
  <2>1. /\ UNCHANGED <<unit, injected, told, overtaken>> /\ up /\ up' /\ ~buffer.checked
        /\ \/ /\ task' = swept /\ runner'.tasks = swept
              /\ buffer' = IF dead = {} THEN buffer ELSE NoBuffer
           \/ task' = task /\ runner'.tasks = runner.tasks /\ buffer' = buffer
    BY <1>7 DEF Sweep, Undistracted, answers, disk, up, TypeOK
  <2>2. /\ \A t \in Tasks : swept[t].steers = task[t].steers
        /\ dead = {} => swept = task
    BY DEF Task, TypeOK, TaskTable
  <2> HIDE DEF dead, swept
  <2>3. SteersStay
    BY <2>1, <2>2 DEF SteersStay
  <2>4. SteersInv'
    BY <2>1, <2>2 DEF AnswersKept, SteersInv, Running
  <2>5. buffer' = NoBuffer \/ (buffer' = buffer /\ task' = task)
    BY <2>1, <2>2
  <2>6. BufferInv'
    BY <2>1, <2>5, BufferKept DEF AnswersKept
  <2> QED BY <2>3, <2>4, <2>6, StayKeepsInjected DEF AnswersKept
<1>8. CASE SaveTasks \/ SaveManifest \/ Finish
  <2>1. UNCHANGED <<task, injected, told, overtaken, unit>> /\ buffer' \in {buffer, NoBuffer}
    BY <1>8, SavesKeep DEF SaveTasks, SaveManifest, Finish, disk, answers
  <2>2. \/ up /\ runner'.tasks = runner.tasks
        \/ ~up'
    BY <1>8 DEF SaveTasks, SaveManifest, Finish, Undistracted, Down, up, TypeOK
  <2>3. SteersInv'
    BY <2>1, <2>2 DEF AnswersKept, SteersInv, Running
  <2>4. BufferInv'
    BY <2>1, BufferKept DEF AnswersKept
  <2> QED BY <2>1, <2>3, <2>4 DEF AnswersKept, InjectedKept
<1> QED BY <1>1, <1>2, <1>3, <1>4, <1>5, <1>6, <1>7, <1>8 DEF LoopStep

\* A death, the repair after it, a resume, and time.
LEMMA RestKeepsAnswers ==
  ASSUME TypeOK, TypeOK', RunnerInv, RunnerInv', AnswersKept, ~replaced,
         Crash \/ Reconcile \/ Resume \/ Tick
  PROVE  AnswersKept'
<1>1. CASE Crash
  <2>1. UNCHANGED <<task, injected, told, overtaken>> /\ buffer' = NoBuffer /\ ~up'
    BY <1>1 DEF Crash, disk, answers, Down, up
  <2> QED BY <2>1 DEF AnswersKept, BufferInv, SteersInv, InjectedKept, Running
<1>2. CASE Reconcile
  <2>1. ~up /\ ~up' /\ buffer' = NoBuffer /\ UNCHANGED <<injected, told, overtaken>>
    BY <1>2 DEF Reconcile, RunnerInv, memory, answers, up
  <2>2. SteersStay
    BY <1>2, <2>1 DEF SteersStay, Reconcile, Task
  <2> QED
    BY <2>1, <2>2, StayKeepsInjected DEF AnswersKept, BufferInv, SteersInv, SteersStay, Running
<1>3. CASE Resume
  <2>1. /\ ~up /\ up' /\ buffer' = NoBuffer /\ UNCHANGED <<unit, injected, told, overtaken>>
        /\ runner'.tasks = task' /\ \A t \in Tasks : unit[t].at = "none"
    BY <1>3 DEF Resume, RunnerInv, answers, up
  <2>2. SteersStay
    BY <1>3, <2>1 DEF SteersStay, Resume, Task
  <2> QED
    BY <2>1, <2>2, StayKeepsInjected DEF AnswersKept, BufferInv, SteersInv, SteersStay, Running
<1>4. CASE Tick
  <2>1. /\ buffer' = NoBuffer /\ UNCHANGED <<injected, told, overtaken>> /\ (up' <=> up)
        /\ \A t \in Tasks : unit'[t].at = unit[t].at
    BY <1>4 DEF Tick, Prompt, answers, up, TypeOK
  <2>2. ASSUME NEW tasks \in TaskTable, NEW t \in Tasks
        PROVE  Aged(tasks)[t].status = tasks[t].status /\ Aged(tasks)[t].steers = tasks[t].steers
    <3>1. tasks[t] \in Row
      BY RowOf
    <3> QED BY <3>1 DEF Aged, Row
  <2>3. /\ task' = Aged(task) /\ runner'.tasks = Aged(runner.tasks)
        /\ task \in TaskTable /\ runner.tasks \in TaskTable
    BY <1>4 DEF Tick, TypeOK
  <2>4. SteersStay
    BY <2>1, <2>2, <2>3 DEF SteersStay
  <2>5. SteersInv'
    BY <2>1, <2>2, <2>3 DEF AnswersKept, SteersInv, Running
  <2> QED BY <2>1, <2>4, <2>5, StayKeepsInjected DEF AnswersKept, BufferInv
<1> QED BY <1>1, <1>2, <1>3, <1>4

\* For any number of tasks and questions, wherever the runner dies: an answer
\* given to a queued task is there until a new worker has been told it, as
\* long as no save from an older copy intervenes and no unit was still at the
\* task when the answer came.
THEOREM InjectedAlwaysKept == Spec => []InjectedKept
<1>1. Init => Once /\ RunnerInv /\ AnswersKept
  BY DEF Init, Once, WaitsOnly, Numbered, Apart, InjectedEnded, StagedLive, NoBuffer, NoSlot,
      Fresh, Task, RunnerInv, AnswersKept, BufferInv, SteersInv, InjectedKept, Running, up, Down,
      NoUnit
<1>2. TypeOK /\ TypeOK' /\ RunnerInv /\ [Next]_vars => RunnerInv'
  BY NextRunner
<1>3. TypeOK /\ TypeOK' /\ (~replaced => Once) /\ [Next]_vars => (~replaced => Once)'
  BY NextOnce, ReplacedStays
<1>4. TypeOK /\ TypeOK' /\ RunnerInv /\ RunnerInv' /\ (~replaced => Once /\ AnswersKept)
      /\ [Next]_vars => (~replaced => AnswersKept)'
  <2> SUFFICES ASSUME TypeOK, TypeOK', RunnerInv, RunnerInv', ~replaced, Once, AnswersKept,
                      ~replaced', [Next]_vars
               PROVE  AnswersKept'
    BY ReplacedStays
  <2>1. CASE \E t \in Tasks : WorkerStep(t)
    BY <2>1, OthersKeepAnswers
  <2>2. CASE LeaderStep
    BY <2>2, OthersKeepAnswers, RespondDeadKeeps DEF LeaderStep
  <2>3. CASE LoopStep \/ \E t \in Tasks : Pulse(t)
    BY <2>3, LoopKeepsAnswers
  <2>4. CASE Crash \/ Reconcile \/ Resume \/ Tick
    BY <2>4, RestKeepsAnswers
  <2>5. CASE UNCHANGED vars
    BY <2>5 DEF vars, AnswersKept, BufferInv, SteersInv, InjectedKept, Running, up, Parked, WithOwn
  <2> QED BY <2>1, <2>2, <2>3, <2>4, <2>5 DEF Next
<1>5. (~replaced => AnswersKept) => InjectedKept
  BY DEF AnswersKept, InjectedKept
<1> QED BY TypeCorrect, StepType, <1>1, <1>2, <1>3, <1>4, <1>5, PTL DEF Spec

=============================================================================
