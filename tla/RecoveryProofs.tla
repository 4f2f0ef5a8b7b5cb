--------------------------- MODULE RecoveryProofs ---------------------------
(***************************************************************************)
(* For every number of sessions and tasks, every setting and every death:  *)
(* nobody takes a run at work for an abandoned one, no resume doubles a    *)
(* runner, and a run that reads cancelled or completed has no task under   *)
(* way, as long as the registry shows the run that is at work.             *)
(***************************************************************************)
EXTENDS Recovery, FiniteSetTheorems, TLAPS

\* The points at which a session has the run lock, by what it is about to do.
CancelPoints == {"orphan settle", "purge settle"}
SettlePoints == CancelPoints \cup {"reconcile settle", "poll tasks"}
ResumePoints == {"reset", "enter", "register"}
Inside == SettlePoints \cup ResumePoints

\* Nobody executes the run, as far as the registry can tell.
Deserted == hidden \/ runners = {}

\* Who is inside has the lock; who is about to settle or to adopt the run has
\* made sure that nobody executes it, and that stays so.
Exclusive == \A s \in Session : s \in alive /\ at[s] \in Inside => lock = s /\ Deserted

Cancelling == \A s \in Session : s \in alive /\ at[s] \in CancelPoints => With(Open) = {}

Adopting ==
  \A s \in Session : s \in alive /\ at[s] \in ResumePoints =>
    /\ ~manifest.async /\ manifest.updated = 0
    /\ at[s] = "register" => manifest.status = "running"

\* A run at work is seen in the registry, has a heartbeat once it has begun,
\* and is its background process's own as long as that is noted.
Visible == Deserted \/ EntryAlive
Beating == Deserted \/ manifest.status = "queued" \/ beat
OwnProcess == manifest.async => runners \subseteq {Detached}
Alone == hidden \/ \A p, q \in runners : p = q

Closed == manifest.status \in {"cancelled", "completed"} => With(Open) = {}

Locked == Exclusive /\ Cancelling /\ Adopting
Shown == Visible /\ Beating /\ OwnProcess /\ Alone

RunInv == TypeOK /\ Locked /\ Shown /\ Closed

-----------------------------------------------------------------------------
(* Types *)

ManifestType == [status: RunStatus, owner: Session, async: BOOLEAN,
                 updated: 0..3, wait: {"none", "approval", "answer"}]
TaskType == [status: TaskStatus, seen: -1..2, claimed: BOOLEAN]
Points == {"gone", "up", "orphan", "orphan judge", "orphan settle", "purge",
           "purge judge", "purge settle", "drop", "reconcile", "reconcile settle",
           "poll", "poll tasks", "adopt", "reset", "enter", "register"}

\* Only an open task shows signs of life or a claim.
TasksTyped ==
  /\ tasks \in [setting.todo -> TaskType]
  /\ \A t \in setting.todo : tasks[t].status \notin Open => tasks[t].seen = Never /\ ~tasks[t].claimed

ProcessesTyped == alive \subseteq Process /\ runners \subseteq alive
FlagsTyped == beat \in BOOLEAN /\ registered \in BOOLEAN /\ hidden \in BOOLEAN

Typed ==
  /\ setting \in Settings /\ ProcessesTyped /\ manifest \in ManifestType
  /\ FlagsTyped /\ TasksTyped
  /\ lock \in Session \cup {Free} /\ at \in [Session -> Points]

LEMMA TypedMeans == TypeOK <=> Typed
  BY DEF TypeOK, Typed, ProcessesTyped, FlagsTyped, TasksTyped, ManifestType, TaskType, Points

LEMMA PutTyped ==
  ASSUME TasksTyped, NEW set, NEW status \in TaskStatus, tasks' = Put(set, status), setting' = setting
  PROVE  TasksTyped'
<1>1. tasks' \in [setting.todo -> TaskType]
  BY DEF TasksTyped, Put, TaskType, Never
<1>2. \A t \in setting.todo : tasks'[t].status \notin Open => tasks'[t].seen = Never /\ ~tasks'[t].claimed
  BY DEF TasksTyped, Put, TaskType, Never
<1> QED
  BY <1>1, <1>2 DEF TasksTyped

\* A task that is under way in the new array may say anything, the others stay.
LEMMA OpenTyped ==
  ASSUME TasksTyped, NEW t \in setting.todo, NEW r \in TaskType, r.status \in Open,
         tasks' = [tasks EXCEPT ![t] = r], setting' = setting
  PROVE  TasksTyped'
  BY DEF TasksTyped

LEMMA SaveTyped ==
  ASSUME manifest \in ManifestType, NEW status \in RunStatus
  PROVE  [manifest EXCEPT !.status = status, !.updated = 0] \in ManifestType
<1>1. [manifest EXCEPT !.status = status] \in ManifestType
  BY DEF ManifestType
<1>2. \A m \in ManifestType : [m EXCEPT !.updated = 0] \in ManifestType
  BY DEF ManifestType
<1> QED
  BY <1>1, <1>2

LEMMA SettledTyped ==
  ASSUME manifest \in ManifestType, NEW status \in RunStatus, NEW wait \in {"none", "approval", "answer"}
  PROVE  /\ [manifest EXCEPT !.status = status, !.updated = 0, !.wait = wait] \in ManifestType
         /\ [manifest EXCEPT !.wait = wait, !.updated = 0] \in ManifestType
<1>1. [manifest EXCEPT !.status = status] \in ManifestType
  BY DEF ManifestType
<1>2. \A m \in ManifestType : [m EXCEPT !.updated = 0] \in ManifestType
  BY DEF ManifestType
<1>3. \A m \in ManifestType : [m EXCEPT !.wait = wait] \in ManifestType
  BY DEF ManifestType
<1> QED
  BY <1>1, <1>2, <1>3

\* What a runner does keeps the types.
LEMMA RunnerTyped == ASSUME Typed, NEW p \in Process, Runner(p) PROVE Typed'
<1>1. setting' = setting /\ lock' = lock /\ at' = at
  BY DEF Runner, Begin, Dispatch, Report, Finish, Ask, Answered, Block, End, GiveUp, Runs
<1>2. Runner(p) => ProcessesTyped'
  BY DEF Runner, Begin, Dispatch, Report, Finish, Ask, Answered, Block, End, GiveUp, Runs, Leaves, Typed, ProcessesTyped
<1>3. FlagsTyped'
  BY DEF Runner, Begin, Dispatch, Report, Finish, Ask, Answered, Block, End, GiveUp, Unregister, Typed, FlagsTyped, registry
<1>4. manifest' \in ManifestType
  <2>1. CASE Begin(p) \/ Finish(p) \/ End(p)
    BY <2>1, SaveTyped DEF Begin, Finish, End, Save, Typed, RunStatus
  <2>2. CASE Ask(p) \/ Answered(p)
    BY <2>2, SettledTyped DEF Ask, Answered, Typed, ManifestType
  <2>3. CASE Block(p)
    <3>1. PICK wait \in {manifest.wait} \cup (IF setting.parks THEN {"approval"} ELSE {}) :
             manifest' = [manifest EXCEPT !.status = "blocked", !.updated = 0, !.wait = wait]
      BY <2>3 DEF Block
    <3>2. wait \in {"none", "approval", "answer"} /\ "blocked" \in RunStatus
      BY <3>1 DEF Typed, ManifestType, RunStatus
    <3> QED
      BY <3>1, <3>2, SettledTyped DEF Typed
  <2>4. CASE Dispatch(p) \/ Report(p) \/ GiveUp(p)
    BY <2>4 DEF Dispatch, Report, GiveUp, Typed
  <2> QED
    BY <2>1, <2>2, <2>3, <2>4 DEF Runner
<1>5. TasksTyped'
  <2>1. CASE Begin(p) \/ Block(p) \/ GiveUp(p)
    BY <1>1, <2>1 DEF Begin, Block, GiveUp, Typed, TasksTyped
  <2>2. CASE Finish(p) \/ End(p)
    BY <1>1, <2>2, PutTyped DEF Finish, End, Typed, TaskStatus
  <2>3. CASE Dispatch(p)
    <3>1. PICK t \in With({"queued"}), single \in BOOLEAN :
             tasks' = [tasks EXCEPT ![t] = [status |-> "running", claimed |-> single,
                                            seen |-> IF single THEN 0 ELSE Never]]
      BY <2>3 DEF Dispatch
    <3>2. [status |-> "running", claimed |-> single, seen |-> IF single THEN 0 ELSE Never] \in TaskType
      BY DEF TaskType, TaskStatus, Never
    <3> QED
      BY <1>1, <3>1, <3>2, OpenTyped DEF Typed, With, Open
  <2>4. CASE Report(p)
    <3>1. PICK t \in With({"running"}) : tasks' = [tasks EXCEPT ![t].seen = 0]
      BY <2>4 DEF Report
    <3> QED
      BY <1>1, <3>1 DEF Typed, TasksTyped, With, TaskType, Open
  <2>5. CASE Ask(p)
    <3>1. PICK t \in With({"running"}) : tasks' = [tasks EXCEPT ![t].status = "waiting"]
      BY <2>5 DEF Ask
    <3> QED
      BY <1>1, <3>1 DEF Typed, TasksTyped, With, TaskType, TaskStatus, Open
  <2>6. CASE Answered(p)
    <3>1. PICK t \in With({"waiting"}) : tasks' = [tasks EXCEPT ![t].status = "running", ![t].seen = 0]
      BY <2>6 DEF Answered
    <3> QED
      BY <1>1, <3>1 DEF Typed, TasksTyped, With, TaskType, TaskStatus, Open
  <2> QED
    BY <2>1, <2>2, <2>3, <2>4, <2>5, <2>6 DEF Runner
<1> QED
  BY <1>1, <1>2, <1>3, <1>4, <1>5 DEF Typed

Environment(p) == Approve \/ Crash(p) \/ Elapse \/ Prune

LEMMA EnvironmentTyped == ASSUME Typed, NEW p \in Process, Environment(p) PROVE Typed'
<1>1. setting' = setting /\ lock' = lock /\ at' \in [Session -> Points]
  BY DEF Environment, Approve, Crash, Elapse, Prune, Typed, Points
<1>2. ProcessesTyped' /\ FlagsTyped'
  BY DEF Environment, Approve, Crash, Elapse, Prune, Unregister, registry, Typed, ProcessesTyped, FlagsTyped
<1>3. manifest' \in ManifestType
  <2>1. CASE Approve
    BY <2>1, SettledTyped DEF Approve, Typed, ManifestType
  <2>2. CASE Elapse
    <3>1. CASE manifest' = [manifest EXCEPT !.updated = @ + 1] /\ manifest.updated < 3
      BY <3>1 DEF Typed, ManifestType
    <3>2. CASE manifest' = [manifest EXCEPT !.wait = "none"]
      BY <3>2 DEF Typed, ManifestType
    <3>3. CASE manifest' = manifest
      BY <3>3 DEF Typed
    <3>4. \/ manifest' = [manifest EXCEPT !.updated = @ + 1] /\ manifest.updated < 3
          \/ manifest' = [manifest EXCEPT !.wait = "none"]
          \/ manifest' = manifest
      BY <2>2 DEF Elapse, Typed, ManifestType
    <3> QED
      BY <3>1, <3>2, <3>3, <3>4
  <2>3. CASE Crash(p) \/ Prune
    BY <2>3 DEF Crash, Prune, Typed
  <2> QED
    BY <2>1, <2>2, <2>3 DEF Environment
<1>4. TasksTyped'
  <2>1. CASE tasks' = tasks
    BY <1>1, <2>1 DEF Typed, TasksTyped
  <2>2. CASE Elapse /\ tasks' # tasks
    <3>1. PICK t \in With(Open) :
            \/ tasks[t].seen \in {0, 1} /\ tasks' = [tasks EXCEPT ![t].seen = @ + 1]
            \/ tasks' = [tasks EXCEPT ![t].claimed = FALSE]
      BY <2>2 DEF Elapse
    <3>2. t \in setting.todo /\ tasks[t].status \in Open
      BY DEF With
    <3>3. CASE tasks[t].seen \in {0, 1} /\ tasks' = [tasks EXCEPT ![t].seen = @ + 1]
      BY <1>1, <3>2, <3>3 DEF Typed, TasksTyped, TaskType
    <3>4. CASE tasks' = [tasks EXCEPT ![t].claimed = FALSE]
      BY <1>1, <3>2, <3>4 DEF Typed, TasksTyped, TaskType
    <3> QED
      BY <3>1, <3>3, <3>4
  <2> QED
    BY <2>1, <2>2 DEF Environment, Approve, Crash, Prune
<1> QED
  BY <1>1, <1>2, <1>3, <1>4 DEF Typed

\* The steps of a session by what they write.
Look(s) ==
  \/ LookOrphan(s) \/ LookPurge(s) \/ LookStale(s) \/ LookPoll(s) \/ LookResume(s) \/ Spare(s)

Judge(s) == JudgeOrphan(s) \/ JudgePurge(s) \/ FastPath(s) \/ Repair(s)

Settle(s) == SettleOrphan(s) \/ SettlePurge(s) \/ SettleStale(s)

SessionStep(s) ==
  \/ Look(s) \/ Judge(s) \/ Settle(s) \/ Drop(s) \/ TakeResult(s) \/ Poll(s) \/ Resume(s)

LEMMA SessionTyped == ASSUME Typed, NEW s \in Session, SessionStep(s) PROVE Typed'
<1>1. setting' = setting /\ alive' = alive /\ s \in alive
  BY DEF SessionStep, Look, Judge, Settle, Drop, TakeResult, Poll, Resume, LookOrphan, LookPurge, LookStale,
         LookPoll, LookResume, Spare, JudgeOrphan, JudgePurge, FastPath, Repair, SettleOrphan, SettlePurge,
         SettleStale, PollStatus, PollTasks, Adopt, Reset, Enter, Register, Looks, Reconciles, Stands
<1>2. lock' \in Session \cup {Free} /\ at' \in [Session -> Points]
  <2>1. CASE Look(s)
    BY <2>1 DEF Look, LookOrphan, LookPurge, LookStale, LookPoll, LookResume, Spare, Looks, LetsBe, Goes,
                data, Typed, Points
  <2>2. CASE Judge(s)
    BY <2>2 DEF Judge, JudgeOrphan, JudgePurge, FastPath, Repair, Rewrites, LetsBe, Goes, data, Typed, Points
  <2>3. CASE Settle(s) \/ Drop(s) \/ TakeResult(s)
    BY <2>3 DEF Settle, SettleOrphan, SettlePurge, SettleStale, Settles, Drop, TakeResult, Goes, Typed, Points
  <2>4. CASE Poll(s) \/ Resume(s)
    BY <2>4 DEF Poll, PollStatus, PollTasks, Resume, Adopt, Adopts, Reset, Enter, Register, LetsBe, Goes,
                data, Typed, Points
  <2> QED
    BY <2>1, <2>2, <2>3, <2>4 DEF SessionStep
<1>3. ProcessesTyped'
  <2>1. runners' \subseteq runners \cup {s}
    BY DEF SessionStep, Look, Judge, Settle, Drop, TakeResult, Poll, Resume, LookOrphan, LookPurge, LookStale,
           LookPoll, LookResume, Spare, JudgeOrphan, JudgePurge, FastPath, Repair, SettleOrphan, SettlePurge,
           SettleStale, PollStatus, PollTasks, Adopt, Adopts, Reset, Enter, Register, Looks, LetsBe, Rewrites,
           Settles, data
  <2> QED
    BY <1>1, <2>1 DEF Typed, ProcessesTyped
<1>4. FlagsTyped'
  <2>1. CASE UNCHANGED <<beat, registered, hidden>>
    BY <2>1 DEF Typed, FlagsTyped
  <2>2. CASE Unregister(runners) /\ beat' = beat
    BY <2>2 DEF Unregister, Typed, FlagsTyped
  <2>3. CASE Register(s)
    BY <2>3 DEF Register, Typed, FlagsTyped
  <2> QED
    BY <2>1, <2>2, <2>3
    DEF SessionStep, Look, Judge, Settle, Drop, TakeResult, Poll, Resume, LookOrphan, LookPurge, LookStale,
        LookPoll, LookResume, Spare, JudgeOrphan, JudgePurge, FastPath, Repair, SettleOrphan, SettlePurge,
        SettleStale, PollStatus, PollTasks, Adopt, Adopts, Reset, Enter, Looks, LetsBe, Rewrites,
        Settles, data, registry
<1>5. manifest' \in ManifestType
  <2>1. CASE UNCHANGED manifest
    BY <2>1 DEF Typed
  <2>2. CASE Settle(s)
    <3>1. manifest.wait \in {"none", "approval", "answer"} /\ WaitCleared \in {"none", "approval", "answer"}
      BY DEF Typed, ManifestType, WaitCleared
    <3>2. \/ manifest' = [manifest EXCEPT !.status = "cancelled", !.updated = 0, !.wait = WaitCleared]
          \/ manifest' = [manifest EXCEPT !.status = "failed", !.updated = 0, !.wait = manifest.wait]
      BY <2>2 DEF Settle, SettleOrphan, SettlePurge, SettleStale, Settles
    <3>3. "cancelled" \in RunStatus /\ "failed" \in RunStatus /\ manifest \in ManifestType
      BY DEF RunStatus, Typed
    <3> QED
      <4>1. [manifest EXCEPT !.status = "cancelled", !.updated = 0, !.wait = WaitCleared] \in ManifestType
        BY <3>1, <3>3, SettledTyped, Zenon
      <4>2. [manifest EXCEPT !.status = "failed", !.updated = 0, !.wait = manifest.wait] \in ManifestType
        BY <3>1, <3>3, SettledTyped, Zenon
      <4> QED
        BY <3>2, <4>1, <4>2, Zenon
  <2>3. CASE TakeResult(s)
    <3>1. PICK status \in {"failed", "cancelled", "completed"} :
            manifest' = [manifest EXCEPT !.status = status, !.updated = IF status = "failed" THEN 0 ELSE @]
      BY <2>3, Zenon DEF TakeResult
    <3>2. status \in RunStatus
      BY DEF RunStatus
    <3>3. \A m \in ManifestType, u \in 0..3 : [m EXCEPT !.status = status, !.updated = u] \in ManifestType
      <4>1. \A m \in ManifestType : [m EXCEPT !.status = status] \in ManifestType
        BY <3>2 DEF ManifestType
      <4>2. \A m \in ManifestType, u \in 0..3 : [m EXCEPT !.updated = u] \in ManifestType
        BY DEF ManifestType
      <4> QED
        BY <4>1, <4>2
    <3>4. manifest \in ManifestType /\ manifest.updated \in 0..3
      BY DEF Typed, ManifestType
    <3>5. (IF status = "failed" THEN 0 ELSE manifest.updated) \in 0..3
      BY <3>4
    <3> QED
      BY <3>1, <3>3, <3>4, <3>5, Zenon
  <2>4. CASE PollStatus(s) /\ manifest' # manifest
    <3>1. manifest' = [manifest EXCEPT !.status = "failed", !.updated = 0]
      BY <2>4 DEF PollStatus, LetsBe, data, Save
    <3> QED
      BY <3>1, SaveTyped DEF Typed, RunStatus
  <2>5. CASE Adopt(s) /\ manifest' # manifest
    <3>1. manifest' = [manifest EXCEPT !.owner = s, !.async = FALSE, !.updated = 0]
      BY <2>5 DEF Adopt, Adopts, LetsBe, data
    <3>2. \A m \in ManifestType : [m EXCEPT !.owner = s] \in ManifestType
      BY DEF ManifestType
    <3>3. \A m \in ManifestType : [m EXCEPT !.async = FALSE] \in ManifestType
      BY DEF ManifestType
    <3>4. \A m \in ManifestType : [m EXCEPT !.updated = 0] \in ManifestType
      BY DEF ManifestType
    <3> QED
      BY <3>1, <3>2, <3>3, <3>4 DEF Typed
  <2>6. CASE Enter(s)
    <3>1. manifest' = [manifest EXCEPT !.status = "running", !.updated = 0]
      BY <2>6 DEF Enter, Save
    <3> QED
      BY <3>1, SaveTyped DEF Typed, RunStatus
  <2> QED
    BY <2>1, <2>2, <2>3, <2>4, <2>5, <2>6
    DEF SessionStep, Look, Judge, Drop, Poll, Resume, LookOrphan, LookPurge, LookStale, LookPoll, LookResume,
        Spare, JudgeOrphan, JudgePurge, FastPath, Repair, PollTasks, Reset, Register, Looks, LetsBe, Rewrites, data
<1>6. TasksTyped'
  <2>1. CASE UNCHANGED tasks
    BY <1>1, <2>1 DEF Typed, TasksTyped
  <2>2. CASE Reset(s)
    <3>1. PICK recovered \in SUBSET With({"running"}) :
            tasks' = [t \in setting.todo |->
                        IF t \in recovered THEN Put({t}, "completed")[t]
                        ELSE Put(With({"failed", "cancelled", "skipped", "running"}), "queued")[t]]
      BY <2>2 DEF Reset
    <3>2. \A t \in setting.todo :
            /\ tasks'[t] \in TaskType
            /\ tasks'[t].status \notin Open => tasks'[t].seen = Never /\ ~tasks'[t].claimed
      BY <3>1 DEF Put, With, Typed, TasksTyped, TaskType, TaskStatus, Never
    <3> QED
      BY <1>1, <3>1, <3>2 DEF TasksTyped
  <2>3. CASE \E set : \E status \in TaskStatus : tasks' = Put(set, status)
    BY <1>1, <2>3, PutTyped DEF Typed
  <2>4. CASE Look(s) \/ Settle(s) \/ Drop(s) \/ TakeResult(s) \/ PollStatus(s) \/ Adopt(s) \/ Enter(s) \/ Register(s)
    <3>1. UNCHANGED tasks
      BY <2>4 DEF Look, Settle, Drop, TakeResult, PollStatus, Adopt, Adopts, Enter, Register, LookOrphan, LookPurge,
                  LookStale, LookPoll, LookResume, Spare, SettleOrphan, SettlePurge, SettleStale, Looks, LetsBe,
                  Settles, data
    <3> QED
      BY <2>1, <3>1
  <2>5. CASE PollTasks(s)
    BY <2>3, <2>5 DEF PollTasks, TaskStatus
  <2>6. CASE Judge(s)
    <3>1. UNCHANGED tasks \/ \E set : \E status \in {"cancelled", "queued"} : tasks' = Put(set, status)
      BY <2>6 DEF Judge, JudgeOrphan, JudgePurge, FastPath, Repair, LetsBe, Rewrites, data
    <3>2. {"cancelled", "queued"} \subseteq TaskStatus
      BY DEF TaskStatus
    <3> QED
      BY <2>1, <2>3, <3>1, <3>2
  <2> QED
    BY <2>2, <2>4, <2>5, <2>6 DEF SessionStep, Poll, Resume
<1> QED
  BY <1>1, <1>2, <1>3, <1>4, <1>5, <1>6 DEF Typed

LEMMA StepForms ==
  ASSUME Next
  PROVE  (\E p \in Process : Runner(p) \/ Environment(p)) \/ (\E s \in Session : SessionStep(s))
<1>1. CASE \E p \in Process : Runner(p) \/ Crash(p)
  BY <1>1 DEF Environment
<1>2. CASE Approve \/ Elapse \/ Prune
  <2>1. Detached \in Process
    BY DEF Process
  <2> QED
    BY <1>2, <2>1 DEF Environment
<1>3. ASSUME NEW s \in Session,
             \/ Startup(s) \/ LookStale(s) \/ Reconcile(s)
             \/ LookPoll(s) \/ Poll(s) \/ LookResume(s) \/ Resume(s)
      PROVE  SessionStep(s)
  BY <1>3 DEF Startup, Reconcile, SessionStep, Look, Judge, Settle
<1> QED
  BY <1>1, <1>2, <1>3 DEF Next

LEMMA InitTyped == ASSUME Init PROVE Typed
<1>1. /\ setting \in Settings /\ setting.sessions \subseteq Session /\ setting.runner \in Process
      /\ setting.starter \in Session
  BY SettingsAssumption DEF Init
<1>2. manifest \in ManifestType
  BY <1>1 DEF Init, ManifestType, RunStatus
<1>3. TasksTyped
  BY DEF Init, TasksTyped, TaskType, TaskStatus, Never
<1> QED
  BY <1>1, <1>2, <1>3 DEF Init, Typed, ProcessesTyped, FlagsTyped, Process, Points

LEMMA TypedStep == ASSUME Typed, [Next]_vars PROVE Typed'
<1>1. CASE Next
  BY <1>1, StepForms, RunnerTyped, EnvironmentTyped, SessionTyped
<1>2. CASE UNCHANGED vars
  BY <1>2 DEF vars, Typed, ProcessesTyped, FlagsTyped, TasksTyped
<1> QED
  BY <1>1, <1>2

LEMMA TypedMeansLater == Typed' => TypeOK'
  BY DEF TypeOK, Typed, ProcessesTyped, FlagsTyped, TasksTyped, ManifestType, TaskType, Points

\* The domains of the run's files, of the registry and of every session.
THEOREM RecoveryTyped == Spec => []TypeOK
<1>1. Init => Typed
  BY InitTyped
<1>2. Typed /\ [Next]_vars => Typed'
  BY TypedStep
<1> QED
  BY <1>1, <1>2, TypedMeans, PTL DEF Spec

-----------------------------------------------------------------------------
(* The invariant of a run at work *)

NobodyInside == \A s \in Session : s \in alive => at[s] \notin Inside

LEMMA FreeLock == ASSUME Exclusive, LockFree PROVE NobodyInside
  BY DEF Exclusive, LockFree, NobodyInside

\* Without anybody inside, nothing is asked of those who are.
LEMMA NobodyLocks == ASSUME NobodyInside' PROVE Locked'
  BY DEF NobodyInside, Locked, Exclusive, Cancelling, Adopting, Inside, SettlePoints, ResumePoints, CancelPoints

\* Who steps out of the lock leaves nobody inside.
LEMMA StepsOut ==
  ASSUME Typed, Exclusive, NEW s \in Session, s \in alive, at[s] \in Inside, alive' = alive,
         NEW point, point \notin Inside, at' = [at EXCEPT ![s] = point]
  PROVE  NobodyInside' /\ Deserted
<1>1. \A q \in Session \ {s} : q \in alive => at[q] \notin Inside
  BY DEF Exclusive
<1> QED
  BY <1>1 DEF Typed, NobodyInside, Exclusive

\* A run that nobody executes, as far as the registry can tell, shows all it has to.
LEMMA DesertedShown ==
  ASSUME OwnProcess, Deserted', manifest'.async => manifest.async, runners' \subseteq runners
  PROVE  Shown'
  BY DEF OwnProcess, Deserted, Shown, Visible, Beating, Alone

\* Nothing that counts is written.
LEMMA NothingWritten ==
  ASSUME Shown, Closed, setting' = setting, alive' = alive, data' = data
  PROVE  Shown' /\ Closed'
<1>1. UNCHANGED <<manifest, beat, tasks, registered, hidden, lock, runners>>
  BY DEF data
<1> QED
  BY <1>1 DEF Shown, Visible, Beating, OwnProcess, Alone, Deserted, EntryAlive, AsyncAlive, Closed, With

\* A runner works only while nobody is inside, and stays the only one.
LEMMA RunnerKeeps == ASSUME Typed, Locked, Shown, Closed, NEW p \in Process, Runner(p)
                     PROVE  Locked' /\ Shown' /\ Closed'
<1>1. /\ p \in runners /\ LockFree /\ UNCHANGED <<setting, lock, at>>
      /\ alive' \subseteq alive /\ runners' \subseteq runners
  BY DEF Runner, Begin, Dispatch, Report, Finish, Ask, Answered, Block, End, GiveUp, Runs, Leaves
<1>2. Locked'
  <2>1. NobodyInside'
    BY <1>1, FreeLock DEF Locked, NobodyInside
  <2> QED
    BY <2>1, NobodyLocks
<1>3. manifest'.async = manifest.async
  BY DEF Runner, Begin, Dispatch, Report, Finish, Ask, Answered, Block, End, GiveUp, Save, Typed, ManifestType
<1>4. Shown'
  <2>1. CASE Block(p) \/ End(p) \/ GiveUp(p)
    <3>1. runners' = runners \ {p}
      BY <2>1 DEF Block, End, GiveUp, Leaves
    <3>2. hidden => hidden'
      BY <2>1, Zenon DEF Block, End, GiveUp, Unregister, registry
    <3>3. Deserted'
      BY <1>1, <3>1, <3>2 DEF Shown, Alone, Deserted
    <3> QED
      BY <1>1, <1>3, <3>3, DesertedShown DEF Shown
  <2>2. CASE Begin(p) \/ Dispatch(p) \/ Report(p) \/ Finish(p) \/ Ask(p) \/ Answered(p)
    <3>1. UNCHANGED <<alive, registered, hidden, runners>>
      BY <2>2 DEF Begin, Dispatch, Report, Finish, Ask, Answered, registry
    <3>2. \/ manifest' = manifest
          \/ manifest'.status = "running" /\ manifest'.updated = 0
      BY <2>2 DEF Begin, Dispatch, Report, Finish, Ask, Answered, Save, Typed, ManifestType
    <3>3. Visible'
      BY <1>3, <3>1, <3>2 DEF Shown, Visible, Deserted, EntryAlive, AsyncAlive
    <3>4. \/ beat' = TRUE
          \/ beat' = beat /\ (manifest' = manifest \/ manifest.status = "running")
      BY <2>2 DEF Begin, Dispatch, Report, Finish, Ask, Answered
    <3>5. Beating'
      BY <3>1, <3>4 DEF Shown, Beating, Deserted
    <3>6. OwnProcess' /\ Alone'
      BY <1>3, <3>1 DEF Shown, OwnProcess, Alone
    <3> QED
      BY <3>3, <3>5, <3>6 DEF Shown
  <2> QED
    BY <2>1, <2>2 DEF Runner
<1>5. Closed'
  <2>1. CASE manifest'.status \notin {"cancelled", "completed"}
    BY <2>1 DEF Closed
  <2>2. CASE GiveUp(p)
    BY <1>1, <2>2 DEF GiveUp, Closed, With
  <2>3. CASE End(p)
    <3>1. With(Open) = {} /\ tasks' = Put(With({"queued"}), "skipped")
      BY <2>3 DEF End
    <3>2. \A t \in setting.todo : tasks'[t].status \notin Open
      BY <3>1 DEF Put, With, Open
    <3> QED
      BY <1>1, <3>2 DEF Closed, With
  <2>4. CASE Report(p)
    <3>1. manifest' = manifest /\ With({"running"}) # {}
      BY <2>4 DEF Report
    <3>2. With(Open) # {}
      BY <3>1 DEF With, Open
    <3> QED
      BY <3>1, <3>2 DEF Closed
  <2>5. CASE Begin(p) \/ Dispatch(p) \/ Finish(p) \/ Ask(p) \/ Answered(p) \/ Block(p)
    <3>1. manifest'.status \in {"running", "blocked"}
      BY <2>5 DEF Begin, Dispatch, Finish, Ask, Answered, Block, Save, Typed, ManifestType
    <3> QED
      BY <2>1, <3>1
  <2> QED
    BY <2>2, <2>3, <2>4, <2>5 DEF Runner
<1> QED
  BY <1>2, <1>4, <1>5

\* Time, deaths, approvals and foreign writers of the registry.
LEMMA EnvironmentKeeps == ASSUME Typed, Locked, Shown, Closed, NEW p \in Process, Environment(p)
                          PROVE  Locked' /\ Shown' /\ Closed'
<1>1. CASE Approve
  <2>1. /\ LockFree /\ UNCHANGED <<setting, alive, beat, tasks, registered, hidden, lock, runners, at>>
        /\ manifest'.status = manifest.status /\ manifest'.async = manifest.async /\ manifest'.updated = 0
    BY <1>1 DEF Approve, registry, Typed, ManifestType
  <2>2. Locked'
    BY <2>1, FreeLock, NobodyLocks DEF Locked, NobodyInside
  <2> QED
    BY <2>1, <2>2 DEF Shown, Visible, Beating, OwnProcess, Alone, Deserted, EntryAlive, AsyncAlive, Closed, With
<1>2. CASE Crash(p)
  <2>1. /\ alive' = alive \ {p} /\ runners' = runners \ {p}
        /\ UNCHANGED <<setting, manifest, beat, tasks, registered, hidden, lock>>
        /\ \A s \in Session : s \in alive' => at'[s] = at[s]
    BY <1>2 DEF Crash, registry
  <2>2. Deserted => Deserted'
    BY <2>1 DEF Deserted
  <2>3. Exclusive'
    BY <2>1, <2>2 DEF Locked, Exclusive
  <2>4. Cancelling' /\ Closed'
    BY <2>1 DEF Locked, Cancelling, Closed, With
  <2>5. Adopting'
    BY <2>1 DEF Locked, Adopting
  <2>6. Visible'
    <3>1. CASE Deserted'
      BY <3>1 DEF Visible
    <3>2. CASE ~Deserted'
      <4>1. EntryAlive /\ runners' # {}
        BY <2>1, <2>2, <3>2 DEF Shown, Visible, Deserted
      <4>2. manifest.async => Detached \in alive'
        BY <2>1, <4>1 DEF Shown, OwnProcess, Typed, ProcessesTyped
      <4> QED
        BY <2>1, <4>1, <4>2 DEF Visible, EntryAlive, AsyncAlive
    <3> QED
      BY <3>1, <3>2
  <2>7. Beating' /\ OwnProcess' /\ Alone'
    BY <2>1, <2>2 DEF Shown, Beating, OwnProcess, Alone
  <2> QED
    BY <2>3, <2>4, <2>5, <2>6, <2>7 DEF Locked, Shown
<1>3. CASE Elapse
  <2>1. LockFree /\ UNCHANGED <<setting, alive, registered, lock, runners, at>>
    BY <1>3 DEF Elapse
  <2>2. Locked'
    BY <2>1, <1>3, FreeLock, NobodyLocks DEF Locked, NobodyInside
  <2>3. manifest'.status = manifest.status /\ manifest'.async = manifest.async
    BY <1>3 DEF Elapse, Typed, ManifestType
  <2>4. beat' = beat \/ runners = {}
    BY <1>3 DEF Elapse
  <2>5. hidden' = (hidden \/ (runners # {} /\ ~manifest.async /\ manifest'.updated > 1))
    BY <1>3 DEF Elapse
  <2>6. Deserted => Deserted'
    BY <2>1, <2>5 DEF Deserted
  <2>7. Visible'
    <3>1. CASE Deserted'
      BY <3>1 DEF Visible
    <3>2. CASE ~Deserted'
      <4>1. EntryAlive
        BY <2>6, <3>2 DEF Shown, Visible
      <4>2. ~manifest.async => ~(manifest'.updated > 1)
        BY <2>1, <2>5, <3>2 DEF Deserted
      <4>3. manifest'.updated \in 0..3
        BY <1>3, EnvironmentTyped DEF Environment, Typed, ManifestType
      <4>4. ~manifest.async => manifest'.updated <= 1
        BY <4>2, <4>3
      <4> QED
        BY <2>1, <2>3, <4>1, <4>4 DEF Visible, EntryAlive, AsyncAlive
    <3> QED
      BY <3>1, <3>2
  <2>8. Beating'
    BY <2>1, <2>3, <2>4, <2>6 DEF Shown, Beating, Deserted
  <2>9. OwnProcess'
    BY <2>1, <2>3 DEF Shown, OwnProcess
  <2>10. Alone'
    BY <2>1, <2>5 DEF Shown, Alone
  <2>11. Closed'
    <3>1. tasks' = tasks \/ With(Open) # {}
      BY <1>3 DEF Elapse
    <3> QED
      BY <2>1, <2>3, <3>1 DEF Closed, With
  <2> QED
    BY <2>2, <2>7, <2>8, <2>9, <2>10, <2>11 DEF Shown
<1>4. CASE Prune
  <2>1. UNCHANGED <<setting, alive, manifest, beat, tasks, lock, runners, at>>
    BY <1>4 DEF Prune
  <2>2. Deserted'
    BY <1>4 DEF Prune, Unregister, Deserted
  <2>3. Locked'
    BY <2>1, <2>2 DEF Locked, Exclusive, Cancelling, Adopting, With
  <2>4. Shown'
    BY <2>1, <2>2, DesertedShown DEF Shown
  <2> QED
    BY <2>1, <2>3, <2>4 DEF Closed, With
<1> QED
  BY <1>1, <1>2, <1>3, <1>4 DEF Environment

\* A session that only looks, or lets a run be.
LEMMA IdleKeeps ==
  ASSUME Typed, Locked, Shown, Closed, NEW s \in Session, setting' = setting, alive' = alive, data' = data,
         NEW point, point \notin Inside, at' = [at EXCEPT ![s] = point]
  PROVE  Locked' /\ Shown' /\ Closed'
<1>1. UNCHANGED <<manifest, beat, tasks, registered, hidden, lock, runners>>
  BY DEF data
<1>2. \A q \in Session : at'[q] = at[q] \/ at'[q] \notin Inside
  BY DEF Typed
<1>3. Locked'
  BY <1>1, <1>2 DEF Locked, Exclusive, Cancelling, Adopting, Deserted, With, Inside, SettlePoints, ResumePoints,
                    CancelPoints
<1> QED
  BY <1>3, NothingWritten

\* What a session writes, it writes about a run that nobody executes.
LEMMA Spares ==
  ASSUME Typed, Locked, Shown, NEW s \in Session, SessionStep(s)
  PROVE  Deserted \/ UNCHANGED <<manifest, tasks>>
<1>1. s \in alive
  BY DEF SessionStep, Look, Judge, Settle, Drop, TakeResult, Poll, Resume, LookOrphan, LookPurge, LookStale,
         LookPoll, LookResume, Spare, JudgeOrphan, JudgePurge, FastPath, Repair, SettleOrphan, SettlePurge,
         SettleStale, PollStatus, PollTasks, Adopt, Reset, Enter, Register, Looks, Reconciles, Stands
<1>2. CASE at[s] \in Inside
  BY <1>1, <1>2 DEF Locked, Exclusive
<1>3. CASE Look(s) \/ Drop(s)
  BY <1>3 DEF Look, Drop, LookOrphan, LookPurge, LookStale, LookPoll, LookResume, Spare, Looks, LetsBe, data
<1>4. CASE Settle(s) \/ PollTasks(s) \/ Reset(s) \/ Enter(s) \/ Register(s)
  <2>1. at[s] \in Inside
    BY <1>4 DEF Settle, PollTasks, Reset, Enter, Register, SettleOrphan, SettlePurge, SettleStale, Stands,
                Inside, SettlePoints, ResumePoints, CancelPoints
  <2> QED
    BY <1>2, <2>1
<1>5. CASE JudgeOrphan(s) \/ JudgePurge(s)
  <2>1. \/ UNCHANGED <<manifest, tasks>>
        \/ manifest.status \in {"running", "blocked"} /\ ~FreshEvidence
    BY <1>5 DEF JudgeOrphan, JudgePurge, LetsBe, data
  <2> QED
    BY <2>1 DEF Shown, Beating, FreshEvidence
<1>6. CASE FastPath(s) \/ TakeResult(s) \/ Repair(s)
  <2>1. ~EntryAlive
    BY <1>6 DEF FastPath, FastPathApplies, TakeResult, Repair, Shielded
  <2> QED
    BY <2>1 DEF Shown, Visible
<1>7. CASE PollStatus(s)
  <2>1. UNCHANGED <<manifest, tasks>> \/ AsyncDead
    BY <1>7 DEF PollStatus, LetsBe, data
  <2>2. CASE AsyncDead
    BY <2>2 DEF AsyncDead, Shown, OwnProcess, Typed, ProcessesTyped, Deserted
  <2> QED
    BY <2>1, <2>2
<1>8. CASE Adopt(s)
  <2>1. UNCHANGED <<manifest, tasks>> \/ ~EntryAlive
    BY <1>8 DEF Adopt, LetsBe, data, Live
  <2> QED
    BY <2>1 DEF Shown, Visible
<1> QED
  BY <1>3, <1>4, <1>5, <1>6, <1>7, <1>8 DEF SessionStep, Judge, Poll, Resume

\* Who takes the lock finds nobody inside; the others stay outside.
LEMMA StepsIn ==
  ASSUME Typed, Exclusive, LockFree, NEW s \in Session, alive' = alive,
         NEW point, at' = [at EXCEPT ![s] = point], lock' = s, Deserted'
  PROVE  /\ \A q \in Session : q \in alive' /\ at'[q] \in Inside => q = s /\ at'[q] = point
         /\ Exclusive'
  BY FreeLock DEF Typed, NobodyInside, Exclusive

LEMMA LookKeeps == ASSUME Typed, Locked, Shown, Closed, NEW s \in Session, Look(s)
                   PROVE  Locked' /\ Shown' /\ Closed'
<1>1. setting' = setting /\ alive' = alive /\ data' = data
  BY DEF Look, LookOrphan, LookPurge, LookStale, LookPoll, LookResume, Spare, Looks, LetsBe, Stands
<1>2. \E point \in Points \ Inside : at' = [at EXCEPT ![s] = point]
  BY DEF Look, LookOrphan, LookPurge, LookStale, LookPoll, LookResume, Spare, Looks, LetsBe, Goes,
         Points, Inside, SettlePoints, ResumePoints, CancelPoints
<1> QED
  BY <1>1, <1>2, IdleKeeps

LEMMA JudgeKeeps == ASSUME Typed, Locked, Shown, Closed, NEW s \in Session, Judge(s)
                    PROVE  Locked' /\ Shown' /\ Closed'
<1>1. setting' = setting /\ alive' = alive /\ LockFree
  BY DEF Judge, JudgeOrphan, JudgePurge, FastPath, Repair, Reconciles, Stands
<1>2. CASE data' = data /\ \E point \in Points \ Inside : at' = [at EXCEPT ![s] = point]
  BY <1>1, <1>2, IdleKeeps
<1>3. ASSUME NEW set, NEW status, NEW point,
             Rewrites(s, set, status, point), Deserted, manifest.status \in {"running", "blocked"},
             \/ point \in CancelPoints /\ set = With(Unfinished) /\ status = "cancelled"
             \/ point = "reconcile settle"
      PROVE  Locked' /\ Shown' /\ Closed'
  <2>1. /\ UNCHANGED <<manifest, beat, registered, hidden, runners>> /\ tasks' = Put(set, status)
        /\ lock' = s /\ at' = [at EXCEPT ![s] = point]
    BY <1>3 DEF Rewrites, Goes, registry
  <2>2. Deserted'
    BY <1>3, <2>1 DEF Deserted
  <2>3. /\ \A q \in Session : q \in alive' /\ at'[q] \in Inside => q = s /\ at'[q] = point
        /\ Exclusive'
    BY <1>1, <2>1, <2>2, StepsIn DEF Locked
  <2>4. Cancelling'
    <3>1. CASE point \in CancelPoints
      <4>1. \A t \in setting.todo : tasks'[t].status \notin Open
        BY <1>3, <2>1, <3>1 DEF Put, With, Unfinished, Open, CancelPoints
      <4> QED
        BY <1>1, <4>1 DEF Cancelling, With
    <3>2. CASE point \notin CancelPoints
      BY <2>3, <3>2 DEF Cancelling, Inside, SettlePoints
    <3> QED
      BY <3>1, <3>2
  <2>5. Adopting'
    <3>1. point \notin ResumePoints
      BY <1>3 DEF ResumePoints, CancelPoints
    <3> QED
      BY <2>3, <3>1 DEF Adopting, Inside
  <2>6. Shown'
    BY <2>1, <2>2, DesertedShown DEF Shown
  <2>7. Closed'
    BY <1>3, <2>1 DEF Closed
  <2> QED
    BY <2>3, <2>4, <2>5, <2>6, <2>7 DEF Locked
<1>4. SessionStep(s)
  BY DEF SessionStep
<1>5. CASE JudgeOrphan(s) \/ JudgePurge(s)
  <2>1. \/ data' = data /\ \E point \in Points \ Inside : at' = [at EXCEPT ![s] = point]
        \/ /\ manifest.status \in {"running", "blocked"} /\ ~FreshEvidence
           /\ \E point \in CancelPoints : Rewrites(s, With(Unfinished), "cancelled", point)
    BY <1>5 DEF JudgeOrphan, JudgePurge, LetsBe, Goes, Points, Inside, SettlePoints, ResumePoints, CancelPoints
  <2>2. ~FreshEvidence /\ manifest.status \in {"running", "blocked"} => Deserted
    BY DEF Shown, Beating, FreshEvidence
  <2> QED
    BY <1>2, <1>3, <2>1, <2>2
<1>6. CASE FastPath(s) \/ Repair(s)
  <2>1. ~EntryAlive /\ manifest.status \in {"running", "blocked"}
    BY <1>6 DEF FastPath, FastPathApplies, Repair, Reconciles, Shielded
  <2>2. Deserted
    BY <2>1 DEF Shown, Visible
  <2>3. \E set : \E status : Rewrites(s, set, status, "reconcile settle")
    BY <1>6 DEF FastPath, Repair
  <2> QED
    BY <1>3, <2>1, <2>2, <2>3
<1> QED
  BY <1>5, <1>6 DEF Judge

\* The manifest is settled as the lock is left, or with the lock for the tasks.
LEMMA SettleKeeps == ASSUME Typed, Locked, Shown, Closed, NEW s \in Session, Settle(s) \/ PollTasks(s)
                     PROVE  Locked' /\ Shown' /\ Closed'
<1>1. setting' = setting /\ alive' = alive /\ s \in alive /\ runners' = runners /\ at[s] \in SettlePoints
  BY DEF Settle, SettleOrphan, SettlePurge, SettleStale, PollTasks, Settles, Stands, SettlePoints, CancelPoints
<1>2. \E point \in Points \ Inside : at' = [at EXCEPT ![s] = point]
  BY DEF Settle, SettleOrphan, SettlePurge, SettleStale, PollTasks, Settles, Goes,
         Points, Inside, SettlePoints, ResumePoints, CancelPoints
<1>3. NobodyInside' /\ Deserted
  BY <1>1, <1>2, StepsOut DEF Locked, Inside
<1>4. hidden => hidden'
  BY Zenon DEF Settle, SettleOrphan, SettlePurge, SettleStale, PollTasks, Settles, Unregister, registry
<1>5. Deserted'
  BY <1>1, <1>3, <1>4 DEF Deserted
<1>6. manifest'.async = manifest.async
  BY DEF Settle, SettleOrphan, SettlePurge, SettleStale, PollTasks, Settles, Typed, ManifestType
<1>7. Shown'
  BY <1>1, <1>5, <1>6, DesertedShown DEF Shown
<1>8. Closed'
  <2>1. CASE SettleOrphan(s) \/ SettlePurge(s)
    <3>1. With(Open) = {} /\ tasks' = tasks
      BY <1>1, <2>1 DEF SettleOrphan, SettlePurge, Settles, Stands, Locked, Cancelling, CancelPoints
    <3> QED
      BY <1>1, <3>1 DEF Closed, With
  <2>2. CASE SettleStale(s)
    <3>1. manifest'.status = "failed"
      BY <2>2 DEF SettleStale, Settles, Typed, ManifestType
    <3> QED
      BY <3>1 DEF Closed
  <2>3. CASE PollTasks(s)
    <3>1. manifest' = manifest /\ tasks' = Put(With({"running"}), "cancelled")
      BY <2>3 DEF PollTasks
    <3>2. \A t \in setting.todo : tasks'[t].status \in Open => tasks[t].status \in Open
      BY <3>1 DEF Put, Open
    <3> QED
      BY <1>1, <3>1, <3>2 DEF Closed, With
  <2> QED
    BY <2>1, <2>2, <2>3 DEF Settle
<1> QED
  BY <1>3, <1>7, <1>8, NobodyLocks

LEMMA DropKeeps == ASSUME Typed, Locked, Shown, Closed, NEW s \in Session, Drop(s)
                   PROVE  Locked' /\ Shown' /\ Closed'
<1>1. UNCHANGED <<setting, alive, manifest, beat, tasks, lock, runners>> /\ at' = [at EXCEPT ![s] = "up"]
  BY DEF Drop, Stands, Goes
<1>2. registered' = FALSE /\ hidden' = (hidden \/ (registered /\ runners # {}))
  BY DEF Drop, Unregister
<1>3. Deserted'
  BY <1>1, <1>2 DEF Shown, Visible, EntryAlive, Deserted
<1>4. \A q \in Session : at'[q] = at[q] \/ at'[q] = "up"
  BY <1>1 DEF Typed
<1>5. Locked'
  BY <1>1, <1>3, <1>4 DEF Locked, Exclusive, Cancelling, Adopting, With, Inside, SettlePoints, ResumePoints,
                          CancelPoints
<1>6. Shown'
  BY <1>1, <1>3, DesertedShown DEF Shown
<1> QED
  BY <1>1, <1>5, <1>6 DEF Closed, With

LEMMA TakeKeeps == ASSUME Typed, Locked, Shown, Closed, NEW s \in Session, TakeResult(s)
                   PROVE  Locked' /\ Shown' /\ Closed'
<1>1. /\ UNCHANGED <<setting, alive, tasks, runners, lock>> /\ at' = [at EXCEPT ![s] = "up"]
      /\ LockFree /\ ~EntryAlive /\ With(Unfinished) = {}
  BY DEF TakeResult, Reconciles, Shielded, Stands, Goes
<1>2. hidden => hidden'
  BY Zenon DEF TakeResult, Unregister, registry
<1>3. Deserted'
  BY <1>1, <1>2 DEF Shown, Visible, Deserted
<1>4. manifest'.async = manifest.async
  BY Zenon DEF TakeResult, Typed, ManifestType
<1>5. Shown'
  BY <1>1, <1>3, <1>4, DesertedShown DEF Shown
<1>6. Locked'
  <2>1. "up" \notin Inside
    BY DEF Inside, SettlePoints, ResumePoints, CancelPoints
  <2>2. NobodyInside'
    BY <1>1, <2>1, FreeLock DEF Locked, NobodyInside, Typed
  <2> QED
    BY <2>2, NobodyLocks
<1>7. Closed'
  BY <1>1 DEF Closed, With, Unfinished
<1> QED
  BY <1>5, <1>6, <1>7

LEMMA PollKeeps == ASSUME Typed, Locked, Shown, Closed, NEW s \in Session, PollStatus(s)
                   PROVE  Locked' /\ Shown' /\ Closed'
<1>1. setting' = setting /\ alive' = alive /\ LockFree
  BY DEF PollStatus, Stands
<1>2. CASE AsyncDead /\ manifest.status \in {"queued", "planning", "running"}
  <2>1. /\ Save("failed") /\ Unregister(runners) /\ UNCHANGED <<beat, tasks, runners>>
        /\ lock' = s /\ at' = [at EXCEPT ![s] = "poll tasks"]
    BY <1>2 DEF PollStatus, Goes
  <2>2. Deserted
    BY <1>2, Spares DEF AsyncDead, Shown, OwnProcess, Typed, ProcessesTyped, Deserted
  <2>3. Deserted'
    BY <2>1, <2>2 DEF Deserted, Unregister
  <2>4. /\ \A q \in Session : q \in alive' /\ at'[q] \in Inside => q = s /\ at'[q] = "poll tasks"
        /\ Exclusive'
    BY <1>1, <2>1, <2>3, StepsIn DEF Locked
  <2>5. Cancelling' /\ Adopting'
    BY <2>4 DEF Cancelling, Adopting, Inside, SettlePoints, ResumePoints, CancelPoints
  <2>6. manifest'.async = manifest.async /\ manifest'.status = "failed"
    BY <2>1 DEF Save, Typed, ManifestType
  <2>7. Shown'
    BY <2>1, <2>3, <2>6, DesertedShown DEF Shown
  <2> QED
    BY <2>4, <2>5, <2>6, <2>7 DEF Locked, Closed
<1>3. CASE ~(AsyncDead /\ manifest.status \in {"queued", "planning", "running"})
  <2>1. data' = data /\ \E point \in Points \ Inside : at' = [at EXCEPT ![s] = point]
    BY <1>3 DEF PollStatus, LetsBe, Goes, Points, Inside, SettlePoints, ResumePoints, CancelPoints
  <2> QED
    BY <1>1, <2>1, IdleKeeps
<1> QED
  BY <1>2, <1>3

\* A resume adopts under the lock, and is the only runner when it leaves it.
LEMMA ResumeKeeps == ASSUME Typed, Locked, Shown, Closed, NEW s \in Session, Resume(s)
                     PROVE  Locked' /\ Shown' /\ Closed'
<1>1. setting' = setting /\ alive' = alive /\ s \in alive
  BY DEF Resume, Adopt, Reset, Enter, Register, Stands
<1>2. CASE Adopt(s) /\ Live
  <2>1. data' = data /\ \E point \in Points \ Inside : at' = [at EXCEPT ![s] = point]
    BY <1>2 DEF Adopt, LetsBe, Goes, Points, Inside, SettlePoints, ResumePoints, CancelPoints
  <2> QED
    BY <1>1, <2>1, IdleKeeps
<1>3. CASE Adopt(s) /\ ~Live
  <2>1. /\ LockFree /\ lock' = s /\ at' = [at EXCEPT ![s] = "reset"]
        /\ UNCHANGED <<beat, tasks, registered, hidden, runners>>
        /\ manifest' = [manifest EXCEPT !.owner = s, !.async = FALSE, !.updated = 0]
    BY <1>3 DEF Adopt, Adopts, Goes, registry
  <2>2. /\ manifest'.async = FALSE /\ manifest'.updated = 0 /\ manifest'.status = manifest.status
    BY <2>1 DEF Typed, ManifestType
  <2>3. Deserted'
    BY <1>3, <2>1 DEF Live, Shown, Visible, Deserted
  <2>4. /\ \A q \in Session : q \in alive' /\ at'[q] \in Inside => q = s /\ at'[q] = "reset"
        /\ Exclusive'
    BY <1>1, <2>1, <2>3, StepsIn DEF Locked
  <2>5. Cancelling' /\ Adopting'
    BY <2>2, <2>4 DEF Cancelling, Adopting, Inside, SettlePoints, ResumePoints, CancelPoints
  <2>6. Shown'
    BY <2>1, <2>2, <2>3, DesertedShown DEF Shown
  <2> QED
    BY <1>1, <2>1, <2>2, <2>4, <2>5, <2>6 DEF Locked, Closed, With
<1>4. CASE Reset(s) \/ Enter(s)
  <2>1. /\ at[s] \in ResumePoints /\ UNCHANGED <<beat, registered, hidden, lock, runners>>
        /\ \E point \in {"enter", "register"} : at' = [at EXCEPT ![s] = point]
    BY <1>4 DEF Reset, Enter, Stands, Goes, ResumePoints, registry
  <2>2. lock = s /\ Deserted /\ ~manifest.async /\ manifest.updated = 0
    BY <1>1, <2>1 DEF Locked, Exclusive, Adopting, Inside
  <2>3. ~manifest'.async /\ manifest'.updated = 0
    BY <1>4, <2>2 DEF Reset, Enter, Save, Typed, ManifestType
  <2>4. \A q \in Session : q \in alive' /\ at'[q] \in Inside => q = s /\ at'[q] \in {"enter", "register"}
    BY <1>1, <2>1, <2>2 DEF Locked, Exclusive, Typed
  <2>5. Exclusive' /\ Cancelling' /\ Deserted'
    BY <2>1, <2>2, <2>4 DEF Exclusive, Cancelling, Deserted, CancelPoints, Inside, SettlePoints
  <2>6. Adopting'
    <3>1. CASE Reset(s)
      <4>1. at' = [at EXCEPT ![s] = "enter"]
        BY <3>1 DEF Reset, Goes
      <4> QED
        BY <2>3, <2>4, <4>1 DEF Adopting, Inside, Typed
    <3>2. CASE Enter(s)
      <4>1. manifest'.status = "running"
        BY <3>2 DEF Enter, Save, Typed, ManifestType
      <4> QED
        BY <2>3, <2>4, <4>1 DEF Adopting, Inside
    <3> QED
      BY <1>4, <3>1, <3>2
  <2>7. Shown'
    BY <2>1, <2>2, <2>3, <2>5, DesertedShown DEF Shown
  <2>8. Closed'
    <3>1. CASE Reset(s)
      <4>1. manifest' = manifest /\ \A t \in setting.todo : tasks'[t].status \in Open => tasks[t].status \in Open
        BY <3>1 DEF Reset, Put, Open, With
      <4> QED
        BY <1>1, <4>1 DEF Closed, With
    <3>2. CASE Enter(s)
      <4>1. manifest'.status = "running"
        BY <3>2 DEF Enter, Save, Typed, ManifestType
      <4> QED
        BY <4>1 DEF Closed
    <3> QED
      BY <1>4, <3>1, <3>2
  <2> QED
    BY <2>5, <2>6, <2>7, <2>8 DEF Locked
<1>5. CASE Register(s)
  <2>1. /\ UNCHANGED <<manifest, tasks, hidden>> /\ at' = [at EXCEPT ![s] = "up"] /\ at[s] = "register"
        /\ registered' = TRUE /\ runners' = runners \cup {s} /\ beat' = TRUE
    BY <1>5 DEF Register, Stands, Goes
  <2>2. NobodyInside' /\ Deserted
    <3>1. at[s] \in Inside /\ "up" \notin Inside
      BY <2>1 DEF Inside, SettlePoints, ResumePoints, CancelPoints
    <3> QED
      BY <1>1, <2>1, <3>1, StepsOut DEF Locked
  <2>3. ~manifest.async /\ manifest.updated = 0 /\ manifest.status = "running"
    BY <1>1, <2>1 DEF Locked, Adopting, ResumePoints
  <2>4. Visible' /\ Beating' /\ OwnProcess'
    BY <2>1, <2>3 DEF Visible, EntryAlive, Beating, OwnProcess
  <2>5. Alone'
    BY <2>1, <2>2 DEF Alone, Deserted
  <2>6. Closed'
    BY <2>1, <2>3 DEF Closed
  <2> QED
    BY <2>2, <2>4, <2>5, <2>6, NobodyLocks DEF Shown
<1> QED
  BY <1>2, <1>3, <1>4, <1>5 DEF Resume

-----------------------------------------------------------------------------
(* The theorems *)

THEOREM RunInvAlways == Spec => []RunInv
<1>1. Init => RunInv
  <2> SUFFICES ASSUME Init PROVE RunInv
    OBVIOUS
  <2>1. /\ at \in [Session -> {"up", "orphan", "gone"}]
        /\ manifest.status = "queued" /\ manifest.updated = 0
        /\ registered = TRUE /\ runners = {setting.runner} /\ setting.runner \in alive
    BY DEF Init
  <2>2. Locked
    BY <2>1 DEF Locked, Exclusive, Cancelling, Adopting, Inside, SettlePoints, ResumePoints, CancelPoints
  <2>3. Shown
    <3>1. manifest.async <=> setting.runner = Detached
      BY DEF Init
    <3>2. EntryAlive
      BY <2>1, <3>1 DEF EntryAlive, AsyncAlive
    <3>3. OwnProcess
      BY <2>1, <3>1 DEF OwnProcess
    <3> QED
      BY <2>1, <3>2, <3>3 DEF Shown, Visible, Beating, Alone
  <2>4. Closed
    BY <2>1 DEF Closed
  <2>5. Typed
    BY InitTyped
  <2> QED
    BY <2>2, <2>3, <2>4, <2>5, TypedMeans DEF RunInv
<1>2. RunInv /\ [Next]_vars => RunInv'
  <2> SUFFICES ASSUME RunInv, [Next]_vars PROVE RunInv'
    OBVIOUS
  <2>1. Typed /\ Locked /\ Shown /\ Closed
    BY TypedMeans DEF RunInv
  <2>2. TypeOK'
    BY <2>1, TypedStep, TypedMeansLater
  <2>3. CASE Next
    <3>1. ASSUME NEW s \in Session, SessionStep(s) PROVE Locked' /\ Shown' /\ Closed'
      BY <2>1, <3>1, LookKeeps, JudgeKeeps, SettleKeeps, DropKeeps, TakeKeeps, PollKeeps, ResumeKeeps
      DEF SessionStep, Poll
    <3> QED
      BY <2>1, <2>2, <2>3, <3>1, StepForms, RunnerKeeps, EnvironmentKeeps DEF RunInv
  <2>4. CASE UNCHANGED vars
    <3>1. Locked'
      BY <2>1, <2>4 DEF vars, Locked, Exclusive, Cancelling, Adopting, Deserted, With
    <3>2. Shown' /\ Closed'
      BY <2>1, <2>4, NothingWritten DEF vars, data
    <3> QED
      BY <2>2, <3>1, <3>2 DEF RunInv
  <2> QED
    BY <2>3, <2>4
<1> QED
  BY <1>1, <1>2, PTL DEF Spec

\* While the registry has always shown the run at work, at most one process executes it.
THEOREM OneRunnerAlways == Spec => []OneRunner
<1>1. RunInv => OneRunner
  <2> SUFFICES ASSUME RunInv, ~hidden PROVE Cardinality(runners) <= 1
    BY DEF OneRunner
  <2>1. CASE runners = {}
    BY <2>1, FS_EmptySet
  <2>2. CASE runners # {}
    <3>1. PICK p \in runners : TRUE
      BY <2>2
    <3>2. runners = {p}
      BY <3>1 DEF RunInv, Shown, Alone
    <3>3. Cardinality({p}) = 1
      BY FS_Singleton, Zenon
    <3> QED
      BY <3>2, <3>3
  <2> QED
    BY <2>1, <2>2
<1> QED
  BY <1>1, RunInvAlways, PTL

\* A run that reads cancelled or completed has no task under way, wherever a settling process died.
THEOREM SettledRunRestsAlways == Spec => []SettledRunRests
<1>1. RunInv => SettledRunRests
  BY DEF RunInv, Closed, SettledRunRests
<1> QED
  BY <1>1, RunInvAlways, PTL

\* What is not at work in the registry may be settled; what is at work is left alone.
Kept ==
  ~hidden /\ runners # {} /\ runners' = runners =>
    /\ manifest'.status \notin PreservedRun
    /\ With({"cancelled"})' \subseteq With({"cancelled"})

LEMMA RunnerCancelsNothing == ASSUME Typed, Shown, NEW p \in Process, Runner(p) PROVE Kept
<1> SUFFICES ASSUME ~hidden, runners # {}, runners' = runners
             PROVE  manifest'.status \notin PreservedRun /\ With({"cancelled"})' \subseteq With({"cancelled"})
  BY DEF Kept
<1>1. p \in runners /\ UNCHANGED setting
  BY DEF Runner, Begin, Dispatch, Report, Finish, Ask, Answered, Block, End, GiveUp, Runs
<1>2. Begin(p) \/ Dispatch(p) \/ Report(p) \/ Finish(p) \/ Ask(p) \/ Answered(p)
  BY <1>1 DEF Runner, Block, End, GiveUp, Leaves
<1>3. manifest'.status \in {"running", manifest.status}
  BY <1>2 DEF Begin, Dispatch, Report, Finish, Ask, Answered, Save, Typed, ManifestType
<1>4. manifest.status \notin PreservedRun
  BY DEF Shown, Visible, Deserted, EntryAlive, PreservedRun
<1>5. \A t \in setting.todo : tasks'[t].status = "cancelled" => tasks[t].status = "cancelled"
  <2>1. CASE Begin(p)
    BY <2>1 DEF Begin
  <2>2. CASE Finish(p)
    BY <2>2 DEF Finish, Put
  <2>3. CASE Dispatch(p)
    BY <2>3 DEF Dispatch, Typed, TasksTyped
  <2>4. CASE Report(p)
    BY <2>4 DEF Report, Typed, TasksTyped, TaskType
  <2>5. CASE Ask(p) \/ Answered(p)
    <3>1. \/ \E t \in With({"running"}) : tasks' = [tasks EXCEPT ![t].status = "waiting"]
          \/ \E t \in With({"waiting"}) : tasks' = [tasks EXCEPT ![t].status = "running", ![t].seen = 0]
      BY <2>5 DEF Ask, Answered
    <3>2. CASE \E t \in With({"running"}) : tasks' = [tasks EXCEPT ![t].status = "waiting"]
      BY <3>2 DEF Typed, TasksTyped, TaskType
    <3>3. CASE \E t \in With({"waiting"}) : tasks' = [tasks EXCEPT ![t].status = "running", ![t].seen = 0]
      BY <3>3 DEF Typed, TasksTyped, TaskType
    <3> QED
      BY <3>1, <3>2, <3>3
  <2> QED
    BY <1>2, <2>1, <2>2, <2>3, <2>4, <2>5
<1> QED
  BY <1>1, <1>3, <1>4, <1>5 DEF With, PreservedRun

LEMMA EnvironmentCancelsNothing == ASSUME Typed, Shown, NEW p \in Process, Environment(p) PROVE Kept
<1>1. UNCHANGED setting /\ manifest'.status = manifest.status
  BY DEF Environment, Approve, Crash, Elapse, Prune, Typed, ManifestType
<1>2. \A t \in setting.todo : tasks'[t].status = tasks[t].status
  <2>1. CASE tasks' = tasks
    BY <2>1
  <2>2. CASE Elapse /\ tasks' # tasks
    BY <2>2 DEF Elapse, Typed, TasksTyped, TaskType, With
  <2> QED
    BY <2>1, <2>2 DEF Environment, Approve, Crash, Prune
<1>3. ~hidden /\ runners # {} => manifest.status \notin PreservedRun
  BY DEF Shown, Visible, Deserted, EntryAlive, PreservedRun
<1> QED
  BY <1>1, <1>2, <1>3 DEF Kept, With

\* Neither a pass, nor a poll, nor a resume settles a run at work or cancels its tasks.
THEOREM LiveRunKeptAlways == Spec => LiveRunKept
<1>1. RunInv /\ [Next]_vars => [Kept]_vars
  <2> SUFFICES ASSUME RunInv, Next PROVE Kept
    OBVIOUS
  <2>1. Typed /\ Locked /\ Shown
    BY TypedMeans DEF RunInv
  <2>2. ASSUME NEW s \in Session, SessionStep(s) PROVE Kept
    <3>1. CASE hidden \/ runners = {}
      BY <3>1 DEF Kept
    <3>2. CASE ~(hidden \/ runners = {})
      <4>1. UNCHANGED <<manifest, tasks>>
        BY <2>1, <2>2, <3>2, Spares DEF Deserted
      <4>2. setting' = setting
        BY <2>2 DEF SessionStep, Look, Judge, Settle, Drop, TakeResult, Poll, Resume, LookOrphan, LookPurge,
           LookStale, LookPoll, LookResume, Spare, JudgeOrphan, JudgePurge, FastPath, Repair, SettleOrphan,
           SettlePurge, SettleStale, PollStatus, PollTasks, Adopt, Reset, Enter, Register, Looks, Reconciles, Stands
      <4>3. manifest.status \notin PreservedRun
        BY <2>1, <3>2 DEF Shown, Visible, Deserted, EntryAlive, PreservedRun
      <4> QED
        BY <4>1, <4>2, <4>3 DEF Kept, With
    <3> QED
      BY <3>1, <3>2
  <2> QED
    BY <2>1, <2>2, StepForms, RunnerCancelsNothing, EnvironmentCancelsNothing
<1> QED
  BY <1>1, RunInvAlways, PTL DEF Spec, LiveRunKept, Kept

=============================================================================
