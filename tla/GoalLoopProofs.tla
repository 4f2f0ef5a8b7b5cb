--------------------------- MODULE GoalLoopProofs ---------------------------
(***************************************************************************)
(* For every set of goals, runners and settings: the goal loop uses the    *)
(* lock of the working tree as WorkspaceLock lets it be used; hence one    *)
(* turn at a time, a state set from outside is never written over, and no  *)
(* turn begins after a loss.                                               *)
(***************************************************************************)
EXTENDS GoalLoop, WorkspaceLockProofs

\* A turn is recorded only below the limit, in a callback in which no
\* heartbeat can come.
BeginBounded ==
  \A p \in Procs :
    loop[p] = "begin" => mine[p].turns < MaxTurns /\ (at[p] = "hold" \/ told[p] = "yes")

\* While the loop is at work it has the working tree; only the loop whose
\* acquisition was rejected proposes its status without.
LoopHolds ==
  Undisturbed =>
    \A p \in Procs :
      /\ loop[p] \in {"top", "begin", "turn", "return", "after", "exit"} => at[p] \in Holds
      /\ loop[p] \in {"set", "setsave"} => at[p] \in Holds \cup {"out"}

\* What a runner has read is what the file still says, unless the session's
\* second save has put it back to running.
Current(p) ==
  /\ buf[p] = None => My(p) = None
  /\ buf[p] # None /\ My(p) # None /\ My(p).state # "running" => My(p).state = buf[p].state

InWrite(p) == loop[p] \in Saving \/ told[p] = "save"

ReadsCurrent ==
  ~setting.overlap =>
    \A p \in Procs :
      /\ InWrite(p) => Current(p) /\ \A q \in Procs \ {p} : ~InWrite(q)
      /\ loop[p] = "setsave" \/ told[p] = "save" => buf[p] = None \/ buf[p].state = "running"
      /\ told[p] = "save" => at[p] = "lost"
      /\ loop[p] \in Saving => at[p] \in {"hold", "out"} \/ told[p] = "yes"

\* Runners and files belong to goals that were started; a goal with an
\* outstanding write is there.
OnlyStarted ==
  /\ \A g \in Goals \ started : goal[g] = None
  /\ \A p \in Procs : GoalOf[p] \notin started => loop[p] = "new"
  /\ \A p \in Procs : loop[p] = "new" => told[p] = "no" /\ at[p] = "out"
  /\ \A p \in Procs : loop[p] \in {"set", "setsave"} => want[p] \in Status
  /\ op # None => op.of \in started
  /\ ~setting.overlap /\ op # None => op.kind = "async" /\ goal[op.of] # None

USE GoalAssumption, LockAssumption

LoopInv == TypeOK /\ LockInv /\ BeginBounded /\ LoopHolds /\ OnlyStarted /\ ReadsCurrent

-----------------------------------------------------------------------------
(* The goal loop's steps are steps of the lock, or leave it alone *)

LEMMA LockSteps == ASSUME [Next]_vars PROVE [LockNext]_lockVars
<1>1. ASSUME NEW p \in Procs, LoopStep(p) PROVE [LockNext]_lockVars
  <2>1. CASE Boot(p)
    BY <2>1 DEF Boot, LockNext
  <2>2. CASE Exit(p)
    BY <2>2 DEF Exit, LockNext
  <2>3. CASE Enter(p) \/ Top(p) \/ Begin(p) \/ TurnReturns(p) \/ Judged(p) \/ SetStatus(p)
             \/ SetSaved(p) \/ After(p) \/ Lost(p) \/ LostSaved(p)
    BY <2>3 DEF Enter, Top, Begin, TurnReturns, Judged, SetStatus, SetSaved, After, Lost, LostSaved
  <2> QED
    BY <1>1, <2>1, <2>2, <2>3 DEF LoopStep
<1>2. ASSUME NEW p \in Procs, FileStep(p) \/ Beat(p) \/ NotAcquired(p) \/ Killed(p) \/ Recycle(p)
      PROVE [LockNext]_lockVars
  BY <1>2 DEF FileStep, Beat, NotAcquired, Killed, LockNext
<1>3. ASSUME NEW p \in Procs, Abort(p) PROVE [LockNext]_lockVars
  BY <1>3 DEF Abort
<1>4. ASSUME NEW g \in Goals, Start(g) \/ Clear(g) PROVE [LockNext]_lockVars
  BY <1>4 DEF Start, Clear
<1>5. ASSUME NEW g \in Goals, NEW k, Request(k, g) PROVE [LockNext]_lockVars
  BY <1>5 DEF Request
<1>6. CASE Commit
  BY <1>6 DEF Commit
<1>7. CASE Expire
  BY <1>7 DEF LockNext
<1>8. CASE UNCHANGED vars
  BY <1>8 DEF vars, lockVars
<1> QED
  BY <1>1, <1>2, <1>3, <1>4, <1>5, <1>6, <1>7, <1>8 DEF Next

\* The composed system uses the lock file only through the lock's protocol.
THEOREM LoopUsesLock == Spec => LockSpec
<1>1. Init => LockInit
  BY DEF Init
<1>2. [Next]_vars => [LockNext]_lockVars
  BY LockSteps
<1> QED
  BY <1>1, <1>2, PTL DEF Spec, LockSpec

-----------------------------------------------------------------------------
(* The type of the state *)

LEMMA RecordFacts ==
  /\ Fresh \in Record
  /\ \A r \in Record, x \in Status : [r EXCEPT !.state = x] \in Record
  /\ \A r \in Record, n \in 0 .. MaxTurns : [r EXCEPT !.turns = n] \in Record
BY DEF Record, Fresh, Status

LEMMA LoopTypeKept ==
  ASSUME TypeOK, LockTypeOK', BeginBounded, OnlyStarted, [Next]_vars
  PROVE  TypeOK'
<1> USE DEF TypeOK, LoopPc, Saving, Jump, My, Put, Keep
<1>1. ASSUME NEW p \in Procs, LoopStep(p) PROVE TypeOK'
  <2>1. CASE Boot(p) \/ Enter(p) \/ After(p) \/ Exit(p)
    BY <2>1 DEF Boot, Enter, After, Exit, Propose, Status
  <2>2. CASE Top(p) \/ TurnReturns(p)
    BY <2>2 DEF Top, TurnReturns, Propose, Status
  <2>3. CASE Begin(p)
    <3> DEFINE r == IF buf[p] = None THEN mine[p] ELSE [buf[p] EXCEPT !.turns = mine[p].turns + 1]
    <3>1. r \in Record
      <4>1. mine[p].turns + 1 \in 0 .. MaxTurns
        BY <2>3 DEF Begin, BeginBounded, Record
      <4> QED
        BY <4>1, RecordFacts
    <3> HIDE DEF r
    <3>2. /\ mine' = [mine EXCEPT ![p] = r]
          /\ goal' = goal \/ goal' = [goal EXCEPT ![GoalOf[p]] = r]
          /\ \/ loop' = [loop EXCEPT ![p] = "turn"]
             \/ loop' = [loop EXCEPT ![p] = "after"]
          /\ UNCHANGED <<lockVars, setting, started, op, buf, want, told, aborted>>
      BY <2>3 DEF Begin, r
    <3>3. GoalOf[p] \in Goals
      OBVIOUS
    <3> QED
      BY <3>1, <3>2, <3>3
  <2>4. CASE Judged(p)
    BY <2>4 DEF Judged, Propose, Status
  <2>5. CASE SetStatus(p) \/ Lost(p)
    BY <2>5 DEF SetStatus, Lost, AfterSet
  <2>6. CASE SetSaved(p)
    <3> DEFINE r == [(IF buf[p] = None THEN mine[p] ELSE buf[p]) EXCEPT !.state = want[p]]
    <3>1. r \in Record
      <4>1. want[p] \in Status
        BY <2>6 DEF OnlyStarted, SetSaved
      <4> QED
        BY <4>1, RecordFacts
    <3> HIDE DEF r
    <3>2. /\ mine' = [mine EXCEPT ![p] = r]
          /\ goal' = goal \/ goal' = [goal EXCEPT ![GoalOf[p]] = r]
          /\ loop' = [loop EXCEPT ![p] = IF at[p] = "out" THEN "end" ELSE "after"]
          /\ UNCHANGED <<lockVars, setting, started, op, buf, want, told, aborted>>
      BY <2>6 DEF SetSaved, r
    <3> QED
      BY <3>1, <3>2
  <2>7. CASE LostSaved(p)
    <3> DEFINE r == [(IF buf[p] = None THEN mine[p] ELSE buf[p]) EXCEPT !.state = "blocked"]
    <3>1. r \in Record
      BY RecordFacts DEF Status
    <3> HIDE DEF r
    <3>2. /\ mine' = [mine EXCEPT ![p] = r]
          /\ goal' = goal \/ goal' = [goal EXCEPT ![GoalOf[p]] = r]
          /\ told' = [told EXCEPT ![p] = "yes"]
          /\ UNCHANGED <<lockVars, setting, started, op, loop, buf, want, aborted>>
      BY <2>7 DEF LostSaved, r
    <3> QED
      BY <3>1, <3>2
  <2> QED
    BY <1>1, <2>1, <2>2, <2>3, <2>4, <2>5, <2>6, <2>7 DEF LoopStep
<1>2. ASSUME NEW p \in Procs, FileStep(p) \/ Beat(p) \/ (Recycle(p) /\ UNCHANGED loopVars)
      PROVE TypeOK'
  BY <1>2 DEF FileStep, Beat, loopVars
<1>3. ASSUME NEW p \in Procs, NotAcquired(p) \/ Killed(p) \/ Abort(p) PROVE TypeOK'
  BY <1>3 DEF NotAcquired, Killed, Abort, Status
<1>4. ASSUME NEW g \in Goals, Start(g) \/ Clear(g) PROVE TypeOK'
  BY <1>4, RecordFacts DEF Start, Clear, Spawn
<1>5. ASSUME NEW g \in Goals, NEW k \in {"stop", "pause", "resume"}, Request(k, g) PROVE TypeOK'
  <2>1. Flipped(k) \in Status
    BY DEF Flipped, Status
  <2> QED
    BY <1>5, <2>1, RecordFacts DEF Request, Flip, Spawn
<1>6. CASE Commit
  <2> DEFINE r == [op.read EXCEPT !.state = Flipped(op.kind)]
  <2>1. Flipped(op.kind) \in Status
    BY DEF Flipped, Status
  <2>2. op.read \in Record /\ op.of \in Goals
    BY <1>6 DEF Commit
  <2>3. r \in Record
    BY <2>1, <2>2, RecordFacts
  <2>4. goal' = [goal EXCEPT ![op.of] = r]
    BY <1>6 DEF Commit, Flip
  <2> HIDE DEF r
  <2>5. loop' = loop \/ \E p \in Procs : loop' = [loop EXCEPT ![p] = "boot"]
    BY <1>6 DEF Commit, Flip, Spawn
  <2> QED
    BY <1>6, <2>2, <2>3, <2>4, <2>5 DEF Commit
<1>7. CASE Expire /\ UNCHANGED loopVars
  BY <1>7 DEF loopVars
<1>8. CASE UNCHANGED vars
  BY <1>8 DEF vars
<1> QED
  BY <1>1, <1>2, <1>3, <1>4, <1>5, <1>6, <1>7, <1>8 DEF Next

-----------------------------------------------------------------------------
(* Where the loop stands *)

\* What a runner writes over its goal is a goal.
LEMMA WritesRecord ==
  ASSUME LoopInv, NEW p \in Procs, LoopStep(p)
  PROVE  goal' = goal \/ \E r \in Record : goal' = [goal EXCEPT ![GoalOf[p]] = r]
<1> USE DEF LoopInv, TypeOK, OnlyStarted, LoopPc, Saving, Jump, My, Put, Keep
<1>1. CASE Begin(p)
  <2>1. mine[p].turns + 1 \in 0 .. MaxTurns
    BY <1>1 DEF Begin, BeginBounded, Record
  <2>2. buf[p] # None => [buf[p] EXCEPT !.turns = mine[p].turns + 1] \in Record
    BY <2>1, RecordFacts
  <2>3. \/ goal' = goal
        \/ buf[p] # None /\ goal' = [goal EXCEPT ![GoalOf[p]] = [buf[p] EXCEPT !.turns = mine[p].turns + 1]]
    BY <1>1 DEF Begin
  <2> QED
    BY <2>2, <2>3
<1>2. CASE Judged(p)
  BY <1>2 DEF Judged
<1>3. CASE SetSaved(p)
  BY <1>3, RecordFacts DEF SetSaved
<1>4. CASE LostSaved(p)
  <2>1. "blocked" \in Status
    BY DEF Status
  <2> QED
    BY <1>4, <2>1, RecordFacts DEF LostSaved
<1>5. CASE Boot(p) \/ Enter(p) \/ Top(p) \/ TurnReturns(p) \/ SetStatus(p) \/ After(p) \/ Exit(p) \/ Lost(p)
  BY <1>5 DEF Boot, Enter, Top, TurnReturns, SetStatus, After, Exit, Lost
<1> QED
  BY <1>1, <1>2, <1>3, <1>4, <1>5 DEF LoopStep

LEMMA OnlyStartedKept == ASSUME LoopInv, [Next]_vars PROVE OnlyStarted'
<1> USE DEF LoopInv, TypeOK, OnlyStarted, LoopPc, Saving, Jump, My, Put, Keep
<1>1. ASSUME NEW p \in Procs, LoopStep(p) PROVE OnlyStarted'
  <2>1. GoalOf[p] \in started /\ loop[p] # "new"
    BY <1>1 DEF LoopStep, Boot, Enter, Top, Begin, TurnReturns, Judged, SetStatus, SetSaved, After,
                Exit, Lost, LostSaved
  <2>2. CASE Boot(p)
    BY <2>1, <2>2 DEF Boot, Ask, Go, lockVars, LockTypeOK
  <2>3. CASE Enter(p) \/ Top(p) \/ TurnReturns(p) \/ SetStatus(p) \/ After(p) \/ Lost(p)
    BY <2>1, <2>3 DEF Enter, Top, TurnReturns, SetStatus, After, Lost, Propose, AfterSet, lockVars, Status
  <2>4. CASE Begin(p) \/ Judged(p) \/ SetSaved(p) \/ LostSaved(p)
    <3>1. /\ lockVars' = lockVars /\ setting' = setting /\ started' = started /\ op' = op
          /\ \A q \in Procs \ {p} : loop'[q] = loop[q] /\ told'[q] = told[q] /\ want'[q] = want[q]
          /\ loop'[p] # "new" /\ (loop'[p] \in {"set", "setsave"} => want'[p] \in Status)
      BY <2>1, <2>4 DEF Begin, Judged, SetSaved, LostSaved, Propose, Status
    <3>2. goal' = goal \/ \E r \in Record : goal' = [goal EXCEPT ![GoalOf[p]] = r]
      BY <1>1, WritesRecord
    <3> QED
      BY <2>1, <3>1, <3>2 DEF lockVars
  <2>5. CASE Exit(p)
    BY <2>1, <2>5 DEF Exit, Leave, Go
  <2> QED
    BY <1>1, <2>2, <2>3, <2>4, <2>5 DEF LoopStep
<1>2. ASSUME NEW p \in Procs, FileStep(p) \/ Beat(p) PROVE OnlyStarted'
  BY <1>2 DEF FileStep, Beat, loopVars, LockStep, Refresh, Read, Steal, Create, CheckAge, Write, Verify,
              Undo, Poll, Compare, Rename, Reread, Release, Unlink, Heartbeat, Go, LockTypeOK
<1>3. ASSUME NEW p \in Procs, NotAcquired(p) \/ Killed(p) \/ Abort(p) PROVE OnlyStarted'
  BY <1>3 DEF NotAcquired, Killed, Abort, GiveUp, Die, Go, lockVars, LockTypeOK, Status
<1>4. ASSUME NEW g \in Goals, Start(g) \/ Clear(g) PROVE OnlyStarted'
  <2>1. CASE Start(g)
    <3>1. PICK p \in Procs : GoalOf[p] = g /\ loop' = [loop EXCEPT ![p] = "boot"]
      BY <2>1 DEF Start, Spawn
    <3>2. /\ op' = None \/ (op'.kind = "async" /\ op'.of = g)
          /\ goal' = [goal EXCEPT ![g] = Fresh] /\ started' = started \cup {g}
          /\ UNCHANGED <<lockVars, setting, want, told>>
      BY <2>1 DEF Start
    <3>3. goal'[g] # None
      BY <3>2, RecordFacts
    <3> QED
      BY <3>1, <3>2, <3>3 DEF lockVars
  <2>2. CASE Clear(g)
    BY <2>2 DEF Clear, lockVars
  <2> QED
    BY <1>4, <2>1, <2>2
<1>5. ASSUME NEW g \in Goals, NEW k \in {"stop", "pause", "resume"}, Request(k, g) PROVE OnlyStarted'
  <2>1. g \in started
    BY <1>5 DEF Request
  <2> DEFINE r == [goal[g] EXCEPT !.state = Flipped(k)]
  <2>2. r # None
    <3>1. goal[g] \in Record /\ Flipped(k) \in Status
      BY <1>5 DEF Request, Flipped, Status
    <3> QED
      BY <3>1, RecordFacts
  <2>3. /\ goal' = goal \/ (~setting.overlap /\ goal' = [goal EXCEPT ![g] = r])
        /\ op = None /\ (op' = None \/ (setting.overlap /\ op'.of = g))
        /\ UNCHANGED <<lockVars, setting, started, want, told>>
    BY <1>5 DEF Request, Flip
  <2> HIDE DEF r
  <2>4. loop' = loop \/ \E p \in Procs : GoalOf[p] = g /\ loop' = [loop EXCEPT ![p] = "boot"]
    BY <1>5 DEF Request, Flip, Spawn
  <2> QED
    BY <2>1, <2>2, <2>3, <2>4 DEF lockVars
<1>6. CASE Commit
  <2> DEFINE r == [op.read EXCEPT !.state = Flipped(op.kind)]
  <2>1. op.of \in started /\ op.of \in Goals
    BY <1>6 DEF Commit
  <2>2. goal' = [goal EXCEPT ![op.of] = r]
    BY <1>6 DEF Commit, Flip
  <2> HIDE DEF r
  <2>3. loop' = loop \/ \E p \in Procs : GoalOf[p] = op.of /\ loop' = [loop EXCEPT ![p] = "boot"]
    BY <1>6 DEF Commit, Flip, Spawn
  <2>4. op' = None /\ UNCHANGED <<lockVars, setting, started, want, told>>
    BY <1>6 DEF Commit
  <2> QED
    BY <2>1, <2>2, <2>3, <2>4 DEF lockVars
<1>7. ASSUME NEW p \in Procs, Recycle(p) /\ UNCHANGED loopVars PROVE OnlyStarted'
  BY <1>7 DEF Recycle, loopVars
<1>8. CASE Expire /\ UNCHANGED loopVars
  BY <1>8 DEF Expire, loopVars
<1>9. CASE UNCHANGED vars
  BY <1>9 DEF vars
<1> QED
  BY <1>1, <1>2, <1>3, <1>4, <1>5, <1>6, <1>7, <1>8, <1>9 DEF Next

\* The read of the patch and the write are one callback of the runner.
LEMMA BeginBoundedKept == ASSUME LoopInv, [Next]_vars PROVE BeginBounded'
<1> USE DEF LoopInv, TypeOK, LockTypeOK, BeginBounded, LoopPc, Saving, Jump, My, Put, Keep
<1>1. ASSUME NEW p \in Procs, LoopStep(p) PROVE BeginBounded'
  <2>1. \A q \in Procs \ {p} : loop'[q] = loop[q] /\ mine'[q] = mine[q] /\ at'[q] = at[q] /\ told'[q] = told[q]
    BY <1>1 DEF LoopStep, Boot, Enter, Top, Begin, TurnReturns, Judged, SetStatus, SetSaved, After,
                Exit, Lost, LostSaved, Propose, Ask, Leave, Go, lockVars
  <2>2. loop'[p] = "begin" => mine'[p].turns < MaxTurns /\ (at'[p] = "hold" \/ told'[p] = "yes")
    <3>1. CASE Top(p)
      BY <3>1 DEF Top, MayTurn, LoopRuns, Propose, lockVars
    <3>2. CASE Boot(p) \/ Enter(p) \/ Begin(p) \/ TurnReturns(p) \/ Judged(p) \/ SetStatus(p) \/ SetSaved(p)
               \/ After(p) \/ Exit(p)
      BY <3>2 DEF Boot, Enter, Begin, TurnReturns, Judged, SetStatus, SetSaved, After, Exit, Propose, AfterSet
    <3>3. CASE Lost(p) \/ LostSaved(p)
      BY <3>3 DEF Lost, LostSaved
    <3> QED
      BY <1>1, <3>1, <3>2, <3>3 DEF LoopStep
  <2> QED
    BY <2>1, <2>2
<1>2. ASSUME NEW p \in Procs, FileStep(p) \/ Beat(p) PROVE BeginBounded'
  BY <1>2 DEF FileStep, Beat, loopVars, LockStep, Refresh, Read, Steal, Create, CheckAge, Write, Verify,
              Undo, Poll, Compare, Rename, Reread, Release, Unlink, Heartbeat, Go
<1>3. ASSUME NEW p \in Procs, NotAcquired(p) \/ Killed(p) \/ Abort(p) PROVE BeginBounded'
  BY <1>3 DEF NotAcquired, Killed, Abort, GiveUp, Die, Go, lockVars
<1>4. ASSUME NEW g \in Goals, Start(g) \/ Clear(g) PROVE BeginBounded'
  BY <1>4 DEF Start, Clear, Spawn, lockVars
<1>5. ASSUME NEW g \in Goals, NEW k \in {"stop", "pause", "resume"}, Request(k, g) PROVE BeginBounded'
  BY <1>5 DEF Request, Flip, Spawn, lockVars
<1>6. CASE Commit
  BY <1>6 DEF Commit, Flip, Spawn, lockVars
<1>7. ASSUME NEW p \in Procs, Recycle(p) /\ UNCHANGED loopVars PROVE BeginBounded'
  BY <1>7 DEF Recycle, loopVars
<1>8. CASE Expire /\ UNCHANGED loopVars
  BY <1>8 DEF Expire, loopVars
<1>9. CASE UNCHANGED vars
  BY <1>9 DEF vars
<1> QED
  BY <1>1, <1>2, <1>3, <1>4, <1>5, <1>6, <1>7, <1>8, <1>9 DEF Next

\* Nobody loses the lock when nobody is hurt, so the loop keeps it until exit.
LEMMA LoopHoldsKept == ASSUME LoopInv, LockInv', [Next]_vars PROVE LoopHolds'
<1> SUFFICES ASSUME Undisturbed, Undisturbed' PROVE LoopHolds'
  BY LockSteps, FateKept DEF LoopHolds, Undisturbed
<1>0. \A p \in Procs : at'[p] \notin {"lost", "dead"}
  BY DEF LockInv, FileStands
<1> USE DEF LoopInv, TypeOK, LockTypeOK, LoopHolds, LoopPc, Saving, Jump, Holds, Refreshing
<1>1. ASSUME NEW p \in Procs, LoopStep(p) PROVE LoopHolds'
  <2>1. CASE Boot(p) \/ Exit(p)
    BY <2>1 DEF Boot, Exit, Ask, Leave, Go, lockVars
  <2>2. CASE Enter(p) \/ Begin(p) \/ Judged(p) \/ SetSaved(p)
    BY <2>2 DEF Enter, Begin, Judged, SetSaved, Propose, lockVars
  <2>3. CASE Top(p) \/ TurnReturns(p) \/ SetStatus(p) \/ After(p) \/ Lost(p) \/ LostSaved(p)
    BY <2>3 DEF Top, TurnReturns, SetStatus, After, Lost, LostSaved, LoopRuns, Propose, AfterSet, lockVars
  <2> QED
    BY <1>1, <2>1, <2>2, <2>3 DEF LoopStep
<1>2. ASSUME NEW p \in Procs, FileStep(p) \/ Beat(p) PROVE LoopHolds'
  BY <1>0, <1>2 DEF FileStep, Beat, loopVars, LockStep, Refresh, Read, Steal, Create, CheckAge, Write,
              Verify, Undo, Poll, Compare, Rename, Reread, Release, Unlink, Heartbeat, Go
<1>3. ASSUME NEW p \in Procs, NotAcquired(p) \/ Killed(p) \/ Abort(p) PROVE LoopHolds'
  BY <1>0, <1>3 DEF NotAcquired, Killed, Abort, GiveUp, Die, Go, lockVars
<1>4. ASSUME NEW g \in Goals, Start(g) \/ Clear(g) PROVE LoopHolds'
  BY <1>4 DEF Start, Clear, Spawn, lockVars
<1>5. ASSUME NEW g \in Goals, NEW k \in {"stop", "pause", "resume"}, Request(k, g) PROVE LoopHolds'
  BY <1>5 DEF Request, Flip, Spawn, lockVars
<1>6. CASE Commit
  BY <1>6 DEF Commit, Flip, Spawn, lockVars
<1>7. ASSUME NEW p \in Procs, Recycle(p) /\ UNCHANGED loopVars PROVE LoopHolds'
  BY <1>7 DEF Recycle, loopVars
<1>8. CASE Expire /\ UNCHANGED loopVars
  BY <1>8 DEF Expire, loopVars
<1>9. CASE UNCHANGED vars
  BY <1>9 DEF vars
<1> QED
  BY <1>1, <1>2, <1>3, <1>4, <1>5, <1>6, <1>7, <1>8, <1>9 DEF Next

-----------------------------------------------------------------------------
(* What a runner has read *)

\* What an instance does never changes.
LEMMA SettingStays == ASSUME [Next]_vars PROVE setting' = setting
<1>1. CASE \E p \in Procs : LoopStep(p)
  BY <1>1 DEF LoopStep, Boot, Enter, Top, Begin, TurnReturns, Judged, SetStatus, SetSaved, After, Exit,
              Lost, LostSaved
<1>2. CASE \E p \in Procs : FileStep(p) \/ Beat(p) \/ Abort(p) \/ Killed(p) \/ NotAcquired(p)
  BY <1>2 DEF FileStep, Beat, Abort, Killed, NotAcquired, loopVars
<1>3. CASE ~(\E p \in Procs : LoopStep(p) \/ FileStep(p) \/ Beat(p) \/ Abort(p) \/ Killed(p) \/ NotAcquired(p))
  BY <1>3 DEF Next, Start, Clear, Request, Commit, vars, loopVars
<1> QED
  BY <1>1, <1>2, <1>3

\* Only the session's second save may come between a read and its write, and
\* that one writes "running".
LEMMA ReadsCurrentKept == ASSUME LoopInv, [Next]_vars PROVE ReadsCurrent'
<1>0. setting' = setting
  BY SettingStays
<1> SUFFICES ASSUME ~setting.overlap, ~setting'.overlap PROVE ReadsCurrent'
  BY <1>0 DEF ReadsCurrent
<1> USE DEF LoopInv, TypeOK, LockTypeOK, ReadsCurrent, InWrite, Current, LoopPc, Saving, Jump, My, Put, Keep
<1>1. ASSUME NEW p \in Procs, LoopStep(p) PROVE ReadsCurrent'
  <2>0. \A q \in Procs \ {p} : loop'[q] = loop[q] /\ told'[q] = told[q] /\ buf'[q] = buf[q] /\ at'[q] = at[q]
    BY <1>1 DEF LoopStep, Boot, Enter, Top, Begin, TurnReturns, Judged, SetStatus, SetSaved, After,
                Exit, Lost, LostSaved, Propose, Ask, Leave, Go, lockVars
  <2>1. CASE Boot(p) \/ Enter(p) \/ After(p) \/ Exit(p)
    BY <2>0, <2>1 DEF Boot, Enter, After, Exit, Ask, Leave, Go, LoopRuns, Propose, lockVars
  <2>2. CASE Top(p)
    BY <2>0, <2>2 DEF Top, Alone, LoopRuns, Propose, lockVars
  <2>3. CASE TurnReturns(p)
    BY <2>0, <2>3 DEF TurnReturns, Alone, LoopRuns, lockVars
  <2>4. CASE SetStatus(p)
    BY <2>0, <2>4 DEF SetStatus, Alone, LoopRuns, AfterSet, lockVars
  <2>5. CASE Lost(p)
    BY <2>0, <2>5 DEF Lost, Alone, lockVars
  <2>6. CASE Begin(p) \/ Judged(p) \/ SetSaved(p) \/ LostSaved(p)
    <3>1. InWrite(p)
      BY <2>6 DEF Begin, Judged, SetSaved, LostSaved
    <3>2. ~InWrite(p)'
      BY <2>6 DEF Begin, Judged, SetSaved, LostSaved, Propose, lockVars
    <3> QED
      BY <2>0, <3>1, <3>2
  <2> QED
    BY <1>1, <2>1, <2>2, <2>3, <2>4, <2>5, <2>6 DEF LoopStep
<1>2. ASSUME NEW p \in Procs, FileStep(p) \/ Beat(p) PROVE ReadsCurrent'
  BY <1>2 DEF FileStep, Beat, loopVars, LockStep, Refresh, Read, Steal, Create, CheckAge, Write,
              Verify, Undo, Poll, Compare, Rename, Reread, Release, Unlink, Heartbeat, Go
<1>3. ASSUME NEW p \in Procs, NotAcquired(p) \/ Killed(p) \/ Abort(p) PROVE ReadsCurrent'
  BY <1>3 DEF NotAcquired, Killed, Abort, GiveUp, Die, Go, lockVars
<1>4. ASSUME NEW g \in Goals, Start(g) PROVE ReadsCurrent'
  <2>1. \A p \in Procs : GoalOf[p] = g => ~InWrite(p)
    BY <1>4 DEF Start, OnlyStarted
  <2> QED
    BY <1>4, <2>1 DEF Start, Spawn, lockVars
<1>5. ASSUME NEW g \in Goals, NEW k \in {"stop", "pause", "resume"}, Clear(g) \/ Request(k, g)
      PROVE ReadsCurrent'
  <2>1. \A p \in Procs : ~InWrite(p)
    BY <1>5 DEF Clear, Request, Alone
  <2> QED
    BY <1>5, <2>1 DEF Clear, Request, Flip, Spawn, lockVars
<1>6. CASE Commit
  <2>1. op.kind = "async" /\ goal[op.of] # None /\ op.of \in Goals /\ op.read \in Record
    BY <1>6 DEF Commit, OnlyStarted
  <2>2. goal'[op.of].state = "running" /\ \A g \in Goals \ {op.of} : goal'[g] = goal[g]
    BY <1>6, <2>1 DEF Commit, Flip, Flipped, Record
  <2>3. UNCHANGED <<lockVars, setting, loop, told, buf>>
    BY <1>6, <2>1 DEF Commit, Flip
  <2> QED
    BY <2>1, <2>2, <2>3 DEF lockVars
<1>7. ASSUME NEW p \in Procs, Recycle(p) /\ UNCHANGED loopVars PROVE ReadsCurrent'
  BY <1>7 DEF Recycle, loopVars
<1>8. CASE Expire /\ UNCHANGED loopVars
  BY <1>8 DEF Expire, loopVars
<1>9. CASE UNCHANGED vars
  BY <1>9 DEF vars
<1>10. ASSUME NEW g \in Goals, Clear(g) PROVE ReadsCurrent'
  BY <1>5, <1>10
<1> QED
  BY <1>1, <1>2, <1>3, <1>4, <1>5, <1>6, <1>7, <1>8, <1>9, <1>10 DEF Next

-----------------------------------------------------------------------------
(* The theorems *)

LEMMA InitLoop == Init => LoopInv
<1> SUFFICES ASSUME Init PROVE LoopInv
  OBVIOUS
<1>1. LockInv
  BY InitLock DEF Init
<1>2. TypeOK
  BY <1>1, RecordFacts DEF Init, TypeOK, LockInv, LoopPc
<1>3. BeginBounded /\ LoopHolds /\ OnlyStarted /\ ReadsCurrent
  BY DEF Init, LockInit, BeginBounded, LoopHolds, OnlyStarted, ReadsCurrent, InWrite, Saving
<1> QED
  BY <1>1, <1>2, <1>3 DEF LoopInv

LEMMA LoopInvKept == ASSUME LoopInv, [Next]_vars PROVE LoopInv'
<1>1. LockInv'
  BY LockSteps, LockInvKept DEF LoopInv
<1>2. TypeOK'
  BY <1>1, LoopTypeKept DEF LoopInv, LockInv
<1> QED
  BY <1>1, <1>2, OnlyStartedKept, BeginBoundedKept, LoopHoldsKept, ReadsCurrentKept DEF LoopInv

\* Inductive for every number of goals, runners and turns.
THEOREM LoopInvariant == Spec => []LoopInv
<1>1. Init => LoopInv
  BY InitLoop
<1>2. LoopInv /\ [Next]_vars => LoopInv'
  BY LoopInvKept
<1> QED
  BY <1>1, <1>2, PTL DEF Spec

\* The state is well typed; turnsUsed never passes maxTurns.
THEOREM GoalTypeOK == Spec => []TypeOK
<1>1. LoopInv => TypeOK
  BY DEF LoopInv
<1> QED
  BY <1>1, LoopInvariant, PTL

\* The loop's turns inherit the exclusion of the lock.
THEOREM OneTurnAlways == Spec => []OneTurnAtATime
<1>1. LoopInv => OneTurnAtATime
  BY LockInvImplies DEF LoopInv, LoopHolds, OneTurnAtATime, LockExclusive, Holds, Refreshing
<1> QED
  BY <1>1, LoopInvariant, PTL

\* A status that the session or another runner has set is never replaced by
\* one that a runner proposes.
LEMMA ExternalStateStep ==
  ASSUME LoopInv, [Next]_vars, ~setting.overlap, NEW p \in Procs,
         loop[p] # "new", loop'[p] # loop[p] \/ told'[p] # told[p],
         My(p) # None, My(p).state # "running"
  PROVE  My(p)' # None /\ My(p)'.state = My(p).state
<1> USE DEF LoopInv, TypeOK, LockTypeOK, LoopPc, Saving, Jump, My, Put, Keep
<1>1. LoopStep(p) \/ goal' = goal
  <2>1. ASSUME NEW q \in Procs \ {p}, LoopStep(q) PROVE FALSE
    <3>1. loop'[p] = loop[p] /\ told'[p] = told[p]
      BY <2>1 DEF LoopStep, Boot, Enter, Top, Begin, TurnReturns, Judged, SetStatus, SetSaved, After,
                  Exit, Lost, LostSaved, Propose
    <3> QED
      BY <3>1
  <2>2. ASSUME NEW q \in Procs, FileStep(q) \/ Beat(q) \/ NotAcquired(q) \/ Abort(q) \/ Killed(q)
        PROVE goal' = goal
    BY <2>2 DEF FileStep, Beat, NotAcquired, Abort, Killed, loopVars
  <2>3. ASSUME NEW g \in Goals, Start(g) \/ Clear(g) PROVE FALSE
    BY <2>3 DEF Start, Clear, Spawn
  <2>4. ASSUME NEW g \in Goals, NEW k, Request(k, g) PROVE FALSE
    BY <2>4 DEF Request, Flip, Spawn
  <2>5. ASSUME Commit PROVE FALSE
    BY <2>5 DEF Commit, Flip, Spawn
  <2> QED
    BY <2>1, <2>2, <2>3, <2>4, <2>5 DEF Next, loopVars, vars
<1>2. CASE goal' = goal
  BY <1>2
<1>3. CASE Begin(p)
  <2>1. Current(p)
    BY <1>3 DEF Begin, ReadsCurrent, InWrite
  <2> DEFINE r == [buf[p] EXCEPT !.turns = mine[p].turns + 1]
  <2>2. buf[p] \in Record /\ buf[p].state = My(p).state
    BY <2>1 DEF Current
  <2>3. mine[p].turns + 1 \in 0 .. MaxTurns
    BY <1>3 DEF Begin, BeginBounded, Record
  <2>4. r \in Record /\ r.state = buf[p].state
    BY <2>2, <2>3, RecordFacts DEF Record
  <2>5. My(p)' = r
    BY <1>3, <2>2 DEF Begin
  <2> QED
    BY <2>2, <2>4, <2>5
<1>4. CASE Judged(p)
  <2>1. Current(p)
    BY <1>4 DEF Judged, ReadsCurrent, InWrite
  <2> QED
    BY <1>4, <2>1 DEF Judged, Current
<1>5. CASE SetSaved(p) \/ LostSaved(p)
  <2>1. Current(p) /\ (buf[p] = None \/ buf[p].state = "running")
    BY <1>5 DEF SetSaved, LostSaved, ReadsCurrent, InWrite
  <2> QED
    BY <2>1 DEF Current
<1>6. CASE Boot(p) \/ Enter(p) \/ Top(p) \/ TurnReturns(p) \/ SetStatus(p) \/ After(p) \/ Exit(p) \/ Lost(p)
  BY <1>6 DEF Boot, Enter, Top, TurnReturns, SetStatus, After, Exit, Lost
<1> QED
  BY <1>1, <1>2, <1>3, <1>4, <1>5, <1>6 DEF LoopStep

\* "External cancel wins", for every interleaving of session and runners.
THEOREM ExternalStateAlwaysWins == Spec => ExternalStateWins
<1>1. LoopInv /\ [Next]_vars =>
        [~setting.overlap =>
           \A p \in Procs :
             /\ loop[p] # "new" /\ (loop'[p] # loop[p] \/ told'[p] # told[p])
             /\ My(p) # None /\ My(p).state # "running"
             => My(p)' # None /\ My(p)'.state = My(p).state]_vars
  BY ExternalStateStep
<1> QED
  BY <1>1, LoopInvariant, PTL DEF Spec, ExternalStateWins

-----------------------------------------------------------------------------
(* After the loss of the lock *)

\* The session neither revives a goal nor removes one, and nobody else may
\* write between a read and its write.
Calm == ~setting.overlap /\ ~setting.slow /\ setting.ops \cap {"resume", "clear"} = {}

\* No runner proposes that the goal runs on.
ProposalEnds == \A p \in Procs : loop[p] \in {"set", "setsave"} => want[p] # "running"

\* A heartbeat and the callback that learns of a loss come while the loop
\* awaits; what onOwnershipLost has done stays done to the end of the loop.
LossTold ==
  \A p \in Procs :
    /\ at[p] \in Refreshing \/ (at[p] = "lost" /\ told[p] # "yes") => loop[p] \in {"top", "turn"}
    /\ told[p] = "yes" => at[p] = "lost" \/ loop[p] = "end"
    /\ loop[p] = "end" => at[p] \in Leaving \cup {"out", "dead"}
    /\ loop[p] = "boot" => at[p] = "out"

\* A goal that was started is there, and one runner works for it.
OneRunnerEach ==
  /\ op = None
  /\ \A g \in started : goal[g] # None
  /\ \A p, q \in Procs : GoalOf[p] = GoalOf[q] /\ p # q => loop[p] = "new" \/ loop[q] = "new"

\* After onOwnershipLost nothing the runner will look at says "running".
LossEnds ==
  \A p \in Procs : at[p] = "lost" /\ told[p] = "yes" =>
    /\ mine[p].state # "running"
    /\ My(p).state # "running"
    /\ loop[p] # "begin"
    /\ loop[p] = "return" => buf[p] # None /\ buf[p].state # "running"

LossInv == LoopInv /\ ProposalEnds /\ LossTold /\ (Calm => OneRunnerEach /\ LossEnds)

LEMMA InitLossInv == Init => LossInv
BY InitLoop DEF Init, LockInit, LossInv, ProposalEnds, LossTold, OneRunnerEach, LossEnds, Refreshing

LEMMA ProposalEndsKept == ASSUME TypeOK, ProposalEnds, [Next]_vars PROVE ProposalEnds'
<1> USE DEF TypeOK, ProposalEnds, Jump
<1>1. ASSUME NEW p \in Procs, LoopStep(p) PROVE ProposalEnds'
  BY <1>1 DEF LoopStep, Boot, Enter, Top, Begin, TurnReturns, Judged, SetStatus, SetSaved, After,
              Exit, Lost, LostSaved, Propose, AfterSet
<1>2. ASSUME NEW p \in Procs, FileStep(p) \/ Beat(p) \/ (Recycle(p) /\ UNCHANGED loopVars) PROVE ProposalEnds'
  BY <1>2 DEF FileStep, Beat, loopVars
<1>3. ASSUME NEW p \in Procs, NotAcquired(p) \/ Killed(p) \/ Abort(p) PROVE ProposalEnds'
  BY <1>3 DEF NotAcquired, Killed, Abort
<1>4. CASE \E g \in Goals : Start(g) \/ Clear(g) \/ \E k \in {"stop", "pause", "resume"} : Request(k, g)
  BY <1>4 DEF Start, Clear, Request, Flip, Spawn
<1>5. CASE Commit
  BY <1>5 DEF Commit, Flip, Spawn
<1>6. CASE (Expire /\ UNCHANGED loopVars) \/ UNCHANGED vars
  BY <1>6 DEF loopVars, vars
<1> QED
  BY <1>1, <1>2, <1>3, <1>4, <1>5, <1>6 DEF Next

LEMMA LossToldKept == ASSUME TypeOK, LossTold, OnlyStarted, [Next]_vars PROVE LossTold'
<1> USE DEF TypeOK, LockTypeOK, LossTold, Refreshing, Leaving, Jump
<1>1. ASSUME NEW p \in Procs, LoopStep(p) PROVE LossTold'
  <2>1. CASE Boot(p) \/ Exit(p)
    BY <2>1 DEF Boot, Exit, LoopRuns, Ask, Leave, Go, lockVars
  <2>2. CASE Enter(p) \/ Top(p) \/ TurnReturns(p) \/ After(p)
    BY <2>2 DEF Enter, Top, TurnReturns, After, LoopRuns, Propose, lockVars
  <2>3. CASE Begin(p) \/ Judged(p)
    <3>1. /\ \E l \in {"turn", "after", "set", "top"} : loop' = [loop EXCEPT ![p] = l]
          /\ loop[p] \in {"begin", "return"} /\ UNCHANGED <<at, told>>
      BY <2>3 DEF Begin, Judged, Propose, lockVars
    <3> QED
      BY <3>1
  <2>4. CASE SetStatus(p) \/ SetSaved(p)
    BY <2>4 DEF SetStatus, SetSaved, LoopRuns, AfterSet, lockVars
  <2>5. CASE Lost(p) \/ LostSaved(p)
    BY <2>5 DEF Lost, LostSaved, lockVars
  <2> QED
    BY <1>1, <2>1, <2>2, <2>3, <2>4, <2>5 DEF LoopStep
<1>2. ASSUME NEW p \in Procs, FileStep(p) PROVE LossTold'
  BY <1>2 DEF FileStep, loopVars, LockStep, Refresh, Read, Steal, Create, CheckAge, Write, Verify,
              Undo, Poll, Compare, Rename, Reread, Release, Unlink, Go
<1>3. ASSUME NEW p \in Procs, Beat(p) PROVE LossTold'
  BY <1>3 DEF Beat, loopVars, Heartbeat, Go
<1>4. ASSUME NEW p \in Procs, NotAcquired(p) \/ Killed(p) \/ Abort(p) PROVE LossTold'
  BY <1>4 DEF NotAcquired, Killed, Abort, GiveUp, Die, Go, lockVars
<1>5. CASE \E g \in Goals : Start(g) \/ Clear(g) \/ \E k \in {"stop", "pause", "resume"} : Request(k, g)
  BY <1>5 DEF Start, Clear, Request, Flip, Spawn, lockVars, OnlyStarted
<1>6. CASE Commit
  BY <1>6 DEF Commit, Flip, Spawn, lockVars, OnlyStarted
<1>7. CASE (Expire /\ UNCHANGED loopVars) \/ UNCHANGED vars \/ \E p \in Procs : Recycle(p) /\ UNCHANGED loopVars
  BY <1>7 DEF Expire, Recycle, loopVars, vars
<1> QED
  BY <1>1, <1>2, <1>3, <1>4, <1>5, <1>6, <1>7 DEF Next

\* The setting decides whether anything is said at all.
LEMMA CalmStays == ASSUME [Next]_vars PROVE Calm' = Calm
BY SettingStays DEF Calm

LEMMA OneRunnerKept ==
  ASSUME LossInv, Calm, Calm', [Next]_vars
  PROVE  OneRunnerEach'
<1> USE DEF LossInv, LoopInv, TypeOK, OneRunnerEach, LoopPc, Saving, Jump
<1>1. ASSUME NEW p \in Procs, LoopStep(p) PROVE OneRunnerEach'
  <2>1. /\ UNCHANGED <<op, started>> /\ loop[p] # "new"
        /\ \A q \in Procs \ {p} : loop'[q] = loop[q]
    BY <1>1 DEF LoopStep, Boot, Enter, Top, Begin, TurnReturns, Judged, SetStatus, SetSaved, After,
                Exit, Lost, LostSaved, Propose, OnlyStarted
  <2>2. goal' = goal \/ \E r \in Record : goal' = [goal EXCEPT ![GoalOf[p]] = r]
    BY <1>1, WritesRecord
  <2> QED
    BY <2>1, <2>2
<1>2. ASSUME NEW p \in Procs, FileStep(p) \/ Beat(p) \/ (Recycle(p) /\ UNCHANGED loopVars) PROVE OneRunnerEach'
  BY <1>2 DEF FileStep, Beat, loopVars
<1>3. ASSUME NEW p \in Procs, NotAcquired(p) \/ Killed(p) \/ Abort(p) PROVE OneRunnerEach'
  BY <1>3 DEF NotAcquired, Killed, Abort, Die, OnlyStarted
<1>4. ASSUME NEW g \in Goals, Start(g) PROVE OneRunnerEach'
  <2>1. PICK p \in Procs : GoalOf[p] = g /\ loop' = [loop EXCEPT ![p] = "boot"]
    BY <1>4 DEF Start, Spawn
  <2>2. op' = None
    <3>1. ~setting.slow
      BY DEF Calm
    <3> QED
      BY <1>4, <3>1 DEF Start
  <2>3. /\ goal' = [goal EXCEPT ![g] = Fresh] /\ started' = started \cup {g}
        /\ \A q \in Procs : GoalOf[q] = g => loop[q] = "new"
    BY <1>4 DEF Start, OnlyStarted, Put
  <2> QED
    BY <2>1, <2>2, <2>3, RecordFacts
<1>5. ASSUME NEW g \in Goals, Clear(g) PROVE FALSE
  BY <1>5 DEF Clear, Calm
<1>6. ASSUME NEW g \in Goals, NEW k \in {"stop", "pause", "resume"}, Request(k, g) PROVE OneRunnerEach'
  <2>1. k # "resume" /\ Flipped(k) \in Status /\ goal[g] \in Record
    BY <1>6 DEF Request, Calm, Flipped, Status
  <2>2. /\ goal' = [goal EXCEPT ![g] = [goal[g] EXCEPT !.state = Flipped(k)]]
        /\ UNCHANGED <<op, loop, started>>
    <3>1. ~setting.overlap
      BY DEF Calm
    <3> QED
      BY <1>6, <2>1, <3>1 DEF Request, Flip, Put
  <2> QED
    BY <2>1, <2>2, RecordFacts
<1>7. CASE Commit
  BY <1>7 DEF Commit
<1>8. CASE (Expire /\ UNCHANGED loopVars) \/ UNCHANGED vars
  BY <1>8 DEF loopVars, vars
<1> QED
  BY <1>1, <1>2, <1>3, <1>4, <1>5, <1>6, <1>7, <1>8 DEF Next

LEMMA LossEndsKept ==
  ASSUME LossInv, Calm, Calm', [Next]_vars
  PROVE  LossEnds'
<1> USE DEF LossInv, LoopInv, TypeOK, LockTypeOK, LoopPc, Saving, Jump, My, Put, Keep
<1>0. OneRunnerEach /\ LossEnds
  OBVIOUS
<1>1. ASSUME NEW p \in Procs, LoopStep(p) PROVE LossEnds'
  <2>1. /\ \A q \in Procs \ {p} : /\ UNCHANGED <<loop[q], told[q], at[q], mine[q], buf[q]>>
        /\ loop[p] # "new"
    BY <1>1 DEF LoopStep, Boot, Enter, Top, Begin, TurnReturns, Judged, SetStatus, SetSaved, After,
                Exit, Lost, LostSaved, Propose, Ask, Leave, Go, lockVars, OnlyStarted
  <2>2. \A g \in Goals \ {GoalOf[p]} : goal'[g] = goal[g]
    BY <1>1 DEF LoopStep, Boot, Enter, Top, Begin, TurnReturns, Judged, SetStatus, SetSaved, After,
                Exit, Lost, LostSaved
  <2>3. \A q \in Procs \ {p} : at[q] = "lost" => GoalOf[q] # GoalOf[p]
    BY <1>0, <2>1 DEF OneRunnerEach, OnlyStarted
  <2>4. ASSUME at'[p] = "lost", told'[p] = "yes"
        PROVE  /\ mine'[p].state # "running"
               /\ My(p)'.state # "running"
               /\ loop'[p] # "begin"
               /\ loop'[p] = "return" => buf'[p] # None /\ buf'[p].state # "running"
    <3>0. at[p] = "lost" /\ GoalOf[p] \in started /\ My(p) # None
      BY <1>0, <1>1, <2>1, <2>4 DEF LoopStep, Boot, Enter, Top, Begin, TurnReturns, Judged, SetStatus, SetSaved,
         After, Exit, Lost, LostSaved, Ask, Leave, Go, lockVars, OnlyStarted, OneRunnerEach
    <3>1. CASE Lost(p)
      <4>1. loop[p] \in {"top", "turn"}
        BY <3>0, <3>1 DEF Lost, LossTold
      <4> QED
        BY <2>4, <3>0, <3>1, <4>1 DEF Lost
    <3>2. CASE LostSaved(p)
      <4>1. loop[p] \in {"top", "turn"}
        BY <3>0, <3>2 DEF LostSaved, LossTold
      <4>2. buf[p] \in Record
        BY <3>0, <3>2 DEF LostSaved, Calm, ReadsCurrent, InWrite, Current
      <4> DEFINE r == [buf[p] EXCEPT !.state = "blocked"]
      <4>3. r.state = "blocked"
        BY <4>2 DEF Record
      <4>4. mine'[p] = r /\ goal'[GoalOf[p]] = r /\ loop' = loop
        BY <3>2, <4>2 DEF LostSaved
      <4> QED
        BY <4>1, <4>3, <4>4
    <3>3. ASSUME told[p] = "yes", ~Lost(p), ~LostSaved(p)
          PROVE  /\ mine'[p].state # "running"
                 /\ My(p)'.state # "running"
                 /\ loop'[p] # "begin"
                 /\ loop'[p] = "return" => buf'[p] # None /\ buf'[p].state # "running"
      <4>0. /\ mine[p].state # "running" /\ My(p).state # "running" /\ loop[p] # "begin"
            /\ loop[p] = "return" => buf[p] # None /\ buf[p].state # "running"
        BY <1>0, <3>0, <3>3 DEF LossEnds
      <4>1. CASE Boot(p) \/ Enter(p) \/ Begin(p) \/ Exit(p)
        BY <2>4, <3>0, <4>0, <4>1 DEF Boot, Enter, Begin, Exit, Ask, Leave, Go
      <4>2. CASE Top(p)
        BY <4>0, <4>2 DEF Top, MayTurn
      <4>3. CASE TurnReturns(p)
        BY <3>0, <4>0, <4>3 DEF TurnReturns
      <4>4. CASE Judged(p)
        <5>1. /\ mine'[p] = buf[p] /\ My(p)' = buf[p]
              /\ loop'[p] \in {"set", "top"}
          BY <4>0, <4>4 DEF Judged, Propose
        <5> QED
          BY <4>0, <4>4, <5>1 DEF Judged
      <4>5. CASE SetStatus(p)
        <5>1. /\ mine' = mine \/ mine' = [mine EXCEPT ![p] = My(p)]
              /\ loop' = [loop EXCEPT ![p] = AfterSet(p)]
              /\ goal' = goal
          BY <3>0, <4>0, <4>5 DEF SetStatus
        <5> QED
          BY <3>0, <4>0, <5>1 DEF AfterSet
      <4>6. CASE SetSaved(p)
        <5> DEFINE b == IF buf[p] = None THEN mine[p] ELSE buf[p]
                   r == [b EXCEPT !.state = want[p]]
        <5>1. b \in Record /\ want[p] # "running" /\ loop[p] = "setsave"
          BY <4>6 DEF SetSaved, ProposalEnds
        <5>2. r.state # "running"
          BY <5>1 DEF Record
        <5>3. mine' = [mine EXCEPT ![p] = r] /\ (goal' = goal \/ goal' = [goal EXCEPT ![GoalOf[p]] = r])
              /\ loop'[p] \in {"end", "after"}
          BY <4>6 DEF SetSaved
        <5> HIDE DEF r
        <5> QED
          BY <4>0, <5>2, <5>3
      <4>7. CASE After(p)
        BY <4>0, <4>7 DEF After
      <4> QED
        BY <1>1, <3>3, <4>1, <4>2, <4>3, <4>4, <4>5, <4>6, <4>7 DEF LoopStep
    <3>4. Lost(p) \/ LostSaved(p) \/ told[p] = "yes"
      BY <1>1, <2>4 DEF LoopStep, Boot, Enter, Top, Begin, TurnReturns, Judged, SetStatus, SetSaved, After, Exit
    <3> QED
      BY <3>1, <3>2, <3>3, <3>4
  <2> QED
    BY <1>0, <2>1, <2>2, <2>3, <2>4 DEF LossEnds
<1>2. ASSUME NEW p \in Procs, FileStep(p) \/ Beat(p) PROVE LossEnds'
  <2>1. /\ UNCHANGED loopVars /\ at[p] # "lost"
        /\ \A q \in Procs \ {p} : at'[q] = at[q]
        /\ at'[p] = "lost" => at[p] \in Holds
    BY <1>2 DEF FileStep, Beat, LockStep, Refresh, Read, Steal, Create, CheckAge, Write, Verify,
                Undo, Poll, Compare, Rename, Reread, Release, Unlink, Heartbeat, Go, Holds, Refreshing
  <2>2. at'[p] = "lost" => told[p] # "yes"
    BY <2>1 DEF LossTold, Holds, Refreshing, Leaving
  <2> QED
    BY <1>0, <2>1, <2>2 DEF LossEnds, loopVars
<1>3. ASSUME NEW p \in Procs, NotAcquired(p) \/ Killed(p) PROVE LossEnds'
  BY <1>0, <1>3 DEF NotAcquired, Killed, GiveUp, Die, Go, lockVars, LossEnds
<1>4. ASSUME NEW g \in Goals, Start(g) PROVE LossEnds'
  <2>1. PICK p \in Procs : GoalOf[p] = g /\ loop' = [loop EXCEPT ![p] = "boot"] /\ loop[p] = "new"
    BY <1>4 DEF Start, Spawn
  <2>2. \A q \in Procs : at[q] = "lost" => GoalOf[q] # g /\ q # p
    BY <1>4, <2>1 DEF Start, OnlyStarted
  <2>3. goal' = [goal EXCEPT ![g] = Fresh] /\ UNCHANGED <<at, told, mine, buf>>
    BY <1>4 DEF Start, lockVars
  <2> QED
    BY <1>0, <2>1, <2>2, <2>3 DEF LossEnds
<1>5. ASSUME NEW g \in Goals, Clear(g) PROVE FALSE
  BY <1>5 DEF Clear, Calm
<1>6. ASSUME NEW g \in Goals, NEW k \in {"stop", "pause", "resume"}, Request(k, g) PROVE LossEnds'
  <2>1. k # "resume" /\ Flipped(k) # "running" /\ goal[g] \in Record
    BY <1>6 DEF Request, Calm, Flipped
  <2> DEFINE r == [goal[g] EXCEPT !.state = Flipped(k)]
  <2>2. r.state # "running"
    BY <2>1 DEF Record
  <2>3. goal' = [goal EXCEPT ![g] = r] /\ UNCHANGED <<at, loop, told, mine, buf>>
    BY <1>6, <2>1 DEF Request, Calm, Flip, lockVars
  <2> HIDE DEF r
  <2> QED
    BY <1>0, <2>2, <2>3 DEF LossEnds
<1>7. CASE Commit
  BY <1>0, <1>7 DEF Commit, OneRunnerEach
<1>8. ASSUME UNCHANGED <<at, loop, told, mine, buf, goal>> PROVE LossEnds'
  BY <1>0, <1>8 DEF LossEnds
<1>9. ASSUME NEW p \in Procs, Abort(p) \/ (Recycle(p) /\ UNCHANGED loopVars) PROVE LossEnds'
  BY <1>8, <1>9 DEF Abort, Recycle, loopVars, lockVars
<1>10. CASE (Expire /\ UNCHANGED loopVars) \/ UNCHANGED vars
  BY <1>8, <1>10 DEF Expire, loopVars, vars
<1> QED
  BY <1>1, <1>2, <1>3, <1>4, <1>5, <1>6, <1>7, <1>9, <1>10 DEF Next

LEMMA LossInvKept == ASSUME LossInv, [Next]_vars PROVE LossInv'
<1>1. LoopInv' /\ ProposalEnds' /\ LossTold'
  BY LoopInvKept, ProposalEndsKept, LossToldKept DEF LossInv, LoopInv
<1>2. Calm' => OneRunnerEach' /\ LossEnds'
  BY CalmStays, OneRunnerKept, LossEndsKept
<1> QED
  BY <1>1, <1>2 DEF LossInv

\* onOwnershipLost: once it has run, the turn in flight is the last, however it
\* is judged and whatever the session does meanwhile.
THEOREM NoTurnAfterLossAlways == Spec => NoTurnAfterLoss
<1>1. ASSUME LossInv, [Next]_vars, Calm, NEW p \in Procs,
             at[p] = "lost", told[p] = "yes", loop[p] # "turn"
      PROVE  loop'[p] # "turn"
  <2> USE DEF TypeOK, Jump
  <2>1. loop[p] # "begin" /\ TypeOK
    BY <1>1 DEF LossInv, LossEnds, LoopInv
  <2>2. ASSUME NEW q \in Procs, LoopStep(q) PROVE loop'[p] # "turn"
    <3>1. CASE Begin(q)
      <4>1. q # p
        BY <2>1, <3>1 DEF Begin
      <4>2. \E l : loop' = [loop EXCEPT ![q] = l]
        BY <3>1 DEF Begin
      <4> QED
        BY <1>1, <2>1, <4>1, <4>2
    <3>2. CASE ~Begin(q)
      BY <1>1, <2>1, <2>2, <3>2 DEF LoopStep, Boot, Enter, Top, TurnReturns, Judged, SetStatus, SetSaved,
                                    After, Exit, Lost, LostSaved, Propose, AfterSet
    <3> QED
      BY <3>1, <3>2
  <2>3. ASSUME NEW q \in Procs, FileStep(q) \/ Beat(q) \/ NotAcquired(q) \/ Abort(q) \/ Killed(q)
        PROVE  loop'[p] # "turn"
    BY <1>1, <2>1, <2>3 DEF FileStep, Beat, NotAcquired, Abort, Killed, loopVars
  <2>4. CASE \E g \in Goals : Start(g) \/ Clear(g) \/ \E k \in {"stop", "pause", "resume"} : Request(k, g)
    BY <1>1, <2>1, <2>4 DEF Start, Clear, Request, Flip, Spawn
  <2>5. CASE Commit
    BY <1>1, <2>1, <2>5 DEF Commit, Flip, Spawn
  <2>6. CASE UNCHANGED loopVars \/ UNCHANGED vars
    BY <1>1, <2>6 DEF loopVars, vars
  <2> QED
    BY <1>1, <2>2, <2>3, <2>4, <2>5, <2>6 DEF Next
<1>2. LossInv /\ [Next]_vars =>
        [~setting.overlap /\ ~setting.slow /\ setting.ops \cap {"resume", "clear"} = {} =>
           \A p \in Procs :
             at[p] = "lost" /\ told[p] = "yes" /\ loop[p] # "turn" => loop'[p] # "turn"]_vars
  BY <1>1 DEF Calm
<1> QED
  BY InitLossInv, LossInvKept, <1>2, PTL DEF Spec, NoTurnAfterLoss
=============================================================================
