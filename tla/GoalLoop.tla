------------------------------ MODULE GoalLoop ------------------------------
(***************************************************************************)
(* The autonomous goal loop (runtime/goal-workflow/goal-loop-runner.ts)    *)
(* and the session that starts, pauses, resumes, stops and clears it       *)
(* (extension/team-tool/goal.ts), over the files of GoalStore              *)
(* (goal-state-store.ts) and the lock of the working tree.                 *)
(*                                                                         *)
(* Grain.  Session and runners are processes.  GoalStore.patch reads the   *)
(* file and writes it back whole; another process may write in between     *)
(* (mayOverlap).  Inside a runner everything between two awaits is one     *)
(* callback: the heartbeat fires only while the loop awaits.               *)
(***************************************************************************)
EXTENDS WorkspaceLock

CONSTANTS
  Goals,
  GoalOf,     \* the goal a background runner works for
  MaxTurns,
  Settings    \* what may happen: [procs, fate, ops, overlap, slow,
              \* verdicts, aborts]

Status == {"running", "paused", "stuck", "blocked", "cancelled", "achieved",
           "max_turns", "budget_exceeded"}
Record == [state : Status, turns : 0 .. MaxTurns]
Fresh == [state |-> "running", turns |-> 0]

ASSUME GoalAssumption ==
  /\ GoalOf \in [Procs -> Goals] /\ MaxTurns \in Nat /\ None \notin Record
  /\ \A s \in Settings :
       /\ s.procs \subseteq Procs /\ s.fate \in Fates
       /\ s.ops \subseteq {"stop", "pause", "resume", "clear"}
       /\ s.verdicts \subseteq {"fail", "achieved", "blocked", "more", "stuck"}
       /\ {s.overlap, s.slow, s.aborts} \subseteq BOOLEAN

VARIABLES
  setting,
  goal,     \* the state file of each goal: None, or state and turnsUsed
  started,  \* goals that goal start has created
  op,       \* the session's unfinished read-modify-write, or None
  loop,     \* where each runner stands
  mine,     \* its variable `goal`
  buf,      \* what its store.patch has read
  want,     \* the status it proposes, the verdict it got
  told,     \* onOwnershipLost: not run, saving, over
  aborted   \* runners whose signal has fired

loopVars == <<setting, goal, started, op, loop, mine, buf, want, told, aborted>>
vars == <<lock, at, recycled, fate, setting, goal, started, op, loop, mine, buf, want,
          told, aborted>>

\* A read-modify-write is under way in these places.
Saving == {"begin", "return", "setsave"}
LoopPc == {"new", "boot", "queue", "top", "turn", "set", "after", "exit", "end"} \cup Saving

TypeOK ==
  /\ LockTypeOK
  /\ setting \in Settings
  /\ goal \in [Goals -> Record \cup {None}]
  /\ started \in SUBSET Goals
  /\ op \in {None} \cup [kind : {"async", "stop", "pause", "resume"}, of : Goals, read : Record]
  /\ loop \in [Procs -> LoopPc]
  /\ mine \in [Procs -> Record]
  /\ buf \in [Procs -> Record \cup {None}]
  /\ want \in [Procs -> Status \cup {"fail", "more", "none"}]
  /\ told \in [Procs -> {"no", "save", "yes"}]
  /\ aborted \in SUBSET Procs

Init ==
  /\ LockInit
  /\ setting \in Settings /\ fate = setting.fate
  /\ goal = [g \in Goals |-> None]
  /\ started = {}
  /\ op = None
  /\ loop = [p \in Procs |-> "new"]
  /\ mine = [p \in Procs |-> Fresh]
  /\ buf = [p \in Procs |-> None]
  /\ want = [p \in Procs |-> "none"]
  /\ told = [p \in Procs |-> "no"]
  /\ aborted = {}

-----------------------------------------------------------------------------
(* GoalStore *)

Jump(p, l) == loop' = [loop EXCEPT ![p] = l]
My(p) == goal[GoalOf[p]]
Put(g, r) == goal' = [goal EXCEPT ![g] = r]
Keep(p, r) == mine' = [mine EXCEPT ![p] = r]

\* No other process is between its read and its write of a goal's file.
Alone(p) ==
  \/ setting.overlap
  \/ \A q \in Procs \ {p} : loop[q] \notin Saving /\ told[q] # "save"

\* The runner is in a callback of its own, not in that of the heartbeat.
LoopRuns(p) == at[p] = "hold" \/ (at[p] = "lost" /\ told[p] = "yes")

-----------------------------------------------------------------------------
(* The session *)

\* A runner process is spawned; it will load the goal itself.
Spawn(g) ==
  \E p \in setting.procs :
    /\ GoalOf[p] = g /\ loop[p] = "new"
    /\ Jump(p, "boot")

\* handleStart: peek at the lock, save, spawn, and save the same copy again
\* with the pid (at once, unless the spawn takes long).
Start(g) ==
  /\ g \notin started /\ op = None
  /\ ~(Readable /\ ~Stale)
  /\ started' = started \cup {g}
  /\ Put(g, Fresh)
  /\ Spawn(g)
  /\ op' = IF setting.slow THEN [kind |-> "async", of |-> g, read |-> Fresh] ELSE None
  /\ UNCHANGED <<lockVars, setting, mine, buf, want, told, aborted>>

Flipped(k) ==
  CASE k = "pause" -> "paused"
    [] k = "stop" -> "cancelled"
    [] OTHER -> "running"

\* What the session's operation writes; resume spawns another runner.
Flip(k, g, r) ==
  /\ Put(g, [r EXCEPT !.state = Flipped(k)])
  /\ IF k = "resume" THEN Spawn(g) ELSE UNCHANGED loop

\* pause (any state will do), stop, and the compare-and-set of resume: the
\* read, and the write with it unless others may come in between.
Request(k, g) ==
  /\ k \in setting.ops /\ op = None /\ goal[g] # None
  /\ Alone(None)
  /\ k = "resume" => /\ goal[g].state \in {"paused", "stuck"}
                     /\ \E p \in setting.procs : GoalOf[p] = g /\ loop[p] = "new"
  /\ IF setting.overlap
     THEN op' = [kind |-> k, of |-> g, read |-> goal[g]] /\ UNCHANGED <<goal, loop>>
     ELSE Flip(k, g, goal[g]) /\ UNCHANGED op
  /\ UNCHANGED <<lockVars, setting, started, mine, buf, want, told, aborted>>

\* The write that was outstanding: of an operation, or of the spawned pid.
Commit ==
  /\ op # None
  /\ Flip(op.kind, op.of, op.read)
  /\ op' = None
  /\ UNCHANGED <<lockVars, setting, started, mine, buf, want, told, aborted>>

\* goal clear: only when neither running nor paused.
Clear(g) ==
  /\ "clear" \in setting.ops /\ op = None /\ Alone(None)
  /\ goal[g] # None /\ goal[g].state \notin {"running", "paused"}
  /\ Put(g, None)
  /\ UNCHANGED <<lockVars, setting, started, op, loop, mine, buf, want, told, aborted>>

-----------------------------------------------------------------------------
(* runGoalLoop *)

\* background-runner: load the goal, then ask for the lock.
Boot(p) ==
  /\ loop[p] = "boot"
  /\ IF My(p) = None
     THEN Jump(p, "end") /\ UNCHANGED <<lockVars, mine>>
     ELSE Keep(p, My(p)) /\ Jump(p, "queue") /\ Ask(p)
  /\ UNCHANGED <<setting, goal, started, op, buf, want, told, aborted>>

\* The continuation of the acquisition; the heartbeat timer starts.
Enter(p) ==
  /\ loop[p] = "queue" /\ at[p] = "hold"
  /\ Jump(p, "top")
  /\ UNCHANGED <<lockVars, setting, goal, started, op, mine, buf, want, told, aborted>>

\* The acquisition rejects: the goal is proposed as blocked.
NotAcquired(p) ==
  /\ loop[p] = "queue" /\ p \in aborted
  /\ GiveUp(p)
  /\ want' = [want EXCEPT ![p] = "blocked"]
  /\ Jump(p, "set")
  /\ UNCHANGED <<setting, goal, started, op, mine, buf, told, aborted>>

Propose(p, s) == want' = [want EXCEPT ![p] = s] /\ Jump(p, "set")

MayTurn(p) == mine[p].state = "running" /\ mine[p].turns < MaxTurns

\* The head of the loop: condition, signal, budget, and the read of the patch
\* that records the turn.
Top(p) ==
  /\ loop[p] = "top" /\ LoopRuns(p)
  /\ \/ /\ ~MayTurn(p)
        /\ Jump(p, "after")
        /\ UNCHANGED <<want, buf>>
     \/ /\ MayTurn(p) /\ p \in aborted
        /\ Propose(p, "cancelled")
        /\ UNCHANGED buf
     \/ /\ MayTurn(p) /\ p \notin aborted /\ mine[p].turns > 0
        /\ Propose(p, "budget_exceeded")
        /\ UNCHANGED buf
     \/ /\ MayTurn(p) /\ p \notin aborted
        /\ Alone(p)
        /\ buf' = [buf EXCEPT ![p] = My(p)]
        /\ Jump(p, "begin")
        /\ UNCHANGED want
  /\ UNCHANGED <<lockVars, setting, goal, started, op, mine, told, aborted>>

\* The patch is written (a missing file is not: the local copy stands), and
\* the turn starts if the state is still running.
Begin(p) ==
  /\ loop[p] = "begin"
  /\ LET r == IF buf[p] = None THEN mine[p] ELSE [buf[p] EXCEPT !.turns = mine[p].turns + 1]
     IN /\ Keep(p, r)
        /\ IF buf[p] = None THEN UNCHANGED goal ELSE Put(GoalOf[p], r)
        /\ IF r.state = "running"
           THEN Jump(p, "turn") ELSE Jump(p, "after")
  /\ UNCHANGED <<lockVars, setting, started, op, buf, want, told, aborted>>

\* executeTeamRun and, unless it failed, the judge have returned; the result
\* is patched into the file.
TurnReturns(p) ==
  /\ loop[p] = "turn" /\ LoopRuns(p) /\ Alone(p)
  /\ \E v \in setting.verdicts : want' = [want EXCEPT ![p] = v]
  /\ buf' = [buf EXCEPT ![p] = My(p)]
  /\ Jump(p, "return")
  /\ UNCHANGED <<lockVars, setting, goal, started, op, mine, told, aborted>>

\* The stop conditions, in the order of the code.
Judged(p) ==
  /\ loop[p] = "return"
  /\ LET r == IF buf[p] = None THEN mine[p] ELSE buf[p]
     IN /\ Keep(p, r)
        /\ IF buf[p] = None THEN UNCHANGED goal ELSE Put(GoalOf[p], r)
        /\ CASE want[p] \in {"fail", "blocked"} -> Propose(p, "blocked")
             [] want[p] = "achieved" -> Propose(p, "achieved")
             [] want[p] \in {"more", "stuck"} /\ r.turns >= MaxTurns -> Propose(p, "max_turns")
             [] want[p] = "stuck" /\ r.turns < MaxTurns -> Propose(p, "stuck")
             [] OTHER -> Jump(p, "top") /\ UNCHANGED want
  /\ UNCHANGED <<lockVars, setting, started, op, buf, told, aborted>>

AfterSet(p) == IF at[p] = "out" THEN "end" ELSE IF want[p] = "stuck" THEN "top" ELSE "after"

\* Mutant of SetStatus: the file is not asked first.
SetStatusBlind(p) ==
  /\ loop[p] = "set" /\ (at[p] = "out" \/ LoopRuns(p)) /\ Alone(p)
  /\ buf' = [buf EXCEPT ![p] = My(p)]
  /\ Jump(p, "setsave")
  /\ UNCHANGED <<lockVars, setting, goal, started, op, mine, want, told, aborted>>

\* safeSetStatus: a state that is no longer running is adopted, not replaced.
\* stuck goes through compareAndSetStatus, which then leaves all as it is.
SetStatus(p) ==
  /\ loop[p] = "set" /\ (at[p] = "out" \/ LoopRuns(p)) /\ Alone(p)
  /\ IF \/ My(p) # None /\ My(p).state # "running"
        \/ My(p) = None /\ want[p] = "stuck"
     THEN /\ IF want[p] = "stuck" THEN UNCHANGED mine ELSE Keep(p, My(p))
          /\ Jump(p, AfterSet(p))
          /\ UNCHANGED buf
     ELSE /\ buf' = [buf EXCEPT ![p] = My(p)]
          /\ Jump(p, "setsave")
          /\ UNCHANGED mine
  /\ UNCHANGED <<lockVars, setting, goal, started, op, want, told, aborted>>

SetSaved(p) ==
  /\ loop[p] = "setsave"
  /\ LET r == [(IF buf[p] = None THEN mine[p] ELSE buf[p]) EXCEPT !.state = want[p]]
     IN /\ Keep(p, r)
        /\ IF buf[p] = None THEN UNCHANGED goal ELSE Put(GoalOf[p], r)
  /\ Jump(p, IF at[p] = "out" THEN "end" ELSE "after")
  /\ UNCHANGED <<lockVars, setting, started, op, buf, want, told, aborted>>

\* Out of the loop without a verdict.
After(p) ==
  /\ loop[p] = "after" /\ LoopRuns(p)
  /\ IF mine[p].state = "running"
     THEN Propose(p, IF p \in aborted THEN "cancelled" ELSE "max_turns")
     ELSE Jump(p, "exit") /\ UNCHANGED want
  /\ UNCHANGED <<lockVars, setting, goal, started, op, mine, buf, told, aborted>>

\* finally: stop the heartbeat, release the lock.
Exit(p) ==
  /\ loop[p] = "exit" /\ LoopRuns(p)
  /\ Leave(p)
  /\ Jump(p, "end")
  /\ UNCHANGED <<setting, goal, started, op, mine, buf, want, told, aborted>>

-----------------------------------------------------------------------------
(* startWorkspaceLockHeartbeatRefresh *)

\* Mutant of Beat: the timer is armed once.
BeatOnce(p) ==
  /\ loop[p] = "top"
  /\ Heartbeat(p)
  /\ UNCHANGED loopVars

\* The timer fires while the loop awaits its turn or yields.
Beat(p) ==
  /\ loop[p] \in {"top", "turn"}
  /\ Heartbeat(p)
  /\ UNCHANGED loopVars

\* Mutant of Lost: the loss is logged and the loop goes on.
LostIgnored(p) ==
  /\ at[p] = "lost" /\ told[p] = "no"
  /\ told' = [told EXCEPT ![p] = "yes"]
  /\ UNCHANGED <<lockVars, setting, goal, started, op, loop, mine, buf, want, aborted>>

\* onOwnershipLost, in the callback that found out: safeSetStatus(blocked).
Lost(p) ==
  /\ at[p] = "lost" /\ told[p] = "no" /\ Alone(p)
  /\ IF My(p) # None /\ My(p).state # "running"
     THEN /\ Keep(p, My(p))
          /\ told' = [told EXCEPT ![p] = "yes"]
          /\ UNCHANGED buf
     ELSE /\ buf' = [buf EXCEPT ![p] = My(p)]
          /\ told' = [told EXCEPT ![p] = "save"]
          /\ UNCHANGED mine
  /\ UNCHANGED <<lockVars, setting, goal, started, op, loop, want, aborted>>

LostSaved(p) ==
  /\ told[p] = "save" /\ at[p] = "lost"
  /\ LET r == [(IF buf[p] = None THEN mine[p] ELSE buf[p]) EXCEPT !.state = "blocked"]
     IN /\ Keep(p, r)
        /\ IF buf[p] = None THEN UNCHANGED goal ELSE Put(GoalOf[p], r)
  /\ told' = [told EXCEPT ![p] = "yes"]
  /\ UNCHANGED <<lockVars, setting, started, op, loop, buf, want, aborted>>

-----------------------------------------------------------------------------
(* The environment *)

\* SIGTERM, an interrupt or the watchdog of the background runner.
Abort(p) ==
  /\ setting.aborts /\ p \notin aborted /\ loop[p] \notin {"new", "end"}
  /\ aborted' = aborted \cup {p}
  /\ UNCHANGED <<lockVars, setting, goal, started, op, loop, mine, buf, want, told>>

Killed(p) ==
  /\ Die(p)
  /\ Jump(p, "end")
  /\ told' = [told EXCEPT ![p] = "yes"]
  /\ UNCHANGED <<setting, goal, started, op, mine, buf, want, aborted>>

LoopStep(p) ==
  \/ Boot(p) \/ Enter(p) \/ Top(p) \/ Begin(p) \/ TurnReturns(p) \/ Judged(p)
  \/ SetStatus(p) \/ SetSaved(p) \/ After(p) \/ Exit(p) \/ Lost(p) \/ LostSaved(p)

FileStep(p) == LockStep(p) /\ UNCHANGED loopVars

Next ==
  \/ \E g \in Goals : Start(g) \/ Clear(g) \/ \E k \in {"stop", "pause", "resume"} : Request(k, g)
  \/ Commit
  \/ \E p \in Procs : \/ LoopStep(p) \/ FileStep(p) \/ Beat(p) \/ NotAcquired(p)
                      \/ Abort(p) \/ Killed(p) \/ (Recycle(p) /\ UNCHANGED loopVars)
  \/ Expire /\ UNCHANGED loopVars

\* A runner's callbacks run, its timer fires, a turn and its judge come to an
\* end unless they hang (no verdicts), the session finishes what it has begun,
\* and 60 s pass after a death.  The heartbeat's callbacks come between those
\* of the loop: strong fairness.
Fairness ==
  /\ WF_vars(Commit)
  /\ WF_vars(Expire /\ at[lock.by] = "dead" /\ UNCHANGED loopVars)
  /\ \A p \in Procs : SF_vars(LoopStep(p)) /\ WF_vars(FileStep(p)) /\ WF_vars(Beat(p))

Spec == Init /\ [][Next]_vars
FairSpec == Spec /\ Fairness

-----------------------------------------------------------------------------
\* Two turns never run in the working tree at once, and the lock file says who
\* has it, as long as no owner dies or is suspended: a resumed goal queues
\* behind its own earlier runner.
OneTurnAtATime ==
  Undisturbed =>
    \A p \in Procs : loop[p] \in {"begin", "turn", "return"} =>
      Mine(p) /\ \A q \in Procs \ {p} : loop[q] \notin {"begin", "turn", "return"}

\* "External cancel wins": unless two writes overlap, no step of a runner
\* changes a state that is not running any more.
ExternalStateWins ==
  [][~setting.overlap =>
       \A p \in Procs :
         /\ loop[p] # "new" /\ (loop'[p] # loop[p] \/ told'[p] # told[p])
         /\ My(p) # None /\ My(p).state # "running"
         => My(p)' # None /\ My(p)'.state = My(p).state]_vars

\* Without overlap and resume, a loop that was told that its lock is lost
\* begins no further turn, whatever its turn in flight returns.
NoTurnAfterLoss ==
  [][~setting.overlap /\ ~setting.slow /\ setting.ops \cap {"resume", "clear"} = {} =>
       \A p \in Procs :
         at[p] = "lost" /\ told[p] = "yes" /\ loop[p] # "turn" => loop'[p] # "turn"]_vars

\* A contender that believes to have the lock while the file is another's, or
\* gone, finds out even if its turn hangs; so of two owners one gives way.
LossNoticed ==
  \A p \in Procs :
    (at[p] = "hold" /\ ~Mine(p)) ~> (at[p] \notin Holds \/ Mine(p))

\* Every runner ends: nobody waits for a lock that a dead owner, a half-written
\* file or a lost release keeps for ever.  Except for a goal that was cleared,
\* if its turn hangs, if an owner is suspended again and again, or if two heirs of
\* a dead owner remove each other's claims in lockstep.
RunnersEnd ==
  /\ "clear" \notin setting.ops /\ setting.verdicts # {} /\ fate.suspends = {}
  /\ fate.mortal # {} => Cardinality(setting.procs) = 2
  => \A p \in Procs : loop[p] = "boot" ~> loop[p] = "end"
=============================================================================
