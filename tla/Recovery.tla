------------------------------ MODULE Recovery ------------------------------
(***************************************************************************)
(* One run and the sessions that may find it abandoned: the passes over    *)
(* orphaned runs, over the registry of active runs and over stale runs     *)
(* (runtime/recovery/crash-recovery.ts, runtime/stale-reconciler.ts), the  *)
(* status poll of the owner (extension/team-tool/status.ts), the resume of *)
(* a run by any session (extension/team-tool.ts), and, as their            *)
(* environment, a runner that works, parks, ends or is killed.  A step of  *)
(* a pass is what lies between two points where another process can come   *)
(* in or this one can die: an unlocked look, the judgement under the run   *)
(* lock with its save of tasks.json, the save of manifest.json, and what   *)
(* is done after the lock is released.                                     *)
(*                                                                         *)
(* Time is abstracted to the limits the code compares with.  The age of    *)
(* manifest.updatedAt is 0 up to five minutes, 1 up to half an hour, 2 up  *)
(* to a day, 3 beyond; that of a task's last sign of life is 0, 1 or 2,    *)
(* and Never when a batch marked the task without a heartbeat.  `beat'     *)
(* says that heartbeat.json is at most five minutes old.                   *)
(***************************************************************************)
EXTENDS Contracts

CONSTANTS Session,     \* sessions that may be opened
          Detached,    \* the process of a background run
          Free,        \* the lock file names nobody
          Task,
          Settings     \* who starts the run and who lives to clean up

Process == Session \cup {Detached}

ASSUME SettingsAssumption ==
  /\ Detached \notin Session /\ Free \notin Process
  /\ Settings \subseteq [runner: Process, starter: Session, survivor: Session, sessions: SUBSET Session,
                         todo: SUBSET Task, parks: BOOLEAN, slow: BOOLEAN]
  /\ \A c \in Settings : {c.starter, c.survivor} \subseteq c.sessions
                         /\ c.runner \in {c.starter, Detached}

Never == -1
Open == {"running", "waiting"}
Unfinished == Open \cup {"queued"}

VARIABLES
  setting,     \* one of Settings, chosen once
  alive,       \* processes that run
  manifest,    \* manifest.json: status, owner, async (a background pid is noted), age, wait
  beat,        \* heartbeat.json is fresh
  tasks,       \* tasks.json: status, last sign of life, unexpired claim
  registered,  \* the run has an entry in active-run-index.json
  lock,        \* holder of the run lock
  runners,     \* processes that execute the run
  at,          \* where each session is
  hidden       \* history: a run at work was once not to be seen in the registry

data == <<manifest, beat, tasks, registered, lock, runners, hidden>>
registry == <<registered, hidden>>
vars == <<setting, alive, manifest, beat, tasks, registered, lock, runners, at, hidden>>

With(statuses) == {t \in setting.todo : tasks[t].status \in statuses}

\* Signs of life and claims count only while a task is open.
Put(set, status) ==
  [t \in setting.todo |-> IF t \in set THEN [status |-> status, seen |-> Never, claimed |-> FALSE] ELSE tasks[t]]

\* The entry goes.  That hides a run which some process goes on with.
Unregister(remaining) ==
  /\ registered' = FALSE
  /\ hidden' = (hidden \/ (registered /\ remaining # {}))

\* A lock file whose process is gone is taken over.
LockFree == lock \notin alive

-----------------------------------------------------------------------------
\* What the code asks about a run.

AsyncAlive == manifest.async /\ Detached \in alive
AsyncDead == manifest.async /\ Detached \notin alive

\* An entry that never ages.
EntryAliveForever ==
  /\ registered
  /\ manifest.status \in {"queued", "planning", "running", "blocked"}
  /\ manifest.async => AsyncAlive

\* activeRunEntries finds the run.
EntryAlive ==
  /\ registered
  /\ manifest.status \in {"queued", "planning", "running", "blocked"}
  /\ IF manifest.async THEN AsyncAlive ELSE manifest.updated <= 1

IntentionalWait ==
  \/ (manifest.status = "blocked" /\ manifest.wait = "approval")
  \/ manifest.wait = "answer"

RecentTask == \E t \in With(Open) : tasks[t].seen = 0

\* A revalidation that only trusts the pid of a background runner.
FreshEvidenceByPid == AsyncAlive

\* hasFreshLivenessEvidence
FreshEvidence == manifest.updated = 0 \/ beat \/ AsyncAlive \/ RecentTask

\* resumeLivenessRefusal: registry, an unexpired claim, or the background pid.
Live ==
  \/ EntryAlive
  \/ \E t \in With({"running"}) : tasks[t].claimed
  \/ (AsyncAlive /\ manifest.status \notin PreservedRun /\ manifest.updated <= 1)

-----------------------------------------------------------------------------
Init ==
  /\ setting \in Settings
  /\ alive = setting.sessions \cup {setting.runner}
  /\ manifest = [status |-> "queued", owner |-> setting.starter, async |-> setting.runner = Detached,
                 updated |-> 0, wait |-> "none"]
  /\ beat = FALSE
  /\ tasks = [t \in setting.todo |-> [status |-> "queued", seen |-> Never, claimed |-> FALSE]]
  /\ registered = TRUE
  /\ lock = Free
  /\ runners = {setting.runner}
  /\ at = [s \in Session |-> IF s = setting.starter THEN "up"
                             ELSE IF s \in setting.sessions THEN "orphan" ELSE "gone"]
  /\ hidden = FALSE

Save(status) == manifest' = [manifest EXCEPT !.status = status, !.updated = 0]

\* The runner.  TeamRun has it in detail; here it writes while nobody else
\* holds the lock, and it gives up when somebody has settled its run.
Runs(p) == p \in runners /\ LockFree /\ UNCHANGED <<setting, lock, at>>

\* A runner that leaves; a background process exits with it.
Leaves(p) == runners' = runners \ {p} /\ alive' = alive \ ({p} \cap {Detached})

Begin(p) ==
  /\ Runs(p) /\ manifest.status = "queued"
  /\ Save("running") /\ beat' = TRUE
  /\ UNCHANGED <<alive, tasks, registry, runners>>

\* A single dispatch writes a claim and a first heartbeat, a batch neither.
Dispatch(p) ==
  /\ Runs(p) /\ manifest.status = "running"
  /\ \E t \in With({"queued"}), single \in BOOLEAN :
       tasks' = [tasks EXCEPT ![t] = [status |-> "running", claimed |-> single,
                                      seen |-> IF single THEN 0 ELSE Never]]
  /\ UNCHANGED <<alive, manifest, beat, registry, runners>>

Report(p) ==
  /\ Runs(p)
  /\ \E t \in With({"running"}) : tasks' = [tasks EXCEPT ![t].seen = 0]
  /\ UNCHANGED <<alive, manifest, beat, registry, runners>>

Finish(p) ==
  /\ Runs(p) /\ manifest.status = "running"
  /\ \E t \in With({"running"}), v \in {"completed", "failed"} : tasks' = Put({t}, v)
  /\ Save("running")
  /\ UNCHANGED <<alive, beat, registry, runners>>

Ask(p) ==
  /\ setting.parks
  /\ Runs(p) /\ manifest.status = "running"
  /\ \E t \in With({"running"}) : tasks' = [tasks EXCEPT ![t].status = "waiting"]
  /\ manifest' = [manifest EXCEPT !.wait = "answer", !.updated = 0]
  /\ UNCHANGED <<alive, beat, registry, runners>>

Answered(p) ==
  /\ Runs(p) /\ manifest.status = "running"
  /\ \E t \in With({"waiting"}) :
       /\ tasks' = [tasks EXCEPT ![t].status = "running", ![t].seen = 0]
       /\ manifest' = [manifest EXCEPT !.wait = IF With({"waiting"}) = {t} THEN "none" ELSE @,
                                       !.updated = 0]
  /\ UNCHANGED <<alive, beat, registry, runners>>

\* The run ends unfinished: on a plan to approve, or on what it cannot go on with.
Block(p) ==
  /\ Runs(p) /\ manifest.status = "running"
  /\ With({"running"}) = {} /\ With(Unfinished) # {}
  /\ \E wait \in {manifest.wait} \cup (IF setting.parks THEN {"approval"} ELSE {}) :
       manifest' = [manifest EXCEPT !.status = "blocked", !.updated = 0, !.wait = wait]
  /\ Leaves(p)
  /\ UNCHANGED <<beat, tasks, registry>>

End(p) ==
  /\ Runs(p) /\ manifest.status = "running"
  /\ With(Open) = {} /\ (With({"queued"}) # {} => With({"failed"}) # {})
  /\ tasks' = Put(With({"queued"}), "skipped")
  /\ Save(IF With({"failed"}) # {} THEN "failed" ELSE "completed")
  /\ Unregister(runners \ {p})
  /\ Leaves(p)
  /\ UNCHANGED beat

GiveUp(p) ==
  /\ Runs(p) /\ manifest.status \notin {"queued", "running"}
  /\ Leaves(p)
  /\ UNCHANGED <<manifest, beat, tasks, registry>>

\* The user approves the plan; the run stays blocked until it is resumed.
Approve ==
  /\ LockFree /\ manifest.wait = "approval"
  /\ manifest' = [manifest EXCEPT !.wait = "none", !.updated = 0]
  /\ UNCHANGED <<setting, alive, beat, tasks, registry, lock, runners, at>>

Crash(p) ==
  /\ p \in alive \ {setting.survivor}
  /\ alive' = alive \ {p}
  /\ runners' = runners \ {p}
  /\ at' = [s \in Session |-> IF s = p THEN "gone" ELSE at[s]]
  /\ UNCHANGED <<setting, manifest, beat, tasks, registry, lock>>

-----------------------------------------------------------------------------
\* Time.  A runner at work refreshes heartbeat.json every minute, and its
\* workers say something at least every half hour; a section under the lock is
\* short against five minutes.
Elapse ==
  /\ LockFree
  /\ \/ /\ manifest.updated < IF runners = {} \/ setting.slow THEN 3 ELSE 1
        /\ manifest' = [manifest EXCEPT !.updated = @ + 1]
        /\ UNCHANGED <<beat, tasks>>
     \/ /\ manifest.wait = "answer"    \* the ask is past its deadline and grace
        /\ manifest' = [manifest EXCEPT !.wait = "none"]
        /\ UNCHANGED <<beat, tasks>>
     \/ /\ beat /\ runners = {}
        /\ beat' = FALSE
        /\ UNCHANGED <<manifest, tasks>>
     \/ \E t \in With(Open) :
          /\ \/ /\ tasks[t].seen = 0 \/ (tasks[t].seen = 1 /\ runners = {})
                /\ tasks' = [tasks EXCEPT ![t].seen = @ + 1]
             \/ /\ tasks[t].claimed
                /\ tasks' = [tasks EXCEPT ![t].claimed = FALSE]
          /\ UNCHANGED <<manifest, beat>>
  /\ hidden' = (hidden \/ (runners # {} /\ ~manifest.async /\ manifest'.updated > 1))
  /\ UNCHANGED <<setting, alive, registered, lock, runners, at>>

\* Whoever writes the registry for another run drops entries that are not alive.
Prune ==
  /\ registered
  /\ manifest.status \in TerminalRun \/ AsyncDead \/ manifest.updated > 1
  /\ Unregister(runners)
  /\ UNCHANGED <<setting, alive, manifest, beat, tasks, lock, runners, at>>

-----------------------------------------------------------------------------
\* What a session does: it stands at a point and goes to the next.
Stands(s, point) == s \in alive /\ at[s] = point /\ UNCHANGED <<setting, alive>>
Goes(s, point) == at' = [at EXCEPT ![s] = point]

\* It looks, without the lock, and is at `found' or goes on to `next'.
Looks(s, point, sees, found, next) ==
  /\ Stands(s, point)
  /\ Goes(s, IF sees THEN found ELSE next)
  /\ UNCHANGED data

\* Under the lock the look proved wrong, or there is nothing to do.
LetsBe(s, next) == Goes(s, next) /\ UNCHANGED data

\* Under the lock it rewrites tasks.json and keeps the lock for the manifest.
Rewrites(s, set, status, next) ==
  /\ tasks' = Put(set, status)
  /\ lock' = s /\ Goes(s, next)
  /\ UNCHANGED <<manifest, beat, registry, runners>>

\* updateRunStatus with a terminal status; the lock is released.
Settles(s, status, wait, next) ==
  /\ manifest' = [manifest EXCEPT !.status = status, !.updated = 0, !.wait = wait]
  /\ Unregister(runners)
  /\ lock' = Free /\ Goes(s, next)
  /\ UNCHANGED <<beat, tasks, runners>>

\* A cancelled run does not keep the pointer of an ask.
WaitCleared == IF manifest.wait = "answer" THEN "none" ELSE manifest.wait

\* cancelOrphanedRuns
LooksOrphaned(s) ==
  /\ manifest.status \in {"running", "blocked"}
  /\ ~IntentionalWait
  /\ manifest.owner # s
  /\ ~AsyncAlive
  /\ ~manifest.async => manifest.updated > 0
  /\ ~RecentTask

LookOrphan(s) == Looks(s, "orphan", LooksOrphaned(s), "orphan judge", "purge")

JudgeOrphan(s) ==
  /\ Stands(s, "orphan judge") /\ LockFree
  /\ IF manifest.status \in {"running", "blocked"} /\ ~FreshEvidence
     THEN Rewrites(s, With(Unfinished), "cancelled", "orphan settle")
     ELSE LetsBe(s, "purge")

SettleOrphan(s) == Stands(s, "orphan settle") /\ Settles(s, "cancelled", WaitCleared, "purge")

\* purgeStaleActiveRunIndex
LooksDead(s) ==
  /\ manifest.owner # s
  /\ manifest.status = "running"
  /\ ~AsyncAlive
  /\ ~(manifest.updated = 0 \/ beat)

LookPurge(s) ==
  /\ Stands(s, "purge")
  /\ Goes(s, IF ~registered THEN "up"
             ELSE IF manifest.status \in TerminalRun THEN "drop"
             ELSE IF LooksDead(s) THEN "purge judge"
             ELSE "up")
  /\ UNCHANGED data

\* A purge that takes only running tasks for unfinished.
JudgePurgeRunningOnly(s) ==
  /\ Stands(s, "purge judge") /\ LockFree
  /\ IF manifest.status # "running" THEN LetsBe(s, "drop")
     ELSE IF IntentionalWait \/ FreshEvidence THEN LetsBe(s, "up")
     ELSE Rewrites(s, With({"running"}), "cancelled", "purge settle")

JudgePurge(s) ==
  /\ Stands(s, "purge judge") /\ LockFree
  /\ IF manifest.status # "running" THEN LetsBe(s, "drop")
     ELSE IF IntentionalWait \/ FreshEvidence THEN LetsBe(s, "up")
     ELSE Rewrites(s, With(Unfinished), "cancelled", "purge settle")

SettlePurge(s) == Stands(s, "purge settle") /\ Settles(s, "cancelled", WaitCleared, "drop")

\* The entry is removed after the lock, whatever became of the run meanwhile.
Drop(s) ==
  /\ Stands(s, "drop") /\ Goes(s, "up")
  /\ Unregister(runners)
  /\ UNCHANGED <<manifest, beat, tasks, lock, runners>>

\* reconcileAllStaleRuns
LookStale(s) ==
  /\ manifest.status \in {"running", "blocked"} /\ manifest.owner # s
  /\ Looks(s, "up", TRUE, "reconcile", "up")

Reconciles(s) == Stands(s, "reconcile") /\ LockFree /\ manifest.status \in {"running", "blocked"}

\* applyReconcileAtOpenFastPath: what was under way is queued again.
FastPathApplies == AsyncDead /\ ~EntryAlive /\ ~IntentionalWait /\ With(Open) # {}

FastPath(s) ==
  /\ Reconciles(s) /\ FastPathApplies
  /\ Rewrites(s, With(Open), "queued", "reconcile settle")

Shielded == IntentionalWait \/ EntryAlive

\* checkResultFile: only the manifest was left behind.  The caller's own
\* update to failed throws on the other two statuses, after this save.
TakeResult(s) ==
  /\ Reconciles(s) /\ ~Shielded /\ With(Unfinished) = {}
  /\ LET status == IF With({"failed"}) # {} THEN "failed"
                   ELSE IF With({"cancelled", "skipped"}) = setting.todo THEN "cancelled" ELSE "completed"
     IN  /\ manifest' = [manifest EXCEPT !.status = status,
                                         !.updated = IF status = "failed" THEN 0 ELSE @]
         /\ IF status = "failed" THEN Unregister(runners) ELSE UNCHANGED registry
  /\ Goes(s, "up")
  /\ UNCHANGED <<beat, tasks, lock, runners>>

\* The tasks that reconcileStaleRun cancels.  `pinned' are those silent for
\* more than five minutes whose worker's pid still answers.
Doomed(pinned) ==
  LET Stale == {t \in With(Open) : tasks[t].seen = 2 \/ (tasks[t].seen = 1 /\ t \notin pinned)}
      TooOld == IF manifest.updated = 3 THEN With(Unfinished) ELSE {}
  IN  IF AsyncAlive THEN TooOld
      ELSE IF manifest.async THEN With(Unfinished)
      ELSE IF RecentTask THEN {}
      ELSE IF Stale = {} THEN TooOld
      ELSE IF Stale = With(Open) THEN With(Unfinished)
      ELSE Stale

\* The workers of a run at work are alive; those of a dead one may be.
Repair(s) ==
  /\ Reconciles(s) /\ ~Shielded /\ ~FastPathApplies /\ With(Unfinished) # {}
  /\ \E pinned \in SUBSET With(Open) :
       /\ runners # {} => pinned = With(Open)
       /\ Doomed(pinned) # {}
       /\ Rewrites(s, Doomed(pinned), "cancelled", "reconcile settle")

Spare(s) ==
  /\ Stands(s, "reconcile") /\ LockFree
  /\ \/ manifest.status \notin {"running", "blocked"}
     \/ Shielded
     \/ /\ ~FastPathApplies /\ With(Unfinished) # {}
        /\ \E pinned \in SUBSET With(Open) :
             (runners # {} => pinned = With(Open)) /\ Doomed(pinned) = {}
  /\ LetsBe(s, "up")

SettleStale(s) == Stands(s, "reconcile settle") /\ Settles(s, "failed", manifest.wait, "up")

-----------------------------------------------------------------------------
\* The owner's status poll, transitionStaleAsyncUnderLock.
LooksAbandoned(s) ==
  manifest.owner = s /\ AsyncDead /\ manifest.status \in {"queued", "planning", "running"}

LookPoll(s) == LooksAbandoned(s) /\ Looks(s, "up", TRUE, "poll", "up")

\* Here the manifest comes first.
PollStatus(s) ==
  /\ Stands(s, "poll") /\ LockFree
  /\ IF AsyncDead /\ manifest.status \in {"queued", "planning", "running"}
     THEN /\ Save("failed") /\ Unregister(runners)
          /\ lock' = s /\ Goes(s, "poll tasks")
          /\ UNCHANGED <<beat, tasks, runners>>
     ELSE LetsBe(s, "up")

PollTasks(s) ==
  /\ Stands(s, "poll tasks")
  /\ tasks' = Put(With({"running"}), "cancelled")
  /\ lock' = Free /\ Goes(s, "up")
  /\ UNCHANGED <<manifest, beat, registry, runners>>

\* handleResume
LookResume(s) == ~Live /\ s \notin runners /\ Looks(s, "up", TRUE, "adopt", "up")

Adopts(s) ==
  /\ manifest' = [manifest EXCEPT !.owner = s, !.async = FALSE, !.updated = 0]
  /\ lock' = s /\ Goes(s, "reset")
  /\ UNCHANGED <<beat, tasks, registry, runners>>

\* A resume that trusts its look.
AdoptUnchecked(s) == Stands(s, "adopt") /\ LockFree /\ Adopts(s)

Adopt(s) ==
  /\ Stands(s, "adopt") /\ LockFree
  /\ IF Live THEN LetsBe(s, "up") ELSE Adopts(s)

\* A task that had its result on disk when it was cut off counts as completed.
Reset(s) ==
  /\ Stands(s, "reset") /\ Goes(s, "enter")
  /\ \E recovered \in SUBSET With({"running"}) :
       tasks' = [t \in setting.todo |-> IF t \in recovered THEN Put({t}, "completed")[t]
                                ELSE Put(With({"failed", "cancelled", "skipped", "running"}), "queued")[t]]
  /\ UNCHANGED <<manifest, beat, registry, lock, runners>>

Enter(s) ==
  /\ Stands(s, "enter") /\ Goes(s, "register")
  /\ Save("running")
  /\ UNCHANGED <<beat, tasks, registry, lock, runners>>

Register(s) ==
  /\ Stands(s, "register") /\ Goes(s, "up")
  /\ registered' = TRUE
  /\ lock' = Free
  /\ runners' = runners \cup {s} /\ beat' = TRUE
  /\ UNCHANGED <<manifest, tasks, hidden>>

-----------------------------------------------------------------------------
Runner(p) ==
  \/ Begin(p) \/ Dispatch(p) \/ Report(p) \/ Finish(p) \/ Ask(p) \/ Answered(p)
  \/ Block(p) \/ End(p) \/ GiveUp(p)

Startup(s) ==
  \/ LookOrphan(s) \/ JudgeOrphan(s) \/ SettleOrphan(s)
  \/ LookPurge(s) \/ JudgePurge(s) \/ SettlePurge(s) \/ Drop(s)

Reconcile(s) == FastPath(s) \/ TakeResult(s) \/ Repair(s) \/ Spare(s) \/ SettleStale(s)

Poll(s) == PollStatus(s) \/ PollTasks(s)

Resume(s) == Adopt(s) \/ Reset(s) \/ Enter(s) \/ Register(s)

Next ==
  \/ \E p \in Process : Runner(p) \/ Crash(p)
  \/ \E s \in Session :
       \/ Startup(s) \/ LookStale(s) \/ Reconcile(s)
       \/ LookPoll(s) \/ Poll(s) \/ LookResume(s) \/ Resume(s)
  \/ Approve \/ Elapse \/ Prune

Spec == Init /\ [][Next]_vars

\* A session that lives goes on with what it has begun; the survivor comes round
\* to reconcile again and again (a timer and the widget call it); time goes on.
Fairness ==
  /\ WF_vars(Elapse)
  /\ \A s \in Session : WF_vars(Startup(s) \/ Reconcile(s) \/ Poll(s) \/ Resume(s))
  /\ SF_vars(\E s \in Session : s = setting.survivor /\ LookStale(s))

FairSpec == Spec /\ Fairness

-----------------------------------------------------------------------------
TypeOK ==
  /\ setting \in Settings
  /\ alive \subseteq Process /\ runners \subseteq alive
  /\ manifest \in [status: RunStatus, owner: Session, async: BOOLEAN,
                   updated: 0..3, wait: {"none", "approval", "answer"}]
  /\ beat \in BOOLEAN /\ registered \in BOOLEAN /\ hidden \in BOOLEAN
  /\ tasks \in [setting.todo -> [status: TaskStatus, seen: -1..2, claimed: BOOLEAN]]
  /\ \A t \in setting.todo : tasks[t].status \notin Open => tasks[t].seen = Never /\ ~tasks[t].claimed
  /\ lock \in Session \cup {Free}
  /\ at \in [Session -> {"gone", "up", "orphan", "orphan judge", "orphan settle", "purge",
                         "purge judge", "purge settle", "drop", "reconcile", "reconcile settle",
                         "poll", "poll tasks", "adopt", "reset", "enter", "register"}]

\* At most one process executes the run, whoever resumes it when, unless the
\* registry has failed to show a run at work (team-tool.ts, resumeLivenessRefusal
\* before and under the lock; the adoption drops the pid of the dead runner).
OneRunner == hidden \/ Cardinality(runners) <= 1

\* No pass and no poll settles a run that is being executed or cancels its
\* tasks, whatever it saw before it took the lock (crash-recovery.ts,
\* hasFreshLivenessEvidence; stale-reconciler.ts, findLiveRegistryEntry).
LiveRunKept ==
  [][~hidden /\ runners # {} /\ runners' = runners =>
       /\ manifest'.status \notin PreservedRun
       /\ With({"cancelled"})' \subseteq With({"cancelled"})]_vars

\* A run that reads cancelled or completed has no task under way, even when the
\* process that settled it died between its two saves: tasks.json comes first.
SettledRunRests ==
  runners = {} /\ LockFree /\ manifest.status \in {"cancelled", "completed"} => With(Open) = {}

\* An interrupted run that waits for no human decision does not stay open for
\* ever while another session than its owner lives (crash-recovery.ts,
\* reconcileAllStaleRuns; stale-reconciler.ts, the horizons of half an hour
\* and of a day).
RunSettles ==
  (/\ manifest.status \in {"running", "blocked"} /\ runners = {} /\ manifest.wait # "approval"
   /\ manifest.owner # setting.survivor)
    ~> (manifest.status \in PreservedRun \/ runners # {})
=============================================================================
