---------------------------- MODULE WorkspaceLock ----------------------------
(***************************************************************************)
(* The lock of a working tree (runtime/workspace-lock.ts): a file with the *)
(* owner's pid, start time, goal and heartbeat, created with O_EXCL, read  *)
(* back, refreshed every 15 s by a compare-and-rename, taken over when its *)
(* owner's pid was recycled or its heartbeat is older than 60 s.           *)
(*                                                                         *)
(* Grain.  Each contender is a background runner, a process of its own     *)
(* that asks for the lock once, for the life of its goal loop: every call  *)
(* on the file system is a step.  Two reads with nothing in between that   *)
(* a later comparison would not notice are one step.                       *)
(***************************************************************************)
EXTENDS Integers, FiniteSets

CONSTANTS
  Procs,      \* background runners; each has its pid and its goal
  Fates,      \* whom a behaviour may hurt: [suspends, mortal], sets of runners
  None        \* no file

\* full: the JSON is written; old: heartbeat and mtime are older than 60 s.
File == [by : Procs, full : BOOLEAN, old : BOOLEAN]

ASSUME LockAssumption ==
  Fates \subseteq [suspends : SUBSET Procs, mortal : SUBSET Procs] /\ None \notin Procs \cup File

VARIABLES
  lock,      \* the lock file: its creator, whether it is written, its age
  at,        \* where each contender stands in acquire, refresh and release
  recycled,  \* dead contenders whose pid now belongs to another program
  fate       \* chosen at the start: who may be stopped for more than 60 s
             \* while it lives, and who may be killed

lockVars == <<lock, at, recycled, fate>>

Claiming   == {"read", "steal", "create", "recreate", "age", "write", "verify", "undo", "poll"}
Refreshing == {"cas", "rename", "reread"}
Holds      == {"hold"} \cup Refreshing
Leaving    == {"release", "unlink"}
Pc == {"out", "lost", "dead"} \cup Claiming \cup Holds \cup Leaving

LockTypeOK ==
  /\ lock \in File \cup {None}
  /\ at \in [Procs -> Pc]
  /\ recycled \in SUBSET Procs
  /\ fate \in Fates

LockInit ==
  /\ lock = None
  /\ at = [p \in Procs |-> "out"]
  /\ recycled = {}
  /\ fate \in Fates

-----------------------------------------------------------------------------
Go(p, l) == at' = [at EXCEPT ![p] = l]

\* readLock: a missing file and an unwritten one are both "absent".
Readable == lock # None /\ lock.full

\* Mutant of Mine: the comparison looks at the file's presence alone.
AnyonesIsMine(p) == Readable

\* goalId and pid of the file are those of p.
Mine(p) == Readable /\ lock.by = p

\* isLockStale.
Stale == lock.by \in recycled \/ lock.old

\* acquireWorkspaceLock: read and classify.
Read(p) ==
  /\ at[p] = "read"
  /\ \/ ~Readable /\ Go(p, "create")
     \/ Readable /\ Stale /\ Go(p, "steal")
     \/ Readable /\ ~Stale /\ Go(p, "poll")
  /\ UNCHANGED <<lock, recycled, fate>>

\* claimLock with forceOverwrite, and its recovery by age: the path is
\* unlinked, whatever is there by now.
Steal(p) ==
  /\ at[p] = "steal"
  /\ lock' = None
  /\ Go(p, "recreate")
  /\ UNCHANGED <<recycled, fate>>

\* Mutant of Create: temp + rename, the claim before it became O_EXCL.
CreateByRename(p) ==
  /\ at[p] \in {"create", "recreate"}
  /\ lock' = [by |-> p, full |-> FALSE, old |-> FALSE]
  /\ Go(p, "write")
  /\ UNCHANGED <<recycled, fate>>

\* openSync(path, "wx"); only a claim that was not forced looks at the age.
Create(p) ==
  /\ at[p] \in {"create", "recreate"}
  /\ IF lock = None
     THEN /\ lock' = [by |-> p, full |-> FALSE, old |-> FALSE]
          /\ Go(p, "write")
     ELSE /\ Go(p, IF at[p] = "create" THEN "age" ELSE "poll")
          /\ UNCHANGED lock
  /\ UNCHANGED <<recycled, fate>>

\* Mutant of CheckAge: a file that cannot be read is left to its owner.
CheckAgeNever(p) ==
  /\ at[p] = "age"
  /\ Go(p, "poll")
  /\ UNCHANGED <<lock, recycled, fate>>

\* EEXIST after "absent": a corrupt file goes once its mtime is old.
CheckAge(p) ==
  /\ at[p] = "age"
  /\ Go(p, IF lock # None /\ lock.old THEN "steal" ELSE "poll")
  /\ UNCHANGED <<lock, recycled, fate>>

\* writeFileSync on the descriptor: the inode may have lost its name.
Write(p) ==
  /\ at[p] = "write"
  /\ lock' = IF lock # None /\ lock.by = p THEN [lock EXCEPT !.full = TRUE] ELSE lock
  /\ Go(p, "verify")
  /\ UNCHANGED <<recycled, fate>>

\* The post-claim verification, and the unlink when it fails.
Verify(p) ==
  /\ at[p] = "verify"
  /\ Go(p, IF Mine(p) THEN "hold" ELSE "undo")
  /\ UNCHANGED <<lock, recycled, fate>>

Undo(p) ==
  /\ at[p] = "undo"
  /\ lock' = None
  /\ Go(p, "poll")
  /\ UNCHANGED <<recycled, fate>>

\* Not claimed: sleep for pollMs and look again.
Poll(p) ==
  /\ at[p] = "poll"
  /\ Go(p, "read")
  /\ UNCHANGED <<lock, recycled, fate>>

-----------------------------------------------------------------------------
(* refreshWorkspaceLockHeartbeat, on the timer of the goal loop *)

\* Observe bytes and identity; not ours means the lock is lost.
Heartbeat(p) ==
  /\ at[p] = "hold"
  /\ Go(p, IF Mine(p) THEN "cas" ELSE "lost")
  /\ UNCHANGED <<lock, recycled, fate>>

\* Observe again before the rename: only p creates files of p.
Compare(p) ==
  /\ at[p] = "cas"
  /\ Go(p, IF Mine(p) THEN "rename" ELSE "lost")
  /\ UNCHANGED <<lock, recycled, fate>>

\* renameSync puts the refreshed file in place of whatever is there.
Rename(p) ==
  /\ at[p] = "rename"
  /\ lock' = [by |-> p, full |-> TRUE, old |-> FALSE]
  /\ Go(p, "reread")
  /\ UNCHANGED <<recycled, fate>>

Reread(p) ==
  /\ at[p] = "reread"
  /\ Go(p, IF Mine(p) THEN "hold" ELSE "lost")
  /\ UNCHANGED <<lock, recycled, fate>>

Refresh(p) == Compare(p) \/ Rename(p) \/ Reread(p)

-----------------------------------------------------------------------------
(* safeRelease: read, compare, unlink *)

Release(p) ==
  /\ at[p] = "release"
  /\ Go(p, IF Mine(p) THEN "unlink" ELSE "out")
  /\ UNCHANGED <<lock, recycled, fate>>

\* Mutant of Unlink: the release leaves the file to its heartbeat.
UnlinkForgotten(p) ==
  /\ at[p] = "unlink"
  /\ Go(p, "out")
  /\ UNCHANGED <<lock, recycled, fate>>

Unlink(p) ==
  /\ at[p] = "unlink"
  /\ lock' = None
  /\ Go(p, "out")
  /\ UNCHANGED <<recycled, fate>>

-----------------------------------------------------------------------------
(* What the caller does: ask, give up waiting, end the loop *)

Ask(p) == at[p] = "out" /\ Go(p, "read") /\ UNCHANGED <<lock, recycled, fate>>

\* The signal aborts: in the sleep, or at the head of the loop after it.
GiveUp(p) == at[p] \in {"poll", "read"} /\ Go(p, "out") /\ UNCHANGED <<lock, recycled, fate>>

\* The timer is cleared; a refresh is synchronous and never cut in two.
Leave(p) == at[p] \in {"hold", "lost"} /\ Go(p, "release") /\ UNCHANGED <<lock, recycled, fate>>

(* The environment *)

\* 60 s without a refresh: the owner is dead or was suspended.
Expire ==
  /\ lock # None /\ ~lock.old
  /\ at[lock.by] = "dead" \/ lock.by \in fate.suspends
  /\ lock' = [lock EXCEPT !.old = TRUE]
  /\ UNCHANGED <<at, recycled, fate>>

Die(p) ==
  /\ p \in fate.mortal /\ at[p] \notin {"out", "dead"}
  /\ Go(p, "dead")
  /\ UNCHANGED <<lock, recycled, fate>>

\* Another program gets the pid of a dead owner.
Recycle(p) ==
  /\ at[p] = "dead" /\ p \notin recycled
  /\ recycled' = recycled \cup {p}
  /\ UNCHANGED <<lock, at, fate>>

LockStep(p) ==
  \/ Read(p) \/ Steal(p) \/ Create(p) \/ CheckAge(p) \/ Write(p) \/ Verify(p)
  \/ Undo(p) \/ Poll(p) \/ Refresh(p) \/ Release(p) \/ Unlink(p)

LockNext ==
  \/ \E p \in Procs : \/ LockStep(p) \/ Heartbeat(p)
                      \/ Ask(p) \/ GiveUp(p) \/ Leave(p) \/ Die(p) \/ Recycle(p)
  \/ Expire

LockSpec == LockInit /\ [][LockNext]_lockVars

-----------------------------------------------------------------------------
\* The lock file bears the name of a contender that is using it: what is left
\* behind was left by a dead one.
NoStrayFile ==
  lock # None =>
    at[lock.by] \in {"write", "verify", "dead"} \cup Holds \cup Leaving

\* As long as no owner dies or is suspended, at most one contender believes
\* that it has the working tree, and the file says that it has.
Undisturbed == fate.suspends = {} /\ fate.mortal = {}
LockExclusive ==
  Undisturbed =>
    \A p \in Procs :
      at[p] \in Holds \cup {"unlink"} =>
        /\ Mine(p)
        /\ \A q \in Procs : at[q] \in Holds => q = p

\* p has the lock and nobody is left who judged an earlier file or is about
\* to remove a claim that failed.
Settled(p) ==
  /\ at[p] \in Holds /\ Mine(p) /\ ~Stale
  /\ \A q \in Procs \ {p} :
       at[q] \notin {"steal", "write", "verify", "undo", "rename", "unlink"}

\* Once the contenders for a stale lock have met, the winner keeps the lock for
\* as long as it refreshes it: only its own release or its death ends that.
SettledStays ==
  [][\A p \in Procs \ fate.suspends :
       Settled(p) => Settled(p)' \/ at'[p] \in {"release", "dead"}]_lockVars
=============================================================================
