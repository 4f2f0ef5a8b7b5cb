------------------------- MODULE WorkspaceLockProofs -------------------------
(***************************************************************************)
(* For every set of contenders and every choice of whom a behaviour may    *)
(* hurt: the type of the state, no stray lock file, mutual exclusion when  *)
(* nobody is hurt, and the permanence of a settled claim.                  *)
(***************************************************************************)
EXTENDS WorkspaceLock, TLAPS

\* The file is that of a contender in the claim, in possession or on its way
\* out, and written once its creator has gone on from its creation.
FileInUse ==
  lock # None =>
    /\ at[lock.by] \in {"write", "verify", "dead"} \cup Holds \cup Leaving
    /\ at[lock.by] \in {"verify"} \cup Holds \cup Leaving => lock.full

\* Nobody is hurt: nothing looks stale, no claim fails once it is created,
\* and from its creation to its removal the file is its creator's.
FileStands ==
  Undisturbed =>
    /\ recycled = {}
    /\ lock # None => ~lock.old
    /\ \A p \in Procs :
         /\ at[p] \notin {"dead", "lost", "steal", "recreate", "undo"}
         /\ at[p] = "write" => lock # None /\ lock.by = p
         /\ at[p] \in {"verify"} \cup Holds \cup Leaving => Mine(p)

LockInv == LockTypeOK /\ FileInUse /\ FileStands

USE LockAssumption

\* Nobody has asked yet.
LEMMA InitLock == LockInit => LockInv
<1> SUFFICES ASSUME LockInit PROVE LockInv
  OBVIOUS
<1>1. LockTypeOK
  BY DEF LockInit, LockTypeOK, Pc
<1>2. FileInUse /\ FileStands
  BY DEF LockInit, FileInUse, FileStands, Holds, Refreshing, Leaving
<1> QED
  BY <1>1, <1>2 DEF LockInv

\* A step of one contender moves it, and may replace or remove the file.
LEMMA TypeKept == ASSUME LockTypeOK, [LockNext]_lockVars PROVE LockTypeOK'
<1> USE DEF LockTypeOK, Pc, Claiming, Holds, Refreshing, Leaving, File, Go
<1>1. ASSUME NEW p \in Procs, LockStep(p) PROVE LockTypeOK'
  <2>1. CASE Read(p) \/ CheckAge(p) \/ Verify(p) \/ Poll(p) \/ Compare(p) \/ Reread(p) \/ Release(p)
    BY <2>1 DEF Read, CheckAge, Verify, Poll, Compare, Reread, Release
  <2>2. CASE Steal(p) \/ Undo(p) \/ Unlink(p)
    BY <2>2 DEF Steal, Undo, Unlink
  <2>3. CASE Create(p)
    <3>1. [by |-> p, full |-> FALSE, old |-> FALSE] \in File
      OBVIOUS
    <3>2. lock' \in File \cup {None}
      BY <2>3, <3>1 DEF Create
    <3>3. at' \in [Procs -> Pc] /\ recycled' = recycled /\ fate' = fate
      BY <2>3 DEF Create
    <3> QED
      BY <3>2, <3>3
  <2>4. CASE Rename(p)
    <3>1. [by |-> p, full |-> TRUE, old |-> FALSE] \in File
      OBVIOUS
    <3> QED
      BY <2>4, <3>1 DEF Rename
  <2>5. CASE Write(p)
    BY <2>5 DEF Write
  <2> QED
    BY <1>1, <2>1, <2>2, <2>3, <2>4, <2>5 DEF LockStep, Refresh
<1>2. ASSUME NEW p \in Procs, Heartbeat(p) \/ Ask(p) \/ GiveUp(p) \/ Leave(p) \/ Die(p) \/ Recycle(p)
      PROVE LockTypeOK'
  BY <1>2 DEF Heartbeat, Ask, GiveUp, Leave, Die, Recycle
<1>3. CASE Expire
  BY <1>3 DEF Expire
<1>4. CASE UNCHANGED lockVars
  BY <1>4 DEF lockVars
<1> QED
  BY <1>1, <1>2, <1>3, <1>4 DEF LockNext

\* The file changes hands only by being removed and created again.
LEMMA FileInUseKept == ASSUME LockInv, [LockNext]_lockVars PROVE FileInUse'
<1> USE DEF LockInv, LockTypeOK, FileInUse, Pc, Claiming, Holds, Refreshing, Leaving, File, Go, Mine, Readable
<1>1. ASSUME NEW p \in Procs, LockStep(p) PROVE FileInUse'
  <2>1. CASE Read(p) \/ CheckAge(p) \/ Poll(p)
    BY <2>1 DEF Read, CheckAge, Poll
  <2>2. CASE Verify(p) \/ Compare(p) \/ Reread(p) \/ Release(p)
    BY <2>2 DEF Verify, Compare, Reread, Release
  <2>3. CASE Steal(p) \/ Undo(p) \/ Unlink(p)
    BY <2>3 DEF Steal, Undo, Unlink
  <2>4. CASE Create(p) \/ Rename(p)
    BY <2>4 DEF Create, Rename
  <2>5. CASE Write(p)
    BY <2>5 DEF Write
  <2> QED
    BY <1>1, <2>1, <2>2, <2>3, <2>4, <2>5 DEF LockStep, Refresh
<1>2. ASSUME NEW p \in Procs, Heartbeat(p) \/ Ask(p) \/ GiveUp(p) \/ Leave(p) \/ Die(p) \/ Recycle(p)
      PROVE FileInUse'
  BY <1>2 DEF Heartbeat, Ask, GiveUp, Leave, Die, Recycle
<1>3. CASE Expire
  BY <1>3 DEF Expire
<1>4. CASE UNCHANGED lockVars
  BY <1>4 DEF lockVars
<1> QED
  BY <1>1, <1>2, <1>3, <1>4 DEF LockNext

\* Whom a behaviour may hurt is chosen once.
LEMMA FateKept == ASSUME [LockNext]_lockVars PROVE fate' = fate
BY DEF LockNext, LockStep, Refresh, Read, Steal, Create, CheckAge, Write, Verify, Undo, Poll,
       Compare, Rename, Reread, Release, Unlink, Heartbeat, Ask, GiveUp, Leave, Die, Recycle,
       Expire, lockVars

\* Without a death and a suspension nobody ever judges the file stale.
LEMMA FileStandsKept == ASSUME LockInv, [LockNext]_lockVars PROVE FileStands'
<1> SUFFICES ASSUME Undisturbed PROVE FileStands'
  BY FateKept DEF FileStands, Undisturbed
<1> USE DEF LockInv, LockTypeOK, FileInUse, FileStands, Pc, Claiming, Holds, Refreshing, Leaving, File, Go, Mine, Readable
<1>1. ASSUME NEW p \in Procs, LockStep(p) PROVE FileStands'
  <2>1. CASE Read(p) \/ CheckAge(p) \/ Poll(p)
    BY <2>1 DEF Read, CheckAge, Poll, Stale
  <2>2. CASE Verify(p) \/ Compare(p) \/ Reread(p) \/ Release(p)
    BY <2>2 DEF Verify, Compare, Reread, Release
  <2>3. CASE Steal(p) \/ Undo(p)
    BY <2>3 DEF Steal, Undo
  <2>4. CASE Unlink(p)
    BY <2>4 DEF Unlink
  <2>5. CASE Create(p)
    <3>1. CASE lock = None
      <4>1. /\ lock' = [by |-> p, full |-> FALSE, old |-> FALSE]
            /\ at' = [at EXCEPT ![p] = "write"] /\ recycled' = recycled
        BY <2>5, <3>1 DEF Create
      <4>2. \A q \in Procs : at[q] \notin {"write", "verify"} \cup Holds \cup Leaving
        BY <3>1
      <4>3. recycled' = {} /\ (lock' # None => ~lock'.old)
        BY <4>1
      <4>4. ASSUME NEW q \in Procs
            PROVE  /\ at'[q] \notin {"dead", "lost", "steal", "recreate", "undo"}
                   /\ at'[q] = "write" => lock' # None /\ lock'.by = q
                   /\ at'[q] \in {"verify"} \cup Holds \cup Leaving => Mine(q)'
        <5>1. CASE q = p
          <6>1. lock' \in File /\ lock'.by = p /\ at'[p] = "write"
            BY <4>1
          <6> QED
            BY <5>1, <6>1
        <5>2. CASE q # p
          <6>1. at'[q] = at[q]
            BY <4>1, <5>2
          <6> QED
            BY <4>2, <6>1
        <5> QED
          BY <5>1, <5>2
      <4> QED
        BY <4>3, <4>4
    <3>2. CASE lock # None
      <4>1. /\ lock' = lock /\ recycled' = recycled
            /\ at' = [at EXCEPT ![p] = "age"]
        BY <2>5, <3>2 DEF Create
      <4> QED
        BY <4>1
    <3> QED
      BY <3>1, <3>2
  <2>6. CASE Rename(p)
    <3>1. /\ lock' = [by |-> p, full |-> TRUE, old |-> FALSE] /\ recycled' = recycled
          /\ at' = [at EXCEPT ![p] = "reread"]
      BY <2>6 DEF Rename
    <3>2. lock' \in File /\ lock'.by = p /\ lock'.full /\ ~lock'.old
      BY <3>1
    <3>3. lock' # None /\ Mine(p)'
      BY <3>2
    <3>4. lock # None /\ lock.by = p
      BY <2>6 DEF Rename
    <3>5. ASSUME NEW q \in Procs \ {p} PROVE at'[q] = at[q]
      BY <3>1
    <3>6. at'[p] = "reread"
      BY <3>1
    <3> QED
      BY <3>1, <3>2, <3>3, <3>4, <3>5, <3>6
  <2>7. CASE Write(p)
    <3>1. /\ lock' = [lock EXCEPT !.full = TRUE]
          /\ at' = [at EXCEPT ![p] = "verify"] /\ recycled' = recycled
          /\ lock # None /\ lock.by = p
      BY <2>7 DEF Write
    <3>2. lock' # None
      <4>1. lock \in File
        BY <3>1
      <4>2. lock'.by = p
        BY <3>1, <4>1
      <4>3. lock' \in File
        BY <3>1, <4>1
      <4>4. None \notin File
        OBVIOUS
      <4> QED
        BY <4>3, <4>4
    <3>3. lock'.by = p /\ lock'.full /\ ~lock'.old
      BY <3>1
    <3> QED
      BY <3>1, <3>2, <3>3
  <2> QED
    BY <1>1, <2>1, <2>2, <2>3, <2>4, <2>5, <2>6, <2>7 DEF LockStep, Refresh
<1>2. ASSUME NEW p \in Procs, Heartbeat(p) \/ Ask(p) \/ GiveUp(p) \/ Leave(p) PROVE FileStands'
  BY <1>2 DEF Heartbeat, Ask, GiveUp, Leave
<1>3. ASSUME NEW p \in Procs, Die(p) \/ Recycle(p) PROVE FileStands'
  BY <1>3 DEF Die, Recycle, Undisturbed
<1>4. CASE Expire
  BY <1>4 DEF Expire, Undisturbed
<1>5. CASE UNCHANGED lockVars
  BY <1>5 DEF lockVars
<1> QED
  BY <1>1, <1>2, <1>3, <1>4, <1>5 DEF LockNext

\* The three parts together are inductive.
LEMMA LockInvKept == ASSUME LockInv, [LockNext]_lockVars PROVE LockInv'
BY TypeKept, FileInUseKept, FileStandsKept DEF LockInv

THEOREM LockInvariant == LockSpec => []LockInv
<1>1. LockInit => LockInv
  BY InitLock
<1>2. LockInv /\ [LockNext]_lockVars => LockInv'
  BY LockInvKept
<1> QED
  BY <1>1, <1>2, PTL DEF LockSpec

\* What the inductive invariant says for a reader: nobody's file is left over,
\* and two contenders never both believe that they have the working tree.
LEMMA LockInvImplies == ASSUME LockInv PROVE NoStrayFile /\ LockExclusive
<1>1. NoStrayFile
  BY DEF LockInv, FileInUse, NoStrayFile
<1>2. LockExclusive
  BY DEF LockInv, FileStands, LockExclusive, Undisturbed, Mine, Readable, Holds, Leaving, Refreshing
<1> QED
  BY <1>1, <1>2

\* A lock file bears the name of somebody who uses it or is dead.
THEOREM NoStrayFileAlways == LockSpec => []NoStrayFile
<1>1. LockInv => NoStrayFile
  BY LockInvImplies
<1> QED
  BY <1>1, LockInvariant, PTL

\* The working tree has one owner as long as nobody dies or is suspended.
THEOREM LockExclusiveAlways == LockSpec => []LockExclusive
<1>1. LockInv => LockExclusive
  BY LockInvImplies
<1> QED
  BY <1>1, LockInvariant, PTL

\* Of the others, nobody who is still to act on a file from before p's claim
\* remains; those who come later see a fresh file that is not theirs.
LEMMA SettledStep ==
  ASSUME LockInv, [LockNext]_lockVars, NEW p \in Procs \ fate.suspends, Settled(p)
  PROVE  Settled(p)' \/ at'[p] \in {"release", "dead"}
<1> USE DEF LockInv, LockTypeOK, Settled, Stale, Pc, Claiming, Holds, Refreshing, Leaving, File, Go, Mine, Readable
<1>1. ASSUME NEW q \in Procs, LockStep(q) PROVE Settled(p)'
  <2>1. CASE Read(q) \/ CheckAge(q) \/ Poll(q)
    BY <2>1 DEF Read, CheckAge, Poll
  <2>2. CASE Verify(q) \/ Compare(q) \/ Reread(q) \/ Release(q)
    BY <2>2 DEF Verify, Compare, Reread, Release
  <2>3. CASE Steal(q) \/ Undo(q) \/ Unlink(q)
    BY <2>3 DEF Steal, Undo, Unlink
  <2>4. CASE Create(q)
    BY <2>4, SMTT(30) DEF Create
  <2>5. CASE Rename(q)
    <3>1. q = p
      BY <2>5 DEF Rename
    <3>2. Mine(p)' /\ ~Stale'
      <4>1. lock' = [by |-> p, full |-> TRUE, old |-> FALSE] /\ recycled' = recycled
        BY <2>5, <3>1 DEF Rename
      <4>2. lock'.by = p /\ lock'.full /\ ~lock'.old /\ lock' \in File
        BY <4>1
      <4>3. lock' # None /\ lock.by = p /\ p \notin recycled
        BY <4>2
      <4> QED
        BY <4>1, <4>2, <4>3
    <3>3. at'[p] = "reread" /\ \A r \in Procs \ {p} : at'[r] = at[r]
      BY <2>5, <3>1 DEF Rename
    <3> QED
      BY <3>2, <3>3
  <2>6. CASE Write(q)
    BY <2>6, SMTT(30) DEF Write
  <2> QED
    BY <1>1, <2>1, <2>2, <2>3, <2>4, <2>5, <2>6 DEF LockStep, Refresh
<1>2. ASSUME NEW q \in Procs, Heartbeat(q) \/ Ask(q) \/ GiveUp(q) PROVE Settled(p)'
  BY <1>2 DEF Heartbeat, Ask, GiveUp
<1>3. ASSUME NEW q \in Procs, Leave(q) \/ Die(q) \/ Recycle(q)
      PROVE Settled(p)' \/ at'[p] \in {"release", "dead"}
  BY <1>3 DEF Leave, Die, Recycle
<1>4. ASSUME Expire PROVE Settled(p)'
  BY <1>4 DEF Expire
<1>5. ASSUME UNCHANGED lockVars PROVE Settled(p)'
  BY <1>5 DEF lockVars
<1> QED
  BY <1>1, <1>2, <1>3, <1>4, <1>5 DEF LockNext

\* A claim that has settled ends with its owner's release or death only.
THEOREM SettledStaysAlways == LockSpec => SettledStays
<1>1. LockInv /\ [LockNext]_lockVars =>
        [\A p \in Procs \ fate.suspends :
           Settled(p) => Settled(p)' \/ at'[p] \in {"release", "dead"}]_lockVars
  BY SettledStep
<1> QED
  BY <1>1, LockInvariant, PTL DEF LockSpec, SettledStays
=============================================================================
