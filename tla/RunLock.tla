------------------------------- MODULE RunLock -------------------------------
(***************************************************************************)
(* The run lock (state/coordination/locks.ts, process-lock.ts): a lock     *)
(* file created with O_EXCL, a post-claim verification, the stale / dead / *)
(* own-pid steal, the set of live tokens of the process, the kernel socket *)
(* that supplements the async tier, token-guarded release, and the sweep.  *)
(* The socket's address is the kernel's own and goes with its process, or  *)
(* (darwin, BSD) it is a file that a killed process leaves behind.         *)
(*                                                                         *)
(* Grain.  A caller is an async context of a process.  Between processes   *)
(* every file-system call is a step of its own.  Inside a process nothing  *)
(* runs while another context is in a synchronous stretch (InTurn); an     *)
(* await ends the stretch, even when the awaited promise has resolved.     *)
(* A synchronous holder keeps its process to itself from its first create  *)
(* to its last unlink (sleepSync included).                                *)
(***************************************************************************)
EXTENDS Integers, FiniteSets

CONSTANTS
  Contexts,     \* callers of withRunLock, withRunLockSync, sweepStaleLocks
  Sync,         \* those that call the synchronous variants
  Procs,        \* process ids; a pid is not reused
  Placements,   \* in which process each context may live
  Tokens,       \* randomUUID(): fresh means referenced nowhere
  None,         \* no token, no file, no socket holder
  Corpse,       \* the socket file of a process that was killed earlier
  Supplement,   \* PI_CREW_RUN_LOCK_SOCKET: is the kernel socket used?
  Addresses,    \* what a socket's address may be: "kernel" or "path"
  AgesOut,      \* may a lock file get older than staleMs?
  Crashable     \* the processes that may die

\* full: the payload is written; old: its age exceeds staleMs.
LockFile == [own : Contexts, tok : Tokens, full : BOOLEAN, old : BOOLEAN]

ASSUME RunLockAssumption ==
  /\ Sync \subseteq Contexts
  /\ Placements \subseteq [Contexts -> Procs]
  /\ Supplement \in BOOLEAN /\ AgesOut \in BOOLEAN
  /\ Addresses \subseteq {"kernel", "path"}
  /\ Crashable \subseteq Procs
  /\ None \notin Contexts \cup Tokens \cup LockFile
  /\ Corpse \notin Contexts \cup {None}

VARIABLES
  procOf,  \* the process of each context: chosen at the start
  file,    \* run.lock: None, or the inode with its creator and its state
  address, \* of the socket: chosen at the start, for the platform
  socket,  \* the context whose server the address leads to; None when free
  raced,   \* history: a server was bound while another context was about to
           \* remove the dead socket file it had found at the address
  held,    \* runLockHeldTokens (of all processes: tokens are unique)
  alive,   \* which processes run
  pc,      \* where each context stands
  mode,    \* why a context is about to check and unlink the lock file
  tok,     \* the token of a context's current attempt
  seen     \* the corpse token its snapshot returned

vars == <<procOf, address, file, socket, raced, held, alive, pc, mode, tok, seen>>

Stretch == {"write", "verify", "snapshot", "check", "unlink"}
Awaiting == {"returned", "listen", "probe", "remove", "inuse", "critical", "closing"}
Pc == {"idle", "retry", "dead"} \cup Stretch \cup Awaiting
Mode == {"steal", "undo", "drop", "release", "sweep"}

TypeOK ==
  /\ procOf \in Placements
  /\ file \in LockFile \cup {None}
  /\ address \in Addresses
  /\ socket \in Contexts \cup {None, Corpse}
  /\ raced \in BOOLEAN
  /\ held \in SUBSET Tokens
  /\ alive \in [Procs -> BOOLEAN]
  /\ pc \in [Contexts -> Pc]
  /\ mode \in [Contexts -> Mode]
  /\ tok \in [Contexts -> Tokens \cup {None}]
  /\ seen \in [Contexts -> Tokens \cup {None}]

Init ==
  /\ procOf \in Placements
  /\ address \in Addresses
  /\ file = None
  /\ socket \in {None} \cup (IF address = "path" THEN {Corpse} ELSE {})
  /\ raced = FALSE
  /\ held = {}
  /\ alive = [p \in Procs |-> TRUE]
  /\ pc = [c \in Contexts |-> "idle"]
  /\ mode = [c \in Contexts |-> "steal"]
  /\ tok = [c \in Contexts |-> None]
  /\ seen = [c \in Contexts |-> None]

\* The process of c is inside a synchronous stretch of c.
InTurn(c) == pc[c] \in Stretch \/ (c \in Sync /\ pc[c] \in {"retry", "critical"})

\* c may execute its next step.
Runs(c) ==
  /\ alive[procOf[c]]
  /\ \A d \in Contexts \ {c} : procOf[d] = procOf[c] => ~InTurn(d)

Referenced ==
  held \cup {tok[c] : c \in Contexts} \cup {seen[c] : c \in Contexts}
    \cup (IF file = None THEN {} ELSE {file.tok})

\* readLockToken(): undefined for a missing file and for an unwritten one.
Stored == IF file = None THEN None ELSE IF file.full THEN file.tok ELSE None

Goto(c, l) == pc' = [pc EXCEPT ![c] = l]

\* The attempt of c is over; its locals with it.
Forget(c) == tok' = [tok EXCEPT ![c] = None] /\ mode' = [mode EXCEPT ![c] = "steal"]

-----------------------------------------------------------------------------
(* writeLockFile and the post-claim verification *)

\* open(O_CREAT | O_EXCL) with a freshly minted token.
Create(c) ==
  /\ pc[c] \in {"idle", "retry"} /\ Runs(c)
  /\ IF file = None
     THEN LET t == CHOOSE t \in Tokens \ Referenced : TRUE
          IN /\ Tokens \ Referenced # {}
             /\ tok' = [tok EXCEPT ![c] = t]
             /\ file' = [own |-> c, tok |-> t, full |-> FALSE, old |-> FALSE]
             /\ Goto(c, "write")
     ELSE /\ Goto(c, "snapshot")
          /\ UNCHANGED <<tok, file>>
  /\ UNCHANGED <<procOf, address, socket, raced, held, alive, mode, seen>>

\* The payload goes to the inode that was created, wherever it is by now.
Write(c) ==
  /\ pc[c] = "write" /\ Runs(c)
  /\ file' = IF file # None /\ file.tok = tok[c]
             THEN [file EXCEPT !.full = TRUE] ELSE file
  /\ Goto(c, "verify")
  /\ UNCHANGED <<procOf, address, socket, raced, held, alive, mode, tok, seen>>

\* The token on disk must be ours.  The synchronous variant registers it and
\* enters fn in the same stretch; the async one returns it through an await.
Verify(c) ==
  /\ pc[c] = "verify" /\ Runs(c)
  /\ \/ /\ Stored = tok[c] /\ c \in Sync
        /\ held' = held \cup {tok[c]}
        /\ Goto(c, "critical")
        /\ UNCHANGED mode
     \/ /\ Stored = tok[c] /\ c \notin Sync
        /\ Goto(c, "returned")
        /\ UNCHANGED <<held, mode>>
     \/ /\ Stored # tok[c]
        /\ mode' = [mode EXCEPT ![c] = "undo"]
        /\ Goto(c, "check")
        /\ UNCHANGED held
  /\ UNCHANGED <<procOf, address, file, socket, raced, alive, tok, seen>>

-----------------------------------------------------------------------------
(* Contention: readLockSnapshot and the steal *)

HolderDead == file.full /\ ~alive[procOf[file.own]]

\* The stored token is that of a live acquisition of c's own process.
LiveInProcess(c) ==
  file.full /\ procOf[file.own] = procOf[c] /\ file.tok \in held

\* Mutant of OwnPidStealable: the set of live tokens is not asked.
OwnPidAlwaysStealable(c) ==
  c \notin Sync /\ file.full /\ procOf[file.own] = procOf[c]

OwnPidStealable(c) ==
  c \notin Sync /\ file.full /\ procOf[file.own] = procOf[c] /\ ~LiveInProcess(c)

CanSteal(c) ==
  \/ file = None
  \/ file # None /\ (file.old \/ HolderDead \/ OwnPidStealable(c))

Snapshot(c) ==
  /\ pc[c] = "snapshot" /\ Runs(c)
  /\ \/ /\ CanSteal(c)
        /\ seen' = [seen EXCEPT ![c] = Stored]
        /\ mode' = [mode EXCEPT ![c] = "steal"]
        /\ Goto(c, "check")
     \/ /\ ~CanSteal(c)
        /\ Goto(c, IF c \notin Sync /\ LiveInProcess(c) THEN "retry" ELSE "idle")
        /\ UNCHANGED <<seen, mode>>
  /\ UNCHANGED <<procOf, address, file, socket, raced, held, alive, tok>>

\* The attempt's deadline has passed: "locked by another operation".
Deadline(c) ==
  /\ pc[c] = "snapshot" /\ Runs(c)
  /\ Goto(c, "idle")
  /\ UNCHANGED <<procOf, address, file, socket, raced, held, alive, mode, tok, seen>>

-----------------------------------------------------------------------------
(* Removing the lock file: a read, a comparison and an unlink of the path *)

\* steal: removeLockIfTokenMatches; undo: releaseLock; drop and release:
\* releaseOwnLock, which an unreadable file sends to its catch clause.
MayUnlink(c) ==
  CASE mode[c] = "steal" -> Stored = seen[c]
    [] mode[c] = "undo"  -> Stored \in {None, tok[c]}
    [] OTHER             -> Stored = tok[c]

After(c) == IF mode[c] \in {"release", "sweep"} THEN "idle" ELSE "retry"

Check(c) ==
  /\ pc[c] = "check" /\ Runs(c)
  /\ Goto(c, IF MayUnlink(c) THEN "unlink" ELSE After(c))
  /\ IF MayUnlink(c) THEN UNCHANGED <<tok, mode>> ELSE Forget(c)
  /\ seen' = [seen EXCEPT ![c] = None]
  /\ UNCHANGED <<procOf, address, file, socket, raced, held, alive>>

\* rmSync(force): whatever is at the path now.
Unlink(c) ==
  /\ pc[c] = "unlink" /\ Runs(c)
  /\ file' = None
  /\ Forget(c)
  /\ Goto(c, After(c))
  /\ UNCHANGED <<procOf, address, socket, raced, held, alive, seen>>

\* sweepStaleLocks: only a lock that is old and whose holder is dead.
Sweep(c) ==
  /\ pc[c] = "idle" /\ Runs(c)
  /\ file # None /\ file.old /\ HolderDead
  /\ mode' = [mode EXCEPT ![c] = "sweep"]
  /\ Goto(c, "unlink")
  /\ UNCHANGED <<procOf, address, file, socket, raced, held, alive, tok, seen>>

-----------------------------------------------------------------------------
(* acquireRunLockGuarded and withRunLock *)

\* The continuation of the awaited file acquisition.
Register(c) ==
  /\ pc[c] = "returned" /\ Runs(c)
  /\ held' = held \cup {tok[c]}
  /\ Goto(c, IF Supplement THEN "listen" ELSE "critical")
  /\ UNCHANGED <<procOf, address, file, socket, raced, alive, mode, tok, seen>>

\* The contexts whose server listens, at the address or, after another context
\* has removed its socket file, nowhere.
Listening == {c \in Contexts \ Sync : Supplement /\ pc[c] \in {"critical", "closing"}}

\* The kernel answers the listen at a time of its own.  On EADDRINUSE a live
\* owner holds a kernel address; a socket file is to be probed first.
Listen(c) ==
  /\ pc[c] = "listen" /\ alive[procOf[c]]
  /\ \/ /\ socket = None
        /\ socket' = c
        /\ raced' = (raced \/ \E d \in Contexts : pc[d] = "remove")
        /\ Goto(c, "critical")
     \/ /\ socket # None
        /\ Goto(c, IF address = "path" THEN "probe" ELSE "inuse")
        /\ UNCHANGED <<socket, raced>>
  /\ UNCHANGED <<procOf, address, file, held, alive, mode, tok, seen>>

\* Mutant of Probe: whatever is at the address is taken for a dead socket.
ProbeFindsCorpse(c) ==
  /\ pc[c] = "probe" /\ alive[procOf[c]]
  /\ Goto(c, "remove")
  /\ UNCHANGED <<procOf, address, file, socket, raced, held, alive, mode, tok, seen>>

\* accepting(): somebody answers a connect, or nobody does three times over.
\* This is the last try; the ones before could only have given up sooner.
Probe(c) ==
  /\ pc[c] = "probe" /\ alive[procOf[c]]
  /\ Goto(c, IF socket \in Listening THEN "inuse" ELSE "remove")
  /\ UNCHANGED <<procOf, address, file, socket, raced, held, alive, mode, tok, seen>>

\* rmSync(address, force): whatever is there now; then the next listen.
RemoveCorpse(c) ==
  /\ pc[c] = "remove" /\ Runs(c)
  /\ socket' = None
  /\ Goto(c, "listen")
  /\ UNCHANGED <<procOf, address, file, raced, held, alive, mode, tok, seen>>

\* Mutant of DropFile: the next attempt starts with the file token kept.
DropFileKeepsToken(c) ==
  /\ pc[c] = "inuse" /\ Runs(c)
  /\ Goto(c, "retry")
  /\ UNCHANGED <<procOf, address, file, socket, raced, held, alive, mode, tok, seen>>

\* Never keep the file token without the socket guard.
DropFile(c) ==
  /\ pc[c] = "inuse" /\ Runs(c)
  /\ held' = held \ {tok[c]}
  /\ mode' = [mode EXCEPT ![c] = "drop"]
  /\ Goto(c, "check")
  /\ UNCHANGED <<procOf, address, file, socket, raced, alive, tok, seen>>

\* Mutants of Leave: the token stays registered; the file is not removed.
LeaveKeepsToken(c) ==
  /\ pc[c] = "critical" /\ Runs(c)
  /\ mode' = [mode EXCEPT ![c] = "release"]
  /\ Goto(c, IF c \in Listening THEN "closing" ELSE "check")
  /\ UNCHANGED <<procOf, address, file, socket, raced, held, alive, tok, seen>>

LeaveKeepsFile(c) ==
  /\ pc[c] = "critical" /\ Runs(c)
  /\ held' = held \ {tok[c]}
  /\ tok' = [tok EXCEPT ![c] = None]
  /\ socket' = IF socket = c THEN None ELSE socket
  /\ Goto(c, "idle")
  /\ UNCHANGED <<procOf, address, file, raced, alive, mode, seen>>

\* fn settled: the finally block unregisters the token, then closes the
\* socket if there is one, and removes the file last.
Leave(c) ==
  /\ pc[c] = "critical" /\ Runs(c)
  /\ held' = held \ {tok[c]}
  /\ mode' = [mode EXCEPT ![c] = "release"]
  /\ Goto(c, IF c \in Listening THEN "closing" ELSE "check")
  /\ UNCHANGED <<procOf, address, file, socket, raced, alive, tok, seen>>

\* server.close() also unlinks the socket file, whoever has bound it.
SocketClosed(c) ==
  /\ pc[c] = "closing" /\ Runs(c)
  /\ socket' = None
  /\ Goto(c, "check")
  /\ UNCHANGED <<procOf, address, file, raced, held, alive, mode, tok, seen>>

-----------------------------------------------------------------------------
(* The environment *)

Age ==
  /\ AgesOut /\ file # None /\ ~file.old
  /\ file' = [file EXCEPT !.old = TRUE]
  /\ UNCHANGED <<procOf, address, socket, raced, held, alive, pc, mode, tok, seen>>

\* The process is killed, or exits.  The lock file stays.  So does a socket
\* file, unless an exit handler unlinks it; a kernel address is free at once.
Crash(p) ==
  LET mine == {c \in Contexts : procOf[c] = p}
  IN /\ p \in Crashable /\ alive[p]
     /\ alive' = [alive EXCEPT ![p] = FALSE]
     /\ pc' = [c \in Contexts |-> IF c \in mine THEN "dead" ELSE pc[c]]
     /\ tok' = [c \in Contexts |-> IF c \in mine THEN None ELSE tok[c]]
     /\ seen' = [c \in Contexts |-> IF c \in mine THEN None ELSE seen[c]]
     /\ mode' = [c \in Contexts |-> IF c \in mine THEN "steal" ELSE mode[c]]
     /\ held' = held \ {tok[c] : c \in mine}
     /\ \/ address = "kernel" /\ socket' = IF socket \in mine THEN None ELSE socket
        \/ address = "path" /\ socket' = socket
        \/ address = "path" /\ mine \cap Listening # {} /\ socket' = None
     /\ UNCHANGED <<procOf, address, file, raced>>

\* The steps that finish what a context has begun.
Step(c) ==
  \/ Write(c) \/ Verify(c) \/ Snapshot(c) \/ Check(c) \/ Unlink(c)
  \/ Register(c) \/ Listen(c) \/ Probe(c) \/ RemoveCorpse(c) \/ DropFile(c)
  \/ Leave(c) \/ SocketClosed(c)

Next ==
  \/ \E c \in Contexts : Create(c) \/ Step(c) \/ Deadline(c) \/ Sweep(c)
  \/ \E p \in Procs : Crash(p)
  \/ Age

\* A begun stretch, an answered listen, a timer and fn itself all come to an
\* end.  Continuations are strongly fair: the event loop runs its queues in
\* order, so callers that keep coming cannot postpone one for ever.  Nobody is
\* obliged to ask for the lock, and no deadline is obliged to pass.
Fairness ==
  \A c \in Contexts :
    /\ SF_vars(Step(c))
    /\ SF_vars(pc[c] = "retry" /\ Create(c))

Spec == Init /\ [][Next]_vars
FairSpec == Spec /\ Fairness

-----------------------------------------------------------------------------
InCritical == {c \in Contexts : pc[c] = "critical"}

\* With the kernel socket no two async contexts, of one process or of two, are
\* in fn together, whatever was stolen, aged, swept or left by a crash.  A
\* socket file keeps that up, across takeovers from the dead too, as long as
\* nobody binds it while another context, which has found it dead as well, has
\* yet to remove it: that one removes the new file.
AsyncExclusion ==
  Supplement =>
    \/ \A c, d \in InCritical \ Sync : c = d
    \/ raced /\ address = "path"

\* runLockHeldTokens: a token in the set is that of an acquisition between its
\* registration and its finally block, and two acquisitions never share one.
HeldTokensLive ==
  \A t \in held :
    \E c \in Contexts :
      /\ tok[c] = t /\ pc[c] \in {"listen", "probe", "remove", "inuse", "critical"}
      /\ \A d \in Contexts \ {c} : tok[d] # t

InOneProcess == \A c, d \in Contexts : procOf[c] = procOf[d]

\* A lock file is always that of an acquisition under way, or of a caller that
\* died with it: no steal, undone claim or failed listen leaves one behind for
\* which nobody is responsible any more.
NoLockLeft ==
  file # None => pc[file.own] = "dead" \/ tok[file.own] = file.tok

\* Within one process, the lock of a live, registered acquisition that is not
\* over age goes away only by that acquisition's own unlink: the own-pid steal
\* never takes it (isLiveInProcessLock).
RegisteredLockKept ==
  [][InOneProcess /\ file # None /\ file.tok \in held /\ ~file.old =>
       \/ file' # None /\ file'.tok = file.tok
       \/ pc[file.own] = "unlink"]_vars

\* As long as no lock file outlives staleMs, a context that waits for the lock
\* of one process is not left waiting while nobody gets it.
WaitersProgress ==
  (InOneProcess /\ [](file = None \/ ~file.old)) =>
    ((\E c \in Contexts : pc[c] = "retry") ~>
       (InCritical # {} \/ \A c \in Contexts : pc[c] \in {"idle", "dead"}))

(* What the code's comments say and the code does not keep *)

\* "Mutual exclusion between sync and async holders is still guaranteed by the
\* SHARED file lock".
SyncAsyncExclusion ==
  \A c, d \in InCritical : (c \in Sync) /\ (d \notin Sync) => FALSE
=============================================================================
