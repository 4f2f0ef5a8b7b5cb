---------------------------- MODULE RunLockProofs ----------------------------
(***************************************************************************)
(* For every set of contexts, every placement in processes and any crash:  *)
(* the type of the state, the exactness of the set of live tokens, the     *)
(* mutual exclusion of asynchronous holders by the kernel socket, and that *)
(* no lock file outlives its acquisition; within one process, that a live  *)
(* acquisition's lock is taken by nobody else.                             *)
(***************************************************************************)
EXTENDS RunLock, TLAPS

\* From its create to its release an attempt has a token.
HasToken ==
  \A c \in Contexts :
    pc[c] \in {"write", "verify", "returned", "listen", "probe", "remove", "inuse", "critical"} => tok[c] \in Tokens

\* No two attempts have the same token.
TokensApart ==
  \A c, d \in Contexts : c # d /\ tok[c] # None => tok[c] # tok[d]

\* A registered token belongs to an attempt that is past its registration.
HeldOwned ==
  \A t \in held :
    \E c \in Contexts : tok[c] = t /\ pc[c] \in {"listen", "probe", "remove", "inuse", "critical"}

\* Until a race for a socket file, whoever listens is the one the address leads
\* to, and what a context is about to remove is nobody's.
SocketBound ==
  ~raced =>
    /\ \A c \in Listening : socket = c
    /\ (\E c \in Contexts : pc[c] = "remove") => socket \notin Listening

\* A kernel address is never probed, so there is nothing to race for.
KernelAddress ==
  address = "kernel" => ~raced /\ \A c \in Contexts : pc[c] \notin {"probe", "remove"}

\* Only a listening server is closed.
ClosingListens == \A c \in Contexts : pc[c] = "closing" => c \in Listening

SocketInv == SocketBound /\ KernelAddress /\ ClosingListens

TokenInv == TypeOK /\ HasToken /\ TokensApart /\ HeldOwned

IInv == TokenInv /\ SocketInv

USE RunLockAssumption

\* Nothing is held and no token is out.
LEMMA InitIInv == Init => IInv
<1> SUFFICES ASSUME Init PROVE IInv
  OBVIOUS
<1>1. TypeOK
  BY DEF Init, TypeOK, Pc, Mode, LockFile
<1>2. HasToken /\ TokensApart /\ HeldOwned /\ SocketInv
  BY DEF Init, HasToken, TokensApart, HeldOwned, SocketInv, SocketBound, KernelAddress, ClosingListens, Listening
<1> QED
  BY <1>1, <1>2 DEF IInv, TokenInv

\* A step of c that changes no token but that of c, which it may forget, and
\* registers none keeps what is known of the tokens of the others.
LEMMA TokensKeep ==
  ASSUME TokensApart, HeldOwned, TypeOK,
         NEW c \in Contexts,
         tok' = tok \/ tok' = [tok EXCEPT ![c] = None],
         NEW l \in Pc, pc' = [pc EXCEPT ![c] = l],
         held' \subseteq held,
         \/ pc[c] \notin {"listen", "probe", "remove", "inuse", "critical"}
         \/ tok[c] \notin held'
         \/ tok' = tok /\ l \in {"listen", "probe", "remove", "inuse", "critical"}
  PROVE  TokensApart' /\ HeldOwned'
<1>1. TokensApart'
  BY DEF TokensApart, TypeOK
<1>2. HeldOwned'
  <2> SUFFICES ASSUME NEW h \in held'
               PROVE \E d \in Contexts : tok'[d] = h /\ pc'[d] \in {"listen", "probe", "remove", "inuse", "critical"}
    BY DEF HeldOwned
  <2>1. PICK d \in Contexts : tok[d] = h /\ pc[d] \in {"listen", "probe", "remove", "inuse", "critical"}
    BY DEF HeldOwned
  <2> QED BY <2>1 DEF TypeOK
<1> QED BY <1>1, <1>2

\* A create gives the attempt a token that no other attempt has.
LEMMA CreateKeeps == ASSUME IInv, NEW c \in Contexts, Create(c) PROVE TokenInv'
<1> USE DEF IInv, TokenInv
<1>1. CASE file = None
  <2> DEFINE t == CHOOSE t \in Tokens \ Referenced : TRUE
  <2>1. /\ t \in Tokens \ Referenced
        /\ tok' = [tok EXCEPT ![c] = t]
        /\ file' = [own |-> c, tok |-> t, full |-> FALSE, old |-> FALSE]
        /\ pc' = [pc EXCEPT ![c] = "write"]
        /\ pc[c] \in {"idle", "retry"}
        /\ UNCHANGED <<procOf, address, socket, raced, held, alive, mode, seen>>
    BY <1>1 DEF Create, Goto
  <2> HIDE DEF t
  <2>2. \A d \in Contexts : tok[d] # t
    BY <2>1 DEF Referenced
  <2>3. TypeOK'
    BY <2>1 DEF TypeOK, LockFile, Pc, Stretch, Awaiting
  <2>4. HasToken'
    BY <2>1 DEF HasToken, TypeOK
  <2>5. TokensApart'
    BY <2>1, <2>2 DEF TokensApart, TypeOK
  <2>6. HeldOwned'
    <3> SUFFICES ASSUME NEW h \in held
                 PROVE \E d \in Contexts : tok'[d] = h /\ pc'[d] \in {"listen", "probe", "remove", "inuse", "critical"}
      BY <2>1 DEF HeldOwned
    <3>1. PICK d \in Contexts : tok[d] = h /\ pc[d] \in {"listen", "probe", "remove", "inuse", "critical"}
      BY DEF HeldOwned
    <3> QED BY <2>1, <3>1 DEF TypeOK
  <2> QED BY <2>3, <2>4, <2>5, <2>6
<1>2. CASE file # None
  <2>1. /\ pc' = [pc EXCEPT ![c] = "snapshot"] /\ pc[c] \in {"idle", "retry"}
        /\ UNCHANGED <<procOf, address, socket, raced, file, held, alive, mode, tok, seen>>
    BY <1>2 DEF Create, Goto
  <2>2. TypeOK' /\ HasToken'
    BY <2>1 DEF TypeOK, Pc, Stretch, HasToken
  <2> QED BY <2>1, <2>2, TokensKeep DEF Pc, Stretch
<1> QED BY <1>1, <1>2

\* The steps that neither end nor begin a hold.
LEMMA QuietSteps ==
  ASSUME IInv, NEW c \in Contexts,
         \/ Write(c) \/ Snapshot(c) \/ Deadline(c)
         \/ Check(c) \/ Unlink(c) \/ Sweep(c) \/ SocketClosed(c)
  PROVE  TokenInv'
<1> USE DEF IInv, TokenInv
<1>1. CASE Write(c)
  <2>1. TypeOK' /\ HasToken'
    BY <1>1 DEF Write, Goto, TypeOK, LockFile, Pc, Stretch, Awaiting, HasToken
  <2>2. TokensApart' /\ HeldOwned'
    BY <1>1, TokensKeep DEF Write, Goto, Pc, Stretch
  <2> QED BY <2>1, <2>2
<1>2. CASE Snapshot(c) \/ Deadline(c)
  <2>1. PICK l \in {"check", "retry", "idle"} : pc' = [pc EXCEPT ![c] = l]
    BY <1>2 DEF Snapshot, Deadline, Goto
  <2>2. TypeOK' /\ HasToken'
    BY <1>2, <2>1
    DEF Snapshot, Deadline, Stored, LockFile, TypeOK, Pc, Mode, Stretch, Awaiting, HasToken
  <2>3. TokensApart' /\ HeldOwned'
    BY <1>2, <2>1, TokensKeep DEF Snapshot, Deadline, Pc, Stretch
  <2> QED BY <2>2, <2>3
<1>3. CASE Check(c)
  <2>1. PICK l \in {"unlink", "retry", "idle"} : pc' = [pc EXCEPT ![c] = l]
    BY <1>3 DEF Check, After, Goto
  <2>2. TypeOK' /\ HasToken'
    BY <1>3, <2>1
    DEF Check, Forget, TypeOK, Pc, Mode, Stretch, Awaiting, HasToken
  <2>3. TokensApart' /\ HeldOwned'
    BY <1>3, <2>1, TokensKeep DEF Check, Forget, Pc, Stretch
  <2> QED BY <2>2, <2>3
<1>4. CASE Unlink(c)
  <2>1. PICK l \in {"retry", "idle"} : pc' = [pc EXCEPT ![c] = l]
    BY <1>4 DEF Unlink, After, Goto
  <2>2. TypeOK' /\ HasToken'
    BY <1>4, <2>1
    DEF Unlink, Forget, TypeOK, Pc, Mode, HasToken
  <2>3. TokensApart' /\ HeldOwned'
    BY <1>4, <2>1, TokensKeep DEF Unlink, Forget, Pc
  <2> QED BY <2>2, <2>3
<1>5. CASE Sweep(c)
  <2>1. TypeOK' /\ HasToken'
    BY <1>5 DEF Sweep, Goto, TypeOK, Pc, Stretch, Mode, HasToken
  <2>2. TokensApart' /\ HeldOwned'
    BY <1>5, TokensKeep DEF Sweep, Goto, Pc, Stretch
  <2> QED BY <2>1, <2>2
<1>6. CASE SocketClosed(c)
  <2>1. TypeOK' /\ HasToken'
    BY <1>6 DEF SocketClosed, Goto, TypeOK, Pc, Stretch, HasToken
  <2>2. TokensApart' /\ HeldOwned'
    BY <1>6, TokensKeep DEF SocketClosed, Goto, Pc, Stretch
  <2> QED BY <2>1, <2>2
<1> QED BY <1>1, <1>2, <1>3, <1>4, <1>5, <1>6

\* The steps that register a token or give it up, bind the socket or move on
\* with the socket bound.
LEMMA HoldSteps ==
  ASSUME IInv, NEW c \in Contexts,
         Verify(c) \/ Register(c) \/ Listen(c) \/ Probe(c) \/ RemoveCorpse(c) \/ DropFile(c) \/ Leave(c)
  PROVE  TokenInv'
<1> USE DEF IInv, TokenInv
<1>1. CASE Verify(c)
  <2>1. tok' = tok /\ tok[c] \in Tokens
    BY <1>1 DEF Verify, HasToken
  <2>2. TypeOK' /\ HasToken' /\ TokensApart'
    BY <1>1, <2>1
    DEF Verify, Goto, TypeOK, Pc, Mode, Stretch, Awaiting, HasToken, TokensApart
  <2>3. HeldOwned'
    BY <1>1, <2>1 DEF Verify, Goto, TypeOK, HeldOwned
  <2> QED BY <2>2, <2>3
<1>2. CASE Register(c)
  <2>1. tok' = tok /\ tok[c] \in Tokens
    BY <1>2 DEF Register, HasToken
  <2>2. TypeOK' /\ HasToken' /\ TokensApart'
    BY <1>2, <2>1 DEF Register, Goto, TypeOK, Pc, Awaiting, HasToken, TokensApart
  <2>3. HeldOwned'
    BY <1>2, <2>1 DEF Register, Goto, TypeOK, HeldOwned
  <2> QED BY <2>2, <2>3
<1>3. CASE Listen(c) \/ Probe(c) \/ RemoveCorpse(c)
  <2>1. PICK l \in {"listen", "probe", "remove", "inuse", "critical"} :
          pc' = [pc EXCEPT ![c] = l]
    BY <1>3 DEF Listen, Probe, RemoveCorpse, Goto
  <2>2. /\ pc[c] \in {"listen", "probe", "remove"}
        /\ UNCHANGED <<procOf, address, file, held, alive, mode, tok, seen>>
        /\ socket' \in {socket, c, None} /\ raced' \in BOOLEAN
    BY <1>3 DEF Listen, Probe, RemoveCorpse, TypeOK
  <2>3. TypeOK' /\ HasToken'
    BY <2>1, <2>2 DEF TypeOK, Pc, Awaiting, HasToken
  <2>4. TokensApart' /\ HeldOwned'
    BY <2>1, <2>2, TokensKeep DEF Pc, Awaiting
  <2> QED BY <2>3, <2>4
<1>4. CASE DropFile(c)
  <2>1. TypeOK' /\ HasToken'
    BY <1>4 DEF DropFile, Goto, TypeOK, Pc, Stretch, Mode, HasToken
  <2>2. TokensApart' /\ HeldOwned'
    BY <1>4, TokensKeep DEF DropFile, Goto, Pc, Stretch
  <2> QED BY <2>1, <2>2
<1>5. CASE Leave(c)
  <2>1. TypeOK' /\ HasToken'
    BY <1>5 DEF Leave, Goto, TypeOK, Pc, Stretch, Awaiting, Mode, HasToken
  <2>2. TokensApart' /\ HeldOwned'
    BY <1>5, TokensKeep DEF Leave, Goto, Pc, Stretch, Awaiting
  <2> QED BY <2>1, <2>2
<1> QED BY <1>1, <1>2, <1>3, <1>4, <1>5

\* A crash takes the process's attempts, their tokens and its socket along.
LEMMA CrashKeeps == ASSUME IInv, NEW p \in Procs, Crash(p) PROVE TokenInv'
<1> USE DEF IInv, TokenInv
<1> DEFINE mine == {c \in Contexts : procOf[c] = p}
<1>1. /\ pc' = [c \in Contexts |-> IF c \in mine THEN "dead" ELSE pc[c]]
      /\ tok' = [c \in Contexts |-> IF c \in mine THEN None ELSE tok[c]]
      /\ seen' = [c \in Contexts |-> IF c \in mine THEN None ELSE seen[c]]
      /\ mode' = [c \in Contexts |-> IF c \in mine THEN "steal" ELSE mode[c]]
      /\ held' = held \ {tok[c] : c \in mine}
      /\ socket' \in {socket, None}
      /\ alive' = [alive EXCEPT ![p] = FALSE]
      /\ UNCHANGED <<procOf, address, file, raced>>
  BY DEF Crash
<1> HIDE DEF mine
<1>2. TypeOK'
  BY <1>1 DEF TypeOK, Pc, Mode
<1>3. HasToken' /\ TokensApart'
  BY <1>1 DEF TypeOK, HasToken, TokensApart
<1>4. HeldOwned'
  <2> SUFFICES ASSUME NEW h \in held'
               PROVE \E d \in Contexts : tok'[d] = h /\ pc'[d] \in {"listen", "probe", "remove", "inuse", "critical"}
    BY DEF HeldOwned
  <2>1. PICK d \in Contexts : tok[d] = h /\ pc[d] \in {"listen", "probe", "remove", "inuse", "critical"}
    BY <1>1 DEF HeldOwned
  <2>2. d \notin mine
    BY <1>1, <2>1
  <2> QED BY <1>1, <2>1, <2>2
<1> QED BY <1>2, <1>3, <1>4

\* A step of c that leaves the socket alone, and by which c does not begin to
\* listen or find a dead socket.
LEMMA SocketKept ==
  ASSUME SocketInv, TypeOK, NEW c \in Contexts,
         NEW l \in Pc, pc' = [pc EXCEPT ![c] = l],
         UNCHANGED <<address, socket, raced>>,
         \/ l \notin {"critical", "closing", "probe", "remove"}
         \/ l = "critical" /\ (c \in Sync \/ ~Supplement)
         \/ l = "closing" /\ c \in Listening
  PROVE  SocketInv'
<1>1. Listening' \subseteq Listening
  BY DEF Listening, TypeOK
<1>2. \A d \in Contexts : pc'[d] \in {"probe", "remove"} => pc[d] = pc'[d]
  BY DEF TypeOK
<1>3. ClosingListens'
  BY DEF SocketInv, ClosingListens, Listening, TypeOK
<1> QED BY <1>1, <1>2, <1>3 DEF SocketInv, SocketBound, KernelAddress

\* The steps towards the socket: what is bound becomes the address's, unless
\* somebody is about to remove it; what is removed was nobody's.
LEMMA SocketSteps ==
  ASSUME IInv, NEW c \in Contexts,
         Listen(c) \/ Probe(c) \/ RemoveCorpse(c) \/ SocketClosed(c)
  PROVE  SocketInv'
<1> USE DEF IInv, TokenInv
<1>0. ClosingListens'
  <2>1. PICK l \in {"critical", "probe", "inuse", "remove", "listen", "check"} :
          pc' = [pc EXCEPT ![c] = l]
    BY DEF Listen, Probe, RemoveCorpse, SocketClosed, Goto
  <2> QED BY <2>1 DEF SocketInv, ClosingListens, Listening, TypeOK
<1>1. CASE Listen(c)
  <2>1. CASE socket = None
    <3>1. /\ socket' = c /\ pc' = [pc EXCEPT ![c] = "critical"] /\ address' = address
          /\ raced' = (raced \/ \E d \in Contexts : pc[d] = "remove")
      BY <1>1, <2>1, RunLockAssumption DEF Listen, Goto
    <3>2. \A d \in Contexts : pc'[d] \in {"probe", "remove"} => pc[d] = pc'[d]
      BY <3>1 DEF TypeOK
    <3>3. Listening' \subseteq Listening \cup {c}
      BY <3>1 DEF Listening, TypeOK
    <3>4. ~raced => Listening = {}
      BY <2>1 DEF SocketInv, SocketBound, Listening
    <3>5. ~raced' => ~raced /\ \A d \in Contexts : pc[d] # "remove"
      BY <3>1
    <3>6. KernelAddress'
      BY <3>1, <3>2 DEF SocketInv, KernelAddress
    <3>7. SocketBound'
      BY <3>1, <3>2, <3>3, <3>4, <3>5 DEF SocketBound
    <3> QED BY <1>0, <3>6, <3>7 DEF SocketInv
  <2>2. CASE socket # None
    <3>1. PICK l \in {"probe", "inuse"} :
            pc' = [pc EXCEPT ![c] = l] /\ (l = "probe" => address = "path")
      BY <1>1, <2>2 DEF Listen, Goto
    <3>2. UNCHANGED <<address, socket, raced>>
      BY <1>1, <2>2 DEF Listen
    <3>3. Listening' \subseteq Listening
      BY <3>1 DEF Listening, TypeOK
    <3>4. \A d \in Contexts : pc'[d] = "remove" => pc[d] = "remove"
      BY <3>1 DEF TypeOK
    <3>5. KernelAddress'
      BY <3>1, <3>2 DEF SocketInv, KernelAddress, TypeOK
    <3> QED BY <1>0, <3>2, <3>3, <3>4, <3>5 DEF SocketInv, SocketBound
  <2> QED BY <2>1, <2>2
<1>2. CASE Probe(c)
  <2>1. PICK l \in {"inuse", "remove"} :
          pc' = [pc EXCEPT ![c] = l] /\ (l = "remove" => socket \notin Listening)
    BY <1>2 DEF Probe, Goto
  <2>2. UNCHANGED <<address, socket, raced>> /\ pc[c] = "probe"
    BY <1>2 DEF Probe
  <2>3. Listening' \subseteq Listening
    BY <2>1 DEF Listening, TypeOK
  <2>4. \A d \in Contexts \ {c} : pc'[d] = pc[d]
    BY <2>1 DEF TypeOK
  <2>5. address # "kernel"
    BY <2>2 DEF SocketInv, KernelAddress
  <2>6. SocketBound'
    BY <2>1, <2>2, <2>3, <2>4 DEF SocketInv, SocketBound, TypeOK
  <2> QED BY <1>0, <2>2, <2>5, <2>6 DEF SocketInv, KernelAddress
<1>3. CASE RemoveCorpse(c) \/ SocketClosed(c)
  <2>1. PICK l \in {"listen", "check"} : pc' = [pc EXCEPT ![c] = l]
    BY <1>3 DEF RemoveCorpse, SocketClosed, Goto
  <2>2. socket' = None /\ UNCHANGED <<address, raced>> /\ pc[c] \in {"remove", "closing"}
    BY <1>3 DEF RemoveCorpse, SocketClosed
  <2>3. Listening' \subseteq Listening \ {c}
    BY <2>1 DEF Listening, TypeOK
  <2>4. \A d \in Contexts : pc'[d] \in {"probe", "remove"} => pc[d] = pc'[d]
    BY <2>1 DEF TypeOK
  <2>5. ~raced => Listening' = {}
    BY <2>2, <2>3 DEF SocketInv, SocketBound, ClosingListens
  <2> QED BY <1>0, <2>2, <2>4, <2>5 DEF SocketInv, SocketBound, KernelAddress
<1> QED BY <1>1, <1>2, <1>3

\* A crash silences its contexts; it frees the address, or leaves a file there
\* that is nobody's.
LEMMA CrashSocket == ASSUME IInv, NEW p \in Procs, Crash(p) PROVE SocketInv'
<1> DEFINE mine == {c \in Contexts : procOf[c] = p}
<1>1. /\ pc' = [c \in Contexts |-> IF c \in mine THEN "dead" ELSE pc[c]]
      /\ UNCHANGED <<address, raced>>
      /\ \/ socket' = socket
         \/ socket' = None /\ (socket \in mine \/ mine \cap Listening # {})
  BY DEF Crash
<1> HIDE DEF mine
<1>2. Listening' = Listening \ mine
  BY <1>1 DEF Listening
<1>3. \A c \in Contexts : pc'[c] \in {"probe", "remove", "closing"} => c \notin mine /\ pc[c] = pc'[c]
  BY <1>1
<1>4. SocketBound'
  BY <1>1, <1>2, <1>3 DEF IInv, SocketInv, SocketBound, Listening
<1>5. KernelAddress' /\ ClosingListens'
  BY <1>1, <1>2, <1>3 DEF IInv, SocketInv, KernelAddress, ClosingListens
<1> QED BY <1>4, <1>5 DEF SocketInv

LEMMA NextSocket ==
  ASSUME IInv, NEW c \in Contexts, Create(c) \/ Step(c) \/ Deadline(c) \/ Sweep(c)
  PROVE  SocketInv'
<1>1. CASE Listen(c) \/ Probe(c) \/ RemoveCorpse(c) \/ SocketClosed(c)
  BY <1>1, SocketSteps
<1>2. CASE Create(c) \/ Deadline(c) \/ Sweep(c) \/ Write(c) \/ Snapshot(c) \/ Check(c)
           \/ Unlink(c) \/ DropFile(c)
  <2>1. PICK l \in Stretch \cup {"idle", "retry"} : pc' = [pc EXCEPT ![c] = l]
    BY <1>2 DEF Create, Deadline, Sweep, Write, Snapshot, Check, Unlink, DropFile, Goto, After,
                Stretch
  <2>2. UNCHANGED <<address, socket, raced>>
    BY <1>2 DEF Create, Deadline, Sweep, Write, Snapshot, Check, Unlink, DropFile
  <2> QED BY <2>1, <2>2, SocketKept DEF IInv, TokenInv, Stretch, Pc
<1>3. CASE Verify(c) \/ Register(c)
  <2>1. /\ \/ pc' = [pc EXCEPT ![c] = "critical"] /\ (c \in Sync \/ ~Supplement)
           \/ pc' = [pc EXCEPT ![c] = "returned"]
           \/ pc' = [pc EXCEPT ![c] = "check"]
           \/ pc' = [pc EXCEPT ![c] = "listen"]
        /\ UNCHANGED <<address, socket, raced>>
    BY <1>3 DEF Verify, Register, Goto
  <2> QED BY <2>1, SocketKept DEF IInv, TokenInv, Stretch, Awaiting, Pc
<1>4. CASE Leave(c)
  <2>1. /\ \/ pc' = [pc EXCEPT ![c] = "closing"] /\ c \in Listening
           \/ pc' = [pc EXCEPT ![c] = "check"]
        /\ UNCHANGED <<address, socket, raced>>
    BY <1>4 DEF Leave, Goto
  <2> QED BY <2>1, SocketKept DEF IInv, TokenInv, Stretch, Awaiting, Pc
<1> QED BY <1>1, <1>2, <1>3, <1>4 DEF Step

LEMMA NextIInv == IInv /\ [Next]_vars => IInv'
<1> SUFFICES ASSUME IInv, [Next]_vars PROVE IInv'
  OBVIOUS
<1>1. ASSUME NEW c \in Contexts, Create(c) \/ Step(c) \/ Deadline(c) \/ Sweep(c) PROVE IInv'
  BY <1>1, CreateKeeps, QuietSteps, HoldSteps, NextSocket DEF Step, IInv
<1>2. ASSUME NEW p \in Procs, Crash(p) PROVE IInv'
  BY <1>2, CrashKeeps, CrashSocket DEF IInv
<1>3. ASSUME Age \/ UNCHANGED vars PROVE IInv'
  <2>1. UNCHANGED <<procOf, address, socket, raced, held, alive, pc, mode, tok, seen>>
    BY <1>3 DEF Age, vars
  <2>2. file' \in LockFile \cup {None}
    BY <1>3 DEF Age, vars, IInv, TokenInv, TypeOK, LockFile
  <2>3. TokenInv'
    BY <2>1, <2>2 DEF IInv, TokenInv, TypeOK, HasToken, TokensApart, HeldOwned
  <2>4. SocketInv'
    BY <2>1 DEF IInv, SocketInv, SocketBound, KernelAddress, ClosingListens, Listening
  <2> QED BY <2>3, <2>4 DEF IInv
<1> QED BY <1>1, <1>2, <1>3 DEF Next

-----------------------------------------------------------------------------
(* The lock file and its owner *)

\* The writer of the lock file at the path is dead, or still has the token in
\* it: it is writing it, or it has written it and is on its way from the
\* verification to its own unlink.
FileOwned ==
  file # None =>
    LET c == file.own IN
    \/ pc[c] = "dead"
    \/ /\ tok[c] = file.tok
       /\ \/ pc[c] = "write"
          \/ /\ file.full
             /\ \/ pc[c] \in {"verify", "returned", "listen", "probe", "remove", "inuse", "critical", "closing"}
                \/ pc[c] \in {"check", "unlink"} /\ mode[c] \in {"undo", "drop", "release"}

\* Only a finally block closes the socket.
ClosingReleases == \A c \in Contexts : pc[c] = "closing" => mode[c] = "release"

FileInv == IInv /\ FileOwned /\ ClosingReleases

LEMMA InitFileInv == Init => FileInv
BY InitIInv DEF Init, FileInv, FileOwned, ClosingReleases

\* A step of c that leaves the file at the path alone keeps its owner: c is not
\* the owner, or it keeps the token and moves on along the owner's way.
LEMMA OwnerKept ==
  ASSUME FileOwned, TypeOK, NEW c \in Contexts,
         NEW l \in Pc, pc' = [pc EXCEPT ![c] = l],
         NEW m \in Mode, mode' = mode \/ mode' = [mode EXCEPT ![c] = m],
         tok' = tok \/ tok' = [tok EXCEPT ![c] = None],
         file' = file,
         \/ pc[c] \in {"idle", "retry", "snapshot"}
         \/ pc[c] \in {"check", "unlink"} /\ mode[c] \in {"steal", "sweep"}
         \/ /\ tok' = tok
            /\ pc[c] \notin {"write", "dead"}
            /\ \/ l \in {"verify", "returned", "listen", "probe", "remove", "inuse", "critical", "closing"}
               \/ l \in {"check", "unlink"} /\ mode'[c] \in {"undo", "drop", "release"}
  PROVE  FileOwned'
BY DEF FileOwned, TypeOK, LockFile

LEMMA FileSteps ==
  ASSUME FileInv, NEW c \in Contexts,
         \/ Create(c) \/ Write(c) \/ Verify(c) \/ Snapshot(c) \/ Deadline(c)
         \/ Check(c) \/ Unlink(c) \/ Sweep(c)
         \/ Register(c) \/ Listen(c) \/ Probe(c) \/ RemoveCorpse(c) \/ DropFile(c) \/ Leave(c) \/ SocketClosed(c)
  PROVE  FileOwned' /\ ClosingReleases'
<1> USE DEF FileInv, IInv, TokenInv
<1>1. CASE Create(c)
  <2>1. CASE file = None
    <3> DEFINE t == CHOOSE t \in Tokens \ Referenced : TRUE
    <3>1. /\ t \in Tokens \ Referenced
          /\ tok' = [tok EXCEPT ![c] = t]
          /\ file' = [own |-> c, tok |-> t, full |-> FALSE, old |-> FALSE]
          /\ pc' = [pc EXCEPT ![c] = "write"]
          /\ UNCHANGED mode
      BY <1>1, <2>1 DEF Create, Goto
    <3> HIDE DEF t
    <3> QED BY <3>1 DEF FileOwned, ClosingReleases, TypeOK
  <2>2. CASE file # None
    <3>1. /\ pc' = [pc EXCEPT ![c] = "snapshot"] /\ pc[c] \in {"idle", "retry"}
          /\ UNCHANGED <<tok, file, mode>>
      BY <1>1, <2>2 DEF Create, Goto
    <3>2. FileOwned'
      BY <3>1, OwnerKept DEF Pc, Stretch, Mode
    <3> QED BY <3>1, <3>2 DEF ClosingReleases, TypeOK
  <2> QED BY <2>1, <2>2
<1>2. CASE Write(c)
  <2>1. /\ pc[c] = "write" /\ pc' = [pc EXCEPT ![c] = "verify"]
        /\ file' = IF file # None /\ file.tok = tok[c] THEN [file EXCEPT !.full = TRUE] ELSE file
        /\ UNCHANGED <<mode, tok>>
    BY <1>2 DEF Write, Goto
  <2>2. FileOwned'
    BY <2>1 DEF FileOwned, TypeOK, LockFile, TokensApart, HasToken
  <2> QED BY <2>1, <2>2 DEF ClosingReleases, TypeOK
<1>3. CASE Verify(c)
  <2>1. PICK l \in {"critical", "returned", "check"} : pc' = [pc EXCEPT ![c] = l]
    BY <1>3 DEF Verify, Goto
  <2>2. /\ pc[c] = "verify" /\ UNCHANGED <<tok, file>>
        /\ \/ l # "check" /\ mode' = mode
           \/ l = "check" /\ mode' = [mode EXCEPT ![c] = "undo"]
    BY <1>3, <2>1 DEF Verify, Goto, TypeOK
  <2>3. l \in Pc /\ "undo" \in Mode
    BY DEF Pc, Stretch, Awaiting, Mode
  <2>4. mode'[c] = "undo" \/ l # "check"
    BY <2>2 DEF TypeOK
  <2>5. FileOwned'
    BY <2>1, <2>2, <2>3, <2>4, OwnerKept
  <2> QED BY <2>1, <2>2, <2>5 DEF ClosingReleases, TypeOK
<1>4. CASE Snapshot(c) \/ Deadline(c)
  <2>1. PICK l \in {"check", "retry", "idle"} : pc' = [pc EXCEPT ![c] = l]
    BY <1>4 DEF Snapshot, Deadline, Goto
  <2>2. /\ pc[c] = "snapshot" /\ UNCHANGED <<tok, file>>
        /\ mode' = mode \/ mode' = [mode EXCEPT ![c] = "steal"]
    BY <1>4 DEF Snapshot, Deadline
  <2>3. l \in Pc /\ "steal" \in Mode
    BY DEF Pc, Stretch, Mode
  <2>4. FileOwned'
    BY <2>1, <2>2, <2>3, OwnerKept
  <2> QED BY <2>1, <2>2, <2>4 DEF ClosingReleases, TypeOK
<1>5. CASE Check(c)
  <2>1. pc[c] = "check" /\ file' = file
    BY <1>5 DEF Check
  <2>2. CASE MayUnlink(c)
    <3>1. pc' = [pc EXCEPT ![c] = "unlink"] /\ UNCHANGED <<tok, mode>>
      BY <1>5, <2>2 DEF Check, Goto
    <3>2. FileOwned'
      BY <2>1, <3>1 DEF FileOwned, TypeOK, LockFile
    <3> QED BY <3>1, <3>2 DEF ClosingReleases, TypeOK
  <2>3. CASE ~MayUnlink(c)
    <3>1. PICK l \in {"retry", "idle"} : pc' = [pc EXCEPT ![c] = l]
      BY <1>5, <2>3 DEF Check, Goto, After
    <3>2. tok' = [tok EXCEPT ![c] = None] /\ mode' = [mode EXCEPT ![c] = "steal"]
      BY <1>5, <2>3 DEF Check, Forget
    <3>3. file # None => file.own # c \/ pc[c] = "dead"
      BY <2>1, <2>3 DEF FileOwned, MayUnlink, Stored
    <3>4. FileOwned'
      BY <2>1, <3>1, <3>2, <3>3 DEF FileOwned, TypeOK, LockFile
    <3> QED BY <3>1, <3>2, <3>4 DEF ClosingReleases, TypeOK
  <2> QED BY <2>2, <2>3
<1>6. CASE Unlink(c)
  <2>1. PICK l \in {"retry", "idle"} : pc' = [pc EXCEPT ![c] = l]
    BY <1>6 DEF Unlink, After, Goto
  <2> QED BY <1>6, <2>1 DEF Unlink, Forget, FileOwned, ClosingReleases, TypeOK
<1>7. CASE Sweep(c)
  <2>1. /\ pc[c] = "idle" /\ pc' = [pc EXCEPT ![c] = "unlink"]
        /\ UNCHANGED <<file, tok>> /\ mode' = [mode EXCEPT ![c] = "sweep"]
    BY <1>7 DEF Sweep, Goto
  <2>2. FileOwned'
    BY <2>1, OwnerKept DEF Pc, Stretch, Mode
  <2> QED BY <2>1, <2>2 DEF ClosingReleases, TypeOK
<1>8. CASE Register(c) \/ Listen(c) \/ Probe(c) \/ RemoveCorpse(c)
  <2>1. PICK l \in {"listen", "critical", "probe", "remove", "inuse"} : pc' = [pc EXCEPT ![c] = l]
    BY <1>8 DEF Register, Listen, Probe, RemoveCorpse, Goto
  <2>2. pc[c] \in {"returned", "listen", "probe", "remove"} /\ UNCHANGED <<file, tok, mode>>
    BY <1>8 DEF Register, Listen, Probe, RemoveCorpse
  <2>3. FileOwned'
    BY <2>1, <2>2, OwnerKept DEF Pc, Awaiting, Mode
  <2> QED BY <2>1, <2>2, <2>3 DEF ClosingReleases, TypeOK
<1>9. CASE DropFile(c)
  <2>1. /\ pc[c] = "inuse" /\ pc' = [pc EXCEPT ![c] = "check"]
        /\ UNCHANGED <<file, tok>> /\ mode' = [mode EXCEPT ![c] = "drop"]
    BY <1>9 DEF DropFile, Goto
  <2>2. mode'[c] = "drop" /\ "drop" \in Mode /\ "check" \in Pc
    BY <2>1 DEF TypeOK, Pc, Stretch, Mode
  <2>3. FileOwned'
    BY <2>1, <2>2, OwnerKept
  <2> QED BY <2>1, <2>3 DEF ClosingReleases, TypeOK
<1>10. CASE Leave(c)
  <2>1. PICK l \in {"closing", "check"} : pc' = [pc EXCEPT ![c] = l]
    BY <1>10 DEF Leave, Goto
  <2>2. /\ pc[c] = "critical"
        /\ UNCHANGED <<file, tok>> /\ mode' = [mode EXCEPT ![c] = "release"]
    BY <1>10 DEF Leave, Goto
  <2>3. mode'[c] = "release" /\ "release" \in Mode /\ l \in Pc
    BY <2>2 DEF TypeOK, Pc, Stretch, Awaiting, Mode
  <2>4. FileOwned'
    BY <2>1, <2>2, <2>3, OwnerKept
  <2> QED BY <2>1, <2>2, <2>4 DEF ClosingReleases, TypeOK
<1>11. CASE SocketClosed(c)
  <2>1. /\ pc[c] = "closing" /\ pc' = [pc EXCEPT ![c] = "check"]
        /\ UNCHANGED <<file, tok, mode>>
    BY <1>11 DEF SocketClosed, Goto
  <2>2. mode'[c] = "release" /\ "release" \in Mode /\ "check" \in Pc
    BY <2>1 DEF ClosingReleases, Pc, Stretch, Mode
  <2>3. FileOwned'
    BY <2>1, <2>2, OwnerKept
  <2> QED BY <2>1, <2>3 DEF ClosingReleases, TypeOK
<1> QED BY <1>1, <1>2, <1>3, <1>4, <1>5, <1>6, <1>7, <1>8, <1>9, <1>10, <1>11

LEMMA NextFileInv == FileInv /\ [Next]_vars => FileInv'
<1> SUFFICES ASSUME FileInv, [Next]_vars PROVE FileInv'
  OBVIOUS
<1>0. IInv'
  BY NextIInv DEF FileInv
<1>1. ASSUME NEW c \in Contexts, Create(c) \/ Step(c) \/ Deadline(c) \/ Sweep(c)
      PROVE FileOwned' /\ ClosingReleases'
  BY <1>1, FileSteps DEF Step
<1>2. ASSUME NEW p \in Procs, Crash(p) PROVE FileOwned' /\ ClosingReleases'
  BY <1>2 DEF Crash, FileInv, IInv, TokenInv, TypeOK, LockFile, FileOwned, ClosingReleases
<1>3. ASSUME Age PROVE FileOwned' /\ ClosingReleases'
  BY <1>3 DEF Age, FileInv, IInv, TokenInv, TypeOK, LockFile, FileOwned, ClosingReleases
<1>4. ASSUME UNCHANGED vars PROVE FileOwned' /\ ClosingReleases'
  BY <1>4 DEF vars, FileInv, FileOwned, ClosingReleases
<1> QED BY <1>0, <1>1, <1>2, <1>3, <1>4 DEF Next, FileInv

-----------------------------------------------------------------------------
(* One process: a stretch is not disturbed *)

\* A caller on its way to remove its own file still has its token.
ReleasersToken ==
  \A c \in Contexts :
    \/ pc[c] = "closing"
    \/ pc[c] \in {"check", "unlink"} /\ mode[c] \in {"undo", "drop", "release"}
    => tok[c] \in Tokens

\* The callers of a dead process are dead with it.
DeadTogether == \A c \in Contexts : pc[c] = "dead" => ~alive[procOf[c]]

\* What a synchronous stretch of c relies on when the process has no rival:
\* the file it created is still there, no claim is undone and nothing is swept,
\* what it steals is over age or nobody's, and what it releases is its own.
TurnOf(c) ==
  /\ pc[c] \in {"write", "verify"} => file # None /\ file.own = c
  /\ pc[c] \in {"check", "unlink"} => mode[c] \in {"steal", "drop", "release"}
  /\ pc[c] \in {"check", "unlink"} /\ mode[c] = "steal" =>
       file = None \/ file.old \/ file.tok \notin held
  /\ pc[c] = "unlink" /\ mode[c] # "steal" => file # None /\ file.own = c

OneTurn ==
  InOneProcess =>
    /\ \A c, d \in Contexts : pc[c] \in Stretch /\ pc[d] \in Stretch => c = d
    /\ \A c \in Contexts : TurnOf(c)

TurnInv == FileInv /\ ReleasersToken /\ DeadTogether /\ OneTurn

LEMMA InitTurnInv == Init => TurnInv
BY InitFileInv DEF Init, TurnInv, ReleasersToken, DeadTogether, OneTurn, TurnOf, Stretch

\* A caller keeps its token from the create to the end of the attempt, and only
\* a crash makes it dead.
LEMMA ReleasersKept ==
  ASSUME TurnInv, NEW c \in Contexts, Create(c) \/ Step(c) \/ Deadline(c) \/ Sweep(c)
  PROVE  ReleasersToken' /\ DeadTogether'
<1> USE DEF TurnInv, FileInv, IInv, TokenInv
<1>1. DeadTogether'
  BY DEF Create, Step, Deadline, Sweep, Write, Verify, Snapshot, Check, Unlink, Register,
         Listen, Probe, RemoveCorpse, DropFile, Leave, SocketClosed, Goto, After, DeadTogether, TypeOK
<1>2. CASE Create(c)
  <2>1. PICK l \in {"write", "snapshot"} : pc' = [pc EXCEPT ![c] = l]
    BY <1>2 DEF Create, Goto
  <2>2. \A d \in Contexts \ {c} : tok'[d] = tok[d]
    BY <1>2 DEF Create, TypeOK
  <2>3. mode' = mode
    BY <1>2 DEF Create
  <2>4. ReleasersToken'
    BY <2>1, <2>2, <2>3 DEF ReleasersToken, TypeOK
  <2> QED BY <1>1, <2>4
<1>3. CASE Deadline(c) \/ Sweep(c) \/ Write(c) \/ Verify(c) \/ Snapshot(c)
  <2>1. ReleasersToken'
    BY <1>3 DEF Deadline, Sweep, Write, Verify, Snapshot, Goto, ReleasersToken, HasToken, TypeOK
  <2> QED BY <1>1, <2>1
<1>4. CASE Check(c) \/ Unlink(c)
  <2>1. ReleasersToken'
    BY <1>4 DEF Check, Unlink, Goto, After, Forget, ReleasersToken, TypeOK
  <2> QED BY <1>1, <2>1
<1>5. CASE Register(c) \/ Listen(c) \/ Probe(c) \/ RemoveCorpse(c) \/ DropFile(c) \/ Leave(c) \/ SocketClosed(c)
  <2>1. ReleasersToken'
    BY <1>5 DEF Register, Listen, Probe, RemoveCorpse, DropFile, Leave, SocketClosed, Goto, ReleasersToken, HasToken, TypeOK
  <2> QED BY <1>1, <2>1
<1> QED BY <1>2, <1>3, <1>4, <1>5 DEF Step

\* In one process nobody else is in a synchronous stretch when c runs.
LEMMA Alone ==
  ASSUME InOneProcess, NEW c \in Contexts, Runs(c)
  PROVE  \A d \in Contexts \ {c} : pc[d] \notin Stretch
BY DEF InOneProcess, Runs, InTurn

\* So a step of c in one process is right when c's own turn is.
LEMMA TurnKept ==
  ASSUME TypeOK, InOneProcess, procOf' = procOf,
         NEW c \in Contexts, Runs(c), NEW l \in Pc,
         pc' = [pc EXCEPT ![c] = l], TurnOf(c)'
  PROVE  OneTurn'
<1>1. \A d \in Contexts \ {c} : pc'[d] \notin Stretch
  BY Alone DEF TypeOK
<1>2. \A d \in Contexts \ {c} : TurnOf(d)'
  BY <1>1 DEF TurnOf, Stretch
<1> QED BY <1>1, <1>2 DEF OneTurn

\* In one process a live caller holds the token that is in its file.
LEMMA OwnsItsFile ==
  ASSUME TurnInv, InOneProcess, NEW c \in Contexts, alive[procOf[c]],
         file # None, tok[c] = file.tok
  PROVE  file.own = c
<1>1. file.own \in Contexts /\ file.tok # None
  BY DEF TurnInv, FileInv, IInv, TokenInv, TypeOK, LockFile
<1>2. pc[file.own] # "dead"
  BY <1>1 DEF TurnInv, DeadTogether, InOneProcess
<1>3. tok[file.own] = file.tok
  BY <1>2 DEF TurnInv, FileInv, FileOwned
<1> QED BY <1>1, <1>3 DEF TurnInv, FileInv, IInv, TokenInv, TokensApart

LEMMA TurnSteps ==
  ASSUME TurnInv, InOneProcess, NEW c \in Contexts,
         Create(c) \/ Step(c) \/ Deadline(c) \/ Sweep(c)
  PROVE  OneTurn'
<1> DEFINE Same == procOf' = procOf
<1>0. TypeOK /\ TurnOf(c) /\ Same
  BY DEF TurnInv, FileInv, IInv, TokenInv, OneTurn, Create, Step, Deadline, Sweep, Write, Verify,
         Snapshot, Check, Unlink, Register, Listen, Probe, RemoveCorpse, DropFile, Leave, SocketClosed
<1>1. CASE Create(c)
  <2>1. PICK l \in {"write", "snapshot"} : pc' = [pc EXCEPT ![c] = l]
    BY <1>1 DEF Create, Goto
  <2>2. l = "write" => file' # None /\ file'.own = c
    <3>1. CASE file = None
      <4> DEFINE t == CHOOSE t \in Tokens \ Referenced : TRUE
      <4>1. file' = [own |-> c, tok |-> t, full |-> FALSE, old |-> FALSE]
        BY <1>1, <3>1 DEF Create
      <4> HIDE DEF t
      <4>2. file'.own = c
        BY <4>1
      <4>3. t \in Tokens \ Referenced
        BY <1>1, <3>1 DEF Create, t
      <4>4. file' \in LockFile
        BY <4>1, <4>3 DEF LockFile
      <4> QED BY <4>2, <4>4
    <3>2. CASE file # None
      BY <1>1, <2>1, <3>2, <1>0 DEF Create, Goto, TypeOK
    <3> QED BY <3>1, <3>2
  <2>3. TurnOf(c)'
    BY <1>0, <2>1, <2>2 DEF TurnOf, TypeOK
  <2> QED BY <1>0, <1>1, <2>1, <2>3, TurnKept DEF Create, Pc, Stretch
<1>2. CASE Write(c)
  <2>1. file # None /\ file.own = c /\ pc' = [pc EXCEPT ![c] = "verify"]
    BY <1>0, <1>2 DEF Write, Goto, TurnOf
  <2>2. file' \in LockFile /\ file'.own = c
    BY <1>0, <1>2, <2>1 DEF Write, TypeOK, LockFile
  <2>3. TurnOf(c)'
    BY <1>0, <2>1, <2>2 DEF TurnOf, TypeOK
  <2> QED BY <1>0, <1>2, <2>1, <2>3, TurnKept DEF Write, Pc, Stretch
<1>3. CASE Verify(c)
  <2>1. file # None /\ file.own = c /\ pc[c] = "verify"
    BY <1>0, <1>3 DEF Verify, TurnOf
  <2>2. Stored = tok[c]
    BY <2>1 DEF TurnInv, FileInv, FileOwned, Stored
  <2>3. PICK l \in {"critical", "returned"} : pc' = [pc EXCEPT ![c] = l]
    BY <1>3, <2>2 DEF Verify, Goto
  <2>4. TurnOf(c)'
    BY <1>0, <2>3 DEF TurnOf, TypeOK
  <2> QED BY <1>0, <1>3, <2>3, <2>4, TurnKept DEF Verify, Pc, Awaiting
<1>4. CASE Snapshot(c)
  <2>1. PICK l \in {"check", "retry", "idle"} : pc' = [pc EXCEPT ![c] = l]
    BY <1>4 DEF Snapshot, Goto
  <2>2. l = "check" => /\ mode' = [mode EXCEPT ![c] = "steal"]
                       /\ CanSteal(c)
    BY <1>0, <1>4, <2>1 DEF Snapshot, Goto, TypeOK
  <2>3. CanSteal(c) => file = None \/ file.old \/ file.tok \notin held
    <3>1. ~HolderDead \/ file = None
      BY <1>0, <1>4 DEF Snapshot, Runs, HolderDead, InOneProcess, TypeOK, LockFile
    <3> QED BY <3>1 DEF CanSteal, OwnPidStealable, LiveInProcess
  <2>4. TurnOf(c)'
    BY <1>0, <1>4, <2>1, <2>2, <2>3 DEF Snapshot, TurnOf, TypeOK
  <2> QED BY <1>0, <1>4, <2>1, <2>4, TurnKept DEF Snapshot, Pc, Stretch
<1>5. CASE Check(c)
  <2>1. CASE MayUnlink(c)
    <3>1. /\ pc[c] = "check" /\ pc' = [pc EXCEPT ![c] = "unlink"]
          /\ UNCHANGED <<mode, file, held>> /\ alive[procOf[c]]
      BY <1>5, <2>1 DEF Check, Goto, Runs
    <3>2. ASSUME mode[c] # "steal" PROVE file # None /\ file.own = c
      <4>1. Stored = tok[c] /\ tok[c] \in Tokens
        BY <1>0, <2>1, <3>1, <3>2 DEF TurnOf, MayUnlink, TurnInv, ReleasersToken
      <4>2. file # None /\ file.tok = tok[c]
        BY <4>1 DEF Stored
      <4> QED BY <3>1, <4>2, OwnsItsFile
    <3>3. TurnOf(c)'
      BY <1>0, <3>1, <3>2 DEF TurnOf, TypeOK
    <3> QED BY <1>0, <1>5, <3>1, <3>3, TurnKept DEF Check, Pc, Stretch
  <2>2. CASE ~MayUnlink(c)
    <3>1. PICK l \in {"retry", "idle"} : pc' = [pc EXCEPT ![c] = l]
      BY <1>5, <2>2 DEF Check, Goto, After
    <3>2. TurnOf(c)'
      BY <1>0, <3>1 DEF TurnOf, TypeOK
    <3> QED BY <1>0, <1>5, <3>1, <3>2, TurnKept DEF Check, Pc
  <2> QED BY <2>1, <2>2
<1>6. CASE Unlink(c) \/ Deadline(c)
  <2>1. PICK l \in {"retry", "idle"} : pc' = [pc EXCEPT ![c] = l]
    BY <1>6 DEF Unlink, Deadline, After, Goto
  <2>2. TurnOf(c)'
    BY <1>0, <2>1 DEF TurnOf, TypeOK
  <2> QED BY <1>0, <1>6, <2>1, <2>2, TurnKept DEF Unlink, Deadline, Pc
<1>7. CASE Sweep(c)
  <2>1. FALSE
    BY <1>0, <1>7 DEF Sweep, Runs, HolderDead, InOneProcess, TypeOK, LockFile
  <2> QED BY <2>1
<1>8. CASE Register(c)
  <2>1. PICK l \in {"listen", "critical"} : pc' = [pc EXCEPT ![c] = l]
    BY <1>8 DEF Register, Goto
  <2>2. TurnOf(c)'
    BY <1>0, <2>1 DEF TurnOf, TypeOK
  <2> QED BY <1>0, <1>8, <2>1, <2>2, TurnKept DEF Register, Pc, Awaiting
<1>9. CASE Listen(c) \/ Probe(c) \/ RemoveCorpse(c)
  <2>1. PICK l \in {"listen", "probe", "remove", "inuse", "critical"} : pc' = [pc EXCEPT ![c] = l]
    BY <1>9 DEF Listen, Probe, RemoveCorpse, Goto
  <2>2. UNCHANGED <<file, held, mode>>
    BY <1>9 DEF Listen, Probe, RemoveCorpse
  <2>3. \A d \in Contexts : pc'[d] \in Stretch => pc[d] = pc'[d]
    BY <1>0, <2>1 DEF TypeOK, Stretch
  <2>4. \A d \in Contexts : TurnOf(d)'
    <3> SUFFICES ASSUME NEW d \in Contexts PROVE TurnOf(d)'
      OBVIOUS
    <3>1. TurnOf(d)
      BY DEF TurnInv, OneTurn
    <3> QED BY <2>2, <2>3, <3>1 DEF TurnOf, Stretch
  <2> QED BY <2>3, <2>4 DEF TurnInv, OneTurn
<1>10. CASE DropFile(c)
  <2>1. pc' = [pc EXCEPT ![c] = "check"] /\ mode' = [mode EXCEPT ![c] = "drop"]
    BY <1>10 DEF DropFile, Goto
  <2>2. TurnOf(c)'
    BY <1>0, <2>1 DEF TurnOf, TypeOK
  <2> QED BY <1>0, <1>10, <2>1, <2>2, TurnKept DEF DropFile, Pc, Stretch
<1>11. CASE Leave(c)
  <2>1. PICK l \in {"closing", "check"} : pc' = [pc EXCEPT ![c] = l]
    BY <1>11 DEF Leave, Goto
  <2>2. mode' = [mode EXCEPT ![c] = "release"]
    BY <1>11 DEF Leave
  <2>3. TurnOf(c)'
    BY <1>0, <2>1, <2>2 DEF TurnOf, TypeOK
  <2> QED BY <1>0, <1>11, <2>1, <2>3, TurnKept DEF Leave, Pc, Stretch, Awaiting
<1>12. CASE SocketClosed(c)
  <2>1. /\ pc[c] = "closing" /\ pc' = [pc EXCEPT ![c] = "check"]
        /\ mode' = mode
    BY <1>12 DEF SocketClosed, Goto
  <2>2. mode[c] = "release"
    BY <2>1 DEF TurnInv, FileInv, ClosingReleases
  <2>3. TurnOf(c)'
    BY <1>0, <2>1, <2>2 DEF TurnOf, TypeOK
  <2> QED BY <1>0, <1>12, <2>1, <2>3, TurnKept DEF SocketClosed, Pc, Stretch
<1> QED
  BY <1>1, <1>2, <1>3, <1>4, <1>5, <1>6, <1>7, <1>8, <1>9, <1>10, <1>11, <1>12 DEF Step

LEMMA NextTurnInv == TurnInv /\ [Next]_vars => TurnInv'
<1> SUFFICES ASSUME TurnInv, [Next]_vars PROVE TurnInv'
  OBVIOUS
<1>0. FileInv'
  BY NextFileInv DEF TurnInv
<1>1. ASSUME NEW c \in Contexts, Create(c) \/ Step(c) \/ Deadline(c) \/ Sweep(c)
      PROVE ReleasersToken' /\ DeadTogether' /\ OneTurn'
  <2>1. ReleasersToken' /\ DeadTogether'
    BY <1>1, ReleasersKept
  <2>2. procOf' = procOf
    BY <1>1 DEF Create, Step, Deadline, Sweep, Write, Verify, Snapshot, Check, Unlink, Register,
                Listen, Probe, RemoveCorpse, DropFile, Leave, SocketClosed
  <2>3. CASE InOneProcess
    BY <1>1, <2>1, <2>3, TurnSteps
  <2>4. CASE ~InOneProcess
    BY <2>1, <2>2, <2>4 DEF InOneProcess, OneTurn
  <2> QED BY <2>1, <2>3, <2>4
<1>2. ASSUME NEW p \in Procs, Crash(p)
      PROVE ReleasersToken' /\ DeadTogether' /\ OneTurn'
  <2> DEFINE mine == {c \in Contexts : procOf[c] = p}
  <2>1. /\ pc' = [c \in Contexts |-> IF c \in mine THEN "dead" ELSE pc[c]]
        /\ tok' = [c \in Contexts |-> IF c \in mine THEN None ELSE tok[c]]
        /\ mode' = [c \in Contexts |-> IF c \in mine THEN "steal" ELSE mode[c]]
        /\ held' \subseteq held
        /\ alive' = [alive EXCEPT ![p] = FALSE]
        /\ UNCHANGED <<procOf, file>>
    BY <1>2 DEF Crash
  <2>2. ReleasersToken' /\ DeadTogether'
    BY <2>1 DEF TurnInv, FileInv, IInv, TokenInv, TypeOK, ReleasersToken, DeadTogether
  <2>3. \A d \in Contexts : pc'[d] \in Stretch => pc'[d] = pc[d] /\ mode'[d] = mode[d]
    BY <2>1 DEF Stretch
  <2>4. OneTurn'
    BY <2>1, <2>3 DEF TurnInv, OneTurn, TurnOf, InOneProcess, Stretch
  <2> QED BY <2>2, <2>4
<1>3. ASSUME Age PROVE ReleasersToken' /\ DeadTogether' /\ OneTurn'
  <2>1. /\ file # None /\ file \in LockFile /\ file' = [file EXCEPT !.old = TRUE]
        /\ UNCHANGED <<procOf, held, alive, pc, mode, tok>>
    BY <1>3 DEF Age, TurnInv, FileInv, IInv, TokenInv, TypeOK
  <2>2. file' \in LockFile /\ file'.own = file.own /\ file'.old
    BY <2>1 DEF LockFile
  <2> QED BY <2>1, <2>2 DEF TurnInv, ReleasersToken, DeadTogether, OneTurn, TurnOf, InOneProcess
<1>4. ASSUME UNCHANGED vars PROVE ReleasersToken' /\ DeadTogether' /\ OneTurn'
  BY <1>4 DEF vars, TurnInv, ReleasersToken, DeadTogether, OneTurn, TurnOf, InOneProcess
<1> QED BY <1>0, <1>1, <1>2, <1>3, <1>4 DEF Next, TurnInv

-----------------------------------------------------------------------------
(* Theorems *)

\* Type correctness of lock file, socket, live tokens and callers.
THEOREM RunLockTyped == Spec => []TypeOK
<1>1. IInv => TypeOK
  BY DEF IInv, TokenInv
<1> QED BY InitIInv, NextIInv, <1>1, PTL DEF Spec

\* runLockHeldTokens never holds the token of an acquisition that is over, and
\* no two acquisitions ever share a token.
THEOREM TokensExact == Spec => []HeldTokensLive
<1>1. IInv => HeldTokensLive
  <2> SUFFICES ASSUME IInv, NEW t \in held
               PROVE \E c \in Contexts :
                       /\ tok[c] = t /\ pc[c] \in {"listen", "probe", "remove", "inuse", "critical"}
                       /\ \A d \in Contexts \ {c} : tok[d] # t
    BY DEF HeldTokensLive
  <2>1. t # None
    BY DEF IInv, TokenInv, TypeOK
  <2> QED BY <2>1 DEF IInv, TokenInv, HeldOwned, TokensApart
<1> QED BY InitIInv, NextIInv, <1>1, PTL DEF Spec

\* acquireRunLockGuarded with the socket: no two asynchronous callers are in fn
\* together, however many there are, wherever they run and whatever happens to
\* the lock file: without exception where the address is the kernel's, and
\* where it is a socket file, until it has been bound under the eyes of
\* another caller that had found it dead and was about to remove it.
THEOREM AsyncHoldersExclude == Spec => []AsyncExclusion
<1>1. IInv => AsyncExclusion
  BY DEF IInv, TokenInv, TypeOK, SocketInv, SocketBound, KernelAddress, Listening, AsyncExclusion,
         InCritical
<1> QED BY InitIInv, NextIInv, <1>1, PTL DEF Spec

\* Whatever was stolen, undone, swept or left by a crash, a lock file at the
\* path is that of an acquisition under way or of a caller that died with it.
THEOREM NoLockLeftOver == Spec => []NoLockLeft
<1>1. FileInv => NoLockLeft
  BY DEF FileInv, FileOwned, NoLockLeft
<1> QED BY InitFileInv, NextFileInv, <1>1, PTL DEF Spec

\* The steal of a process's own lock, the undo and the drop never take the lock
\* of a registered acquisition of the only process: only its own release does,
\* unless the file is over age.
THEOREM RegisteredKept == Spec => RegisteredLockKept
<1> DEFINE Kept ==
      InOneProcess /\ file # None /\ file.tok \in held /\ ~file.old =>
        \/ file' # None /\ file'.tok = file.tok
        \/ pc[file.own] = "unlink"
<1>1. TurnInv /\ [Next]_vars => [Kept]_vars
  <2> SUFFICES ASSUME TurnInv, Next, InOneProcess,
                      file # None, file.tok \in held, ~file.old
               PROVE  \/ file' # None /\ file'.tok = file.tok
                      \/ pc[file.own] = "unlink"
    OBVIOUS
  <2>0. file \in LockFile
    BY DEF TurnInv, FileInv, IInv, TokenInv, TypeOK
  <2>1. ASSUME NEW c \in Contexts, Unlink(c) PROVE pc[file.own] = "unlink"
    <3>1. TurnOf(c) /\ pc[c] = "unlink"
      BY <2>1 DEF TurnInv, OneTurn, Unlink
    <3> QED BY <3>1 DEF TurnOf
  <2>2. ASSUME NEW c \in Contexts, Write(c) PROVE file' # None /\ file'.tok = file.tok
    <3>1. file' \in LockFile /\ file'.tok = file.tok
      BY <2>0, <2>2 DEF Write, LockFile
    <3> QED BY <3>1
  <2>3. ASSUME Age PROVE file' # None /\ file'.tok = file.tok
    <3>1. file' \in LockFile /\ file'.tok = file.tok
      BY <2>0, <2>3 DEF Age, LockFile
    <3> QED BY <3>1
  <2>4. ASSUME NEW c \in Contexts,
               \/ Create(c) \/ Deadline(c) \/ Sweep(c) \/ Verify(c) \/ Snapshot(c) \/ Check(c)
               \/ Register(c) \/ Listen(c) \/ Probe(c) \/ RemoveCorpse(c) \/ DropFile(c) \/ Leave(c) \/ SocketClosed(c)
        PROVE  file' = file
    BY <2>4 DEF Create, Deadline, Sweep, Verify, Snapshot, Check, Register, Listen, Probe, RemoveCorpse, DropFile,
                Leave, SocketClosed
  <2>5. ASSUME NEW p \in Procs, Crash(p) PROVE file' = file
    BY <2>5 DEF Crash
  <2> QED BY <2>1, <2>2, <2>3, <2>4, <2>5 DEF Next, Step
<1> QED BY InitTurnInv, NextTurnInv, <1>1, PTL DEF Spec, RegisteredLockKept
=============================================================================
