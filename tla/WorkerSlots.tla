----------------------------- MODULE WorkerSlots -----------------------------
(***************************************************************************)
(* The worker-concurrency limits of a pi-crew process.                     *)
(*                                                                         *)
(* Every worker turn takes a slot of ONE in-process FIFO semaphore         *)
(* (runtime/scheduling/semaphore.ts behind global-worker-cap.ts) before it *)
(* spawns; an embedded attempt first takes an entry of a fail-fast ceiling *)
(* (task-runner/hybrid-tier.ts) and a grandchild delegated by a running    *)
(* worker takes an entry of a separate fail-fast budget (nested-slots.ts), *)
(* never a slot of the semaphore.                                          *)
(*                                                                         *)
(* JavaScript runs one callback at a time: an action is the code between   *)
(* two awaits.  The promise of a granted or rejected waiter is settled in  *)
(* one callback and its continuation runs in a later one, so "granted" and *)
(* "refused" are states of their own in which an abort may still fire.     *)
(***************************************************************************)
EXTENDS Integers, Sequences, SequencesExt, FiniteSets

CONSTANTS
  Workers,        \* task attempts that may ask for a slot
  Grandchildren,  \* identities the delegate handler may mint
  NoParent,       \* no live parent: the grandchild does not exist
  MaxSlots,       \* capacity of the semaphore (PI_CREW_MAX_WORKERS)
  MaxQueue,       \* Semaphore.MAX_QUEUE
  MaxEmbedded,    \* ceiling of concurrently embedded sessions
  MaxNested       \* nested-slot budget

ASSUME SlotsAssumption ==
  /\ MaxSlots \in Nat \ {0}
  /\ MaxQueue \in Nat
  /\ MaxEmbedded \in Nat \ {0}
  /\ MaxNested \in Nat \ {0}
  /\ IsFiniteSet(Workers)
  /\ IsFiniteSet(Grandchildren)
  /\ Workers \cap Grandchildren = {}
  /\ NoParent \notin Workers \cup Grandchildren

VARIABLES
  current,   \* #current: slots taken
  queue,     \* #queue: the waiters, first come first served
  pc,        \* where each worker's attempt stands
  aborted,   \* the attempt's AbortSignal
  embedded,  \* the ids held by the embedded ceiling
  parent     \* of each grandchild in flight; NoParent when its id is free

vars == <<current, queue, pc, aborted, embedded, parent>>

Stage == {"idle", "queued", "granted", "running", "refused", "reroute"}

TypeOK ==
  /\ current \in Nat
  /\ queue \in Seq(Workers)
  /\ pc \in [Workers -> Stage]
  /\ aborted \in [Workers -> BOOLEAN]
  /\ embedded \in SUBSET Workers
  /\ parent \in [Grandchildren -> Workers \cup Grandchildren \cup {NoParent}]

Init ==
  /\ current = 0
  /\ queue = << >>
  /\ pc = [w \in Workers |-> "idle"]
  /\ aborted = [w \in Workers |-> FALSE]
  /\ embedded = {}
  /\ parent = [g \in Grandchildren |-> NoParent]

Holding(w) == pc[w] \in {"granted", "running"}
Holders == {w \in Workers : Holding(w)}
NestedHeld == {g \in Grandchildren : parent[g] # NoParent}
Waits(p) == \E g \in Grandchildren : parent[g] = p

-----------------------------------------------------------------------------
(* Semaphore.acquire and Semaphore.release *)

\* acquire(): one synchronous stretch.  An aborted signal and a full queue
\* both reject; a rejection reaches the caller in a later callback.
Acquire(w) ==
  \/ /\ aborted[w] \/ (current >= MaxSlots /\ Len(queue) >= MaxQueue)
     /\ pc' = [pc EXCEPT ![w] = "refused"]
     /\ UNCHANGED <<current, queue>>
  \/ /\ ~aborted[w]
     /\ current < MaxSlots
     /\ current' = current + 1
     /\ pc' = [pc EXCEPT ![w] = "granted"]
     /\ UNCHANGED queue
  \/ /\ ~aborted[w]
     /\ current >= MaxSlots
     /\ Len(queue) < MaxQueue
     /\ queue' = Append(queue, w)
     /\ pc' = [pc EXCEPT ![w] = "queued"]
     /\ UNCHANGED current

\* Mutants of Release: the counter drops although the slot is handed over; the
\* freed slot is not handed over; the newest waiter gets it.
ReleaseCountsHandoff(w, next) ==
  /\ current' = IF current > 0 THEN current - 1 ELSE current
  /\ queue' = IF queue = << >> THEN queue ELSE Tail(queue)
  /\ pc' = IF queue = << >> THEN [pc EXCEPT ![w] = next]
           ELSE [pc EXCEPT ![w] = next, ![Head(queue)] = "granted"]

ReleaseNoHandoff(w, next) ==
  /\ current' = IF current > 0 THEN current - 1 ELSE current
  /\ pc' = [pc EXCEPT ![w] = next]
  /\ UNCHANGED queue

ReleaseNewestFirst(w, next) ==
  IF queue = << >> THEN ReleaseNoHandoff(w, next)
  ELSE /\ queue' = Front(queue)
       /\ pc' = [pc EXCEPT ![w] = next, ![Last(queue)] = "granted"]
       /\ UNCHANGED current

\* release() by w, whose attempt moves on to stage next: the slot is handed
\* to the first waiter, #current untouched, or given back when none waits.
Release(w, next) ==
  \/ /\ queue = << >>
     /\ current' = IF current > 0 THEN current - 1 ELSE current
     /\ pc' = [pc EXCEPT ![w] = next]
     /\ UNCHANGED queue
  \/ /\ queue # << >>
     /\ queue' = Tail(queue)
     /\ pc' = [pc EXCEPT ![w] = next, ![Head(queue)] = "granted"]
     /\ UNCHANGED current

-----------------------------------------------------------------------------
(* A worker's attempt *)

\* runWorker() with the cap on: a fresh attempt on the subprocess tier.  Its
\* signal may already have fired.
StartSubprocess(w) ==
  /\ pc[w] = "idle"
  /\ Acquire(w)
  /\ UNCHANGED <<aborted, embedded, parent>>

\* runEmbeddedTier(): the ceiling first, without waiting; then the slot.  The
\* ceiling is keyed by task id and a re-acquire of a held id succeeds.
StartEmbedded(w) ==
  /\ pc[w] = "idle"
  /\ w \in embedded \/ Cardinality(embedded) < MaxEmbedded
  /\ embedded' = embedded \cup {w}
  /\ Acquire(w)
  /\ UNCHANGED <<aborted, parent>>

\* The ceiling is exhausted: the fallback decision sends the task to the
\* subprocess tier at once.
CeilingExhausted(w) ==
  /\ pc[w] = "idle"
  /\ w \notin embedded
  /\ Cardinality(embedded) >= MaxEmbedded
  /\ pc' = [pc EXCEPT ![w] = "reroute"]
  /\ UNCHANGED <<current, queue, aborted, embedded, parent>>

\* The caller of runEmbeddedTier dispatches the subprocess tier.
Reroute(w) ==
  /\ pc[w] = "reroute"
  /\ Acquire(w)
  /\ UNCHANGED <<aborted, embedded, parent>>

\* The awaited acquire resolves.  The subprocess tier looks at the signal
\* once more before it spawns (runChildPi's pre-spawn guard) and otherwise
\* leaves through withWorkerSlot's finally; the embedded tier starts its
\* session, which observes the signal itself.
Spawn(w) ==
  /\ pc[w] = "granted"
  /\ w \in embedded \/ ~aborted[w]
  /\ pc' = [pc EXCEPT ![w] = "running"]
  /\ UNCHANGED <<current, queue, aborted, embedded, parent>>

AbortedBeforeSpawn(w) ==
  /\ pc[w] = "granted"
  /\ aborted[w] /\ w \notin embedded
  /\ Release(w, "idle")
  /\ UNCHANGED <<aborted, embedded, parent>>

\* Mutant of Refused: the finally block covers the acquire as well.
RefusedReleases(w) ==
  /\ pc[w] = "refused"
  /\ current' = current - 1
  /\ embedded' = embedded \ {w}
  /\ pc' = [pc EXCEPT ![w] = "idle"]
  /\ UNCHANGED <<queue, aborted, parent>>

\* The rejected acquire reaches its caller: an embedded attempt gives the
\* ceiling entry back and, unless aborted, may be counted as a fault that
\* reroutes the task (a full queue is a thrown error like any other).
Refused(w) ==
  /\ pc[w] = "refused"
  /\ embedded' = embedded \ {w}
  /\ \/ pc' = [pc EXCEPT ![w] = "idle"]
     \/ /\ w \in embedded /\ ~aborted[w]
        /\ pc' = [pc EXCEPT ![w] = "reroute"]
  /\ UNCHANGED <<current, queue, aborted, parent>>

\* The turn ends, normally or by a throw; both finally blocks run.  A worker
\* waits for the grandchild it delegated to unless it is aborted.  A faulted
\* embedded attempt may fall back to the subprocess tier, an aborted one never.
Finish(w) ==
  /\ pc[w] = "running"
  /\ ~Waits(w) \/ aborted[w]
  /\ \/ Release(w, "idle")
     \/ w \in embedded /\ ~aborted[w] /\ Release(w, "reroute")
  /\ embedded' = embedded \ {w}
  /\ UNCHANGED <<aborted, parent>>

\* Mutant of Abort: the queued waiter does not listen to its signal.
AbortUnheard(w) ==
  /\ ~aborted[w]
  /\ aborted' = [aborted EXCEPT ![w] = TRUE]
  /\ UNCHANGED <<current, queue, pc, embedded, parent>>

\* The attempt's AbortController fires.  The listener of a queued waiter runs
\* synchronously: it leaves the queue before it is rejected.
Abort(w) ==
  /\ ~aborted[w]
  /\ aborted' = [aborted EXCEPT ![w] = TRUE]
  /\ IF pc[w] = "queued"
     THEN /\ queue' = RemoveFirst(queue, w)
          /\ pc' = [pc EXCEPT ![w] = "refused"]
     ELSE UNCHANGED <<queue, pc>>
  /\ UNCHANGED <<current, embedded, parent>>

\* A later dispatch of the task comes with a signal of its own.
NewSignal(w) ==
  /\ pc[w] = "idle" /\ aborted[w]
  /\ aborted' = [aborted EXCEPT ![w] = FALSE]
  /\ UNCHANGED <<current, queue, pc, embedded, parent>>

-----------------------------------------------------------------------------
(* Delegation: handleDelegateRequest *)

Live(p) == \/ p \in Workers /\ pc[p] = "running"
           \/ p \in NestedHeld

\* Admission under the run lock, slot taken inside it; an exhausted budget
\* refuses at once and changes nothing.  One delegate call at a time per
\* parent: the tool polls for the result of the last one.
Delegate(p, g) ==
  /\ Live(p) /\ ~Waits(p)
  /\ parent[g] = NoParent /\ p # g
  /\ Cardinality(NestedHeld) < MaxNested
  /\ parent' = [parent EXCEPT ![g] = p]
  /\ UNCHANGED <<current, queue, pc, aborted, embedded>>

\* Mutant of FinishGrandchild: a grandchild needs a slot of the semaphore, and
\* its waiting parent holds one.
FinishGrandchildWithSlot(g) ==
  /\ parent[g] # NoParent
  /\ ~Waits(g)
  /\ current < MaxSlots
  /\ parent' = [parent EXCEPT ![g] = NoParent]
  /\ UNCHANGED <<current, queue, pc, aborted, embedded>>

\* The grandchild's process ended (result, failure, timeout, owner abort): the
\* lifecycle's finally releases its id.
FinishGrandchild(g) ==
  /\ parent[g] # NoParent
  /\ ~Waits(g)
  /\ parent' = [parent EXCEPT ![g] = NoParent]
  /\ UNCHANGED <<current, queue, pc, aborted, embedded>>

-----------------------------------------------------------------------------
WorkerStep(w) ==
  \/ Reroute(w)
  \/ Spawn(w)
  \/ AbortedBeforeSpawn(w)
  \/ Refused(w)

Next ==
  \/ \E w \in Workers :
       \/ StartSubprocess(w)
       \/ StartEmbedded(w)
       \/ CeilingExhausted(w)
       \/ WorkerStep(w)
       \/ Finish(w)
       \/ Abort(w)
       \/ NewSignal(w)
  \/ \E p \in Workers \cup Grandchildren, g \in Grandchildren : Delegate(p, g)
  \/ \E g \in Grandchildren : FinishGrandchild(g)

\* A pending continuation always runs (the event loop).  A turn ends because
\* child-pi bounds it (turn limit, response timeout), and so does a
\* grandchild; each may delegate a bounded number of times, hence SF.
\* Starts, aborts and delegations carry no fairness.
Fairness ==
  /\ \A w \in Workers : WF_vars(WorkerStep(w)) /\ SF_vars(Finish(w))
  /\ \A g \in Grandchildren : SF_vars(FinishGrandchild(g))

Spec == Init /\ [][Next]_vars
FairSpec == Spec /\ Fairness

-----------------------------------------------------------------------------
(* Safety *)

\* #current counts exactly the attempts that own a slot, through every handoff,
\* abort and rejection, so no slot leaks and none is given out twice.
SlotAccounting ==
  /\ current = Cardinality(Holders)
  /\ current <= MaxSlots

\* The queue holds each waiting attempt once and no dead one, and waiters exist
\* only while every slot is taken (a freed slot is never left idle).
QueueSound ==
  /\ \A i, j \in 1 .. Len(queue) : queue[i] = queue[j] => i = j
  /\ \A w \in Workers :
       (\E i \in 1 .. Len(queue) : queue[i] = w) <=> pc[w] = "queued"
  /\ \A w \in Workers : pc[w] = "queued" => ~aborted[w]
  /\ queue # << >> => current = MaxSlots

\* Ceiling and budget: the ids held are those of live embedded attempts, never
\* more than the ceiling (released on refusal, reroute, finish and abort alike),
\* and grandchildren in flight never exceed the nested budget.
BudgetsHeld ==
  /\ Cardinality(embedded) <= MaxEmbedded
  /\ \A w \in embedded : pc[w] \in {"queued", "granted", "running", "refused"}
  /\ Cardinality(NestedHeld) <= MaxNested

\* The three pools keep their books: no slot, queue place, ceiling entry or
\* nested slot is leaked, given out twice or given back by one that had none.
PoolsSound == SlotAccounting /\ QueueSound /\ BudgetsHeld

\* First come, first served: an attempt takes a slot only when nobody who was
\* queued before it is left waiting.
NoOvertaking ==
  [][\A w \in Workers :
       ~Holding(w) /\ Holding(w)' =>
         \A i \in 1 .. Len(queue) :
           queue[i] = w \/ pc'[queue[i]] # "queued"
             \/ \E j \in 1 .. i - 1 : queue[j] = w]_vars

\* An attempt whose signal fired before it owned a slot never comes to own one
\* under that signal: the abort and the handoff cannot both win.
AbortedNeverAdmitted ==
  [][\A w \in Workers : aborted[w] /\ ~Holding(w) => ~Holding(w)']_vars

\* What the semaphore promises, whatever its queue does: a bounded pool that
\* never idles a slot while somebody waits.
Pool == INSTANCE SlotPool
          WITH holders <- Holders,
               waiting <- {w \in Workers : pc[w] = "queued"}
PoolSpec == Pool!Spec

(* Liveness *)

\* A queued attempt is granted a slot or leaves by abort: the queue starves
\* nobody even though waiting parents keep their slots while they delegate.
WaiterServed == \A w \in Workers : pc[w] = "queued" ~> pc[w] # "queued"

\* A parent that delegated gets its grandchild back: the budgets cannot close a
\* cycle of parents waiting for slots held by waiting parents.
DelegateReturns ==
  \A g \in Grandchildren : parent[g] # NoParent ~> parent[g] = NoParent
=============================================================================
