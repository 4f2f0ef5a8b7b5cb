-------------------------- MODULE WorkerSlotsProofs --------------------------
(***************************************************************************)
(* For every set of workers, every capacity and every queue limit: the     *)
(* type of the state, the accounting of slots, the soundness of the queue  *)
(* and of the two fail-fast budgets, the refinement of SlotPool, and the   *)
(* order in which slots are given out.                                     *)
(***************************************************************************)
EXTENDS WorkerSlots, FiniteSetTheorems, SequenceTheorems, TLAPS

(***************************************************************************)
(* Lemmas about the splice in the abort listener.                          *)
(***************************************************************************)
LEMMA RemoveAtProps ==
  ASSUME NEW S, NEW q \in Seq(S), NEW k \in 1 .. Len(q)
  PROVE  /\ RemoveAt(q, k) \in Seq(S)
         /\ Len(RemoveAt(q, k)) = Len(q) - 1
         /\ \A i \in 1 .. Len(q) - 1 :
              RemoveAt(q, k)[i] = IF i < k THEN q[i] ELSE q[i + 1]
<1> DEFINE a == SubSeq(q, 1, k - 1)
           b == SubSeq(q, k + 1, Len(q))
<1>0. Len(q) \in Nat /\ k \in Nat /\ k - 1 \in Nat /\ k <= Len(q)
  BY LenProperties
<1>1. /\ a \in Seq(S) /\ Len(a) = k - 1
      /\ \A i \in 1 .. k - 1 : a[i] = q[i]
  BY <1>0, SubSeqProperties
<1>2. /\ b \in Seq(S) /\ Len(b) = Len(q) - k
      /\ \A i \in 1 .. Len(q) - k : b[i] = q[i + k]
  BY <1>0, SubSeqProperties
<1>3. /\ a \o b \in Seq(S)
      /\ Len(a \o b) = Len(a) + Len(b)
      /\ \A i \in 1 .. Len(a) + Len(b) :
           (a \o b)[i] = IF i <= Len(a) THEN a[i] ELSE b[i - Len(a)]
  BY <1>1, <1>2, ConcatProperties
<1> HIDE DEF a, b
<1>4. \A i \in 1 .. Len(q) - 1 :
         (a \o b)[i] = IF i < k THEN q[i] ELSE q[i + 1]
  <2> TAKE i \in 1 .. Len(q) - 1
  <2>0. i \in Nat /\ i \in 1 .. Len(a) + Len(b) /\ i + 1 \in Nat
    BY <1>0, <1>1, <1>2
  <2>1. CASE i < k
    <3>1. i \in 1 .. k - 1 /\ i <= Len(a)
      BY <2>0, <2>1, <1>0, <1>1
    <3> QED BY <2>0, <2>1, <3>1, <1>1, <1>3
  <2>2. CASE i >= k
    <3>1. /\ ~(i <= Len(a)) /\ ~(i < k)
          /\ i - Len(a) \in 1 .. Len(q) - k
          /\ (i - Len(a)) + k = i + 1
      BY <2>0, <2>2, <1>0, <1>1
    <3>2. b[i - Len(a)] = q[(i - Len(a)) + k]
      BY <3>1, <1>2
    <3> QED BY <2>0, <3>1, <3>2, <1>3
  <2> QED BY <2>0, <2>1, <2>2, <1>0
<1>5. Len(a \o b) = Len(q) - 1
  BY <1>0, <1>1, <1>2, <1>3
<1>6. RemoveAt(q, k) = a \o b
  BY DEF RemoveAt, a, b
<1> QED
  BY <1>3, <1>4, <1>5, <1>6

\* indexOf + splice on a queue without duplicates removes the one occurrence.
LEMMA RemoveFirstProps ==
  ASSUME NEW S, NEW q \in Seq(S), NEW k \in 1 .. Len(q),
         \A i, j \in 1 .. Len(q) : q[i] = q[j] => i = j
  PROVE  RemoveFirst(q, q[k]) = RemoveAt(q, k)
<1>1. {i \in 1 .. Len(q) : q[i] = q[k]} = {k}
  OBVIOUS
<1>2. Min({k}) = k
  BY DEF Min
<1> QED
  BY <1>1, <1>2, Zenon DEF RemoveFirst, SelectInSeq
-----------------------------------------------------------------------------
(***************************************************************************)
(* The inductive invariant: the four invariants of the runs together are   *)
(* inductive.  The count of slots needs the queue to be duplicate-free and *)
(* in step with pc; the queue needs the count to know that a slot is never *)
(* handed out while another is free.                                       *)
(***************************************************************************)
SlotInv == TypeOK /\ SlotAccounting /\ QueueSound
IInv == SlotInv /\ BudgetsHeld

\* What a semaphore operation must re-establish, and all it may rely on.
SlotInvNext == /\ current' \in Nat
               /\ queue' \in Seq(Workers)
               /\ pc' \in [Workers -> Stage]
               /\ SlotAccounting'
               /\ QueueSound'

LEMMA HoldersFinite ==
  /\ IsFiniteSet(Holders)
  /\ Cardinality(Holders) \in Nat
<1>1. Holders \in SUBSET Workers
  BY DEF Holders
<1> QED
  BY <1>1, SlotsAssumption, FS_Subset, FS_CardinalityType

\* acquire() by an attempt that is neither queued nor holding.
LEMMA AcquireKeeps ==
  ASSUME SlotInv, NEW w \in Workers, pc[w] \in {"idle", "reroute"},
         Acquire(w), aborted' = aborted
  PROVE  SlotInvNext
<1> USE DEF SlotInv
<1>0. pc \in [Workers -> Stage] /\ queue \in Seq(Workers) /\ Len(queue) \in Nat
      /\ current \in Nat /\ MaxSlots \in Nat /\ MaxQueue \in Nat
  BY LenProperties, SlotsAssumption DEF TypeOK
<1>1. CASE /\ pc' = [pc EXCEPT ![w] = "refused"]
           /\ UNCHANGED <<current, queue>>
  <2>1. pc' \in [Workers -> Stage]
    BY <1>0, <1>1 DEF Stage
  <2>2. Holders' = Holders
    BY <1>0, <1>1 DEF Holders, Holding
  <2>3. SlotAccounting'
    BY <1>1, <2>2 DEF SlotAccounting
  <2>4. QueueSound'
    BY <1>0, <1>1 DEF QueueSound
  <2> QED BY <1>0, <1>1, <2>1, <2>3, <2>4 DEF SlotInvNext
<1>2. CASE /\ ~aborted[w]
           /\ current < MaxSlots
           /\ current' = current + 1
           /\ pc' = [pc EXCEPT ![w] = "granted"]
           /\ UNCHANGED queue
  <2>1. pc' \in [Workers -> Stage]
    BY <1>0, <1>2 DEF Stage
  <2>2. Holders' = Holders \cup {w} /\ w \notin Holders
    BY <1>0, <1>2 DEF Holders, Holding
  <2>3. Cardinality(Holders \cup {w}) = Cardinality(Holders) + 1
    BY <2>2, HoldersFinite, FS_AddElement
  <2>6. SlotAccounting'
    BY <1>0, <1>2, <2>2, <2>3, HoldersFinite DEF SlotAccounting
  <2>4. queue = << >>
    BY <1>0, <1>2 DEF QueueSound
  <2>5. QueueSound'
    BY <1>0, <1>2, <2>4 DEF QueueSound
  <2> QED BY <1>0, <1>2, <2>1, <2>6, <2>5 DEF SlotInvNext
<1>3. CASE /\ ~aborted[w]
           /\ current >= MaxSlots
           /\ queue' = Append(queue, w)
           /\ pc' = [pc EXCEPT ![w] = "queued"]
           /\ UNCHANGED current
  <2>1. pc' \in [Workers -> Stage]
    BY <1>0, <1>3 DEF Stage
  <2>2. Holders' = Holders
    BY <1>0, <1>3 DEF Holders, Holding
  <2>3. SlotAccounting'
    BY <1>3, <2>2 DEF SlotAccounting
  <2>4. /\ queue' \in Seq(Workers)
        /\ Len(queue') = Len(queue) + 1
        /\ \A i \in 1 .. Len(queue) : queue'[i] = queue[i]
        /\ queue'[Len(queue) + 1] = w
    BY <1>0, <1>3, AppendProperties
  <2>5. \A i \in 1 .. Len(queue) : queue[i] # w
    BY <1>0 DEF QueueSound
  <2>6. QueueSound'
    <3>1. \A i, j \in 1 .. Len(queue') : queue'[i] = queue'[j] => i = j
      BY <1>0, <2>4, <2>5 DEF QueueSound
    <3>2. ASSUME NEW v \in Workers
          PROVE  (\E i \in 1 .. Len(queue') : queue'[i] = v) <=> pc'[v] = "queued"
      <4>1. CASE v = w
        BY <4>1, <1>0, <1>3, <2>4
      <4>2. CASE v # w
        BY <4>2, <1>0, <1>3, <2>4 DEF QueueSound
      <4> QED BY <4>1, <4>2
    <3>3. \A v \in Workers : pc'[v] = "queued" => ~aborted'[v]
      BY <1>0, <1>3 DEF QueueSound
    <3>4. current' = MaxSlots
      BY <1>0, <1>3 DEF SlotAccounting
    <3> QED BY <3>1, <3>2, <3>3, <3>4 DEF QueueSound
  <2> QED BY <1>0, <1>3, <2>1, <2>3, <2>4, <2>6 DEF SlotInvNext
<1> QED
  BY <1>1, <1>2, <1>3 DEF Acquire

\* release() by an attempt that holds a slot.
LEMMA ReleaseKeeps ==
  ASSUME SlotInv, NEW w \in Workers, Holding(w),
         NEW next \in {"idle", "reroute"}, Release(w, next), aborted' = aborted
  PROVE  SlotInvNext
<1> USE DEF SlotInv
<1>0. pc \in [Workers -> Stage] /\ queue \in Seq(Workers) /\ Len(queue) \in Nat
      /\ current \in Nat /\ MaxSlots \in Nat /\ w \in Holders
  BY LenProperties, SlotsAssumption DEF TypeOK, Holders
<1>1. CASE /\ queue = << >>
           /\ current' = IF current > 0 THEN current - 1 ELSE current
           /\ pc' = [pc EXCEPT ![w] = next]
           /\ UNCHANGED queue
  <2>1. pc' \in [Workers -> Stage]
    BY <1>0, <1>1 DEF Stage
  <2>2. Holders' = Holders \ {w}
    BY <1>0, <1>1 DEF Holders, Holding
  <2>3. Cardinality(Holders \ {w}) = Cardinality(Holders) - 1 /\ current > 0
    BY <1>0, HoldersFinite, FS_RemoveElement, FS_EmptySet DEF SlotAccounting
  <2>4. SlotAccounting' /\ current' \in Nat
    BY <1>0, <1>1, <2>2, <2>3 DEF SlotAccounting
  <2>5. QueueSound'
    BY <1>0, <1>1 DEF QueueSound, Holding
  <2> QED BY <1>0, <1>1, <2>1, <2>4, <2>5 DEF SlotInvNext
<1>2. CASE /\ queue # << >>
           /\ queue' = Tail(queue)
           /\ pc' = [pc EXCEPT ![w] = next, ![Head(queue)] = "granted"]
           /\ UNCHANGED current
  <2> DEFINE h == Head(queue)
  <2>1. /\ h \in Workers /\ h = queue[1] /\ Len(queue) >= 1
        /\ queue' \in Seq(Workers)
        /\ Len(queue') = Len(queue) - 1
        /\ \A i \in 1 .. Len(queue') : queue'[i] = queue[i + 1]
    BY <1>0, <1>2, HeadTailProperties
  <2>2. pc[h] = "queued" /\ h # w /\ h \notin Holders
    BY <1>0, <2>1 DEF QueueSound, Holding, Holders
  <2> HIDE DEF h
  <2>3. pc' \in [Workers -> Stage]
    BY <1>0, <1>2, <2>1 DEF Stage, h
  <2>4. /\ pc'[w] = next /\ pc'[h] = "granted"
        /\ \A v \in Workers \ {w, h} : pc'[v] = pc[v]
    BY <1>0, <1>2, <2>1, <2>2 DEF h
  <2>5. Holders' = (Holders \ {w}) \cup {h}
    BY <1>0, <2>1, <2>2, <2>4 DEF Holders, Holding
  <2>6. Cardinality(Holders') = Cardinality(Holders)
    <3>1. /\ IsFiniteSet(Holders \ {w})
          /\ Cardinality(Holders \ {w}) = Cardinality(Holders) - 1
      BY <1>0, HoldersFinite, FS_RemoveElement
    <3>2. h \notin Holders \ {w}
      BY <2>2
    <3>3. Cardinality((Holders \ {w}) \cup {h}) = Cardinality(Holders \ {w}) + 1
      BY <3>1, <3>2, FS_AddElement
    <3> QED BY <3>1, <3>3, <2>5, HoldersFinite
  <2>7. SlotAccounting'
    BY <1>2, <2>6 DEF SlotAccounting
  <2>8. QueueSound'
    <3>1. \A i, j \in 1 .. Len(queue') : queue'[i] = queue'[j] => i = j
      BY <1>0, <2>1 DEF QueueSound
    <3>2. ASSUME NEW v \in Workers
          PROVE  (\E i \in 1 .. Len(queue') : queue'[i] = v) <=> pc'[v] = "queued"
      <4>1. CASE v = w
        <5>1. \A i \in 1 .. Len(queue) : queue[i] # w
          BY <1>0 DEF QueueSound, Holding
        <5>2. \A i \in 1 .. Len(queue') : i + 1 \in 1 .. Len(queue)
          BY <1>0, <2>1
        <5> QED BY <4>1, <5>1, <5>2, <2>1, <2>4
      <4>2. CASE v = h
        <5>1. \A i \in 1 .. Len(queue') : i + 1 \in 1 .. Len(queue) /\ i + 1 # 1
          BY <1>0, <2>1
        <5>2. \A i \in 2 .. Len(queue) : queue[i] # h
          BY <1>0, <2>1 DEF QueueSound
        <5> QED BY <4>2, <5>1, <5>2, <2>1, <2>4
      <4>3. CASE v \notin {w, h}
        <5>1. pc'[v] = pc[v]
          BY <4>3, <2>4
        <5>2. ASSUME pc[v] = "queued"
              PROVE  \E i \in 1 .. Len(queue') : queue'[i] = v
          <6>1. PICK k \in 1 .. Len(queue) : queue[k] = v
            BY <5>2 DEF QueueSound
          <6>2. k # 1 /\ k - 1 \in 1 .. Len(queue') /\ (k - 1) + 1 = k
            BY <6>1, <4>3, <1>0, <2>1
          <6>3. queue'[k - 1] = queue[(k - 1) + 1]
            BY <6>2, <2>1
          <6> QED BY <6>1, <6>2, <6>3
        <5>3. ASSUME NEW i \in 1 .. Len(queue'), queue'[i] = v
              PROVE  pc[v] = "queued"
          <6>1. i + 1 \in 1 .. Len(queue) /\ queue[i + 1] = v
            BY <5>3, <1>0, <2>1
          <6> QED BY <6>1 DEF QueueSound
        <5> QED BY <5>1, <5>2, <5>3
      <4> QED BY <4>1, <4>2, <4>3
    <3>3. \A v \in Workers : pc'[v] = "queued" => ~aborted'[v]
      BY <1>0, <2>1, <2>4 DEF QueueSound
    <3>4. current' = MaxSlots
      BY <1>2 DEF QueueSound
    <3> QED BY <3>1, <3>2, <3>3, <3>4 DEF QueueSound
  <2> QED BY <1>0, <1>2, <2>1, <2>3, <2>7, <2>8 DEF SlotInvNext
<1> QED
  BY <1>1, <1>2 DEF Release

\* The abort listener: a queued attempt leaves the queue, nothing else moves.
LEMMA AbortKeeps ==
  ASSUME SlotInv, NEW w \in Workers, Abort(w)
  PROVE  SlotInvNext
<1> USE DEF SlotInv
<1>0. /\ pc \in [Workers -> Stage] /\ queue \in Seq(Workers) /\ Len(queue) \in Nat
      /\ aborted \in [Workers -> BOOLEAN]
      /\ aborted' = [aborted EXCEPT ![w] = TRUE] /\ current' = current
      /\ current \in Nat /\ MaxSlots \in Nat
  BY LenProperties, SlotsAssumption DEF TypeOK, Abort
<1>1. CASE pc[w] = "queued"
  <2>1. PICK k \in 1 .. Len(queue) : queue[k] = w
    BY <1>1 DEF QueueSound
  <2>2. queue' = RemoveAt(queue, k) /\ pc' = [pc EXCEPT ![w] = "refused"]
    <3>1. \A i, j \in 1 .. Len(queue) : queue[i] = queue[j] => i = j
      BY DEF QueueSound
    <3>2. RemoveFirst(queue, queue[k]) = RemoveAt(queue, k)
      BY <1>0, <3>1, RemoveFirstProps
    <3> QED BY <1>1, <2>1, <3>2 DEF Abort
  <2>3. /\ queue' \in Seq(Workers)
        /\ Len(queue') = Len(queue) - 1
        /\ \A i \in 1 .. Len(queue) - 1 :
             queue'[i] = IF i < k THEN queue[i] ELSE queue[i + 1]
    BY <1>0, <2>2, RemoveAtProps
  <2>4. pc' \in [Workers -> Stage]
    BY <1>0, <2>2 DEF Stage
  <2>5. Holders' = Holders
    BY <1>0, <1>1, <2>2 DEF Holders, Holding
  <2>6. SlotAccounting'
    BY <1>0, <2>5 DEF SlotAccounting
  <2>7. QueueSound'
    <3>1. \A i, j \in 1 .. Len(queue') : queue'[i] = queue'[j] => i = j
      BY <1>0, <2>3 DEF QueueSound
    <3>2. ASSUME NEW v \in Workers
          PROVE  (\E i \in 1 .. Len(queue') : queue'[i] = v) <=> pc'[v] = "queued"
      <4>1. CASE v = w
        <5>1. \A i \in 1 .. Len(queue') : queue'[i] # w
          BY <1>0, <2>1, <2>3 DEF QueueSound
        <5> QED BY <4>1, <5>1, <1>0, <2>2
      <4>2. CASE v # w
        <5>1. pc'[v] = pc[v]
          BY <4>2, <1>0, <2>2
        <5>2. ASSUME pc[v] = "queued"
              PROVE  \E i \in 1 .. Len(queue') : queue'[i] = v
          <6>1. PICK j \in 1 .. Len(queue) : queue[j] = v
            BY <5>2 DEF QueueSound
          <6>2. j # k
            BY <6>1, <2>1, <4>2
          <6>3. CASE j < k
            <7>1. j \in 1 .. Len(queue') /\ queue'[j] = queue[j]
              BY <6>3, <1>0, <2>3
            <7> QED BY <7>1, <6>1
          <6>4. CASE j > k
            <7>1. /\ j - 1 \in 1 .. Len(queue') /\ ~(j - 1 < k)
                  /\ queue'[j - 1] = queue[(j - 1) + 1] /\ (j - 1) + 1 = j
              BY <6>4, <1>0, <2>3
            <7> QED BY <7>1, <6>1
          <6> QED BY <6>2, <6>3, <6>4, <1>0
        <5>3. ASSUME NEW i \in 1 .. Len(queue'), queue'[i] = v
              PROVE  pc[v] = "queued"
          <6>1. \E j \in 1 .. Len(queue) : queue[j] = v
            BY <5>3, <1>0, <2>3
          <6> QED BY <6>1 DEF QueueSound
        <5> QED BY <5>1, <5>2, <5>3
      <4> QED BY <4>1, <4>2
    <3>3. \A v \in Workers : pc'[v] = "queued" => ~aborted'[v]
      BY <1>0, <2>2 DEF QueueSound
    <3>4. queue' # << >> => current' = MaxSlots
      BY <1>0, <2>1 DEF QueueSound
    <3> QED BY <3>1, <3>2, <3>3, <3>4 DEF QueueSound
  <2> QED BY <1>0, <2>3, <2>4, <2>6, <2>7 DEF SlotInvNext
<1>2. CASE pc[w] # "queued"
  <2>1. UNCHANGED <<queue, pc, current>>
    BY <1>0, <1>2 DEF Abort
  <2>2. Holders' = Holders
    BY <2>1 DEF Holders, Holding
  <2>3. SlotAccounting'
    BY <2>1, <2>2 DEF SlotAccounting
  <2>4. QueueSound'
    BY <1>0, <1>2, <2>1 DEF QueueSound
  <2> QED BY <1>0, <2>1, <2>3, <2>4 DEF SlotInvNext
<1> QED
  BY <1>1, <1>2

\* A step that moves one attempt between stages other than "queued", without
\* changing whether it holds a slot, touches neither the count nor the queue.
LEMMA MoveKeeps ==
  ASSUME SlotInv, NEW w \in Workers, NEW s \in Stage \ {"queued"},
         pc[w] # "queued",
         Holding(w) <=> s \in {"granted", "running"},
         pc' = [pc EXCEPT ![w] = s],
         UNCHANGED <<current, queue, aborted>>
  PROVE  SlotInvNext
<1> USE DEF SlotInv
<1>0. pc \in [Workers -> Stage] /\ pc' \in [Workers -> Stage]
      /\ current \in Nat /\ queue \in Seq(Workers)
  BY DEF TypeOK
<1>1. Holders' = Holders
  BY <1>0 DEF Holders, Holding
<1>2. SlotAccounting'
  BY <1>1 DEF SlotAccounting
<1>3. QueueSound'
  BY <1>0 DEF QueueSound
<1> QED
  BY <1>0, <1>2, <1>3 DEF SlotInvNext
-----------------------------------------------------------------------------
(* The budgets *)

LEMMA RemoveBound ==
  ASSUME NEW S, IsFiniteSet(S), NEW x
  PROVE  /\ Cardinality(S \ {x}) \in Nat
         /\ Cardinality(S) \in Nat
         /\ Cardinality(S \ {x}) <= Cardinality(S)
<1>1. IsFiniteSet(S \ {x}) /\ Cardinality(S \ {x}) <= Cardinality(S)
  <2>1. S \ {x} \in SUBSET S
    OBVIOUS
  <2> QED BY <2>1, FS_Subset
<1> QED BY <1>1, FS_CardinalityType

LEMMA NestedFinite ==
  /\ IsFiniteSet(NestedHeld)
  /\ Cardinality(NestedHeld) \in Nat
<1>1. NestedHeld \in SUBSET Grandchildren
  BY DEF NestedHeld
<1> QED
  BY <1>1, SlotsAssumption, FS_Subset, FS_CardinalityType

LEMMA EmbeddedFinite ==
  ASSUME TypeOK
  PROVE  IsFiniteSet(embedded) /\ Cardinality(embedded) \in Nat
  BY SlotsAssumption, FS_Subset, FS_CardinalityType DEF TypeOK

\* An embedded attempt holds its ceiling entry from before the acquire until
\* its finally block: the steps in between keep the ceiling's accounting.
LEMMA CeilingKeeps ==
  ASSUME TypeOK, BudgetsHeld, NEW w \in Workers,
         embedded' \in {embedded, embedded \ {w}},
         \A v \in Workers \ {w} :
           pc'[v] = pc[v] \/ pc'[v] = "granted",
         w \in embedded' => pc'[w] \in {"queued", "granted", "running", "refused"},
         UNCHANGED parent
  PROVE  BudgetsHeld' /\ embedded' \in SUBSET Workers
<1>1. Cardinality(embedded') <= Cardinality(embedded) /\ Cardinality(embedded') \in Nat
  <2>1. CASE embedded' = embedded
    BY <2>1, EmbeddedFinite
  <2>2. CASE embedded' = embedded \ {w}
    BY <2>2, EmbeddedFinite, RemoveBound
  <2> QED BY <2>1, <2>2
<1>2. Cardinality(embedded') <= MaxEmbedded
  BY <1>1, EmbeddedFinite, SlotsAssumption DEF BudgetsHeld
<1>3. NestedHeld' = NestedHeld
  BY DEF NestedHeld
<1>4. \A v \in embedded' : pc'[v] \in {"queued", "granted", "running", "refused"}
  BY DEF TypeOK, BudgetsHeld
<1> QED
  BY <1>2, <1>3, <1>4 DEF BudgetsHeld, TypeOK

-----------------------------------------------------------------------------
(* Initiation and consecution *)

LEMMA InitIInv == Init => IInv
<1> SUFFICES ASSUME Init PROVE IInv
  OBVIOUS
<1>1. TypeOK
  BY SlotsAssumption DEF Init, TypeOK, Stage
<1>2. Holders = {} /\ NestedHeld = {}
  BY DEF Init, Holders, Holding, NestedHeld
<1>3. SlotAccounting /\ BudgetsHeld
  BY <1>2, FS_EmptySet, SlotsAssumption DEF Init, SlotAccounting, BudgetsHeld
<1>4. QueueSound
  BY DEF Init, QueueSound
<1> QED
  BY <1>1, <1>3, <1>4 DEF IInv, SlotInv

\* The part of consecution every worker action shares.
LEMMA Combine ==
  ASSUME TypeOK, SlotInvNext, BudgetsHeld', embedded' \in SUBSET Workers,
         aborted' \in [Workers -> BOOLEAN], UNCHANGED parent
  PROVE  IInv'
  BY DEF IInv, SlotInv, SlotInvNext, TypeOK

LEMMA NextIInv == IInv /\ [Next]_vars => IInv'
<1> SUFFICES ASSUME IInv, [Next]_vars PROVE IInv'
  OBVIOUS
<1> USE DEF IInv
<1>0. SlotInv /\ TypeOK /\ BudgetsHeld /\ aborted \in [Workers -> BOOLEAN]
      /\ pc \in [Workers -> Stage] /\ embedded \in SUBSET Workers
  BY DEF SlotInv, TypeOK
<1>1. ASSUME NEW w \in Workers, StartSubprocess(w) PROVE IInv'
  <2>1. SlotInvNext
    BY <1>0, <1>1, AcquireKeeps DEF StartSubprocess
  <2>2. w \notin embedded
    BY <1>0, <1>1 DEF BudgetsHeld, StartSubprocess
  <2>3. BudgetsHeld' /\ embedded' \in SUBSET Workers
    BY <1>0, <1>1, <2>2, CeilingKeeps DEF StartSubprocess, Acquire
  <2> QED BY <1>0, <1>1, <2>1, <2>3, Combine DEF StartSubprocess
<1>2. ASSUME NEW w \in Workers, StartEmbedded(w) PROVE IInv'
  <2>1. SlotInvNext
    BY <1>0, <1>2, AcquireKeeps DEF StartEmbedded
  <2>2. w \notin embedded
    BY <1>0, <1>2 DEF BudgetsHeld, StartEmbedded
  <2>3. Cardinality(embedded') <= MaxEmbedded
    <3>1. Cardinality(embedded \cup {w}) = Cardinality(embedded) + 1
      BY <2>2, <1>0, EmbeddedFinite, FS_AddElement
    <3> QED BY <3>1, <2>2, <1>0, <1>2, EmbeddedFinite, SlotsAssumption DEF StartEmbedded
  <2>4. \A v \in embedded' : pc'[v] \in {"queued", "granted", "running", "refused"}
    BY <1>0, <1>2 DEF StartEmbedded, Acquire, BudgetsHeld
  <2>5. NestedHeld' = NestedHeld
    BY <1>2 DEF StartEmbedded, NestedHeld
  <2>6. BudgetsHeld' /\ embedded' \in SUBSET Workers
    BY <1>0, <1>2, <2>3, <2>4, <2>5 DEF StartEmbedded, BudgetsHeld
  <2> QED BY <1>0, <1>2, <2>1, <2>6, Combine DEF StartEmbedded
<1>3. ASSUME NEW w \in Workers, CeilingExhausted(w) PROVE IInv'
  <2>1. SlotInvNext
    BY <1>0, <1>3, MoveKeeps DEF CeilingExhausted, Holding, Stage
  <2>2. BudgetsHeld' /\ embedded' \in SUBSET Workers
    BY <1>0, <1>3, CeilingKeeps DEF CeilingExhausted
  <2> QED BY <1>0, <1>3, <2>1, <2>2, Combine DEF CeilingExhausted
<1>4. ASSUME NEW w \in Workers, Reroute(w) PROVE IInv'
  <2>1. SlotInvNext
    BY <1>0, <1>4, AcquireKeeps DEF Reroute
  <2>2. w \notin embedded
    BY <1>0, <1>4 DEF BudgetsHeld, Reroute
  <2>3. BudgetsHeld' /\ embedded' \in SUBSET Workers
    BY <1>0, <1>4, <2>2, CeilingKeeps DEF Reroute, Acquire
  <2> QED BY <1>0, <1>4, <2>1, <2>3, Combine DEF Reroute
<1>5. ASSUME NEW w \in Workers, Spawn(w) PROVE IInv'
  <2>1. SlotInvNext
    BY <1>0, <1>5, MoveKeeps DEF Spawn, Holding, Stage
  <2>2. BudgetsHeld' /\ embedded' \in SUBSET Workers
    BY <1>0, <1>5, CeilingKeeps DEF Spawn
  <2> QED BY <1>0, <1>5, <2>1, <2>2, Combine DEF Spawn
<1>6. ASSUME NEW w \in Workers, AbortedBeforeSpawn(w) PROVE IInv'
  <2>1. SlotInvNext
    BY <1>0, <1>6, ReleaseKeeps DEF AbortedBeforeSpawn, Holding
  <2>2. \A v \in Workers \ {w} : pc'[v] = pc[v] \/ pc'[v] = "granted"
    BY <1>0, <1>6 DEF AbortedBeforeSpawn, Release
  <2>3. BudgetsHeld' /\ embedded' \in SUBSET Workers
    BY <1>0, <1>6, <2>2, CeilingKeeps DEF AbortedBeforeSpawn
  <2> QED BY <1>0, <1>6, <2>1, <2>3, Combine DEF AbortedBeforeSpawn
<1>7. ASSUME NEW w \in Workers, Refused(w) PROVE IInv'
  <2>1. PICK s \in {"idle", "reroute"} : pc' = [pc EXCEPT ![w] = s]
    BY <1>7 DEF Refused
  <2>2. SlotInvNext
    BY <1>0, <1>7, <2>1, MoveKeeps DEF Refused, Holding, Stage
  <2>3. BudgetsHeld' /\ embedded' \in SUBSET Workers
    BY <1>0, <1>7, <2>1, CeilingKeeps DEF Refused
  <2> QED BY <1>0, <1>7, <2>2, <2>3, Combine DEF Refused
<1>8. ASSUME NEW w \in Workers, Finish(w) PROVE IInv'
  <2>1. PICK s \in {"idle", "reroute"} : Release(w, s)
    BY <1>8 DEF Finish
  <2>2. SlotInvNext
    BY <1>0, <1>8, <2>1, ReleaseKeeps DEF Finish, Holding
  <2>3. \A v \in Workers \ {w} : pc'[v] = pc[v] \/ pc'[v] = "granted"
    BY <1>0, <2>1 DEF Release
  <2>4. BudgetsHeld' /\ embedded' \in SUBSET Workers
    BY <1>0, <1>8, <2>3, CeilingKeeps DEF Finish
  <2> QED BY <1>0, <1>8, <2>2, <2>4, Combine DEF Finish
<1>9. ASSUME NEW w \in Workers, Abort(w) PROVE IInv'
  <2>1. SlotInvNext
    BY <1>0, <1>9, AbortKeeps
  <2>2. BudgetsHeld' /\ embedded' \in SUBSET Workers
    BY <1>0, <1>9, CeilingKeeps DEF Abort, BudgetsHeld
  <2>3. aborted' \in [Workers -> BOOLEAN]
    BY <1>0, <1>9 DEF Abort
  <2> QED BY <1>0, <1>9, <2>1, <2>2, <2>3, Combine DEF Abort
<1>10. ASSUME NEW w \in Workers, NewSignal(w) PROVE IInv'
  <2>1. aborted' \in [Workers -> BOOLEAN] /\ UNCHANGED <<current, queue, pc, embedded, parent>>
    BY <1>0, <1>10 DEF NewSignal
  <2>2. Holders' = Holders /\ NestedHeld' = NestedHeld
    BY <2>1 DEF Holders, Holding, NestedHeld
  <2>3. QueueSound'
    BY <1>0, <1>10, <2>1 DEF NewSignal, QueueSound, SlotInv
  <2>4. SlotAccounting' /\ BudgetsHeld' /\ TypeOK'
    BY <1>0, <2>1, <2>2 DEF SlotInv, SlotAccounting, BudgetsHeld, TypeOK
  <2> QED BY <2>3, <2>4 DEF SlotInv
<1>11. ASSUME NEW p \in Workers \cup Grandchildren, NEW g \in Grandchildren,
              Delegate(p, g)
       PROVE  IInv'
  <2>1. NestedHeld' = NestedHeld \cup {g} /\ g \notin NestedHeld
    BY <1>0, <1>11, SlotsAssumption DEF Delegate, NestedHeld, TypeOK
  <2>2. Cardinality(NestedHeld \cup {g}) = Cardinality(NestedHeld) + 1
    BY <2>1, NestedFinite, FS_AddElement
  <2>3. BudgetsHeld' /\ TypeOK'
    BY <1>0, <1>11, <2>1, <2>2, NestedFinite, SlotsAssumption
       DEF Delegate, BudgetsHeld, TypeOK
  <2>4. Holders' = Holders
    BY <1>11 DEF Delegate, Holders, Holding
  <2>5. SlotAccounting' /\ QueueSound'
    BY <1>0, <1>11, <2>4 DEF Delegate, SlotInv, SlotAccounting, QueueSound
  <2> QED BY <2>3, <2>5 DEF SlotInv
<1>12. ASSUME NEW g \in Grandchildren, FinishGrandchild(g) PROVE IInv'
  <2>1. NestedHeld' = NestedHeld \ {g}
    BY <1>0, <1>12 DEF FinishGrandchild, NestedHeld, TypeOK
  <2>2. Cardinality(NestedHeld \ {g}) <= Cardinality(NestedHeld)
        /\ Cardinality(NestedHeld \ {g}) \in Nat
    BY NestedFinite, RemoveBound
  <2>3. BudgetsHeld' /\ TypeOK'
    BY <1>0, <1>12, <2>1, <2>2, NestedFinite, SlotsAssumption
       DEF FinishGrandchild, BudgetsHeld, TypeOK
  <2>4. Holders' = Holders
    BY <1>12 DEF FinishGrandchild, Holders, Holding
  <2>5. SlotAccounting' /\ QueueSound'
    BY <1>0, <1>12, <2>4 DEF FinishGrandchild, SlotInv, SlotAccounting, QueueSound
  <2> QED BY <2>3, <2>5 DEF SlotInv
<1>13. CASE UNCHANGED vars
  BY <1>13, <1>0 DEF vars, SlotInv, TypeOK, SlotAccounting, QueueSound, BudgetsHeld,
                     Holders, Holding, NestedHeld
<1> QED
  BY <1>1, <1>2, <1>3, <1>4, <1>5, <1>6, <1>7, <1>8, <1>9, <1>10, <1>11, <1>12, <1>13
     DEF Next, WorkerStep

-----------------------------------------------------------------------------
(* Theorems *)

\* Type correctness of the semaphore, the ceiling and the budget.
THEOREM TypeCorrect == Spec => []TypeOK
<1>1. IInv => TypeOK
  BY DEF IInv, SlotInv
<1> QED
  BY InitIInv, NextIInv, <1>1, PTL DEF Spec

\* Semaphore.acquire/release and the abort listener, for any number of slots
\* and waiters: #current is exactly the number of attempts owning a slot.
THEOREM SlotsCounted == Spec => []SlotAccounting
<1>1. IInv => SlotAccounting
  BY DEF IInv, SlotInv
<1> QED
  BY InitIInv, NextIInv, <1>1, PTL DEF Spec

\* The waiter queue is duplicate-free, holds exactly the live waiters, and is
\* empty whenever a slot is free.
THEOREM QueueAlwaysSound == Spec => []QueueSound
<1>1. IInv => QueueSound
  BY DEF IInv, SlotInv
<1> QED
  BY InitIInv, NextIInv, <1>1, PTL DEF Spec

\* The embedded ceiling and the nested budget are never exceeded and an embedded
\* entry is never left behind by an attempt that ended.
THEOREM BudgetsAlwaysHeld == Spec => []BudgetsHeld
<1>1. IInv => BudgetsHeld
  BY DEF IInv
<1> QED
  BY InitIInv, NextIInv, <1>1, PTL DEF Spec

\* All three together, the invariant the runs check.
THEOREM PoolsAlwaysSound == Spec => []PoolsSound
  BY SlotsCounted, QueueAlwaysSound, BudgetsAlwaysHeld, PTL DEF PoolsSound

-----------------------------------------------------------------------------
(* Refinement of SlotPool *)

Waiting == {w \in Workers : pc[w] = "queued"}

LEMMA SameCardinality == Pool!Cardinality(Holders) = Cardinality(Holders)
  BY DEF Pool!Cardinality, Cardinality

\* acquire() is the pool's Enter or Wait, or changes neither set.
LEMMA AcquireRefines ==
  ASSUME IInv, NEW w \in Workers, pc[w] \in {"idle", "reroute"}, Acquire(w)
  PROVE  [Pool!Next]_<<Holders, Waiting>>
<1>0. /\ pc \in [Workers -> Stage] /\ queue \in Seq(Workers)
      /\ current = Cardinality(Holders) /\ current <= MaxSlots
      /\ current \in Nat /\ MaxSlots \in Nat
      /\ w \notin Holders \cup Waiting
  BY SlotsAssumption DEF IInv, SlotInv, TypeOK, SlotAccounting, Holders, Holding, Waiting
<1>1. CASE pc' = [pc EXCEPT ![w] = "refused"]
  <2>1. Holders' = Holders /\ Waiting' = Waiting
    BY <1>0, <1>1 DEF Holders, Holding, Waiting
  <2> QED BY <2>1
<1>2. CASE current < MaxSlots /\ pc' = [pc EXCEPT ![w] = "granted"]
  <2>1. Waiting = {}
    BY <1>0, <1>2 DEF IInv, SlotInv, QueueSound, Waiting
  <2>2. Holders' = Holders \cup {w} /\ Waiting' = Waiting
    BY <1>0, <1>2 DEF Holders, Holding, Waiting
  <2>3. Pool!Enter(w)
    BY <1>0, <1>2, <2>1, <2>2, SameCardinality DEF Pool!Enter, Waiting
  <2> QED BY <2>3 DEF Pool!Next
<1>3. CASE current >= MaxSlots /\ pc' = [pc EXCEPT ![w] = "queued"]
  <2>1. Holders' = Holders /\ Waiting' = Waiting \cup {w}
    BY <1>0, <1>3 DEF Holders, Holding, Waiting
  <2>2. Pool!Wait(w)
    BY <1>0, <1>3, <2>1, SameCardinality DEF Pool!Wait, Waiting
  <2> QED BY <2>2 DEF Pool!Next
<1> QED
  BY <1>1, <1>2, <1>3 DEF Acquire

\* release() is the pool's Leave or Handoff.
LEMMA ReleaseRefines ==
  ASSUME IInv, NEW w \in Workers, Holding(w),
         NEW next \in {"idle", "reroute"}, Release(w, next)
  PROVE  [Pool!Next]_<<Holders, Waiting>>
<1>0. /\ pc \in [Workers -> Stage] /\ queue \in Seq(Workers) /\ w \in Holders
      /\ Len(queue) \in Nat
  BY LenProperties DEF IInv, SlotInv, TypeOK, Holders
<1>1. CASE queue = << >> /\ pc' = [pc EXCEPT ![w] = next]
  <2>1. Waiting = {}
    BY <1>0, <1>1 DEF IInv, SlotInv, QueueSound, Waiting
  <2>2. Holders' = Holders \ {w} /\ Waiting' = Waiting
    BY <1>0, <1>1 DEF Holders, Holding, Waiting
  <2>3. Pool!Leave(w)
    BY <1>0, <2>1, <2>2 DEF Pool!Leave, Waiting
  <2> QED BY <2>3 DEF Pool!Next
<1>2. CASE /\ queue # << >>
           /\ pc' = [pc EXCEPT ![w] = next, ![Head(queue)] = "granted"]
  <2>1. /\ Head(queue) \in Workers /\ pc[Head(queue)] = "queued"
    <3>1. Head(queue) = queue[1] /\ 1 \in 1 .. Len(queue) /\ Head(queue) \in Workers
      BY <1>0, <1>2, HeadTailProperties
    <3> QED BY <3>1 DEF IInv, SlotInv, QueueSound
  <2>2. PICK h \in Workers : h = Head(queue)
    BY <2>1
  <2>3. /\ Holders' = (Holders \ {w}) \cup {h}
        /\ Waiting' = Waiting \ {h}
        /\ h \in Waiting
    BY <1>0, <1>2, <2>1, <2>2 DEF Holders, Holding, Waiting
  <2>4. Pool!Handoff(w, h)
    BY <1>0, <2>3 DEF Pool!Handoff, Waiting
  <2> QED BY <2>4, <2>2 DEF Pool!Next
<1> QED
  BY <1>1, <1>2 DEF Release

LEMMA StepRefines == IInv /\ [Next]_vars => [Pool!Next]_(Pool!poolVars)
<1> SUFFICES ASSUME IInv, [Next]_vars PROVE [Pool!Next]_<<Holders, Waiting>>
  BY DEF Pool!poolVars, Waiting
<1>0. pc \in [Workers -> Stage]
  BY DEF IInv, SlotInv, TypeOK
<1>1. ASSUME NEW w \in Workers,
             StartSubprocess(w) \/ StartEmbedded(w) \/ Reroute(w)
      PROVE  [Pool!Next]_<<Holders, Waiting>>
  BY <1>1, AcquireRefines DEF StartSubprocess, StartEmbedded, Reroute
<1>2. ASSUME NEW w \in Workers, AbortedBeforeSpawn(w) \/ Finish(w)
      PROVE  [Pool!Next]_<<Holders, Waiting>>
  BY <1>2, ReleaseRefines DEF AbortedBeforeSpawn, Finish, Holding
<1>3. ASSUME NEW w \in Workers, CeilingExhausted(w) \/ Spawn(w) \/ Refused(w)
      PROVE  [Pool!Next]_<<Holders, Waiting>>
  <2>1. Holders' = Holders /\ Waiting' = Waiting
    BY <1>0, <1>3 DEF CeilingExhausted, Spawn, Refused, Holders, Holding, Waiting
  <2> QED BY <2>1
<1>4. ASSUME NEW w \in Workers, Abort(w)
      PROVE  [Pool!Next]_<<Holders, Waiting>>
  <2>1. CASE pc[w] = "queued"
    <3>1. Holders' = Holders /\ Waiting' = Waiting \ {w} /\ w \in Waiting
      BY <1>0, <1>4, <2>1 DEF Abort, Holders, Holding, Waiting
    <3>2. Pool!GiveUp(w)
      BY <3>1 DEF Pool!GiveUp, Waiting
    <3> QED BY <3>2 DEF Pool!Next
  <2>2. CASE pc[w] # "queued"
    BY <1>4, <2>2 DEF Abort, Holders, Holding, Waiting
  <2> QED BY <2>1, <2>2
<1>5. ASSUME UNCHANGED pc
      PROVE  [Pool!Next]_<<Holders, Waiting>>
  BY <1>5 DEF Holders, Holding, Waiting
<1> QED
  BY <1>1, <1>2, <1>3, <1>4, <1>5
     DEF Next, WorkerStep, NewSignal, Delegate, FinishGrandchild, vars

\* The FIFO semaphore with abortable waiters implements a counting semaphore:
\* bounded, and never idle while somebody waits.
THEOREM SemaphoreImplementsPool == Spec => PoolSpec
<1>1. Init => Pool!Init
  BY DEF Init, Pool!Init, Holders, Holding
<1> QED
  BY <1>1, InitIInv, NextIInv, StepRefines, PTL DEF Spec, PoolSpec, Pool!Spec

-----------------------------------------------------------------------------
(* The abort and the handoff *)

\* An attempt whose signal fired before it owned a slot never comes to own one:
\* the queue only ever hands a slot to a waiter whose signal has not fired.
THEOREM NoSlotAfterAbort == Spec => AbortedNeverAdmitted
<1>1. ASSUME IInv, [Next]_vars, NEW w \in Workers, aborted[w], ~Holding(w)
      PROVE  ~Holding(w)'
  <2>0. pc \in [Workers -> Stage] /\ queue \in Seq(Workers)
    BY <1>1 DEF IInv, SlotInv, TypeOK
  <2>1. queue # << >> => Head(queue) \in Workers /\ ~aborted[Head(queue)]
    <3> SUFFICES ASSUME queue # << >>
                 PROVE  Head(queue) \in Workers /\ ~aborted[Head(queue)]
      OBVIOUS
    <3>1. Head(queue) = queue[1] /\ 1 \in 1 .. Len(queue) /\ Head(queue) \in Workers
      BY <2>0, HeadTailProperties, LenProperties
    <3> QED BY <3>1, <1>1 DEF IInv, SlotInv, QueueSound
  <2>2. ASSUME NEW v \in Workers, NEW s \in {"idle", "reroute"}, Release(v, s)
        PROVE  ~Holding(w)'
    BY <2>0, <2>1, <2>2, <1>1 DEF Release, Holding
  <2>3. ASSUME NEW v \in Workers, Acquire(v)
        PROVE  ~Holding(w)'
    BY <2>0, <2>3, <1>1 DEF Acquire, Holding
  <2>4. ASSUME NEW v \in Workers,
               CeilingExhausted(v) \/ Spawn(v) \/ Refused(v) \/ Abort(v)
        PROVE  ~Holding(w)'
    BY <2>0, <2>4, <1>1 DEF CeilingExhausted, Spawn, Refused, Abort, Holding
  <2>5. ASSUME UNCHANGED pc
        PROVE  ~Holding(w)'
    BY <2>5, <1>1 DEF Holding
  <2> QED
    BY <1>1, <2>2, <2>3, <2>4, <2>5
       DEF Next, WorkerStep, StartSubprocess, StartEmbedded, Reroute, Finish,
           AbortedBeforeSpawn, NewSignal, Delegate, FinishGrandchild, vars
<1>2. IInv /\ [Next]_vars =>
        [\A w \in Workers : aborted[w] /\ ~Holding(w) => ~Holding(w)']_vars
  BY <1>1
<1> QED
  BY <1>2, InitIInv, NextIInv, PTL DEF Spec, AbortedNeverAdmitted

-----------------------------------------------------------------------------
(* The order of the queue *)

\* Whoever comes to hold a slot by w's acquire found nobody in the queue, ...
LEMMA AcquireInOrder ==
  ASSUME SlotInv, NEW w \in Workers, Acquire(w), ~Holding(w), Holding(w)'
  PROVE  queue = << >>
<1>1. pc'[w] \in {"granted", "running"}
  BY DEF Holding
<1>2. current < MaxSlots
  BY <1>1 DEF Acquire, SlotInv, TypeOK
<1> QED BY <1>2, SlotsAssumption DEF SlotInv, TypeOK, QueueSound

\* ... and by a release it is the head of the queue that does.
LEMMA ReleaseInOrder ==
  ASSUME SlotInv, NEW w \in Workers, NEW next \in Stage, next \notin {"granted", "running"},
         Release(w, next), NEW v \in Workers, ~Holding(v), Holding(v)'
  PROVE  queue # << >> /\ v = queue[1]
<1>1. CASE queue = << >>
  <2>1. pc' = [pc EXCEPT ![w] = next]
    BY <1>1 DEF Release
  <2> QED BY <2>1 DEF Holding, SlotInv, TypeOK
<1>2. CASE queue # << >>
  <2>1. pc' = [pc EXCEPT ![w] = next, ![Head(queue)] = "granted"]
    BY <1>2 DEF Release
  <2>2. Head(queue) = queue[1] /\ queue[1] \in Workers
    BY <1>2 DEF SlotInv, TypeOK
  <2>3. pc \in [Workers -> Stage]
    BY DEF SlotInv, TypeOK
  <2>4. v # queue[1] => pc'[v] \in {next, pc[v]}
    BY <2>1, <2>2, <2>3
  <2> QED BY <1>2, <2>4 DEF Holding
<1> QED BY <1>1, <1>2

\* First come, first served: a slot is taken when nobody waits, or by the head.
THEOREM NobodyOvertakes == Spec => NoOvertaking
<1> DEFINE InOrder ==
      \A w \in Workers :
        ~Holding(w) /\ Holding(w)' =>
          \A i \in 1 .. Len(queue) :
            queue[i] = w \/ pc'[queue[i]] # "queued" \/ \E j \in 1 .. i - 1 : queue[j] = w
<1>1. IInv /\ [Next]_vars => [InOrder]_vars
  <2> SUFFICES ASSUME IInv, Next, NEW w \in Workers, ~Holding(w), Holding(w)',
                      NEW i \in 1 .. Len(queue)
               PROVE  queue[i] = w \/ \E j \in 1 .. i - 1 : queue[j] = w
    OBVIOUS
  <2>0. SlotInv /\ pc \in [Workers -> Stage] /\ Len(queue) \in Nat /\ {"idle", "reroute"} \subseteq Stage
    BY DEF IInv, SlotInv, TypeOK, Stage
  <2>1. ASSUME NEW v \in Workers, Acquire(v) PROVE queue = << >>
    <3>1. v = w
      BY <2>0, <2>1 DEF Acquire, Holding
    <3> QED BY <2>0, <2>1, <3>1, AcquireInOrder
  <2>2. ASSUME NEW v \in Workers, NEW next \in {"idle", "reroute"}, Release(v, next)
        PROVE  queue[1] = w
    BY <2>0, <2>2, ReleaseInOrder
  <2>3. ASSUME NEW v \in Workers,
               StartSubprocess(v) \/ StartEmbedded(v) \/ Reroute(v)
        PROVE  queue = << >>
    BY <2>1, <2>3 DEF StartSubprocess, StartEmbedded, Reroute
  <2>4. ASSUME NEW v \in Workers, AbortedBeforeSpawn(v) \/ Finish(v)
        PROVE  queue[1] = w
    BY <2>2, <2>4 DEF AbortedBeforeSpawn, Finish
  <2>5. ASSUME NEW v \in Workers,
               CeilingExhausted(v) \/ Spawn(v) \/ Refused(v) \/ Abort(v) \/ NewSignal(v)
        PROVE  FALSE
    BY <2>0, <2>5 DEF CeilingExhausted, Spawn, Refused, Abort, NewSignal, Holding
  <2>6. ASSUME NEW p, NEW g \in Grandchildren, Delegate(p, g) \/ FinishGrandchild(g)
        PROVE  FALSE
    BY <2>6 DEF Delegate, FinishGrandchild, Holding
  <2>7. queue = << >> \/ queue[1] = w
    BY <2>3, <2>4, <2>5, <2>6 DEF Next, WorkerStep
  <2> QED BY <2>0, <2>7
<1> QED BY InitIInv, NextIInv, <1>1, PTL DEF Spec, NoOvertaking
=============================================================================
