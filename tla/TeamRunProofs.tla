---------------------------- MODULE TeamRunProofs ----------------------------
(*************************************************************************)
(* For every set of tasks, every number of slots, every graph and every  *)
(* setting of the run:                                                   *)
(*   - the loop knows all of its units, and none is left when            *)
(*     executeTeamRun returns (UnitsAllSettled);                         *)
(*   - the state stays in its domains (TeamRunTyped);                    *)
(*   - work starts and goes on only behind finished dependencies and     *)
(*     waves (WavesKept);                                                *)
(*   - a completed run has no task left to do (CompletedSettled);        *)
(*   - what was dispatched is not skipped by an abort (DispatchedKept);  *)
(*   - verdicts stay when nobody interferes (VerdictsKept);              *)
(*   - the run ends in a terminal status (EndsTerminal).                 *)
(* Each has a layer of invariant of its own, on top of those before it.  *)
(*************************************************************************)
EXTENDS TeamRun, FiniteSetTheorems, WellFoundedInduction, TLAPS

\* Every unit is a record with the fields of Unit (their values do not matter).
UnitShape ==
  /\ unit = [t \in Tasks |-> unit[t]]
  /\ \A t \in Tasks :
       unit[t] = [stage |-> unit[t].stage, attempt |-> unit[t].attempt, run |-> unit[t].run,
                  snap |-> unit[t].snap, verdict |-> unit[t].verdict, carry |-> unit[t].carry]

\* pendingUnits is the set of the units there are.
UnitsKnown == pending \subseteq Tasks /\ \A t \in Tasks : t \in pending <=> unit[t].stage # "none"

\* No way leads out of the loop but through the drain of its finally block.
OutOfLoop ==
  /\ pc \in {"done", "caught", "setCaught"} => pending = {}
  /\ pc = "save" => next \in {"setCancelled", "setBlocked", "setFailed", "setCaught",
                              "checkManifest", "writeManifest"}
  /\ pc = "save" /\ next = "setCaught" => pending = {}
  /\ pc = "drain" => next \in {"done", "caught"}

IInv == UnitShape /\ UnitsKnown /\ OutOfLoop

\* No unit yet, and the runner is at the top of its loop.
LEMMA InitIInv == Init => IInv
BY DEF Init, IInv, UnitShape, UnitsKnown, OutOfLoop, NoUnit

\* Replacing a unit by another one, while the runner stands still.
LEMMA UnitReplaced ==
  ASSUME IInv, NEW t \in Tasks, NEW u, unit' = [unit EXCEPT ![t] = u],
         unit[t].stage # "none", u.stage # "none",
         u = [stage |-> u.stage, attempt |-> u.attempt, run |-> u.run,
              snap |-> u.snap, verdict |-> u.verdict, carry |-> u.carry],
         UNCHANGED <<pc, next, pending>>
  PROVE  IInv'
<1> USE DEF IInv, UnitShape, UnitsKnown, OutOfLoop
<1>1. /\ unit'[t] = u
      /\ \A s \in Tasks \ {t} : unit'[s] = unit[s]
      /\ unit' = [s \in Tasks |-> unit'[s]]
  OBVIOUS
<1>2. UnitShape'
  BY <1>1
<1>3. UnitsKnown'
  BY <1>1
<1>4. OutOfLoop'
  OBVIOUS
<1> QED BY <1>2, <1>3, <1>4

\* A step of a unit never takes it back to no unit at all.
LEMMA UnitKeeps ==
  ASSUME IInv, NEW t \in Tasks, UnitStep(t) \/ Heartbeat(t)
  PROVE  IInv'
<1> USE DEF IInv, UnitShape, UnitsKnown, OutOfLoop, runner
<1>1. CASE Heartbeat(t)
  BY <1>1 DEF Heartbeat
<1>2. CASE Prepare(t)
  <2>1. /\ UNCHANGED <<pc, next, pending>>
        /\ \E u \in {Settled(unit[t].run, [unit[t].snap EXCEPT ![t] = "cancelled"]),
                    [unit[t] EXCEPT !.stage = "running", !.snap = NoUnit.snap]} :
             unit' = [unit EXCEPT ![t] = u]
    <3>1. UNCHANGED <<pc, next, pending>>
      BY <1>2 DEF Prepare
    <3>2. CASE unit' = [unit EXCEPT ![t] =
                 Settled(@.run, [@.snap EXCEPT ![t] = "cancelled"])]
      BY <3>1, <3>2
    <3>3. CASE unit' = [unit EXCEPT ![t].stage = "running", ![t].snap = NoUnit.snap]
      BY <3>1, <3>3
    <3> QED BY <1>2, <3>1, <3>2, <3>3 DEF Prepare
  <2>2. PICK u : /\ unit' = [unit EXCEPT ![t] = u]
                 /\ u \in {Settled(unit[t].run, [unit[t].snap EXCEPT ![t] = "cancelled"]),
                          [unit[t] EXCEPT !.stage = "running", !.snap = NoUnit.snap]}
    BY <2>1
  <2>3. u.stage # "none"
        /\ u = [stage |-> u.stage, attempt |-> u.attempt, run |-> u.run,
                snap |-> u.snap, verdict |-> u.verdict, carry |-> u.carry]
    BY <2>2 DEF Settled, NoUnit
  <2>4. unit[t].stage = "prepare"
    BY <1>2 DEF Prepare
  <2>5. UNCHANGED <<pc, next, pending>>
    BY <2>1
  <2>6. unit' = [unit EXCEPT ![t] = u]
    BY <2>2
  <2> HIDE DEF IInv
  <2> QED BY <2>3, <2>4, <2>5, <2>6, UnitReplaced
<1>3. ASSUME NEW v \in setting.verdicts, Finish(t, v) PROVE IInv'
  <2> DEFINE u == [unit[t] EXCEPT !.stage = "persist", !.verdict = v,
                                 !.carry = Preserve(diskRun, unit[t].run)]
  <2>1. unit[t].stage = "running" /\ UNCHANGED <<pc, next, pending>>
    BY <1>3 DEF Finish
  <2>2. unit' = [unit EXCEPT ![t] = u]
    BY <1>3 DEF Finish
  <2>3. u.stage # "none"
        /\ u = [stage |-> u.stage, attempt |-> u.attempt, run |-> u.run,
                snap |-> u.snap, verdict |-> u.verdict, carry |-> u.carry]
    <3> DEFINE r == unit[t]
    <3>1. r = [stage |-> r.stage, attempt |-> r.attempt, run |-> r.run,
               snap |-> r.snap, verdict |-> r.verdict, carry |-> r.carry]
      OBVIOUS
    <3>2. u = [stage |-> "persist", attempt |-> r.attempt, run |-> r.run, snap |-> r.snap,
               verdict |-> v, carry |-> Preserve(diskRun, r.run)]
      <4> HIDE DEF r, IInv
      <4>1. u = [r EXCEPT !.stage = "persist", !.verdict = v, !.carry = Preserve(diskRun, r.run)]
        BY DEF r
      <4> HIDE DEF u
      <4> QED BY <3>1, <4>1
    <3> HIDE DEF r, u
    <3> QED BY <3>2
  <2> HIDE DEF IInv, u
  <2> QED BY <2>1, <2>2, <2>3, UnitReplaced
<1>4. CASE PersistVerdict(t)
  <2> DEFINE tasks == [diskTask EXCEPT ![t] = PersistOwn(@, unit[t].verdict)]
  <2>1. PICK u : /\ unit' = [unit EXCEPT ![t] = u]
                 /\ u \in {AfterFailure(t, tasks), Settled(unit[t].run, tasks)}
    BY <1>4 DEF PersistVerdict
  <2>2. u.stage # "none"
        /\ u = [stage |-> u.stage, attempt |-> u.attempt, run |-> u.run,
                snap |-> u.snap, verdict |-> u.verdict, carry |-> u.carry]
    BY <2>1 DEF AfterFailure, Settled, NoUnit
  <2> QED BY <1>4, <2>1, <2>2 DEF PersistVerdict
<1>5. CASE Retry(t)
  BY <1>5 DEF Retry, BeginAttempt, Settled, NoUnit
<1>6. CASE GiveUp(t)
  BY <1>6 DEF GiveUp, Settled, NoUnit
<1> QED BY <1>1, <1>2, <1>3, <1>4, <1>5, <1>6 DEF UnitStep

\* The units a batch starts are the ones that join pendingUnits.
LEMMA SelectKeeps == ASSUME IInv, Select PROVE IInv'
<1> USE DEF IInv, UnitShape, UnitsKnown, OutOfLoop
<1>1. CASE UNCHANGED <<pending, unit>> /\ GotoVia("save", "setBlocked")
  BY <1>1 DEF GotoVia
<1>2. ASSUME NEW start \in SUBSET Tasks,
             pending' = pending \cup start,
             unit' = [t \in Tasks |-> IF t \in start THEN BeginAttempt(t, 1) ELSE unit[t]],
             Goto(IF pending' = {} THEN "top" ELSE "wait")
      PROVE  IInv'
  BY <1>2 DEF Goto, BeginAttempt, Settled, NoUnit
<1>3. \/ UNCHANGED <<pending, unit>> /\ GotoVia("save", "setBlocked")
      \/ \E start \in SUBSET Tasks :
           /\ pending' = pending \cup start
           /\ unit' = [t \in Tasks |-> IF t \in start THEN BeginAttempt(t, 1) ELSE unit[t]]
           /\ Goto(IF pending' = {} THEN "top" ELSE "wait")
  BY DEF Select, Ready, kSubset
<1> QED BY <1>1, <1>2, <1>3

\* The other steps of the runner end units or only move it.
LEMMA RunnerKeeps == ASSUME IInv, RunnerStep PROVE IInv'
<1> USE DEF IInv, UnitShape, UnitsKnown, OutOfLoop, Goto, GotoVia, Drain
<1>1. CASE Top
  BY <1>1 DEF Top
<1>2. CASE Select
  BY <1>2, SelectKeeps
<1>3. ASSUME NEW t \in Tasks, Merge(t) PROVE IInv'
  BY <1>3 DEF Merge, NoUnit
<1>4. CASE Post \/ Save \/ CheckManifest \/ WriteManifest
  BY <1>4 DEF Post, Save, CheckManifest, WriteManifest
<1>5. CASE SetCancelled \/ SetBlocked \/ SetFailed
  BY <1>5 DEF SetCancelled, SetBlocked, SetFailed, SetStatus
<1>6. CASE Settle
  BY <1>6 DEF Settle, NoUnit
<1>7. CASE Finalize \/ Closeout
  BY <1>7 DEF Finalize, Closeout
<1>8. CASE Drained
  BY <1>8 DEF Drained, NoUnit
<1>9. CASE Caught \/ SetCaught
  BY <1>9 DEF Caught, SetCaught
<1> QED BY <1>1, <1>2, <1>3, <1>4, <1>5, <1>6, <1>7, <1>8, <1>9 DEF RunnerStep

LEMMA NextIInv == IInv /\ [Next]_vars => IInv'
<1> SUFFICES ASSUME IInv, [Next]_vars PROVE IInv'
  OBVIOUS
<1>1. CASE Cancel \/ Abort \/ UNCHANGED vars
  BY <1>1 DEF Cancel, Abort, vars, runner, IInv, UnitShape, UnitsKnown, OutOfLoop
<1> QED BY <1>1, UnitKeeps, RunnerKeeps DEF Next

-----------------------------------------------------------------------------
(* Theorem *)

\* executeTeamRun's finally block: the loop forgets no unit, and the run does
\* not return before the last worker has settled, on any path.
THEOREM UnitsAllSettled == Spec => []NoUnitOutlivesRun
<1>1. IInv => NoUnitOutlivesRun
  BY DEF IInv, UnitsKnown, OutOfLoop, NoUnitOutlivesRun
<1> QED BY InitIInv, NextIInv, <1>1, PTL DEF Spec
-----------------------------------------------------------------------------
(* Induction over an initial segment of the numbers, and functions defined by *)
(* recursion over one.                                                         *)

\* A set of numbers that is not empty has a least one.
LEMMA LeastOfBounded ==
  ASSUME NEW n \in Nat, NEW T, T \subseteq 0 .. n, T # {}
  PROVE  \E m \in T : \A k \in T : ~(k < m)
<1> DEFINE Below(x) == {z \in T : z < x}
           G == {Below(x) : x \in T}
<1>1. G \subseteq FiniteSubsetsOf(T) /\ G # {}
  <2>1. \A x \in T : Below(x) \subseteq T /\ Below(x) \subseteq 0 .. n
    OBVIOUS
  <2>2. IsFiniteSet(0 .. n)
    BY FS_Interval
  <2>3. \A x \in T : IsFiniteSet(Below(x))
    BY <2>1, <2>2, FS_Subset
  <2> QED
    BY <2>1, <2>3 DEF FiniteSubsetsOf
<1>2. PICK g \in G : \A h \in G : ~(<<h, g>> \in StrictSubsetOrdering(T))
  <2>1. IsWellFoundedOn(StrictSubsetOrdering(T), FiniteSubsetsOf(T))
    BY FS_StrictSubsetOrderingWellFounded
  <2> HIDE DEF G
  <2> QED
    BY <1>1, <2>1, WFMin
<1>3. PICK m \in T : g = Below(m)
  OBVIOUS
<1>4. ASSUME NEW k \in T, k < m PROVE FALSE
  <2>1. \A z \in T : z \in Nat
    OBVIOUS
  <2>2. Below(k) \subseteq Below(m) /\ k \in Below(m) /\ k \notin Below(k)
    <3>1. k \in Nat /\ m \in Nat /\ ~(k < k)
      BY <2>1
    <3>2. ASSUME NEW z \in T, z < k PROVE z < m
      BY <1>4, <2>1, <3>1, <3>2
    <3> QED
      BY <1>4, <3>1, <3>2
  <2>3. Below(k) \in G /\ Below(k) \in SUBSET T /\ Below(m) \in SUBSET T
    OBVIOUS
  <2> QED
    BY <1>2, <1>3, <2>2, <2>3 DEF StrictSubsetOrdering
<1> QED
  BY <1>4

\* What holds at 0 and passes from each number to the next holds up to n.
LEMMA UpTo ==
  ASSUME NEW n \in Nat, NEW P, 0 \in P, \A k \in 1 .. n : k - 1 \in P => k \in P
  PROVE  0 .. n \subseteq P
<1> DEFINE Bad == {k \in 0 .. n : k \notin P}
<1>1. SUFFICES ASSUME Bad # {} PROVE FALSE
  OBVIOUS
<1>2. PICK m \in Bad : \A k \in Bad : ~(k < m)
  <2>1. Bad \subseteq 0 .. n
    OBVIOUS
  <2> HIDE DEF Bad
  <2> QED
    BY <1>1, <2>1, LeastOfBounded
<1>3. m \in 1 .. n /\ m - 1 \in 0 .. n /\ m - 1 < m
  OBVIOUS
<1>4. m - 1 \notin Bad
  BY <1>2, <1>3
<1>5. m - 1 \in P
  BY <1>3, <1>4
<1> QED
  BY <1>3, <1>5

\* There is a function f with f[0] = b and f[k] = step[k][f[k - 1]].
LEMMA Recursion ==
  ASSUME NEW n \in Nat, NEW X, NEW b \in X, NEW step \in [1 .. n -> [X -> X]]
  PROVE  \E f \in [0 .. n -> X] :
           f[0] = b /\ \A k \in 1 .. n : f[k] = step[k][f[k - 1]]
<1> DEFINE Up(m) == \E f \in [0 .. m -> X] :
                      f[0] = b /\ \A k \in 1 .. m : f[k] = step[k][f[k - 1]]
           P == {m \in 0 .. n : Up(m)}
<1>1. 0 \in P
  <2> DEFINE f == [k \in 0 .. 0 |-> b]
  <2>1. f \in [0 .. 0 -> X] /\ f[0] = b /\ 1 .. 0 = {}
    OBVIOUS
  <2>2. Up(0)
    BY <2>1
  <2> QED
    BY <2>2
<1>2. ASSUME NEW m \in 1 .. n, m - 1 \in P PROVE m \in P
  <2>1. PICK f \in [0 .. m - 1 -> X] :
          f[0] = b /\ \A k \in 1 .. m - 1 : f[k] = step[k][f[k - 1]]
    BY <1>2
  <2> DEFINE g == [k \in 0 .. m |-> IF k = m THEN step[m][f[m - 1]] ELSE f[k]]
  <2>2. f[m - 1] \in X /\ step[m][f[m - 1]] \in X
    BY <2>1
  <2>3. g \in [0 .. m -> X]
    <3>1. \A k \in 0 .. m : k # m => k \in 0 .. m - 1
      OBVIOUS
    <3> QED
      BY <2>1, <2>2, <3>1
  <2>4. g[0] = b
    BY <2>1
  <2>5. ASSUME NEW k \in 1 .. m PROVE g[k] = step[k][g[k - 1]]
    <3>1. k - 1 \in 0 .. m /\ k - 1 # m /\ g[k - 1] = f[k - 1]
      OBVIOUS
    <3>2. CASE k = m
      BY <3>1, <3>2
    <3>3. CASE k # m
      <4>1. k \in 1 .. m - 1 /\ g[k] = f[k]
        BY <3>3
      <4> QED
        BY <2>1, <3>1, <4>1
    <3> QED
      BY <3>2, <3>3
  <2>6. Up(m)
    <3> HIDE DEF g
    <3> QED
      BY <2>3, <2>4, <2>5
  <2> HIDE DEF Up
  <2> QED
    BY <2>6
<1>3. 0 .. n \subseteq P
  <2> HIDE DEF P
  <2> QED
    BY <1>1, <1>2, UpTo
<1>4. n \in P
  BY <1>3
<1> QED
  BY <1>4

-----------------------------------------------------------------------------
(* What a merge can make of a task. *)

\* The statuses of tasks in this model: nobody parks one.
AtWork == TaskStatus \ {"waiting"}

BusyUnit == [stage : UnitStage, attempt : Nat, run : RunStatus,
             snap : [Tasks -> AtWork], verdict : AtWork, carry : RunStatus]

\* A unit that backs off has an attempt left.
RetriesLeft == \A t \in Tasks : unit[t].stage = "backoff" => unit[t].attempt < setting.attempts

\* The type invariant with these statuses.
TInv ==
  /\ setting \in Settings
  /\ diskRun \in RunStatus /\ memRun \in RunStatus /\ carry \in RunStatus
  /\ diskTask \in [Tasks -> AtWork] /\ memTask \in [Tasks -> AtWork]
  /\ pc \in RunnerPc /\ next \in RunnerPc
  /\ pending \in SUBSET Tasks /\ dispatched \in SUBSET Tasks
  /\ unit \in [Tasks -> BusyUnit]
  /\ \A t \in Tasks : unit[t].attempt <= setting.attempts
  /\ lock \in {{}} \cup {{t} : t \in Tasks}
  /\ signal \in BOOLEAN /\ stopped \in BOOLEAN
  /\ RetriesLeft

\* A merge takes one of the two statuses.
LEMMA MergeTaskEither ==
  ASSUME NEW cur, NEW upd, NEW own
  PROVE  MergeTask(cur, upd, own) \in {cur, upd}
BY DEF MergeTask

\* mergeTaskUpdatesPreservingTerminal returns a task array.
LEMMA MergeUnitTyped ==
  ASSUME TInv, NEW t \in Tasks, NEW base \in [Tasks -> AtWork]
  PROVE  MergeUnit(base, t) \in [Tasks -> AtWork]
<1>1. \A s \in Tasks : base[s] \in AtWork /\ unit[t].snap[s] \in AtWork
  BY DEF TInv, BusyUnit
<1>2. \A s \in Tasks : MergeTask(base[s], unit[t].snap[s], s = t) \in AtWork
  BY <1>1, MergeTaskEither
<1> QED
  BY <1>2 DEF MergeUnit

\* The results in flight are as many as their order says.
LEMMA PendingCount ==
  ASSUME TInv
  PROVE  IsFiniteSet(pending) /\ Cardinality(pending) \in Nat
<1>1. pending \subseteq Tasks
  BY DEF TInv
<1> QED
  BY <1>1, TeamRunAssumption, FS_Subset, FS_CardinalityType

\* The merge of all results goes from the disk, result by result, to its end.
LEMMA MergeAllSteps ==
  ASSUME TInv, NEW order \in Orders
  PROVE  \E f \in [0 .. Cardinality(pending) -> [Tasks -> AtWork]] :
           /\ f[0] = diskTask /\ f[Cardinality(pending)] = MergeAll(order)
           /\ \A k \in 1 .. Cardinality(pending) :
                order[k] \in pending /\ f[k] = MergeUnit(f[k - 1], order[k])
<1> DEFINE N == Cardinality(pending)
           X == [Tasks -> AtWork]
           step == [k \in 1 .. N |-> [base \in X |-> MergeUnit(base, order[k])]]
           Chain(f) == f = [k \in 0 .. N |-> IF k = 0 THEN diskTask
                                             ELSE MergeUnit(f[k - 1], order[k])]
           merged == CHOOSE f : Chain(f)
<1>1. N \in Nat
  BY PendingCount
<1>2. \A k \in 1 .. N : order[k] \in pending /\ order[k] \in Tasks
  BY DEF Orders, Bijection, Injection, TInv
<1>3. diskTask \in X
  BY DEF TInv
<1>4. step \in [1 .. N -> [X -> X]]
  BY <1>2, MergeUnitTyped
<1>5. PICK f \in [0 .. N -> X] :
        f[0] = diskTask /\ \A k \in 1 .. N : f[k] = step[k][f[k - 1]]
  <2> HIDE DEF N, X, step
  <2>1. \A s \in [1 .. N -> [X -> X]] : \A b \in X :
          \E f \in [0 .. N -> X] : f[0] = b /\ \A k \in 1 .. N : f[k] = s[k][f[k - 1]]
    BY <1>1, Recursion
  <2> QED
    BY <1>3, <1>4, <2>1
<1>6. \A k \in 1 .. N : f[k - 1] \in X /\ f[k] = MergeUnit(f[k - 1], order[k])
  <2>1. \A k \in 1 .. N : k - 1 \in 0 .. N
    BY <1>1
  <2> HIDE DEF N, X
  <2> QED
    BY <1>5, <2>1
<1>7. Chain(f)
  <2>1. \A k \in 0 .. N : f[k] = IF k = 0 THEN diskTask ELSE MergeUnit(f[k - 1], order[k])
    <3>1. \A k \in 0 .. N : k = 0 \/ k \in 1 .. N
      BY <1>1
    <3> QED
      BY <1>5, <1>6, <3>1
  <2> HIDE DEF N, X
  <2> QED
    BY <1>5, <2>1
<1>8. Chain(merged)
  <2> HIDE DEF Chain
  <2> QED
    BY <1>7
<1>9. MergeAll(order) = merged[N]
  BY DEF MergeAll
<1>10. /\ merged[0] = diskTask
       /\ \A k \in 1 .. N : merged[k] = MergeUnit(merged[k - 1], order[k])
  <2> HIDE DEF merged, N
  <2> QED
    BY <1>1, <1>8
<1>11. \A k \in 0 .. N : merged[k] \in X
  <2> HIDE DEF merged
  <2> DEFINE P == {k \in 0 .. N : merged[k] \in X}
  <2>1. 0 \in P
    BY <1>1, <1>3, <1>10
  <2>2. ASSUME NEW k \in 1 .. N, k - 1 \in P PROVE k \in P
    BY <1>2, <1>10, <2>2, MergeUnitTyped
  <2> HIDE DEF P
  <2>3. 0 .. N \subseteq P
    BY <1>1, <2>1, <2>2, UpTo
  <2> QED
    BY <2>3 DEF P
<1>12. merged \in [0 .. N -> X]
  <2> HIDE DEF merged, N, X
  <2> QED
    BY <1>8, <1>11
<1> HIDE DEF merged
<1> QED
  BY <1>2, <1>9, <1>10, <1>12

\* A set of statuses of a task that no single merge leaves, the merge of all
\* results does not leave either.
LEMMA MergeAllIn ==
  ASSUME TInv, NEW order \in Orders, NEW t \in Tasks, NEW S, diskTask[t] \in S,
         \A u \in pending : \A c \in S : MergeTask(c, unit[u].snap[t], t = u) \in S
  PROVE  MergeAll(order)[t] \in S
<1> DEFINE N == Cardinality(pending)
<1>1. PICK f \in [0 .. N -> [Tasks -> AtWork]] :
        /\ f[0] = diskTask /\ f[N] = MergeAll(order)
        /\ \A k \in 1 .. N : order[k] \in pending /\ f[k] = MergeUnit(f[k - 1], order[k])
  BY MergeAllSteps
<1>2. N \in Nat
  BY PendingCount
<1> DEFINE P == {k \in 0 .. N : f[k][t] \in S}
<1>3. 0 \in P
  BY <1>1, <1>2
<1>4. ASSUME NEW k \in 1 .. N, k - 1 \in P PROVE k \in P
  <2>1. order[k] \in pending /\ f[k] = MergeUnit(f[k - 1], order[k])
    BY <1>1
  <2>2. f[k][t] = MergeTask(f[k - 1][t], unit[order[k]].snap[t], t = order[k])
    BY <2>1 DEF MergeUnit
  <2> QED
    BY <1>2, <1>4, <2>1, <2>2
<1> HIDE DEF P, N
<1>5. 0 .. N \subseteq P
  BY <1>2, <1>3, <1>4, UpTo
<1>6. N \in P
  BY <1>2, <1>5
<1> QED
  BY <1>1, <1>6 DEF P

\* The merge of all results is a task array.
LEMMA MergeAllTyped ==
  ASSUME TInv, NEW order \in Orders
  PROVE  MergeAll(order) \in [Tasks -> AtWork]
<1>1. Cardinality(pending) \in 0 .. Cardinality(pending)
  BY PendingCount
<1> QED
  BY <1>1, MergeAllSteps

-----------------------------------------------------------------------------
(* The plan of waves. *)

\* buildExecutionPlan, wave by wave.
LEMMA AssignedSteps ==
  ASSUME setting \in Settings
  PROVE  /\ Assigned \in [0 .. Cardinality(Tasks) -> SUBSET Tasks]
         /\ Assigned[0] = {}
         /\ \A k \in 1 .. Cardinality(Tasks) :
              Assigned[k] = {t \in Tasks \ setting.repeated : setting.deps[t] \subseteq Assigned[k - 1]}
<1> DEFINE N == Cardinality(Tasks)
           X == SUBSET Tasks
           Wave(A) == {t \in Tasks \ setting.repeated : setting.deps[t] \subseteq A}
           step == [k \in 1 .. N |-> [A \in X |-> Wave(A)]]
           Chain(f) == f = [k \in 0 .. N |-> IF k = 0 THEN {} ELSE Wave(f[k - 1])]
<1>1. N \in Nat
  BY TeamRunAssumption, FS_CardinalityType
<1>2. step \in [1 .. N -> [X -> X]]
  OBVIOUS
<1>3. PICK f \in [0 .. N -> X] :
        f[0] = {} /\ \A k \in 1 .. N : f[k] = step[k][f[k - 1]]
  <2>1. {} \in X
    OBVIOUS
  <2> HIDE DEF N, X, step
  <2>2. \A s \in [1 .. N -> [X -> X]] : \A b \in X :
          \E f \in [0 .. N -> X] : f[0] = b /\ \A k \in 1 .. N : f[k] = s[k][f[k - 1]]
    BY <1>1, Recursion
  <2> QED
    BY <1>2, <2>1, <2>2
<1>4. \A k \in 1 .. N : f[k] = Wave(f[k - 1])
  <2>1. \A k \in 1 .. N : k - 1 \in 0 .. N
    BY <1>1
  <2> HIDE DEF N
  <2>2. \A k \in 1 .. N : f[k - 1] \in X
    BY <1>3, <2>1
  <2> HIDE DEF Wave, X
  <2> QED
    BY <1>3, <2>2
<1>5. Chain(f)
  <2>1. \A k \in 0 .. N : f[k] = IF k = 0 THEN {} ELSE Wave(f[k - 1])
    <3>1. \A k \in 0 .. N : k = 0 \/ k \in 1 .. N
      BY <1>1
    <3> HIDE DEF N, X, Wave
    <3> QED
      BY <1>3, <1>4, <3>1
  <2> HIDE DEF N, X, Wave
  <2> QED
    BY <1>3, <2>1
<1>6. Chain(Assigned)
  <2>1. Assigned = CHOOSE g : Chain(g)
    BY DEF Assigned
  <2> HIDE DEF Chain
  <2> QED
    BY <1>5, <2>1
<1>7. Assigned[0] = {} /\ \A k \in 1 .. N : Assigned[k] = Wave(Assigned[k - 1])
  <2>1. 0 \in 0 .. N /\ \A k \in 1 .. N : k \in 0 .. N /\ k # 0
    BY <1>1
  <2> HIDE DEF N, Wave
  <2>2. \A k \in 0 .. N : Assigned[k] = IF k = 0 THEN {} ELSE Wave(Assigned[k - 1])
    BY <1>6
  <2> QED
    BY <2>1, <2>2
<1>8. \A k \in 0 .. N : Assigned[k] \in X
  <2>1. \A k \in 0 .. N : k = 0 \/ k \in 1 .. N
    BY <1>1
  <2> QED
    BY <1>7, <2>1
<1>9. Assigned \in [0 .. N -> X]
  <2> HIDE DEF N, X, Wave
  <2> QED
    BY <1>6, <1>8
<1> QED
  BY <1>7, <1>9

\* With a plan every dependency of a task is in an earlier wave.
LEMMA PlanOrdersDeps ==
  ASSUME setting \in Settings, Planned, NEW t \in Tasks
  PROVE  setting.deps[t] \subseteq Lower(t)
<1> DEFINE N == Cardinality(Tasks)
           T == {k \in 0 .. N : t \in Assigned[k]}
<1>1. N \in Nat
  BY TeamRunAssumption, FS_CardinalityType
<1>2. N \in T
  BY <1>1 DEF Planned, HasCycle
<1>3. PICK m \in T : \A k \in T : ~(k < m)
  <2>1. T \subseteq 0 .. N /\ T # {}
    BY <1>2
  <2> HIDE DEF T
  <2> QED
    BY <1>1, <2>1, LeastOfBounded
<1>4. m \in 1 .. N /\ m - 1 \in 0 .. N /\ m - 1 < m
  <2>1. m # 0
    BY <1>3, AssignedSteps
  <2> QED
    BY <1>1, <1>3, <2>1
<1>5. t \notin Assigned[m - 1]
  BY <1>3, <1>4
<1>6. setting.deps[t] \subseteq Assigned[m - 1]
  <2>1. t \in Assigned[m]
    BY <1>3
  <2>2. Assigned[m] = {s \in Tasks \ setting.repeated : setting.deps[s] \subseteq Assigned[m - 1]}
    BY <1>4, AssignedSteps
  <2> QED
    BY <2>1, <2>2
<1>7. Assigned[m - 1] \subseteq Lower(t)
  BY <1>4, <1>5 DEF Lower
<1> QED
  BY <1>6, <1>7

-----------------------------------------------------------------------------
(* The type invariant. *)

\* What a unit may be: a record of its type that is within its retries.
Bounded(u) ==
  /\ u \in BusyUnit /\ u.attempt <= setting.attempts
  /\ u.stage = "backoff" => u.attempt < setting.attempts

\* What is known of a setting.
LEMMA SettingTyped ==
  ASSUME setting \in Settings
  PROVE  /\ setting.attempts \in Nat \ {0}
         /\ setting.verdicts \subseteq {"completed", "failed", "needs_attention"}
         /\ setting.deps \in [Tasks -> SUBSET Tasks]
BY TeamRunAssumption

\* The guard of a save and a worker's persist take one of the two statuses.
LEMMA PreserveEither ==
  ASSUME NEW d, NEW s
  PROVE  Preserve(d, s) \in {d, s} /\ PersistOwn(d, s) \in {d, s}
BY DEF Preserve, PersistOwn

\* No unit, and a unit that has settled, are units within their retries.
LEMMA SettledTyped ==
  ASSUME TInv, NEW run \in RunStatus, NEW tasks \in [Tasks -> AtWork]
  PROVE  Bounded(NoUnit) /\ Bounded(Settled(run, tasks)) /\ Bounded([NoUnit EXCEPT !.stage = "giveup"])
<1>1. setting.attempts \in Nat
  BY SettingTyped DEF TInv
<1>2. [t \in Tasks |-> "queued"] \in [Tasks -> AtWork] /\ "queued" \in AtWork
      /\ "running" \in RunStatus /\ {"none", "settled", "giveup"} \subseteq UnitStage
  BY DEF TaskStatus, AtWork, RunStatus, UnitStage
<1>3. NoUnit \in BusyUnit /\ NoUnit.attempt = 0 /\ NoUnit.stage = "none"
  BY <1>2 DEF NoUnit, BusyUnit
<1>4. /\ Settled(run, tasks) \in BusyUnit
      /\ Settled(run, tasks).attempt = 0 /\ Settled(run, tasks).stage = "settled"
  BY <1>2 DEF Settled, NoUnit, BusyUnit
<1>5. /\ [NoUnit EXCEPT !.stage = "giveup"] \in BusyUnit
      /\ [NoUnit EXCEPT !.stage = "giveup"].attempt = 0
      /\ [NoUnit EXCEPT !.stage = "giveup"].stage = "giveup"
  BY <1>2 DEF NoUnit, BusyUnit
<1> QED
  BY <1>1, <1>3, <1>4, <1>5 DEF Bounded

\* The head of an attempt makes a unit within its retries.
LEMMA BeginTyped ==
  ASSUME TInv, NEW t \in Tasks, NEW n \in Nat, n <= setting.attempts
  PROVE  Bounded(BeginAttempt(t, n))
<1> DEFINE fresh == IF n > 1 /\ diskRun \notin TerminalRun /\ diskTask[t] = "failed"
                    THEN [diskTask EXCEPT ![t] = "queued"] ELSE diskTask
           u == [NoUnit EXCEPT !.stage = "prepare", !.attempt = n, !.run = diskRun, !.snap = fresh]
<1>1. fresh \in [Tasks -> AtWork] /\ diskRun \in RunStatus
  BY DEF TInv, TaskStatus, AtWork
<1>2. NoUnit \in BusyUnit
  BY <1>1, SettledTyped DEF Bounded
<1>3. Bounded(u)
  <2>1. "prepare" \in UnitStage
    BY DEF UnitStage
  <2> HIDE DEF fresh
  <2>2. u \in BusyUnit
    BY <1>1, <1>2, <2>1 DEF BusyUnit
  <2>3. u.attempt = n /\ u.stage = "prepare"
    BY <1>2 DEF BusyUnit
  <2> HIDE DEF u
  <2> QED
    BY <2>2, <2>3 DEF Bounded
<1>4. BeginAttempt(t, n) \in {[NoUnit EXCEPT !.stage = "giveup"], Settled(diskRun, fresh), u}
  BY DEF BeginAttempt
<1> HIDE DEF u, fresh
<1> QED
  BY <1>1, <1>3, <1>4, SettledTyped

\* Replacing a unit by one within its retries.
LEMMA UnitTyped ==
  ASSUME TInv, NEW t \in Tasks, NEW u, Bounded(u), unit' = [unit EXCEPT ![t] = u],
         UNCHANGED setting
  PROVE  /\ unit' \in [Tasks -> BusyUnit] /\ RetriesLeft'
         /\ \A s \in Tasks : unit'[s].attempt <= setting'.attempts
BY DEF TInv, RetriesLeft, Bounded

\* A step of a unit keeps the types.
LEMMA UnitStepTyped ==
  ASSUME TInv, NEW t \in Tasks, UnitStep(t) \/ Heartbeat(t)
  PROVE  TInv'
<1> DEFINE Same == UNCHANGED <<setting, memRun, memTask, pc, next, carry, pending, dispatched,
                               stopped, signal>>
<1>1. ASSUME Same, diskRun' \in RunStatus, diskTask' \in [Tasks -> AtWork],
             lock' \in {lock, {}, {t}}, NEW u, Bounded(u), unit' = [unit EXCEPT ![t] = u]
      PROVE  TInv'
  <2>1. /\ unit' \in [Tasks -> BusyUnit] /\ RetriesLeft'
        /\ \A s \in Tasks : unit'[s].attempt <= setting'.attempts
    BY <1>1, UnitTyped
  <2> QED
    BY <1>1, <2>1 DEF TInv
<1>2. /\ diskTask \in [Tasks -> AtWork] /\ diskRun \in RunStatus /\ unit[t] \in BusyUnit
      /\ Bounded(unit[t]) /\ unit = [unit EXCEPT ![t] = unit[t]]
  BY DEF TInv, RetriesLeft, Bounded
<1>3. /\ unit[t].snap \in [Tasks -> AtWork] /\ unit[t].run \in RunStatus
      /\ unit[t].carry \in RunStatus /\ unit[t].verdict \in AtWork /\ unit[t].attempt \in Nat
      /\ diskTask[t] \in AtWork
  BY <1>2 DEF BusyUnit
<1>4. \A v \in AtWork : [diskTask EXCEPT ![t] = PersistOwn(@, v)] \in [Tasks -> AtWork]
  BY <1>2, <1>3, PreserveEither
<1>5. "running" \in AtWork /\ "cancelled" \in AtWork /\ "cancelled" \in RunStatus
  BY DEF TaskStatus, AtWork, RunStatus
<1>6. CASE Heartbeat(t)
  <2>1. Same /\ UNCHANGED <<diskRun, unit, lock>>
    BY <1>6 DEF Heartbeat, runner
  <2>2. diskTask' \in [Tasks -> AtWork]
    BY <1>4, <1>5, <1>6 DEF Heartbeat
  <2> QED
    BY <1>1, <1>2, <2>1, <2>2
<1>7. CASE Prepare(t)
  <2>1. Same /\ UNCHANGED <<diskRun, lock>>
    BY <1>7 DEF Prepare, runner
  <2>2. diskTask' \in [Tasks -> AtWork]
    BY <1>2, <1>4, <1>5, <1>7 DEF Prepare
  <2>3. CASE unit' = [unit EXCEPT ![t] =
               Settled(@.run, [@.snap EXCEPT ![t] = "cancelled"])]
    <3>1. [unit[t].snap EXCEPT ![t] = "cancelled"] \in [Tasks -> AtWork]
      BY <1>3, <1>5
    <3>2. Bounded(Settled(unit[t].run, [unit[t].snap EXCEPT ![t] = "cancelled"]))
      BY <1>3, <3>1, SettledTyped
    <3>3. unit' = [unit EXCEPT ![t] = Settled(unit[t].run, [unit[t].snap EXCEPT ![t] = "cancelled"])]
      BY <2>3
    <3> QED
      BY <1>1, <1>2, <2>1, <2>2, <3>2, <3>3
  <2>4. CASE unit' = [unit EXCEPT ![t].stage = "running", ![t].snap = NoUnit.snap]
    <3> DEFINE u == [unit[t] EXCEPT !.stage = "running", !.snap = NoUnit.snap]
    <3>1. NoUnit.snap \in [Tasks -> AtWork]
      BY DEF NoUnit, TaskStatus, AtWork
    <3>2. Bounded(u)
      BY <1>2, <3>1 DEF Bounded, BusyUnit, UnitStage
    <3>3. unit' = [unit EXCEPT ![t] = u]
      BY <2>4
    <3> HIDE DEF u
    <3> QED
      BY <1>1, <1>2, <2>1, <2>2, <3>2, <3>3
  <2> QED
    BY <1>7, <2>3, <2>4 DEF Prepare
<1>8. ASSUME NEW v \in setting.verdicts, Finish(t, v) PROVE TInv'
  <2> DEFINE u == [unit[t] EXCEPT !.stage = "persist", !.verdict = v,
                                 !.carry = Preserve(diskRun, unit[t].run)]
  <2>1. Same /\ UNCHANGED <<diskRun, diskTask>> /\ lock' = {t}
    BY <1>8 DEF Finish, runner, disk
  <2>2. v \in AtWork
    BY SettingTyped DEF TInv, TaskStatus, AtWork
  <2>3. Preserve(diskRun, unit[t].run) \in RunStatus
    BY <1>2, <1>3, PreserveEither
  <2>4. Bounded(u)
    BY <1>2, <2>2, <2>3 DEF Bounded, BusyUnit, UnitStage
  <2>5. unit' = [unit EXCEPT ![t] = u]
    BY <1>8 DEF Finish
  <2> HIDE DEF u
  <2> QED
    BY <1>1, <1>2, <2>1, <2>4, <2>5
<1>9. CASE PersistVerdict(t)
  <2> DEFINE tasks == [diskTask EXCEPT ![t] = PersistOwn(@, unit[t].verdict)]
             u == IF tasks[t] = "failed" THEN AfterFailure(t, tasks) ELSE Settled(unit[t].run, tasks)
  <2>1. Same /\ diskRun' = unit[t].carry /\ diskTask' = tasks /\ lock' = {}
    BY <1>9 DEF PersistVerdict, runner
  <2>2. unit' = [unit EXCEPT ![t] = u]
    BY <1>9 DEF PersistVerdict
  <2>3. tasks \in [Tasks -> AtWork]
    BY <1>3, <1>4
  <2>4. Bounded(Settled(unit[t].run, tasks))
    BY <1>3, <2>3, SettledTyped
  <2>5. Bounded([unit[t] EXCEPT !.stage = "giveup"])
    BY <1>2 DEF Bounded, BusyUnit, UnitStage
  <2>6. unit[t].attempt = setting.attempts \/ Bounded([unit[t] EXCEPT !.stage = "backoff"])
    <3>1. setting.attempts \in Nat
      BY SettingTyped DEF TInv
    <3> QED
      BY <1>2, <1>3, <3>1 DEF Bounded, BusyUnit, UnitStage
  <2>7. Bounded(AfterFailure(t, tasks))
    <3> HIDE DEF tasks
    <3> QED
      BY <2>4, <2>5, <2>6 DEF AfterFailure
  <2>8. Bounded(u)
    BY <2>4, <2>7
  <2> HIDE DEF u, tasks
  <2> QED
    BY <1>1, <1>3, <2>1, <2>2, <2>3, <2>8
<1>10. CASE Retry(t)
  <2>1. Same /\ UNCHANGED <<diskRun, diskTask, lock>>
    BY <1>10 DEF Retry, runner, disk
  <2>2. unit' = [unit EXCEPT ![t] = BeginAttempt(t, unit[t].attempt + 1)]
    BY <1>10 DEF Retry
  <2>3. unit[t].attempt + 1 \in Nat /\ unit[t].attempt + 1 <= setting.attempts
    <3>1. setting.attempts \in Nat /\ unit[t].attempt < setting.attempts
      BY <1>10, SettingTyped DEF Retry, TInv, RetriesLeft
    <3> QED
      BY <1>3, <3>1
  <2>4. Bounded(BeginAttempt(t, unit[t].attempt + 1))
    BY <2>3, BeginTyped
  <2> QED
    BY <1>1, <1>2, <2>1, <2>2, <2>4
<1>11. CASE GiveUp(t)
  <2> DEFINE tasks == [diskTask EXCEPT ![t] = IF @ \in {"queued", "running"} THEN "cancelled" ELSE @]
  <2>1. Same /\ UNCHANGED <<diskTask, lock>> /\ diskRun' = "cancelled"
    BY <1>11 DEF GiveUp, runner
  <2>2. unit' = [unit EXCEPT ![t] = Settled("cancelled", tasks)]
    BY <1>11 DEF GiveUp
  <2>3. tasks \in [Tasks -> AtWork]
    BY <1>2, <1>3, <1>5
  <2>4. Bounded(Settled("cancelled", tasks))
    BY <1>5, <2>3, SettledTyped
  <2> HIDE DEF tasks
  <2> QED
    BY <1>1, <1>2, <1>5, <2>1, <2>2, <2>4
<1> QED
  BY <1>6, <1>7, <1>8, <1>9, <1>10, <1>11 DEF UnitStep

\* The statuses the runner writes, and the tasks it cancels, skips or fails.
LEMMA ArraysTyped ==
  ASSUME NEW tasks \in [Tasks -> AtWork]
  PROVE  /\ CancelAll(tasks) \in [Tasks -> AtWork]
         /\ Blocked(tasks) \in [Tasks -> AtWork]
BY DEF CancelAll, Blocked, TaskStatus, AtWork

\* Replacing any of the units by no unit.
LEMMA NoUnitsTyped ==
  ASSUME TInv, NEW P, UNCHANGED setting,
         unit' = [t \in Tasks |-> IF t \in P THEN NoUnit ELSE unit[t]]
  PROVE  /\ unit' \in [Tasks -> BusyUnit] /\ RetriesLeft'
         /\ \A t \in Tasks : unit'[t].attempt <= setting'.attempts
<1>1. Bounded(NoUnit)
  BY SettledTyped DEF TInv
<1>2. \A t \in Tasks : unit'[t] \in {NoUnit, unit[t]}
  OBVIOUS
<1> QED
  BY <1>1, <1>2 DEF Bounded, TInv, RetriesLeft

\* The batch starts units within their retries.
LEMMA SelectTyped == ASSUME TInv, Select PROVE TInv'
<1> DEFINE Same == UNCHANGED <<setting, diskTask, carry, stopped, lock, signal>>
<1>1. Same
  BY DEF Select
<1>2. Blocked(memTask) \in [Tasks -> AtWork]
  BY ArraysTyped DEF TInv
<1>3. CASE /\ memTask' = Blocked(memTask)
           /\ GotoVia("save", "setBlocked")
           /\ UNCHANGED <<diskRun, memRun, pending, dispatched, unit>>
  BY <1>1, <1>2, <1>3 DEF TInv, RetriesLeft, GotoVia, RunnerPc
<1>4. ASSUME NEW vetoed \in SUBSET Tasks, NEW start \in SUBSET Tasks,
             memTask' = [t \in Tasks |-> IF t \in vetoed THEN "skipped" ELSE memTask[t]],
             memRun' = IF vetoed = {} THEN memRun ELSE Preserve(diskRun, memRun),
             diskRun' = IF vetoed = {} THEN diskRun ELSE memRun',
             pending' = pending \cup start, dispatched' = dispatched \cup start,
             unit' = [t \in Tasks |-> IF t \in start THEN BeginAttempt(t, 1) ELSE unit[t]],
             Goto(IF pending' = {} THEN "top" ELSE "wait")
      PROVE  TInv'
  <2>1. memRun' \in RunStatus /\ diskRun' \in RunStatus
    BY <1>4, PreserveEither DEF TInv
  <2>2. memTask' \in [Tasks -> AtWork]
    BY <1>4 DEF TInv, TaskStatus, AtWork
  <2>3. \A t \in Tasks : Bounded(BeginAttempt(t, 1))
    BY BeginTyped, SettingTyped DEF TInv
  <2>4. /\ unit' \in [Tasks -> BusyUnit] /\ RetriesLeft'
        /\ \A t \in Tasks : unit'[t].attempt <= setting'.attempts
    <3>1. \A t \in Tasks : unit'[t] \in {BeginAttempt(t, 1), unit[t]}
      BY <1>4
    <3>2. unit' = [t \in Tasks |-> unit'[t]] /\ UNCHANGED setting
      BY <1>1, <1>4
    <3> QED
      BY <2>3, <3>1, <3>2 DEF Bounded, TInv, RetriesLeft
  <2>5. pc' \in RunnerPc /\ next' \in RunnerPc
    BY <1>4 DEF Goto, RunnerPc, TInv
  <2>6. pending' \in SUBSET Tasks /\ dispatched' \in SUBSET Tasks
    BY <1>4 DEF TInv
  <2> QED
    BY <1>1, <2>1, <2>2, <2>4, <2>5, <2>6 DEF TInv
<1>5. \/ /\ memTask' = Blocked(memTask)
         /\ GotoVia("save", "setBlocked")
         /\ UNCHANGED <<diskRun, memRun, pending, dispatched, unit>>
      \/ \E vetoed \in SUBSET Tasks, start \in SUBSET Tasks :
           /\ memTask' = [t \in Tasks |-> IF t \in vetoed THEN "skipped" ELSE memTask[t]]
           /\ memRun' = IF vetoed = {} THEN memRun ELSE Preserve(diskRun, memRun)
           /\ diskRun' = IF vetoed = {} THEN diskRun ELSE memRun'
           /\ pending' = pending \cup start /\ dispatched' = dispatched \cup start
           /\ unit' = [t \in Tasks |-> IF t \in start THEN BeginAttempt(t, 1) ELSE unit[t]]
           /\ Goto(IF pending' = {} THEN "top" ELSE "wait")
  BY DEF Select, Ready, kSubset
<1> QED
  BY <1>3, <1>4, <1>5

\* The drains and merges.
LEMMA MergesTyped ==
  ASSUME TInv, (\E t \in Tasks : Merge(t)) \/ Settle \/ Drained
  PROVE  TInv'
<1>1. ASSUME NEW t \in Tasks, Merge(t) PROVE TInv'
  <2>1. UNCHANGED <<setting, dispatched, stopped, lock, signal, next>>
    BY <1>1 DEF Merge, Goto
  <2>2. memRun' \in RunStatus /\ diskRun' \in RunStatus
    BY <1>1, PreserveEither DEF Merge, TInv, RunStatus
  <2>3. memTask' \in [Tasks -> AtWork] /\ diskTask' \in [Tasks -> AtWork]
    BY <1>1, MergeUnitTyped DEF Merge, TInv
  <2>4. carry' \in RunStatus
    BY <1>1 DEF Merge, TInv, BusyUnit
  <2>5. unit' = [s \in Tasks |-> IF s \in {t} THEN NoUnit ELSE unit[s]]
    BY <1>1 DEF Merge, TInv
  <2>6. /\ unit' \in [Tasks -> BusyUnit] /\ RetriesLeft'
        /\ \A s \in Tasks : unit'[s].attempt <= setting'.attempts
    BY <2>1, <2>5, NoUnitsTyped
  <2>7. pc' \in RunnerPc
    BY <1>1 DEF Merge, Goto, RunnerPc
  <2>8. pending' \in SUBSET Tasks
    BY <1>1 DEF Merge, TInv
  <2> QED
    BY <2>1, <2>2, <2>3, <2>4, <2>6, <2>7, <2>8 DEF TInv
<1>2. CASE Settle
  <2>1. UNCHANGED <<setting, carry, dispatched, stopped, lock, signal>>
    BY <1>2 DEF Settle
  <2>2. memRun' \in RunStatus /\ diskRun' \in RunStatus
    BY <1>2, PreserveEither DEF Settle, disk, TInv, RunStatus
  <2>3. PICK order \in Orders :
          LET base == IF pending = {} THEN memTask ELSE MergeAll(order)
          IN /\ memTask' = Blocked([t \in Tasks |->
                  IF t \in dispatched /\ base[t] \notin TerminalTask THEN "cancelled" ELSE base[t]])
             /\ diskTask' \in {diskTask, base}
    BY <1>2 DEF Settle, disk
  <2> DEFINE base == IF pending = {} THEN memTask ELSE MergeAll(order)
             cancelled == [t \in Tasks |->
               IF t \in dispatched /\ base[t] \notin TerminalTask THEN "cancelled" ELSE base[t]]
  <2>4. base \in [Tasks -> AtWork]
    BY MergeAllTyped DEF TInv
  <2>5. cancelled \in [Tasks -> AtWork]
    <3> HIDE DEF base
    <3> QED
      BY <2>4 DEF TaskStatus, AtWork
  <2>6. memTask' = Blocked(cancelled) /\ diskTask' \in {diskTask, base}
    BY <2>3
  <2>7. memTask' \in [Tasks -> AtWork] /\ diskTask' \in [Tasks -> AtWork]
    <3> HIDE DEF base, cancelled
    <3> QED
      BY <2>4, <2>5, <2>6, ArraysTyped DEF TInv
  <2>8. /\ unit' \in [Tasks -> BusyUnit] /\ RetriesLeft'
        /\ \A t \in Tasks : unit'[t].attempt <= setting'.attempts
    BY <1>2, <2>1, NoUnitsTyped DEF Settle
  <2>9. pc' \in RunnerPc /\ next' \in RunnerPc /\ pending' \in SUBSET Tasks
    BY <1>2 DEF Settle, GotoVia, RunnerPc
  <2> QED
    BY <2>1, <2>2, <2>7, <2>8, <2>9 DEF TInv
<1>3. CASE Drained
  <2>1. unit' = [t \in Tasks |-> IF t \in Tasks THEN NoUnit ELSE unit[t]] /\ UNCHANGED setting
    BY <1>3 DEF Drained
  <2>2. /\ unit' \in [Tasks -> BusyUnit] /\ RetriesLeft'
        /\ \A t \in Tasks : unit'[t].attempt <= setting'.attempts
    BY <2>1, NoUnitsTyped
  <2> QED
    BY <1>3, <2>2 DEF Drained, disk, TInv
<1> QED
  BY <1>1, <1>2, <1>3

\* The steps of the runner that leave the units alone.
LEMMA RunnerTyped ==
  ASSUME TInv, RunnerStep, UNCHANGED unit
  PROVE  TInv'
<1> DEFINE Rest == UNCHANGED <<setting, lock, signal, dispatched, pending>>
<1>1. ASSUME Rest, diskRun' \in RunStatus, memRun' \in RunStatus, carry' \in RunStatus,
             diskTask' \in [Tasks -> AtWork], memTask' \in [Tasks -> AtWork],
             pc' \in RunnerPc, next' \in RunnerPc, stopped' \in BOOLEAN
      PROVE  TInv'
  BY <1>1 DEF TInv, RetriesLeft
<1>2. /\ diskRun \in RunStatus /\ memRun \in RunStatus /\ carry \in RunStatus
      /\ diskTask \in [Tasks -> AtWork] /\ memTask \in [Tasks -> AtWork]
      /\ pc \in RunnerPc /\ next \in RunnerPc /\ stopped \in BOOLEAN /\ signal \in BOOLEAN
      /\ \A s \in RunStatus : Preserve(diskRun, s) \in RunStatus
      /\ CancelAll(memTask) \in [Tasks -> AtWork]
  <2>1. CancelAll(memTask) \in [Tasks -> AtWork]
    BY ArraysTyped DEF TInv
  <2> QED
    BY <2>1, PreserveEither DEF TInv
<1>3. {"running", "cancelled", "failed", "blocked", "completed"} \subseteq RunStatus
  BY DEF RunStatus
<1> HIDE DEF TInv
<1>4. CASE Top
  BY <1>1, <1>2, <1>4 DEF Top, Goto, GotoVia, Drain, disk, RunnerPc
<1>5. CASE Post
  BY <1>1, <1>2, <1>3, <1>5 DEF Post, Goto, GotoVia, RunnerPc
<1>6. CASE Save
  BY <1>1, <1>2, <1>6 DEF Save
<1>7. CASE CheckManifest
  BY <1>1, <1>2, <1>7 DEF CheckManifest, Goto, disk, RunnerPc
<1>8. CASE WriteManifest
  BY <1>1, <1>2, <1>3, <1>8 DEF WriteManifest, Goto, GotoVia, Drain, RunnerPc
<1>9. CASE SetCancelled \/ SetBlocked \/ SetFailed
  BY <1>1, <1>2, <1>3, <1>9
     DEF SetCancelled, SetBlocked, SetFailed, SetStatus, Goto, GotoVia, Drain, RunnerPc
<1>10. CASE Finalize
  <2> DEFINE healed == [t \in Tasks |->
               IF /\ pending = {} /\ memTask[t] \in {"running", "waiting"}
                  /\ diskTask[t] \in TerminalTask
               THEN diskTask[t] ELSE memTask[t]]
  <2>1. healed \in [Tasks -> AtWork]
    BY <1>2
  <2>2. memTask' = healed
    BY <1>10 DEF Finalize
  <2>3. carry' \in RunStatus
    BY <1>2, <1>3, <1>10 DEF Finalize
  <2> HIDE DEF healed
  <2> QED
    BY <1>1, <1>2, <1>10, <2>1, <2>2, <2>3 DEF Finalize, Goto, disk, RunnerPc
<1>11. CASE Closeout
  BY <1>1, <1>2, <1>3, <1>11 DEF Closeout, GotoVia, Drain, disk, RunnerPc
<1>12. CASE Caught
  <2>1. memTask' \in [Tasks -> AtWork]
    BY <1>2, <1>12 DEF Caught, TaskStatus, AtWork
  <2> QED
    BY <1>1, <1>2, <1>12, <2>1 DEF Caught, GotoVia, disk, RunnerPc
<1>13. CASE SetCaught
  BY <1>1, <1>2, <1>3, <1>13 DEF SetCaught, Goto, RunnerPc
<1>14. CASE Select \/ (\E t \in Tasks : Merge(t)) \/ Settle \/ Drained
  BY <1>14, SelectTyped, MergesTyped
<1> QED
  BY <1>4, <1>5, <1>6, <1>7, <1>8, <1>9, <1>10, <1>11, <1>12, <1>13, <1>14 DEF RunnerStep

\* Which steps of the runner start or end units.
LEMMA RunnerAndUnits ==
  ASSUME RunnerStep
  PROVE  Select \/ (\E t \in Tasks : Merge(t)) \/ Settle \/ Drained \/ UNCHANGED unit
BY DEF RunnerStep, Top, Post, Save, CheckManifest, WriteManifest, SetCancelled, SetBlocked,
       SetFailed, SetStatus, Finalize, Closeout, Caught, SetCaught

\* The run starts with typed values.
LEMMA InitTInv == Init => TInv
<1> SUFFICES ASSUME Init PROVE TInv
  OBVIOUS
<1>1. setting.attempts \in Nat \ {0} /\ setting \in Settings
  BY SettingTyped DEF Init
<1>2. NoUnit \in BusyUnit /\ NoUnit.attempt = 0 /\ NoUnit.stage = "none"
  BY DEF NoUnit, BusyUnit, UnitStage, RunStatus, TaskStatus, AtWork
<1>3. unit \in [Tasks -> BusyUnit] /\ \A t \in Tasks : unit[t] = NoUnit
  BY <1>2 DEF Init
<1>4. diskTask \in [Tasks -> AtWork] /\ memTask \in [Tasks -> AtWork]
  BY DEF Init, TaskStatus, AtWork
<1>5. "running" \in RunStatus /\ "top" \in RunnerPc
  BY DEF RunStatus, RunnerPc
<1>6. \A t \in Tasks : unit[t].attempt <= setting.attempts
  BY <1>1, <1>2, <1>3
<1>7. RetriesLeft
  BY <1>2, <1>3 DEF RetriesLeft
<1> QED
  BY <1>1, <1>3, <1>4, <1>5, <1>6, <1>7 DEF Init, TInv

LEMMA NextTInv == TInv /\ [Next]_vars => TInv'
<1> SUFFICES ASSUME TInv, [Next]_vars PROVE TInv'
  OBVIOUS
<1>1. CASE Cancel
  <2>1. diskTask' \in [Tasks -> AtWork] /\ diskRun' \in RunStatus
    BY <1>1, ArraysTyped DEF Cancel, TInv, RunStatus
  <2> QED
    BY <1>1, <2>1 DEF Cancel, runner, TInv, RetriesLeft
<1>2. CASE Abort \/ UNCHANGED vars
  BY <1>2 DEF Abort, vars, runner, disk, TInv, RetriesLeft
<1>3. CASE RunnerStep
  BY <1>3, SelectTyped, MergesTyped, RunnerTyped, RunnerAndUnits
<1> QED
  BY <1>1, <1>2, <1>3, UnitStepTyped DEF Next

\* Every variable keeps its type, and no unit makes more attempts than
\* RetryPolicy.maxAttempts allows.
THEOREM TeamRunTyped == Spec => []TypeOK
<1>1. TInv => TypeOK
  <2>1. [Tasks -> AtWork] \subseteq [Tasks -> TaskStatus] /\ BusyUnit \subseteq Unit
    BY DEF AtWork, BusyUnit, Unit
  <2> QED
    BY <2>1 DEF TInv, TypeOK
<1> QED
  BY InitTInv, NextTInv, <1>1, PTL DEF Spec

-----------------------------------------------------------------------------
(* What a step of a unit does to the copies of a task's status. *)

\* mem, disk or the snapshot of a unit has a status of S for task t.
Copy(t, S) == memTask[t] \in S \/ diskTask[t] \in S \/ \E u \in Tasks : unit[u].snap[t] \in S

Verdicts == {"completed", "failed", "needs_attention"}

\* A settled unit brings a verdict about its own task.
OwnVerdict ==
  \A t \in Tasks : /\ unit[t].stage = "settled" => unit[t].snap[t] \in TerminalTask
                   /\ unit[t].stage = "persist" => unit[t].verdict \in Verdicts

\* The gate: of two verdicts a sibling's is dropped, a verdict is never lost.
LEMMA MergeFacts ==
  ASSUME NEW cur \in AtWork, NEW upd \in AtWork, NEW own \in BOOLEAN
  PROVE  /\ MergeTask(cur, upd, own) \in {cur, upd}
         /\ cur \in TerminalTask /\ ~own => MergeTask(cur, upd, own) = cur
         /\ cur \in TerminalTask \/ upd \in TerminalTask => MergeTask(cur, upd, own) \in TerminalTask
BY DEF MergeTask, RejectedMerge, CompletedFlips, AtWork, TaskStatus, TerminalTask

\* A unit that settles or gives up at once: what it has seen.
LEMMA SettledFields ==
  ASSUME NEW run, NEW tasks
  PROVE  /\ Settled(run, tasks).stage = "settled" /\ Settled(run, tasks).snap = tasks
         /\ Settled(run, tasks).run = run
BY DEF Settled, NoUnit

\* A status that is neither queued nor running is a verdict.
LEMMA EndedIsTerminal ==
  ASSUME NEW s \in AtWork, s \notin {"queued", "running"}
  PROVE  s \in TerminalTask
BY DEF AtWork, TaskStatus, TerminalTask

\* The head of attempt n: what the unit has seen of its own task and of others.
LEMMA BeginCopies ==
  ASSUME TInv, NEW t \in Tasks, NEW n \in Nat
  PROVE  LET u == BeginAttempt(t, n)
         IN /\ \A s \in Tasks \ {t} : u.snap[s] \in {diskTask[s], "queued"}
            /\ \/ u.stage = "giveup" /\ u.snap[t] = "queued" /\ Stop
               \/ u.stage = "settled" /\ u.snap[t] = diskTask[t] /\ diskTask[t] \in TerminalTask
                  /\ ~Stop
               \/ u.stage = "prepare" /\ u.snap[t] \in {"queued", "running"} /\ ~Stop
                  /\ diskTask[t] \in {"queued", "running"} \cup (IF n > 1 THEN {"failed"} ELSE {})
<1> DEFINE retried == n > 1 /\ diskRun \notin TerminalRun /\ diskTask[t] = "failed"
           fresh == IF retried THEN [diskTask EXCEPT ![t] = "queued"] ELSE diskTask
           u == BeginAttempt(t, n)
<1>1. /\ diskTask \in [Tasks -> AtWork] /\ diskTask[t] \in AtWork
      /\ \A s \in Tasks \ {t} : fresh[s] = diskTask[s]
      /\ fresh[t] = IF retried THEN "queued" ELSE diskTask[t]
  BY DEF TInv
<1>2. u = IF Stop THEN [NoUnit EXCEPT !.stage = "giveup"]
          ELSE IF fresh[t] \notin {"queued", "running"} THEN Settled(diskRun, fresh)
          ELSE [NoUnit EXCEPT !.stage = "prepare", !.attempt = n, !.run = diskRun, !.snap = fresh]
  BY DEF BeginAttempt
<1> HIDE DEF u
<1>3. CASE Stop
  <2>1. u.stage = "giveup" /\ u.snap = [s \in Tasks |-> "queued"]
    BY <1>2, <1>3 DEF NoUnit
  <2> QED
    BY <1>3, <2>1 DEF u
<1>4. CASE ~Stop /\ fresh[t] \notin {"queued", "running"}
  <2>1. u.stage = "settled" /\ u.snap = fresh
    <3> HIDE DEF fresh
    <3> QED
      BY <1>2, <1>4, SettledFields
  <2>2. fresh[t] = diskTask[t] /\ diskTask[t] \in TerminalTask
    BY <1>1, <1>4, EndedIsTerminal
  <2> HIDE DEF fresh
  <2> QED
    BY <1>1, <1>4, <2>1, <2>2 DEF u
<1>5. CASE ~Stop /\ fresh[t] \in {"queued", "running"}
  <2>1. u.stage = "prepare" /\ u.snap = fresh
    <3> HIDE DEF fresh
    <3> QED
      BY <1>2, <1>5 DEF NoUnit
  <2>2. diskTask[t] \in {"queued", "running"} \cup (IF n > 1 THEN {"failed"} ELSE {})
    BY <1>1, <1>5
  <2> HIDE DEF fresh
  <2> QED
    BY <1>1, <1>5, <2>1, <2>2 DEF u
<1> QED
  BY <1>3, <1>4, <1>5

\* What a step of unit t leaves alone, and what it takes over of other tasks.
LEMMA StepOfOthers ==
  ASSUME TInv, NEW t \in Tasks, UnitStep(t) \/ Heartbeat(t)
  PROVE  /\ UNCHANGED <<setting, memRun, memTask, pc, next, carry, pending, dispatched, stopped, signal>>
         /\ \A s \in Tasks \ {t} :
              /\ diskTask'[s] = diskTask[s] /\ unit'[s] = unit[s]
              /\ unit'[t].snap[s] \in {unit[t].snap[s], diskTask[s], "queued"}
<1> DEFINE Same == UNCHANGED <<setting, memRun, memTask, pc, next, carry, pending, dispatched,
                               stopped, signal>>
<1>1. /\ diskTask \in [Tasks -> AtWork] /\ unit \in [Tasks -> BusyUnit]
      /\ unit[t].snap \in [Tasks -> AtWork] /\ unit[t].attempt \in Nat
  BY DEF TInv, BusyUnit
<1>2. CASE Heartbeat(t)
  BY <1>1, <1>2 DEF Heartbeat, runner
<1>3. CASE Prepare(t)
  <2>1. Same /\ \A s \in Tasks \ {t} : diskTask'[s] = diskTask[s] /\ unit'[s] = unit[s]
    BY <1>1, <1>3 DEF Prepare, runner
  <2>2. unit'[t].snap \in {[unit[t].snap EXCEPT ![t] = "cancelled"], NoUnit.snap}
    <3> DEFINE tasks == [unit[t].snap EXCEPT ![t] = "cancelled"]
               a == Settled(unit[t].run, tasks)
               b == [unit[t] EXCEPT !.stage = "running", !.snap = NoUnit.snap]
    <3>1. unit'[t] \in {a, b}
      BY <1>1, <1>3 DEF Prepare
    <3>2. b.snap = NoUnit.snap
      BY <1>1 DEF BusyUnit
    <3>3. a.snap = tasks
      <4> HIDE DEF tasks
      <4> QED
        BY SettledFields
    <3> HIDE DEF a, b, tasks
    <3>4. unit'[t].snap \in {tasks, NoUnit.snap}
      BY <3>1, <3>2, <3>3
    <3> QED
      BY <3>4 DEF tasks
  <2>3. \A s \in Tasks \ {t} : unit'[t].snap[s] \in {unit[t].snap[s], "queued"}
    BY <1>1, <2>2 DEF NoUnit
  <2> QED
    BY <2>1, <2>3
<1>4. ASSUME NEW v \in setting.verdicts, Finish(t, v)
      PROVE  Same /\ \A s \in Tasks \ {t} :
               /\ diskTask'[s] = diskTask[s] /\ unit'[s] = unit[s]
               /\ unit'[t].snap[s] = unit[t].snap[s]
  BY <1>1, <1>4 DEF Finish, runner, disk, BusyUnit
<1>5. CASE PersistVerdict(t)
  <2> DEFINE tasks == [diskTask EXCEPT ![t] = PersistOwn(@, unit[t].verdict)]
  <2>1. Same /\ \A s \in Tasks \ {t} : diskTask'[s] = diskTask[s] /\ unit'[s] = unit[s]
    BY <1>1, <1>5 DEF PersistVerdict, runner
  <2>2. unit'[t] \in {Settled(unit[t].run, tasks), [unit[t] EXCEPT !.stage = "giveup"],
                     [unit[t] EXCEPT !.stage = "backoff"]}
    BY <1>1, <1>5 DEF PersistVerdict, AfterFailure
  <2>3. unit'[t].snap \in {tasks, unit[t].snap}
    <3> DEFINE a == Settled(unit[t].run, tasks)
               b == [unit[t] EXCEPT !.stage = "giveup"]
               c == [unit[t] EXCEPT !.stage = "backoff"]
    <3>1. b.snap = unit[t].snap /\ c.snap = unit[t].snap
      BY <1>1 DEF BusyUnit
    <3>2. a.snap = tasks
      <4> HIDE DEF tasks
      <4> QED
        BY SettledFields
    <3>3. unit'[t] \in {a, b, c}
      BY <2>2
    <3> HIDE DEF a, b, c, tasks
    <3> QED
      BY <3>1, <3>2, <3>3
  <2>4. \A s \in Tasks \ {t} : tasks[s] = diskTask[s]
    BY <1>1
  <2> HIDE DEF tasks
  <2> QED
    BY <2>1, <2>3, <2>4
<1>6. CASE Retry(t)
  <2>1. Same /\ \A s \in Tasks \ {t} : diskTask'[s] = diskTask[s] /\ unit'[s] = unit[s]
    BY <1>1, <1>6 DEF Retry, runner, disk
  <2>2. unit'[t] = BeginAttempt(t, unit[t].attempt + 1) /\ unit[t].attempt + 1 \in Nat
    BY <1>1, <1>6 DEF Retry
  <2> QED
    BY <2>1, <2>2, BeginCopies
<1>7. CASE GiveUp(t)
  <2> DEFINE tasks == [diskTask EXCEPT ![t] = IF @ \in {"queued", "running"} THEN "cancelled" ELSE @]
  <2>1. Same /\ \A s \in Tasks \ {t} : diskTask'[s] = diskTask[s] /\ unit'[s] = unit[s]
    BY <1>1, <1>7 DEF GiveUp, runner
  <2>2. unit'[t] = Settled("cancelled", tasks)
    BY <1>1, <1>7 DEF GiveUp
  <2>3. unit'[t].snap = tasks
    <3> HIDE DEF tasks
    <3> QED
      BY <2>2, SettledFields
  <2>4. \A s \in Tasks \ {t} : tasks[s] = diskTask[s]
    BY <1>1
  <2> HIDE DEF tasks
  <2> QED
    BY <2>1, <2>3, <2>4
<1> QED
  BY <1>2, <1>3, <1>4, <1>5, <1>6, <1>7 DEF UnitStep

\* What a step of unit t makes of its own task, on the disk and in its snapshot.
LEMMA StepOfOwn ==
  ASSUME TInv, NEW t \in Tasks, UnitStep(t) \/ Heartbeat(t)
  PROVE  LET from == unit[t].stage
             to == unit'[t].stage
             seen == unit'[t].snap[t]
             same == diskTask'[t] = diskTask[t]
         IN \/ from = "running" /\ unit'[t] = unit[t] /\ diskTask'[t] = "running"
            \/ from = "prepare" /\ to = "settled" /\ Stop /\ same /\ seen = "cancelled"
            \/ from = "prepare" /\ to = "running" /\ ~Stop /\ diskTask'[t] = "running" /\ seen = "queued"
            \/ from = "running" /\ to = "persist" /\ same /\ seen = unit[t].snap[t]
               /\ unit'[t].verdict \in Verdicts
            \/ /\ from = "persist" /\ diskTask'[t] = PersistOwn(diskTask[t], unit[t].verdict)
               /\ \/ to = "settled" /\ seen = diskTask'[t]
                  \/ to \in {"giveup", "backoff"} /\ diskTask'[t] = "failed" /\ seen = unit[t].snap[t]
            \/ /\ from = "backoff" /\ same
               /\ \/ to = "giveup" /\ seen = "queued" /\ Stop
                  \/ to = "settled" /\ seen = diskTask[t] /\ diskTask[t] \in TerminalTask /\ ~Stop
                  \/ to = "prepare" /\ seen \in {"queued", "running"} /\ ~Stop
                     /\ diskTask[t] \in {"queued", "running", "failed"}
            \/ /\ from = "giveup" /\ to = "settled" /\ same
               /\ seen = IF diskTask[t] \in {"queued", "running"} THEN "cancelled" ELSE diskTask[t]
<1>1. /\ diskTask \in [Tasks -> AtWork] /\ unit \in [Tasks -> BusyUnit]
      /\ unit[t].snap \in [Tasks -> AtWork] /\ unit[t].attempt \in Nat /\ unit[t] \in BusyUnit
  BY DEF TInv, BusyUnit
<1>2. PersistOwn(diskTask[t], "running") = "running"
  BY <1>1 DEF PersistOwn, TerminalTask, AtWork
<1>3. CASE Heartbeat(t)
  BY <1>1, <1>2, <1>3 DEF Heartbeat
<1>4. CASE Prepare(t)
  <2> DEFINE tasks == [unit[t].snap EXCEPT ![t] = "cancelled"]
             a == Settled(unit[t].run, tasks)
             b == [unit[t] EXCEPT !.stage = "running", !.snap = NoUnit.snap]
  <2>1. b.stage = "running" /\ b.snap = NoUnit.snap /\ NoUnit.snap[t] = "queued"
    BY <1>1 DEF BusyUnit, NoUnit
  <2>2. a.stage = "settled" /\ a.snap = tasks
    <3> HIDE DEF tasks
    <3> QED
      BY SettledFields
  <2>3. tasks[t] = "cancelled" /\ unit[t].stage = "prepare"
    BY <1>1, <1>4 DEF Prepare
  <2>4. CASE Stop /\ unit'[t] = a /\ UNCHANGED diskTask
    <3> HIDE DEF a, tasks
    <3> QED
      BY <2>2, <2>3, <2>4
  <2>5. CASE ~Stop /\ unit'[t] = b /\ diskTask'[t] = "running"
    <3> HIDE DEF b
    <3> QED
      BY <2>1, <2>3, <2>5
  <2>6. (Stop /\ unit'[t] = a /\ UNCHANGED diskTask)
        \/ (~Stop /\ unit'[t] = b /\ diskTask'[t] = "running")
    BY <1>1, <1>2, <1>4 DEF Prepare
  <2> QED
    BY <2>4, <2>5, <2>6
<1>5. ASSUME NEW v \in setting.verdicts, Finish(t, v)
      PROVE  /\ unit[t].stage = "running" /\ unit'[t].stage = "persist" /\ diskTask' = diskTask
             /\ unit'[t].snap = unit[t].snap /\ unit'[t].verdict \in Verdicts
  <2>1. v \in Verdicts
    BY SettingTyped DEF TInv, Verdicts
  <2> QED
    BY <1>1, <1>5, <2>1 DEF Finish, disk, BusyUnit
<1>6. CASE PersistVerdict(t)
  <2> DEFINE tasks == [diskTask EXCEPT ![t] = PersistOwn(@, unit[t].verdict)]
             a == Settled(unit[t].run, tasks)
             b == [unit[t] EXCEPT !.stage = "giveup"]
             c == [unit[t] EXCEPT !.stage = "backoff"]
  <2>1. b.stage = "giveup" /\ b.snap = unit[t].snap /\ c.stage = "backoff" /\ c.snap = unit[t].snap
    BY <1>1 DEF BusyUnit
  <2>2. a.stage = "settled" /\ a.snap = tasks
    <3> HIDE DEF tasks
    <3> QED
      BY SettledFields
  <2>3. tasks[t] = PersistOwn(diskTask[t], unit[t].verdict) /\ diskTask' = tasks
        /\ unit[t].stage = "persist"
    BY <1>1, <1>6 DEF PersistVerdict
  <2>4. unit'[t] = a \/ (tasks[t] = "failed" /\ unit'[t] \in {b, c})
    BY <1>1, <1>6 DEF PersistVerdict, AfterFailure
  <2> HIDE DEF a, b, c, tasks
  <2> QED
    BY <2>1, <2>2, <2>3, <2>4
<1>7. CASE Retry(t)
  <2>1. unit'[t] = BeginAttempt(t, unit[t].attempt + 1) /\ unit[t].attempt + 1 \in Nat
    BY <1>1, <1>7 DEF Retry
  <2>2. unit[t].stage = "backoff" /\ UNCHANGED diskTask
    BY <1>7 DEF Retry, disk
  <2> QED
    BY <2>1, <2>2, BeginCopies
<1>8. CASE GiveUp(t)
  <2> DEFINE tasks == [diskTask EXCEPT ![t] = IF @ \in {"queued", "running"} THEN "cancelled" ELSE @]
  <2>1. unit'[t] = Settled("cancelled", tasks) /\ UNCHANGED diskTask /\ unit[t].stage = "giveup"
    BY <1>1, <1>8 DEF GiveUp
  <2>2. unit'[t].stage = "settled" /\ unit'[t].snap = tasks
    <3> HIDE DEF tasks
    <3> QED
      BY <2>1, SettledFields
  <2>3. tasks[t] = IF diskTask[t] \in {"queued", "running"} THEN "cancelled" ELSE diskTask[t]
    BY <1>1
  <2> HIDE DEF tasks
  <2> QED
    BY <2>1, <2>2, <2>3
<1> QED
  BY <1>3, <1>4, <1>5, <1>6, <1>7, <1>8 DEF UnitStep

\* A worker's persist of a verdict leaves a verdict on the disk.
LEMMA PersistedVerdict ==
  ASSUME NEW d \in AtWork, NEW v \in Verdicts
  PROVE  /\ PersistOwn(d, v) \in TerminalTask /\ PersistOwn(d, v) \in {d, v}
         /\ d \in TerminalTask => PersistOwn(d, v) = d
BY DEF PersistOwn, Verdicts, TerminalTask

-----------------------------------------------------------------------------
(* What the steps of the runner make of the units. *)

\* selectDispatchBatch has nothing to start and nothing in flight ...
Blocks ==
  /\ pending = {} /\ memTask' = Blocked(memTask)
  /\ GotoVia("save", "setBlocked")
  /\ UNCHANGED <<diskRun, memRun, pending, dispatched, unit>>

\* ... or starts some of the ready tasks, but for those that are vetoed.
Starts(vetoed, start) ==
  /\ vetoed \subseteq Ready \ pending /\ start \subseteq (Ready \ pending) \ vetoed
  /\ vetoed = {} \/ "veto" \in setting.may
  /\ memTask' = [t \in Tasks |-> IF t \in vetoed THEN "skipped" ELSE memTask[t]]
  /\ memRun' = IF vetoed = {} THEN memRun ELSE Preserve(diskRun, memRun)
  /\ diskRun' = IF vetoed = {} THEN diskRun ELSE memRun'
  /\ pending' = pending \cup start /\ dispatched' = dispatched \cup start
  /\ unit' = [t \in Tasks |-> IF t \in start THEN BeginAttempt(t, 1) ELSE unit[t]]
  /\ Goto(IF pending' = {} THEN "top" ELSE "wait")

LEMMA SelectCases ==
  ASSUME Select
  PROVE  /\ pc = "select" /\ UNCHANGED <<setting, diskTask, carry, stopped, lock, signal>>
         /\ Blocks \/ \E vetoed \in SUBSET Tasks, start \in SUBSET Tasks : Starts(vetoed, start)
<1>1. Ready \subseteq Tasks
  BY DEF Ready
<1>2. pc = "select" /\ UNCHANGED <<setting, diskTask, carry, stopped, lock, signal>>
  BY DEF Select
<1>3. Blocks \/ \E vetoed \in SUBSET Tasks, start \in SUBSET Tasks : Starts(vetoed, start)
  <2> DEFINE ready == Ready \ pending
             size == Min({Max({0, Slots - Cardinality(pending)}), Cardinality(ready)})
  <2>1. CASE ready = {} /\ pending = {} /\ memTask' = Blocked(memTask) /\ GotoVia("save", "setBlocked")
             /\ UNCHANGED <<diskRun, memRun, pending, dispatched, unit>>
    BY <2>1 DEF Blocks
  <2>2. ASSUME NEW batch \in kSubset(size, ready), NEW vetoed \in SUBSET batch,
               LET start == {t \in batch \ vetoed : memTask[t] # "skipped"}
               IN /\ vetoed = {} \/ "veto" \in setting.may
                  /\ memTask' = [t \in Tasks |-> IF t \in vetoed THEN "skipped" ELSE memTask[t]]
                  /\ memRun' = IF vetoed = {} THEN memRun ELSE Preserve(diskRun, memRun)
                  /\ diskRun' = IF vetoed = {} THEN diskRun ELSE memRun'
                  /\ pending' = pending \cup start
                  /\ dispatched' = dispatched \cup start
                  /\ unit' = [t \in Tasks |-> IF t \in start THEN BeginAttempt(t, 1) ELSE unit[t]]
                  /\ Goto(IF pending' = {} THEN "top" ELSE "wait")
        PROVE  \E start \in SUBSET Tasks : Starts(vetoed, start) /\ vetoed \in SUBSET Tasks
    <3> DEFINE start == {t \in batch \ vetoed : memTask[t] # "skipped"}
    <3>1. batch \subseteq ready
      BY DEF kSubset
    <3>2. vetoed \subseteq ready /\ start \subseteq ready \ vetoed /\ start \in SUBSET Tasks
          /\ vetoed \in SUBSET Tasks
      BY <1>1, <3>1
    <3>3. Starts(vetoed, start)
      BY <2>2, <3>2 DEF Starts
    <3> HIDE DEF start
    <3> QED
      BY <3>2, <3>3
  <2>3. (ready = {} /\ pending = {} /\ memTask' = Blocked(memTask) /\ GotoVia("save", "setBlocked")
             /\ UNCHANGED <<diskRun, memRun, pending, dispatched, unit>>)
        \/ \E batch \in kSubset(size, ready) : \E vetoed \in SUBSET batch :
             LET start == {t \in batch \ vetoed : memTask[t] # "skipped"}
             IN /\ vetoed = {} \/ "veto" \in setting.may
                /\ memTask' = [t \in Tasks |-> IF t \in vetoed THEN "skipped" ELSE memTask[t]]
                /\ memRun' = IF vetoed = {} THEN memRun ELSE Preserve(diskRun, memRun)
                /\ diskRun' = IF vetoed = {} THEN diskRun ELSE memRun'
                /\ pending' = pending \cup start
                /\ dispatched' = dispatched \cup start
                /\ unit' = [t \in Tasks |-> IF t \in start THEN BeginAttempt(t, 1) ELSE unit[t]]
                /\ Goto(IF pending' = {} THEN "top" ELSE "wait")
    BY DEF Select
  <2> QED
    BY <2>1, <2>2, <2>3
<1> QED
  BY <1>2, <1>3

\* A batch that starts leaves the other units, and the tasks not vetoed, alone.
LEMMA StartsUnits ==
  ASSUME TInv, NEW vetoed \in SUBSET Tasks, NEW start \in SUBSET Tasks, Starts(vetoed, start)
  PROVE  \A t \in Tasks : /\ unit'[t] = IF t \in start THEN BeginAttempt(t, 1) ELSE unit[t]
                          /\ memTask'[t] = IF t \in vetoed THEN "skipped" ELSE memTask[t]
                          /\ t \in start \cup vetoed => t \in Ready \ pending
                          /\ ~(t \in start /\ t \in vetoed)
BY DEF Starts

\* A settled unit brings a verdict, through every step.
LEMMA NextOwnVerdict == TInv /\ OwnVerdict /\ [Next]_vars => OwnVerdict'
<1> SUFFICES ASSUME TInv, OwnVerdict, [Next]_vars, NEW t \in Tasks
             PROVE  /\ unit'[t].stage = "settled" => unit'[t].snap[t] \in TerminalTask
                    /\ unit'[t].stage = "persist" => unit'[t].verdict \in Verdicts
  BY DEF OwnVerdict
<1> DEFINE Keeps == /\ unit'[t].stage = "settled" => unit'[t].snap[t] \in TerminalTask
                    /\ unit'[t].stage = "persist" => unit'[t].verdict \in Verdicts
<1>1. unit'[t] = unit[t] => Keeps
  BY DEF OwnVerdict
<1>2. unit'[t] = NoUnit => Keeps
  BY DEF NoUnit
<1>3. diskTask[t] \in AtWork
  BY DEF TInv
<1>4. ASSUME NEW s \in Tasks, UnitStep(s) \/ Heartbeat(s) PROVE Keeps
  <2>1. CASE s # t
    BY <1>1, <1>4, <2>1, StepOfOthers
  <2>2. CASE s = t
    <3>1. diskTask[t] \notin {"queued", "running"} => diskTask[t] \in TerminalTask
      BY <1>3, EndedIsTerminal
    <3>2. unit[t].stage = "persist" => PersistOwn(diskTask[t], unit[t].verdict) \in TerminalTask
      BY <1>3, PersistedVerdict DEF OwnVerdict
    <3>3. "cancelled" \in TerminalTask
      BY DEF TerminalTask
    <3> QED
      BY <1>1, <1>4, <2>2, <3>1, <3>2, <3>3, StepOfOwn
  <2> QED
    BY <2>1, <2>2
<1>5. CASE Select
  <2>1. CASE Blocks
    BY <1>1, <2>1 DEF Blocks
  <2>2. ASSUME NEW vetoed \in SUBSET Tasks, NEW start \in SUBSET Tasks, Starts(vetoed, start)
        PROVE  Keeps
    <3>1. unit'[t] \in {BeginAttempt(t, 1), unit[t]}
      BY <2>2, StartsUnits
    <3> QED
      BY <1>1, <3>1, BeginCopies
  <2> QED
    BY <1>5, <2>1, <2>2, SelectCases
<1>6. CASE (\E s \in Tasks : Merge(s)) \/ Settle \/ Drained
  <2>1. unit'[t] \in {NoUnit, unit[t]}
    BY <1>6 DEF Merge, Settle, Drained, TInv
  <2> QED
    BY <1>1, <1>2, <2>1
<1>7. CASE UNCHANGED unit
  BY <1>1, <1>7
<1> QED
  BY <1>4, <1>5, <1>6, <1>7, RunnerAndUnits DEF Next, Cancel, Abort, vars

-----------------------------------------------------------------------------
(* The order of the waves. *)

Good == {"completed", "needs_attention"}

\* The loop goes on, or units of it are still in flight.
InLoop ==
  \/ pc \in {"top", "select", "wait", "post", "checkManifest", "writeManifest"}
  \/ pc = "save" /\ next \in {"checkManifest", "writeManifest"}

Live == InLoop \/ pending # {}

Open(t) == unit[t].stage \in {"prepare", "running", "persist", "backoff"}

\* A task that some copy has as done is not worked on: its unit brings that
\* result, or is gone and the result is merged, unless another verdict was first.
Finished(t) ==
  Copy(t, Good) =>
    \/ /\ unit[t].stage \in {"none", "giveup"}
       /\ memTask[t] \in TerminalTask /\ diskTask[t] \in TerminalTask
    \/ /\ unit[t].stage = "settled"
       /\ unit[t].snap[t] \in Good \/ {memTask[t], diskTask[t]} \subseteq TerminalTask \ Good

\* What the runner holds for done is done on the disk.
DoneKnown(t) == memTask[t] \in Good => diskTask[t] \in Good

WavesInv == Live => \A t \in Tasks : Finished(t) /\ DoneKnown(t)

LEMMA GoodIsTerminal == Good \subseteq TerminalTask /\ "queued" \notin Good /\ "cancelled" \notin Good
                        /\ "running" \notin Good /\ "failed" \notin Good /\ "skipped" \notin Good
BY DEF Good, TerminalTask

\* A step of a unit makes no task done but its own, with its own verdict.
LEMMA UnitKeepsWaves ==
  ASSUME TInv, OwnVerdict, WavesInv, NEW s \in Tasks, UnitStep(s) \/ Heartbeat(s)
  PROVE  WavesInv'
<1> SUFFICES ASSUME Live, NEW t \in Tasks, Finished(t), DoneKnown(t)
             PROVE  Finished(t)' /\ DoneKnown(t)'
  BY StepOfOthers DEF WavesInv, Live, InLoop
<1>1. memTask' = memTask /\ diskTask[t] \in AtWork
  BY StepOfOthers DEF TInv
<1>2. CASE t # s
  <2>1. diskTask'[t] = diskTask[t] /\ unit'[t] = unit[t]
        /\ \A u \in Tasks : unit'[u].snap[t] \in {unit[u].snap[t], diskTask[t], "queued"}
    BY <1>2, StepOfOthers
  <2>2. Copy(t, Good)' => Copy(t, Good)
    BY <1>1, <2>1, GoodIsTerminal DEF Copy
  <2> QED
    BY <1>1, <2>1, <2>2 DEF Finished, DoneKnown
<1>3. CASE t = s
  <2>1. \A u \in Tasks \ {t} : unit'[u] = unit[u]
    BY <1>3, StepOfOthers
  <2>2. Copy(t, Good)' => \/ memTask[t] \in Good \/ diskTask'[t] \in Good
                          \/ unit'[t].snap[t] \in Good \/ \E u \in Tasks \ {t} : unit[u].snap[t] \in Good
    BY <1>1, <2>1 DEF Copy
  <2>3. Open(t) => ~Copy(t, Good)
    BY DEF Finished, Open
  <2>4. ~Copy(t, Good) => /\ memTask[t] \notin Good /\ diskTask[t] \notin Good
                          /\ \A u \in Tasks : unit[u].snap[t] \notin Good
    BY DEF Copy
  <2>5. unit[t].stage = "persist" =>
          LET d == PersistOwn(diskTask[t], unit[t].verdict)
          IN d \in TerminalTask /\ (diskTask[t] \in TerminalTask => d = diskTask[t])
    BY <1>1, PersistedVerdict DEF OwnVerdict
  <2>6. CASE unit[t].stage = "giveup"
    <3>1. /\ unit'[t].stage = "settled" /\ diskTask'[t] = diskTask[t]
          /\ unit'[t].snap[t] = IF diskTask[t] \in {"queued", "running"} THEN "cancelled" ELSE diskTask[t]
      BY <1>3, <2>6, StepOfOwn
    <3>2. CASE Copy(t, Good)
      <4>1. memTask[t] \in TerminalTask /\ diskTask[t] \in TerminalTask
        BY <2>6, <3>2 DEF Finished
      <4>2. diskTask[t] \notin {"queued", "running"}
        BY <4>1 DEF TerminalTask
      <4> QED
        BY <1>1, <3>1, <4>1, <4>2 DEF Finished, DoneKnown
    <3>3. CASE ~Copy(t, Good)
      <4>1. ~Copy(t, Good)'
        BY <2>2, <2>4, <3>1, <3>3, GoodIsTerminal
      <4> QED
        BY <1>1, <2>4, <3>3, <4>1 DEF Finished, DoneKnown
    <3> QED
      BY <3>2, <3>3
  <2>7. CASE unit[t].stage = "persist"
    <3>1. ~Copy(t, Good)
      BY <2>3, <2>7 DEF Open
    <3>2. /\ diskTask'[t] \in TerminalTask
          /\ \/ unit'[t].stage = "settled" /\ unit'[t].snap[t] = diskTask'[t]
             \/ diskTask'[t] = "failed" /\ unit'[t].snap[t] = unit[t].snap[t]
      BY <1>3, <2>5, <2>7, StepOfOwn
    <3>3. DoneKnown(t)'
      BY <1>1, <2>4, <3>1 DEF DoneKnown
    <3>4. CASE unit'[t].stage = "settled" /\ unit'[t].snap[t] = diskTask'[t]
      <4>1. Copy(t, Good)' => unit'[t].snap[t] \in Good
        BY <2>2, <2>4, <3>1, <3>4
      <4> QED
        BY <3>3, <3>4, <4>1 DEF Finished
    <3>5. CASE diskTask'[t] = "failed" /\ unit'[t].snap[t] = unit[t].snap[t]
      <4>1. ~Copy(t, Good)'
        BY <2>2, <2>4, <3>1, <3>5, GoodIsTerminal
      <4> QED
        BY <3>3, <4>1 DEF Finished
    <3> QED
      BY <3>2, <3>4, <3>5
  <2>8. CASE unit[t].stage \in {"prepare", "running", "backoff"}
    <3>1. ~Copy(t, Good)
      BY <2>3, <2>8 DEF Open
    <3>2. /\ diskTask'[t] \in {diskTask[t], "running"}
          /\ unit'[t].snap[t] \in {unit[t].snap[t], diskTask[t], "queued", "running", "cancelled"}
      BY <1>3, <2>8, StepOfOwn
    <3>3. ~Copy(t, Good)'
      BY <2>2, <2>4, <3>1, <3>2, GoodIsTerminal
    <3> QED
      BY <1>1, <2>4, <3>1, <3>3 DEF Finished, DoneKnown
  <2>9. unit[t].stage \in {"prepare", "running", "backoff", "persist", "giveup"}
    BY <1>3, StepOfOwn
  <2> QED
    BY <2>6, <2>7, <2>8, <2>9
<1> QED
  BY <1>2, <1>3

\* The merge of one unit, task by task.
LEMMA MergedTask ==
  ASSUME TInv, NEW s \in Tasks, NEW t \in Tasks, Merge(s)
  PROVE  /\ memTask'[t] \in {diskTask[t], unit[s].snap[t]}
         /\ diskTask[t] \in TerminalTask /\ t # s => memTask'[t] = diskTask[t]
         /\ diskTask[t] \in TerminalTask \/ unit[s].snap[t] \in TerminalTask => memTask'[t] \in TerminalTask
<1> DEFINE m == MergeTask(diskTask[t], unit[s].snap[t], t = s)
<1>1. diskTask[t] \in AtWork /\ unit[s].snap[t] \in AtWork /\ (t = s) \in BOOLEAN
  BY DEF TInv, BusyUnit
<1>2. /\ m \in {diskTask[t], unit[s].snap[t]}
      /\ diskTask[t] \in TerminalTask /\ ~(t = s) => m = diskTask[t]
      /\ diskTask[t] \in TerminalTask \/ unit[s].snap[t] \in TerminalTask => m \in TerminalTask
  BY <1>1, MergeFacts
<1>3. memTask'[t] = m
  BY DEF Merge, MergeUnit
<1> HIDE DEF m
<1> QED
  BY <1>2, <1>3

\* The merge of a unit that has settled.
LEMMA MergeKeepsWaves ==
  ASSUME TInv, OwnVerdict, WavesInv, Live, NEW s \in Tasks, Merge(s)
  PROVE  (\A t \in Tasks : Finished(t)' /\ DoneKnown(t)') /\ Done \subseteq Done'
<1> SUFFICES ASSUME NEW t \in Tasks
             PROVE  Finished(t)' /\ DoneKnown(t)' /\ (memTask[t] \in Good => memTask'[t] \in Good)
  BY DEF Done, Good
<1>1. Finished(t) /\ DoneKnown(t)
  BY DEF WavesInv
<1>2. /\ memTask'[t] = MergeTask(diskTask[t], unit[s].snap[t], t = s) /\ diskTask' = memTask'
      /\ unit[s].stage = "settled"
      /\ \A u \in Tasks : unit'[u] = IF u = s THEN NoUnit ELSE unit[u]
  BY DEF Merge, MergeUnit, TInv
<1>3. /\ diskTask[t] \in AtWork /\ unit[s].snap[t] \in AtWork /\ (t = s) \in BOOLEAN
      /\ NoUnit.stage = "none" /\ NoUnit.snap[t] = "queued"
  BY DEF TInv, BusyUnit, NoUnit
<1>4. /\ memTask'[t] \in {diskTask[t], unit[s].snap[t]}
      /\ diskTask[t] \in TerminalTask /\ t # s => memTask'[t] = diskTask[t]
      /\ diskTask[t] \in TerminalTask \/ unit[s].snap[t] \in TerminalTask => memTask'[t] \in TerminalTask
  BY MergedTask
<1>5. Copy(t, Good)' => Copy(t, Good)
  BY <1>2, <1>3, <1>4, GoodIsTerminal DEF Copy
<1>6. DoneKnown(t)'
  BY <1>2 DEF DoneKnown
<1>7. CASE t = s
  <2>1. memTask'[t] \in TerminalTask
    BY <1>2, <1>4, <1>7 DEF OwnVerdict
  <2>2. Finished(t)'
    BY <1>2, <1>3, <1>7, <2>1 DEF Finished
  <2>3. memTask[t] \in Good => memTask'[t] \in Good
    BY <1>1, <1>2, <1>4, <1>7 DEF Finished, DoneKnown, Copy
  <2> QED
    BY <1>6, <2>2, <2>3
<1>8. CASE t # s
  <2>1. Finished(t)'
    BY <1>1, <1>2, <1>4, <1>5, <1>8 DEF Finished
  <2>2. memTask[t] \in Good => memTask'[t] \in Good
    BY <1>1, <1>4, <1>8, GoodIsTerminal DEF DoneKnown
  <2> QED
    BY <1>6, <2>1, <2>2
<1> QED
  BY <1>7, <1>8

\* A whole array is saved, adopted or cancelled; the units stay.
LEMMA ArraysKeepWaves ==
  ASSUME TInv, NEW t \in Tasks, Finished(t), DoneKnown(t), UNCHANGED unit,
         \/ memTask'[t] = memTask[t] /\ diskTask'[t] \in {diskTask[t], memTask[t]}
         \/ memTask'[t] = diskTask[t] /\ diskTask'[t] = diskTask[t]
         \/ /\ memTask[t] \notin TerminalTask /\ memTask'[t] = "cancelled"
            /\ diskTask'[t] = diskTask[t]
         \/ /\ diskTask[t] \notin TerminalTask /\ diskTask'[t] = "cancelled"
            /\ memTask'[t] = memTask[t]
  PROVE  Finished(t)' /\ DoneKnown(t)' /\ (memTask[t] \in Good => memTask'[t] \in Good)
<1>1. /\ memTask'[t] \in {memTask[t], diskTask[t], "cancelled"}
      /\ diskTask'[t] \in {memTask[t], diskTask[t], "cancelled"}
  OBVIOUS
<1>2. Copy(t, Good)' => Copy(t, Good)
  BY <1>1, GoodIsTerminal DEF Copy
<1>3. DoneKnown(t)' /\ (memTask[t] \in Good => memTask'[t] \in Good)
  BY GoodIsTerminal DEF DoneKnown
<1>4. /\ memTask[t] \in TerminalTask /\ diskTask[t] \in TerminalTask
           => memTask'[t] \in TerminalTask /\ diskTask'[t] \in TerminalTask
      /\ {memTask[t], diskTask[t]} \subseteq TerminalTask \ Good
           => {memTask'[t], diskTask'[t]} \subseteq TerminalTask \ Good
  BY <1>1
<1>5. Finished(t)'
  BY <1>2, <1>4 DEF Finished
<1> QED
  BY <1>3, <1>5

\* Where the loop goes on, it went on before.
LEMMA LiveStays ==
  ASSUME IInv, [Next]_vars, Live'
  PROVE  Live
<1> USE DEF Live, InLoop
<1>1. ASSUME NEW s \in Tasks, UnitStep(s) \/ Heartbeat(s) PROVE Live
  BY <1>1 DEF UnitStep, Heartbeat, Prepare, Finish, PersistVerdict, Retry, GiveUp, runner
<1>2. CASE Top \/ Select \/ Post \/ CheckManifest \/ WriteManifest \/ \E t \in Tasks : Merge(t)
  BY <1>2 DEF Top, Select, Post, CheckManifest, WriteManifest, Merge
<1>3. CASE Save \/ Drained
  BY <1>3 DEF Save, Drained, IInv, OutOfLoop
<1>4. CASE SetCancelled \/ SetBlocked \/ SetFailed
  BY <1>4 DEF SetCancelled, SetBlocked, SetFailed, SetStatus, Drain, Goto, GotoVia
<1>5. CASE Settle \/ Finalize \/ Closeout \/ Caught \/ SetCaught
  BY <1>5 DEF Settle, Finalize, Closeout, Caught, SetCaught, Drain, Goto, GotoVia
<1>6. CASE Cancel \/ Abort \/ UNCHANGED vars
  BY <1>6 DEF Cancel, Abort, vars, runner
<1> QED
  BY <1>1, <1>2, <1>3, <1>4, <1>5, <1>6 DEF Next, RunnerStep

\* A vetoed task is not done, a started one is not done either.
LEMMA SelectKeepsWaves ==
  ASSUME TInv, IInv, WavesInv, Live, Select
  PROVE  (\A t \in Tasks : Finished(t)' /\ DoneKnown(t)') /\ Done \subseteq Done'
<1> SUFFICES ASSUME NEW t \in Tasks
             PROVE  Finished(t)' /\ DoneKnown(t)' /\ (memTask[t] \in Good => memTask'[t] \in Good)
  BY DEF Done, Good
<1>1. Finished(t) /\ DoneKnown(t) /\ UNCHANGED diskTask
  BY SelectCases DEF WavesInv
<1>2. CASE Blocks
  <2>1. memTask'[t] = memTask[t] \/ (memTask[t] = "queued" /\ memTask'[t] = "skipped")
    BY <1>2 DEF Blocks, Blocked, TInv
  <2>2. Copy(t, Good)' => Copy(t, Good)
    BY <1>1, <1>2, <2>1, GoodIsTerminal DEF Copy, Blocks
  <2> QED
    BY <1>1, <1>2, <2>1, <2>2, GoodIsTerminal DEF Blocks, Finished, DoneKnown, TerminalTask
<1>3. ASSUME NEW vetoed \in SUBSET Tasks, NEW start \in SUBSET Tasks, Starts(vetoed, start)
      PROVE  Finished(t)' /\ DoneKnown(t)' /\ (memTask[t] \in Good => memTask'[t] \in Good)
  <2>1. \A u \in Tasks : unit'[u] = IF u \in start THEN BeginAttempt(u, 1) ELSE unit[u]
    BY <1>3, StartsUnits
  <2>2. memTask'[t] = IF t \in vetoed THEN "skipped" ELSE memTask[t]
    BY <1>3, StartsUnits
  <2>3. t \in start \cup vetoed => memTask[t] \notin Good /\ unit[t].stage = "none"
    <3>1. t \in start \cup vetoed => t \in Ready \ pending
      BY <1>3, StartsUnits
    <3>2. t \in Ready => memTask[t] \notin Good
      BY DEF Ready, Done, Good
    <3>3. t \notin pending => unit[t].stage = "none"
      BY DEF IInv, UnitsKnown
    <3> QED
      BY <3>1, <3>2, <3>3
  <2>4. \A u \in Tasks : unit'[u].snap[t] \in {unit[u].snap[t], diskTask[t], "queued", "running"}
    <3>1. \A u \in Tasks : BeginAttempt(u, 1).snap[t] \in {diskTask[t], "queued", "running"}
      BY BeginCopies
    <3> QED
      BY <2>1, <3>1
  <2>5. Copy(t, Good)' => Copy(t, Good)
    BY <1>1, <2>2, <2>4, GoodIsTerminal DEF Copy
  <2>6. DoneKnown(t)' /\ (memTask[t] \in Good => memTask'[t] \in Good)
    BY <1>1, <2>2, <2>3, GoodIsTerminal DEF DoneKnown
  <2>7. CASE t \notin start
    <3>1. unit'[t] = unit[t]
      BY <2>1, <2>7
    <3>2. t \in vetoed => Finished(t)'
      BY <1>1, <2>2, <2>3, <2>5, <3>1 DEF Finished, TerminalTask
    <3>3. t \notin vetoed => Finished(t)'
      BY <1>1, <2>2, <2>5, <3>1 DEF Finished
    <3> QED
      BY <2>6, <3>2, <3>3
  <2>8. CASE t \in start
    <3>1. t \notin vetoed /\ memTask'[t] = memTask[t]
      BY <1>3, <2>2, <2>8, StartsUnits
    <3>2. Copy(t, Good)' => memTask[t] \in TerminalTask \ Good /\ diskTask[t] \in TerminalTask
      BY <1>1, <2>3, <2>5, <2>8 DEF Finished
    <3>3. \/ unit'[t].stage = "giveup"
          \/ unit'[t].stage = "settled" /\ unit'[t].snap[t] = diskTask[t]
          \/ unit'[t].stage = "prepare" /\ diskTask[t] \in {"queued", "running"}
      BY <2>1, <2>8, BeginCopies
    <3>4. Finished(t)'
      BY <1>1, <3>1, <3>2, <3>3 DEF Finished, TerminalTask
    <3> QED
      BY <2>6, <3>4
  <2> QED
    BY <2>7, <2>8
<1> QED
  BY <1>2, <1>3, SelectCases

\* Every step of the runner after which the loop goes on.
LEMMA RunnerKeepsWaves ==
  ASSUME TInv, IInv, OwnVerdict, WavesInv, RunnerStep, Live'
  PROVE  (\A t \in Tasks : Finished(t)' /\ DoneKnown(t)') /\ Done \subseteq Done'
<1>1. Live
  BY LiveStays DEF Next
<1>2. CASE Select
  BY <1>1, <1>2, SelectKeepsWaves
<1>3. CASE \E s \in Tasks : Merge(s)
  BY <1>1, <1>3, MergeKeepsWaves
<1>4. CASE Settle \/ Drained
  BY <1>4 DEF Settle, Drained, Live, InLoop, GotoVia, IInv, OutOfLoop
<1>5. CASE Caught \/ SetCaught
  BY <1>5 DEF Caught, SetCaught, Live, InLoop, Goto, GotoVia, IInv, OutOfLoop
<1>6. ASSUME UNCHANGED unit,
             \A t \in Tasks :
               \/ memTask'[t] = memTask[t] /\ diskTask'[t] \in {diskTask[t], memTask[t]}
               \/ memTask'[t] = diskTask[t] /\ diskTask'[t] = diskTask[t]
               \/ /\ memTask[t] \notin TerminalTask /\ memTask'[t] = "cancelled"
                  /\ diskTask'[t] = diskTask[t]
      PROVE  (\A t \in Tasks : Finished(t)' /\ DoneKnown(t)') /\ Done \subseteq Done'
  <2>1. ASSUME NEW t \in Tasks
        PROVE  Finished(t)' /\ DoneKnown(t)' /\ (memTask[t] \in Good => memTask'[t] \in Good)
    BY <1>1, <1>6, ArraysKeepWaves DEF WavesInv
  <2> QED
    BY <2>1 DEF Done, Good
<1>7. \A t \in Tasks : CancelAll(memTask)[t] = IF memTask[t] \in TerminalTask THEN memTask[t] ELSE "cancelled"
  BY DEF CancelAll
<1>8. CASE Top
  <2>1. UNCHANGED <<unit, diskTask>> /\ memTask' \in {memTask, diskTask, CancelAll(memTask)}
    BY <1>8 DEF Top, disk
  <2> QED
    BY <1>6, <1>7, <2>1
<1>9. CASE Post
  <2>1. UNCHANGED <<unit, diskTask>> /\ memTask' \in {memTask, CancelAll(memTask)}
    BY <1>9 DEF Post
  <2> QED
    BY <1>6, <1>7, <2>1
<1>10. CASE Save
  BY <1>6, <1>10 DEF Save
<1>11. CASE CheckManifest \/ WriteManifest \/ SetCancelled \/ SetBlocked \/ SetFailed
  BY <1>6, <1>11 DEF CheckManifest, WriteManifest, SetCancelled, SetBlocked, SetFailed, SetStatus, disk
<1>12. CASE Finalize
  <2>1. pending # {} /\ UNCHANGED <<unit, diskTask>>
    BY <1>12 DEF Finalize, disk, Live, InLoop, Goto
  <2>2. \A t \in Tasks : memTask'[t] = memTask[t]
    BY <1>12, <2>1 DEF Finalize
  <2> QED
    BY <1>6, <2>1, <2>2
<1>13. CASE Closeout
  BY <1>6, <1>13 DEF Closeout, disk
<1> QED
  BY <1>2, <1>3, <1>4, <1>5, <1>8, <1>9, <1>10, <1>11, <1>12, <1>13 DEF RunnerStep

\* ... and every other step.
LEMMA NextWavesInv == TInv /\ IInv /\ OwnVerdict /\ WavesInv /\ [Next]_vars => WavesInv'
<1> SUFFICES ASSUME TInv, IInv, OwnVerdict, WavesInv, [Next]_vars, Live' PROVE WavesInv'
  BY DEF WavesInv
<1>1. CASE RunnerStep
  BY <1>1, RunnerKeepsWaves DEF WavesInv
<1>2. ASSUME NEW s \in Tasks, UnitStep(s) \/ Heartbeat(s) PROVE WavesInv'
  BY <1>2, UnitKeepsWaves
<1>3. CASE Cancel \/ Abort \/ UNCHANGED vars
  <2> SUFFICES ASSUME NEW t \in Tasks PROVE Finished(t)' /\ DoneKnown(t)'
    BY DEF WavesInv
  <2>1. Finished(t) /\ DoneKnown(t)
    BY LiveStays DEF WavesInv
  <2>2. CancelAll(diskTask)[t] = IF diskTask[t] \in TerminalTask THEN diskTask[t] ELSE "cancelled"
    BY DEF CancelAll
  <2>3. UNCHANGED <<unit, memTask>> /\ diskTask' \in {diskTask, CancelAll(diskTask)}
    BY <1>3 DEF Cancel, Abort, vars, runner, disk
  <2> QED
    BY <2>1, <2>2, <2>3, ArraysKeepWaves
<1> QED
  BY <1>1, <1>2, <1>3 DEF Next

\* The tasks that are to be done before t.
Before(t) == setting.deps[t] \cup (IF Planned THEN Lower(t) ELSE {})

\* The setting is the same for the whole run ...
LEMMA SettingStays == [Next]_vars => setting' = setting
BY DEF Next, vars, runner, RunnerStep, UnitStep, Heartbeat, Cancel, Abort, Top, Select, Merge, Post,
       Save, CheckManifest, WriteManifest, SetCancelled, SetBlocked, SetFailed, SetStatus, Settle,
       Finalize, Closeout, Drained, Caught, SetCaught, Prepare, Finish, PersistVerdict, Retry, GiveUp

\* ... and so is the plan.
LEMMA PlanStays ==
  ASSUME [Next]_vars, NEW t \in Tasks
  PROVE  Before(t)' = Before(t)
<1>1. setting' = setting
  BY SettingStays
<1> QED
  BY <1>1 DEF Before, Planned, Lower, Dependencies, HasCycle, Assigned

\* What is started is ready: everything before it is done.
LEMMA ReadyAfterAll ==
  ASSUME TInv, NEW t \in Ready
  PROVE  Before(t) \subseteq Done
<1>1. setting \in Settings /\ setting.deps[t] \subseteq Tasks
  BY SettingTyped DEF TInv, Ready
<1>2. CASE Planned
  <2>1. setting.deps[t] \subseteq Lower(t) /\ Lower(t) \subseteq Done
    BY <1>1, <1>2, PlanOrdersDeps DEF Ready
  <2> QED
    BY <1>2, <2>1 DEF Before
<1>3. CASE ~Planned
  BY <1>1, <1>3 DEF Before, Ready, Done
<1> QED
  BY <1>2, <1>3

\* Where a unit is at work after a step it was before, or a batch started it.
LEMMA OpenedBySelect ==
  ASSUME TInv, [Next]_vars, NEW t \in Tasks, Open(t)'
  PROVE  \/ Open(t)
         \/ \E vetoed \in SUBSET Tasks, start \in SUBSET Tasks : Starts(vetoed, start) /\ t \in start
<1>1. ~(NoUnit.stage \in {"prepare", "running", "persist", "backoff"})
  BY DEF NoUnit
<1>2. ASSUME NEW s \in Tasks, UnitStep(s) \/ Heartbeat(s) PROVE Open(t)
  <2>1. CASE s # t
    BY <1>2, <2>1, StepOfOthers DEF Open
  <2>2. CASE s = t
    BY <1>2, <2>2, StepOfOwn DEF Open
  <2> QED
    BY <2>1, <2>2
<1>3. CASE Select
  <2>1. CASE Blocks
    BY <2>1 DEF Blocks, Open
  <2>2. ASSUME NEW vetoed \in SUBSET Tasks, NEW start \in SUBSET Tasks, Starts(vetoed, start)
        PROVE  Open(t) \/ (Starts(vetoed, start) /\ t \in start)
    BY <2>2, StartsUnits DEF Open
  <2> QED
    BY <1>3, <2>1, <2>2, SelectCases
<1>4. CASE (\E s \in Tasks : Merge(s)) \/ Settle \/ Drained
  <2>1. unit'[t] \in {NoUnit, unit[t]}
    BY <1>4 DEF Merge, Settle, Drained, TInv
  <2> QED
    BY <1>1, <2>1 DEF Open
<1>5. CASE UNCHANGED unit
  BY <1>5 DEF Open
<1> QED
  BY <1>2, <1>3, <1>4, <1>5, RunnerAndUnits DEF Next, Cancel, Abort, vars

\* Nothing that is done is taken back while the loop goes on.
LEMMA DoneGrows ==
  ASSUME TInv, IInv, OwnVerdict, WavesInv, [Next]_vars, Live'
  PROVE  Done \subseteq Done'
<1>1. CASE RunnerStep
  BY <1>1, RunnerKeepsWaves
<1>2. CASE UNCHANGED memTask
  BY <1>2 DEF Done
<1>3. ASSUME NEW s \in Tasks, UnitStep(s) \/ Heartbeat(s) PROVE UNCHANGED memTask
  BY <1>3, StepOfOthers
<1>4. Cancel \/ Abort \/ UNCHANGED vars => UNCHANGED memTask
  BY DEF Cancel, Abort, vars, runner
<1> QED
  BY <1>1, <1>2, <1>3, <1>4 DEF Next

LEMMA NextWavesInOrder ==
  TInv /\ IInv /\ OwnVerdict /\ WavesInv /\ WavesInOrder /\ [Next]_vars => WavesInOrder'
<1> SUFFICES ASSUME TInv, IInv, OwnVerdict, WavesInv, WavesInOrder, [Next]_vars,
                    NEW t \in Tasks, Open(t)'
             PROVE  Before(t)' \subseteq Done'
  BY DEF WavesInOrder, Open, Before
<1>1. Live'
  BY NextIInv DEF IInv, UnitsKnown, Live, Open
<1>2. Done \subseteq Done' /\ Before(t)' = Before(t)
  BY <1>1, DoneGrows, PlanStays
<1>3. CASE Open(t)
  BY <1>2, <1>3 DEF WavesInOrder, Open, Before
<1>4. ASSUME NEW vetoed \in SUBSET Tasks, NEW start \in SUBSET Tasks, Starts(vetoed, start), t \in start
      PROVE  Before(t) \subseteq Done
  BY <1>4, StartsUnits, ReadyAfterAll
<1> QED
  BY <1>2, <1>3, <1>4, OpenedBySelect

LEMMA InitWaves == Init => OwnVerdict /\ WavesInv /\ WavesInOrder
<1> SUFFICES ASSUME Init PROVE OwnVerdict /\ WavesInv /\ WavesInOrder
  OBVIOUS
<1>1. \A t \in Tasks : /\ unit[t].stage = "none" /\ \A s \in Tasks : unit[t].snap[s] = "queued"
                       /\ memTask[t] = "queued" /\ diskTask[t] = "queued"
  BY DEF Init, NoUnit
<1> QED
  BY <1>1, GoodIsTerminal DEF OwnVerdict, WavesInv, WavesInOrder, Finished, DoneKnown, Copy

\* dispatchBatch and everything that writes the task array: a worker is at work
\* only while all it waits for is done, whatever is merged, saved or adopted.
THEOREM WavesKept == Spec => []WavesInOrder
<1> QED
  BY InitTInv, NextTInv, InitIInv, NextIInv, InitWaves, NextOwnVerdict, NextWavesInv,
     NextWavesInOrder, PTL DEF Spec

-----------------------------------------------------------------------------
(* The run's status. *)

\* The head of attempt n: the run status the unit has seen.
LEMMA BeginRun ==
  ASSUME TInv, NEW t \in Tasks, NEW n \in Nat
  PROVE  LET u == BeginAttempt(t, n)
         IN \/ u.stage = "giveup" /\ u.run = "running" /\ Stop
            \/ u.stage = "settled" /\ u.run = diskRun /\ ~Stop
            \/ u.stage = "prepare" /\ u.run = diskRun /\ u.attempt = n /\ ~Stop
<1> DEFINE retried == n > 1 /\ diskRun \notin TerminalRun /\ diskTask[t] = "failed"
           fresh == IF retried THEN [diskTask EXCEPT ![t] = "queued"] ELSE diskTask
           u == BeginAttempt(t, n)
<1>1. u = IF Stop THEN [NoUnit EXCEPT !.stage = "giveup"]
          ELSE IF fresh[t] \notin {"queued", "running"} THEN Settled(diskRun, fresh)
          ELSE [NoUnit EXCEPT !.stage = "prepare", !.attempt = n, !.run = diskRun, !.snap = fresh]
  BY DEF BeginAttempt
<1>2. [NoUnit EXCEPT !.stage = "giveup"].stage = "giveup" /\ [NoUnit EXCEPT !.stage = "giveup"].run = "running"
  BY DEF NoUnit
<1> HIDE DEF u, fresh
<1>3. LET v == [NoUnit EXCEPT !.stage = "prepare", !.attempt = n, !.run = diskRun, !.snap = fresh]
      IN v.stage = "prepare" /\ v.run = diskRun /\ v.attempt = n
  BY DEF NoUnit
<1>4. CASE Stop
  BY <1>1, <1>2, <1>4 DEF u
<1>5. CASE ~Stop /\ fresh[t] \notin {"queued", "running"}
  <2>1. u.stage = "settled" /\ u.run = diskRun
    BY <1>1, <1>5, SettledFields
  <2> QED
    BY <1>5, <2>1 DEF u
<1>6. CASE ~Stop /\ fresh[t] \in {"queued", "running"}
  BY <1>1, <1>3, <1>6 DEF u
<1> QED
  BY <1>4, <1>5, <1>6

\* What a step of unit t does to the run's status: only the worker's final
\* persist and the end of its retries write it.
LEMMA StepOfRun ==
  ASSUME TInv, NEW t \in Tasks, UnitStep(t) \/ Heartbeat(t)
  PROVE  LET from == unit[t].stage
             to == unit'[t].stage
             same == diskRun' = diskRun
             seen == unit'[t].run = unit[t].run
         IN \/ from = "running" /\ unit'[t] = unit[t] /\ same
            \/ from = "prepare" /\ to = "settled" /\ Stop /\ same /\ seen
            \/ from = "prepare" /\ to = "running" /\ same /\ seen /\ unit'[t].attempt = unit[t].attempt
            \/ /\ from = "running" /\ to = "persist" /\ same /\ seen
               /\ unit'[t].carry = Preserve(diskRun, unit[t].run) /\ unit'[t].attempt = unit[t].attempt
            \/ /\ from = "persist" /\ diskRun' = unit[t].carry /\ seen
               /\ \/ to = "settled"
                  \/ to = "giveup" /\ signal
                  \/ to = "backoff" /\ unit'[t].attempt = unit[t].attempt
                     /\ unit[t].attempt # setting.attempts
            \/ /\ from = "backoff" /\ same
               /\ \/ to = "giveup" /\ Stop /\ unit'[t].run = "running"
                  \/ to = "settled" /\ unit'[t].run = diskRun
                  \/ to = "prepare" /\ unit'[t].run = diskRun /\ unit'[t].attempt = unit[t].attempt + 1
            \/ from = "giveup" /\ to = "settled" /\ diskRun' = "cancelled" /\ unit'[t].run = "cancelled"
<1>1. unit \in [Tasks -> BusyUnit] /\ unit[t] \in BusyUnit /\ unit[t].attempt \in Nat
  BY DEF TInv, BusyUnit
<1>2. CASE Heartbeat(t)
  BY <1>2 DEF Heartbeat
<1>3. CASE Prepare(t)
  <2> DEFINE a == Settled(unit[t].run, [unit[t].snap EXCEPT ![t] = "cancelled"])
             b == [unit[t] EXCEPT !.stage = "running", !.snap = NoUnit.snap]
  <2>1. b.stage = "running" /\ b.run = unit[t].run /\ b.attempt = unit[t].attempt
    BY <1>1 DEF BusyUnit
  <2>2. a.stage = "settled" /\ a.run = unit[t].run
    BY SettledFields
  <2>3. unit[t].stage = "prepare" /\ UNCHANGED diskRun
        /\ ((Stop /\ unit'[t] = a) \/ unit'[t] = b)
    BY <1>1, <1>3 DEF Prepare
  <2> HIDE DEF a, b
  <2> QED
    BY <2>1, <2>2, <2>3
<1>4. ASSUME NEW v \in setting.verdicts, Finish(t, v)
      PROVE  /\ unit[t].stage = "running" /\ unit'[t].stage = "persist" /\ diskRun' = diskRun
             /\ unit'[t].run = unit[t].run /\ unit'[t].attempt = unit[t].attempt
             /\ unit'[t].carry = Preserve(diskRun, unit[t].run)
  <2> DEFINE c == Preserve(diskRun, unit[t].run)
             u == [unit[t] EXCEPT !.stage = "persist", !.verdict = v, !.carry = c]
  <2>1. unit'[t] = u /\ unit[t].stage = "running" /\ diskRun' = diskRun
    BY <1>1, <1>4 DEF Finish, disk
  <2>2. u.stage = "persist" /\ u.run = unit[t].run /\ u.attempt = unit[t].attempt /\ u.carry = c
    <3> HIDE DEF c
    <3> QED
      BY <1>1 DEF BusyUnit
  <2> HIDE DEF u
  <2> QED
    BY <2>1, <2>2
<1>5. CASE PersistVerdict(t)
  <2> DEFINE tasks == [diskTask EXCEPT ![t] = PersistOwn(@, unit[t].verdict)]
             a == Settled(unit[t].run, tasks)
             b == [unit[t] EXCEPT !.stage = "giveup"]
             c == [unit[t] EXCEPT !.stage = "backoff"]
  <2>1. /\ b.stage = "giveup" /\ b.run = unit[t].run
        /\ c.stage = "backoff" /\ c.run = unit[t].run /\ c.attempt = unit[t].attempt
    BY <1>1 DEF BusyUnit
  <2>2. a.stage = "settled" /\ a.run = unit[t].run
    <3> HIDE DEF tasks
    <3> QED
      BY SettledFields
  <2>3. diskRun' = unit[t].carry /\ unit[t].stage = "persist"
    BY <1>5 DEF PersistVerdict
  <2>4. unit'[t] = a \/ (signal /\ unit'[t] = b) \/ (unit[t].attempt # setting.attempts /\ unit'[t] = c)
    BY <1>1, <1>5 DEF PersistVerdict, AfterFailure
  <2> HIDE DEF a, b, c, tasks
  <2> QED
    BY <2>1, <2>2, <2>3, <2>4
<1>6. CASE Retry(t)
  <2>1. unit'[t] = BeginAttempt(t, unit[t].attempt + 1) /\ unit[t].attempt + 1 \in Nat
    BY <1>1, <1>6 DEF Retry
  <2>2. unit[t].stage = "backoff" /\ UNCHANGED diskRun
    BY <1>6 DEF Retry, disk
  <2> QED
    BY <2>1, <2>2, BeginRun
<1>7. CASE GiveUp(t)
  <2> DEFINE tasks == [diskTask EXCEPT ![t] = IF @ \in {"queued", "running"} THEN "cancelled" ELSE @]
  <2>1. unit'[t] = Settled("cancelled", tasks) /\ diskRun' = "cancelled" /\ unit[t].stage = "giveup"
    BY <1>1, <1>7 DEF GiveUp
  <2>2. unit'[t].stage = "settled" /\ unit'[t].run = "cancelled"
    <3> HIDE DEF tasks
    <3> QED
      BY <2>1, SettledFields
  <2> QED
    BY <2>1, <2>2
<1> QED
  BY <1>2, <1>3, <1>4, <1>5, <1>6, <1>7 DEF UnitStep

\* Statuses a task of a completed run does not have.
Left == {"queued", "running", "failed"}

\* Only the close-out comes by "completed", with every unit merged or gone, and
\* with the tasks it writes all over; no copy a unit holds says so.
CompletedInv ==
  /\ diskRun = "completed" =>
       pc \in {"drain", "done"} /\ next = "done" /\ pending = {} /\ \A t \in Tasks : diskTask[t] \notin Left
  /\ carry = "completed" => pc = "closeout" /\ pending = {} /\ \A t \in Tasks : memTask[t] \notin Left
  /\ memRun = "completed" => pc \in {"drain", "done"} /\ next = "done"
  /\ \A t \in Tasks : /\ unit[t].run # "completed"
                      /\ unit[t].stage = "persist" => unit[t].carry # "completed"
  /\ pc = "finalize" => pending = {} \/ memRun \in {"failed", "cancelled"}
  /\ pc = "setFailed" \/ (pc = "save" /\ next = "setFailed") => pending = {}

\* While a unit is in flight the run is not completed.
LEMMA UnitKeepsCompleted ==
  ASSUME TInv, IInv, CompletedInv, NEW s \in Tasks, UnitStep(s) \/ Heartbeat(s)
  PROVE  CompletedInv'
<1>1. UNCHANGED <<memRun, memTask, pc, next, carry, pending>>
      /\ \A t \in Tasks \ {s} : unit'[t] = unit[t]
  BY StepOfOthers
<1>2. unit[s].stage # "none"
  BY StepOfOwn
<1>3. pending # {} /\ diskRun # "completed"
  BY <1>2 DEF IInv, UnitsKnown, CompletedInv
<1>4. unit[s].run # "completed" /\ (unit[s].stage = "persist" => unit[s].carry # "completed")
  BY DEF CompletedInv
<1>5. Preserve(diskRun, unit[s].run) # "completed"
  BY <1>3, <1>4, PreserveEither
<1>6. /\ diskRun' # "completed" /\ unit'[s].run # "completed"
      /\ unit'[s].stage = "persist" => unit'[s].carry # "completed"
  BY <1>3, <1>4, <1>5, StepOfRun
<1> QED
  BY <1>1, <1>6 DEF CompletedInv

\* What the runner's steps start or end has not seen a completed run.
LEMMA RunnerUnitsRun ==
  ASSUME TInv, CompletedInv, RunnerStep, NEW t \in Tasks
  PROVE  unit'[t].run # "completed" /\ (unit'[t].stage = "persist" => unit'[t].carry # "completed")
<1>1. unit'[t] = unit[t] \/ unit'[t] = NoUnit => unit'[t].run # "completed"
         /\ (unit'[t].stage = "persist" => unit'[t].carry # "completed")
  BY DEF CompletedInv, NoUnit
<1>2. CASE Select
  <2>1. diskRun # "completed"
    BY <1>2 DEF CompletedInv, Select
  <2>2. CASE Blocks
    BY <1>1, <2>2 DEF Blocks
  <2>3. ASSUME NEW vetoed \in SUBSET Tasks, NEW start \in SUBSET Tasks, Starts(vetoed, start)
        PROVE  unit'[t].run # "completed" /\ (unit'[t].stage = "persist" => unit'[t].carry # "completed")
    <3>1. unit'[t] \in {BeginAttempt(t, 1), unit[t]}
      BY <2>3, StartsUnits
    <3> QED
      BY <1>1, <2>1, <3>1, BeginRun
  <2> QED
    BY <1>2, <2>2, <2>3, SelectCases
<1>3. CASE (\E s \in Tasks : Merge(s)) \/ Settle \/ Drained
  <2>1. unit'[t] \in {NoUnit, unit[t]}
    BY <1>3 DEF Merge, Settle, Drained, TInv
  <2> QED
    BY <1>1, <2>1
<1> QED
  BY <1>1, <1>2, <1>3, RunnerAndUnits

\* The runner's steps: finalizeRun looks at the tasks it then writes.
LEMMA RunnerKeepsCompleted ==
  ASSUME TInv, IInv, CompletedInv, RunnerStep
  PROVE  CompletedInv'
<1> DEFINE Rest ==
      /\ diskRun' = "completed" =>
           pc' \in {"drain", "done"} /\ next' = "done" /\ pending' = {}
           /\ \A t \in Tasks : diskTask'[t] \notin Left
      /\ carry' = "completed" => pc' = "closeout" /\ pending' = {} /\ \A t \in Tasks : memTask'[t] \notin Left
      /\ memRun' = "completed" => pc' \in {"drain", "done"} /\ next' = "done"
      /\ pc' = "finalize" => pending' = {} \/ memRun' \in {"failed", "cancelled"}
      /\ pc' = "setFailed" \/ (pc' = "save" /\ next' = "setFailed") => pending' = {}
<1>1. Rest => CompletedInv'
  BY RunnerUnitsRun DEF CompletedInv
<1> HIDE DEF Rest
<1> USE DEF CompletedInv, Goto, GotoVia, Drain
<1>2. CASE Top
  BY <1>1, <1>2 DEF Top, disk, Rest
<1>3. CASE Select
  <2>1. diskRun # "completed" /\ memRun # "completed" /\ carry # "completed" /\ carry' = carry /\ pc = "select"
    BY <1>3, SelectCases
  <2>2. CASE Blocks
    BY <1>1, <2>1, <2>2 DEF Blocks, Rest
  <2>3. ASSUME NEW vetoed \in SUBSET Tasks, NEW start \in SUBSET Tasks, Starts(vetoed, start)
        PROVE  CompletedInv'
    <3>1. diskRun' # "completed" /\ memRun' # "completed" /\ pc' \in {"top", "wait"}
      BY <2>1, <2>3, PreserveEither DEF Starts
    <3> QED
      BY <1>1, <2>1, <3>1 DEF Rest
  <2> QED
    BY <1>3, <2>2, <2>3, SelectCases
<1>4. ASSUME NEW s \in Tasks, Merge(s) PROVE CompletedInv'
  <2>1. diskRun # "completed" /\ carry' # "completed"
    BY <1>4 DEF Merge
  <2>2. diskRun' # "completed" /\ memRun' # "completed"
    BY <1>4, <2>1, PreserveEither DEF Merge
  <2>3. pc' = "finalize" => memRun' \in {"failed", "cancelled"}
    BY <1>4, <2>2 DEF Merge, PreservedRun
  <2>4. pc' \in {"finalize", "post"}
    BY <1>4 DEF Merge
  <2> QED
    BY <1>1, <2>1, <2>2, <2>3, <2>4 DEF Rest
<1>5. CASE Post
  BY <1>1, <1>5 DEF Post, Rest
<1>6. CASE Save
  BY <1>1, <1>6 DEF Save, Rest, IInv, OutOfLoop
<1>7. CASE CheckManifest
  <2>1. Preserve(diskRun, memRun) # "completed"
    BY <1>7, PreserveEither DEF CheckManifest
  <2> QED
    BY <1>1, <1>7, <2>1 DEF CheckManifest, disk, Rest
<1>8. CASE WriteManifest
  BY <1>1, <1>8 DEF WriteManifest, Rest
<1>9. ASSUME NEW at \in {"setCancelled", "setBlocked", "setFailed"},
             NEW status \in {"cancelled", "blocked", "failed"}, NEW then \in BOOLEAN,
             then => \/ Drain("done")
                     \/ Goto("finalize") /\ UNCHANGED stopped /\ at = "setFailed",
             SetStatus(at, status, then)
      PROVE  CompletedInv'
  <2>1. Preserve(diskRun, status) # "completed"
    BY <1>9, PreserveEither DEF SetStatus
  <2> QED
    BY <1>1, <1>9, <2>1 DEF SetStatus, Rest
<1>10. CASE SetCancelled \/ SetBlocked \/ SetFailed
  BY <1>9, <1>10 DEF SetCancelled, SetBlocked, SetFailed
<1>11. CASE Settle
  <2>1. diskRun # "completed" /\ memRun # "completed" /\ carry # "completed"
    BY <1>11 DEF Settle
  <2>2. diskRun' # "completed" /\ memRun' # "completed"
    BY <1>11, <2>1, PreserveEither DEF Settle, disk
  <2> QED
    BY <1>1, <1>11, <2>1, <2>2 DEF Settle, Rest
<1>12. CASE Finalize
  <2>1. diskRun # "completed" /\ memRun # "completed" /\ UNCHANGED <<diskRun, memRun, pending>>
        /\ pc' = "closeout" /\ pc = "finalize"
    BY <1>12 DEF Finalize, disk
  <2>2. ASSUME carry' = "completed" PROVE pending = {} /\ \A t \in Tasks : memTask'[t] \notin Left
    <3>1. \A t \in Tasks : memTask'[t] \notin {"failed", "waiting", "running", "queued"}
      BY <1>12, <2>1, <2>2 DEF Finalize
    <3>2. memRun \notin {"failed", "cancelled"}
      BY <1>12, <2>1, <2>2 DEF Finalize
    <3> QED
      BY <2>1, <3>1, <3>2 DEF Left
  <2> QED
    BY <1>1, <2>1, <2>2 DEF Rest
<1>13. CASE Closeout
  <2>1. diskRun # "completed"
    BY <1>13 DEF Closeout
  <2>2. pc = "closeout" /\ memRun # "completed" /\ carry' = "running" /\ UNCHANGED pending
        /\ pc' = "drain" /\ next' \in {"done", "caught"}
    BY <1>13 DEF Closeout
  <2>3. diskRun' = "completed" \/ memRun' = "completed" =>
          next' = "done" /\ carry = "completed" /\ diskTask' = memTask
    BY <1>13, <2>1, <2>2 DEF Closeout, disk
  <2> QED
    BY <1>1, <2>2, <2>3 DEF Rest
<1>14. CASE Drained
  BY <1>1, <1>14 DEF Drained, disk, Rest, IInv, OutOfLoop
<1>15. CASE Caught \/ SetCaught
  BY <1>1, <1>15 DEF Caught, SetCaught, disk, Rest, IInv, OutOfLoop
<1> QED
  BY <1>2, <1>3, <1>4, <1>5, <1>6, <1>7, <1>8, <1>10, <1>11, <1>12, <1>13, <1>14, <1>15 DEF RunnerStep

LEMMA NextCompletedInv == TInv /\ IInv /\ CompletedInv /\ [Next]_vars => CompletedInv'
<1> SUFFICES ASSUME TInv, IInv, CompletedInv, [Next]_vars PROVE CompletedInv'
  OBVIOUS
<1>1. CASE Cancel \/ Abort \/ UNCHANGED vars
  BY <1>1 DEF Cancel, Abort, vars, runner, disk, CompletedInv
<1> QED
  BY <1>1, UnitKeepsCompleted, RunnerKeepsCompleted DEF Next

\* finalizeRun derives "completed" from the runner's copy of the tasks; what it
\* writes is true of tasks.json then, and nothing written later makes it false.
THEOREM CompletedSettled == Spec => []CompletedRunSettled
<1>1. Init => CompletedInv
  BY DEF Init, CompletedInv, NoUnit
<1>2. CompletedInv => CompletedRunSettled
  BY DEF CompletedInv, CompletedRunSettled, Left
<1> QED
  BY <1>1, <1>2, InitTInv, NextTInv, InitIInv, NextIInv, NextCompletedInv, PTL DEF Spec

-----------------------------------------------------------------------------
(* Skipped tasks. *)

NoneSkipped(tasks) == \A t \in Tasks : tasks[t] # "skipped"

\* While the loop goes on only the runner's copy has skipped tasks, those of a
\* veto; what was dispatched and merged is over in both copies.
SkipInv ==
  /\ InLoop \/ pc = "settle" => NoneSkipped(diskTask) /\ \A u \in Tasks : NoneSkipped(unit[u].snap)
  /\ pc = "post" \/ (pc = "save" /\ next \in {"checkManifest", "writeManifest"}) => NoneSkipped(memTask)
  /\ InLoop => \A t \in dispatched \ pending : memTask[t] \in TerminalTask /\ diskTask[t] \in TerminalTask
  /\ \A t \in Tasks : diskTask[t] = "skipped" => memTask[t] = "skipped"

\* No unit writes "skipped", and none touches the task of another.
LEMMA UnitKeepsSkip ==
  ASSUME TInv, IInv, OwnVerdict, SkipInv, NEW s \in Tasks, UnitStep(s) \/ Heartbeat(s)
  PROVE  SkipInv'
<1>1. UNCHANGED <<memTask, pc, next, pending, dispatched>>
      /\ \A t \in Tasks \ {s} : diskTask'[t] = diskTask[t] /\ unit'[t] = unit[t]
                                /\ unit'[s].snap[t] \in {unit[s].snap[t], diskTask[t], "queued"}
  BY StepOfOthers
<1>2. s \in pending
  BY StepOfOwn DEF IInv, UnitsKnown
<1>3. unit[s].stage = "persist" =>
        PersistOwn(diskTask[s], unit[s].verdict) \in {diskTask[s]} \cup Verdicts
  BY PreserveEither DEF OwnVerdict
<1>4. /\ diskTask'[s] \in {diskTask[s], "running"} \cup Verdicts
      /\ unit'[s].snap[s] \in {unit[s].snap[s], diskTask[s], diskTask'[s], "queued", "running", "cancelled"}
  BY <1>3, StepOfOwn DEF Verdicts
<1>5. diskTask'[s] = "skipped" => diskTask[s] = "skipped"
  BY <1>4 DEF Verdicts
<1>6. \A t \in Tasks : diskTask'[t] = "skipped" => diskTask[t] = "skipped"
  BY <1>1, <1>5
<1>7. ASSUME NoneSkipped(diskTask), \A u \in Tasks : NoneSkipped(unit[u].snap)
      PROVE  NoneSkipped(diskTask') /\ \A u \in Tasks : NoneSkipped(unit'[u].snap)
  <2>1. NoneSkipped(diskTask')
    BY <1>6, <1>7 DEF NoneSkipped
  <2>2. \A t \in Tasks : unit'[s].snap[t] # "skipped"
    BY <1>1, <1>4, <1>5, <1>7 DEF NoneSkipped
  <2> QED
    BY <1>1, <1>7, <2>1, <2>2 DEF NoneSkipped
<1>8. \A t \in dispatched \ pending : t \in Tasks /\ diskTask'[t] = diskTask[t]
  BY <1>1, <1>2 DEF TInv
<1> QED
  BY <1>1, <1>6, <1>7, <1>8 DEF SkipInv, InLoop

\* terminaliseRunWithDrain, task by task: from the runner's copy when nothing is
\* in flight, else from the merge of all results.
LEMMA SettleTasks ==
  ASSUME TInv, Settle, NEW t \in Tasks
  PROVE  \E b \in AtWork :
           /\ \/ pending = {} /\ b = memTask[t] /\ diskTask' = diskTask
              \/ pending # {} /\ b = diskTask'[t] /\ \E order \in Orders : b = MergeAll(order)[t]
           /\ memTask'[t] = IF t \in dispatched /\ b \notin TerminalTask THEN "cancelled"
                            ELSE IF b = "queued" THEN "skipped" ELSE b
<1>1. PICK order \in Orders :
        LET base == IF pending = {} THEN memTask ELSE MergeAll(order)
        IN /\ memTask' = Blocked([u \in Tasks |->
                IF u \in dispatched /\ base[u] \notin TerminalTask THEN "cancelled" ELSE base[u]])
           /\ IF pending = {} THEN diskTask' = diskTask ELSE diskTask' = base
  BY DEF Settle, disk
<1> DEFINE base == IF pending = {} THEN memTask ELSE MergeAll(order)
           cancelled == [u \in Tasks |->
             IF u \in dispatched /\ base[u] \notin TerminalTask THEN "cancelled" ELSE base[u]]
<1>2. base \in [Tasks -> AtWork]
  BY MergeAllTyped DEF TInv
<1>3. /\ memTask' = Blocked(cancelled) /\ (pending = {} => diskTask' = diskTask /\ base = memTask)
      /\ (pending # {} => diskTask' = base /\ base = MergeAll(order))
  BY <1>1
<1> HIDE DEF base
<1>4. cancelled[t] = IF t \in dispatched /\ base[t] \notin TerminalTask THEN "cancelled" ELSE base[t]
  OBVIOUS
<1> HIDE DEF cancelled
<1>5. memTask'[t] = IF cancelled[t] = "queued" THEN "skipped" ELSE cancelled[t]
  BY <1>3 DEF Blocked
<1>6. base[t] \in AtWork
  BY <1>2
<1> QED
  BY <1>3, <1>4, <1>5, <1>6

\* ... and with nothing skipped before, the merge of all results skips nothing.
LEMMA SettleMergesNoSkip ==
  ASSUME TInv, SkipInv, Settle, pending # {}, NEW t \in Tasks
  PROVE  diskTask'[t] # "skipped"
<1>1. /\ diskTask[t] \in AtWork \ {"skipped"}
      /\ \A u \in pending : unit[u].snap[t] \in AtWork \ {"skipped"} /\ u \in Tasks
  BY DEF Settle, SkipInv, NoneSkipped, TInv, BusyUnit
<1>2. \A u \in pending : \A c \in AtWork \ {"skipped"} :
        MergeTask(c, unit[u].snap[t], t = u) \in AtWork \ {"skipped"}
  <2>1. ASSUME NEW u \in pending, NEW c \in AtWork \ {"skipped"}
        PROVE  MergeTask(c, unit[u].snap[t], t = u) \in {c, unit[u].snap[t]}
    BY MergeTaskEither
  <2> QED
    BY <1>1, <2>1
<1>3. ASSUME NEW order \in Orders PROVE MergeAll(order)[t] \in AtWork \ {"skipped"}
  BY <1>1, <1>2, MergeAllIn
<1> QED
  BY <1>3, SettleTasks

\* What the runner's other steps make of a task.
LEMMA RunnerTasks ==
  ASSUME RunnerStep, ~Select, ~(\E s \in Tasks : Merge(s)), ~Settle, NEW t \in Tasks
  PROVE  \/ memTask'[t] = memTask[t] /\ diskTask'[t] = diskTask[t]
         \/ pc \in {"save", "closeout"} /\ memTask'[t] = memTask[t] /\ diskTask'[t] = memTask[t]
         \/ pc \in {"top", "finalize", "closeout", "caught"} /\ memTask'[t] = diskTask[t]
            /\ diskTask'[t] = diskTask[t]
         \/ pc \in {"top", "post"} /\ memTask[t] \notin TerminalTask /\ memTask'[t] = "cancelled"
            /\ diskTask'[t] = diskTask[t]
         \/ pc = "caught" /\ diskTask[t] \notin TerminalTask /\ memTask'[t] = "failed"
            /\ diskTask'[t] = diskTask[t]
<1>1. CancelAll(memTask)[t] = IF memTask[t] \in TerminalTask THEN memTask[t] ELSE "cancelled"
  BY DEF CancelAll
<1>2. CASE Top
  <2>1. pc = "top" /\ diskTask' = diskTask /\ memTask' \in {memTask, diskTask, CancelAll(memTask)}
    BY <1>2 DEF Top, disk
  <2> QED
    BY <1>1, <2>1
<1>3. CASE Post
  <2>1. pc = "post" /\ diskTask' = diskTask /\ memTask' \in {memTask, CancelAll(memTask)}
    BY <1>3 DEF Post
  <2> QED
    BY <1>1, <2>1
<1>4. CASE Finalize
  BY <1>4 DEF Finalize, disk
<1>5. CASE Closeout
  BY <1>5 DEF Closeout, disk
<1>6. CASE Save
  BY <1>6 DEF Save
<1>7. CASE Caught
  BY <1>7 DEF Caught, disk
<1>8. CASE CheckManifest \/ WriteManifest \/ SetCancelled \/ SetBlocked \/ SetFailed \/ Drained \/ SetCaught
  BY <1>8 DEF CheckManifest, WriteManifest, SetCancelled, SetBlocked, SetFailed, SetStatus, Drained,
              SetCaught, disk
<1> QED
  BY <1>2, <1>3, <1>4, <1>5, <1>6, <1>7, <1>8 DEF RunnerStep

\* Once out of the loop the runner does not come back, and it settles from its top.
LEMMA LoopStays ==
  ASSUME IInv, RunnerStep, InLoop' \/ pc' = "settle"
  PROVE  /\ InLoop
         /\ Select \/ (\E s \in Tasks : Merge(s)) \/ UNCHANGED <<unit, pending, dispatched>>
         /\ pc' = "post" => \E s \in Tasks : Merge(s)
         /\ pc' = "save" => pc = "post"
         /\ pc = "save" => next \in {"checkManifest", "writeManifest"}
<1> USE DEF InLoop, Goto, GotoVia, Drain
<1>1. CASE Top \/ CheckManifest \/ WriteManifest
  BY <1>1 DEF Top, CheckManifest, WriteManifest
<1>2. CASE Post
  BY <1>2 DEF Post
<1>3. CASE Select
  BY <1>3, SelectCases DEF Blocks, Starts
<1>4. CASE \E s \in Tasks : Merge(s)
  BY <1>4 DEF Merge
<1>5. CASE Save \/ Drained
  BY <1>5 DEF Save, Drained, IInv, OutOfLoop
<1>6. CASE SetCancelled \/ SetBlocked \/ SetFailed
  BY <1>6 DEF SetCancelled, SetBlocked, SetFailed, SetStatus
<1>7. CASE Settle \/ Finalize \/ Closeout \/ Caught \/ SetCaught
  BY <1>7 DEF Settle, Finalize, Closeout, Caught, SetCaught
<1> QED
  BY <1>1, <1>2, <1>3, <1>4, <1>5, <1>6, <1>7 DEF RunnerStep

\* A settled unit is merged.
LEMMA MergeKeepsSkip ==
  ASSUME TInv, OwnVerdict, SkipInv, NEW s \in Tasks, Merge(s)
  PROVE  SkipInv' /\ NoneSkipped(memTask')
<1>1. /\ \A t \in Tasks : memTask'[t] = MergeTask(diskTask[t], unit[s].snap[t], t = s)
      /\ diskTask' = memTask' /\ unit[s].stage = "settled" /\ pc = "wait" /\ pc' \in {"finalize", "post"}
      /\ \A u \in Tasks : unit'[u] = IF u = s THEN NoUnit ELSE unit[u]
      /\ dispatched' \ pending' \subseteq (dispatched \ pending) \cup {s}
  BY DEF Merge, MergeUnit, TInv, Goto
<1>2. \A t \in Tasks : NoUnit.snap[t] = "queued"
  BY DEF NoUnit
<1>3. NoneSkipped(diskTask) /\ \A u \in Tasks : NoneSkipped(unit[u].snap)
  BY <1>1 DEF SkipInv, InLoop
<1>4. \A t \in Tasks : memTask'[t] \in {diskTask[t], unit[s].snap[t]}
  BY <1>1, MergeTaskEither
<1>5. NoneSkipped(memTask') /\ NoneSkipped(diskTask') /\ \A u \in Tasks : NoneSkipped(unit'[u].snap)
  BY <1>1, <1>2, <1>3, <1>4 DEF NoneSkipped
<1>6. ASSUME NEW t \in (dispatched \ pending) \cup {s} PROVE memTask'[t] \in TerminalTask
  <2>1. t \in Tasks /\ diskTask[t] \in AtWork /\ unit[s].snap[t] \in AtWork /\ (t = s) \in BOOLEAN
    BY DEF TInv, BusyUnit
  <2>2. diskTask[t] \in TerminalTask \/ unit[s].snap[t] \in TerminalTask
    BY <1>1, <1>6 DEF OwnVerdict, SkipInv, InLoop
  <2> QED
    BY <2>1, <2>2, MergedTask
<1> QED
  BY <1>1, <1>5, <1>6 DEF SkipInv, NoneSkipped

\* A batch is started, or there is nothing to start.
LEMMA SelectKeepsSkip ==
  ASSUME TInv, SkipInv, Select
  PROVE  SkipInv'
<1>1. pc = "select" /\ diskTask' = diskTask
  BY SelectCases
<1>2. /\ NoneSkipped(diskTask) /\ \A u \in Tasks : NoneSkipped(unit[u].snap)
      /\ \A t \in dispatched \ pending : memTask[t] \in TerminalTask /\ diskTask[t] \in TerminalTask
  BY <1>1 DEF SkipInv, InLoop
<1>3. CASE Blocks
  BY <1>1, <1>2, <1>3 DEF Blocks, SkipInv, InLoop, GotoVia, NoneSkipped
<1>4. ASSUME NEW vetoed \in SUBSET Tasks, NEW start \in SUBSET Tasks, Starts(vetoed, start)
      PROVE  SkipInv'
  <2>1. \A u \in Tasks : \A t \in Tasks : BeginAttempt(u, 1).snap[t] \in {diskTask[t], "queued", "running"}
    BY BeginCopies
  <2>2. \A u \in Tasks : NoneSkipped(unit'[u].snap)
    <3> SUFFICES ASSUME NEW u \in Tasks PROVE NoneSkipped(unit'[u].snap)
      OBVIOUS
    <3>1. unit'[u] = IF u \in start THEN BeginAttempt(u, 1) ELSE unit[u]
      BY <1>4, StartsUnits
    <3> QED
      BY <1>2, <2>1, <3>1 DEF NoneSkipped
  <2>3. dispatched' \ pending' \subseteq dispatched \ pending /\ pc' \in {"top", "wait"}
    BY <1>4 DEF Starts, Goto
  <2>4. \A t \in dispatched \ pending : memTask'[t] \in TerminalTask
    BY <1>2, <1>4, StartsUnits DEF TInv, TerminalTask
  <2> QED
    BY <1>1, <1>2, <2>2, <2>3, <2>4 DEF SkipInv, NoneSkipped
<1> QED
  BY <1>3, <1>4, SelectCases

LEMMA RunnerKeepsSkip ==
  ASSUME TInv, IInv, OwnVerdict, SkipInv, RunnerStep
  PROVE  SkipInv'
<1>1. CASE Select
  BY <1>1, SelectKeepsSkip
<1>2. CASE \E s \in Tasks : Merge(s)
  BY <1>2, MergeKeepsSkip
<1>3. CASE Settle
  <2>1. pc = "settle" /\ pc' = "save" /\ next' = "setFailed"
    BY <1>3 DEF Settle, GotoVia
  <2>2. \A t \in Tasks : diskTask'[t] # "skipped"
    <3>1. CASE pending = {}
      BY <1>3, <2>1, <3>1 DEF Settle, disk, SkipInv, NoneSkipped
    <3>2. CASE pending # {}
      BY <1>3, <3>2, SettleMergesNoSkip
    <3> QED
      BY <3>1, <3>2
  <2> QED
    BY <2>1, <2>2 DEF SkipInv, InLoop
<1>4. ASSUME ~Select, ~(\E s \in Tasks : Merge(s)), ~Settle PROVE SkipInv'
  <2>1. \A t \in Tasks : diskTask'[t] = "skipped" => memTask'[t] = "skipped"
    BY <1>4, RunnerTasks DEF SkipInv, TerminalTask
  <2>2. ASSUME InLoop' \/ pc' = "settle"
        PROVE  /\ NoneSkipped(diskTask') /\ \A u \in Tasks : NoneSkipped(unit'[u].snap)
               /\ \A t \in dispatched' \ pending' :
                    memTask'[t] \in TerminalTask /\ diskTask'[t] \in TerminalTask
               /\ pc' = "post" \/ (pc' = "save" /\ next' \in {"checkManifest", "writeManifest"})
                    => NoneSkipped(memTask')
    <3>1. /\ InLoop /\ UNCHANGED <<unit, pending, dispatched>>
          /\ pc' # "post" /\ (pc' = "save" => pc = "post")
          /\ pc \notin {"closeout", "caught"} /\ (pc = "save" => NoneSkipped(memTask))
      BY <1>4, <2>2, LoopStays DEF InLoop, SkipInv
    <3>2. /\ NoneSkipped(diskTask) /\ \A u \in Tasks : NoneSkipped(unit[u].snap)
          /\ \A t \in dispatched \ pending : t \in Tasks /\ memTask[t] \in TerminalTask
                                             /\ diskTask[t] \in TerminalTask
      BY <3>1 DEF SkipInv, TInv
    <3>3. NoneSkipped(diskTask')
      BY <1>4, <3>1, <3>2, RunnerTasks DEF NoneSkipped
    <3>4. \A t \in dispatched \ pending : memTask'[t] \in TerminalTask /\ diskTask'[t] \in TerminalTask
      BY <1>4, <3>1, <3>2, RunnerTasks
    <3>5. ASSUME pc' = "save" PROVE NoneSkipped(memTask')
      <4>1. pc = "post" /\ NoneSkipped(memTask)
        BY <3>1, <3>5 DEF SkipInv
      <4> QED
        BY <1>4, <4>1, RunnerTasks DEF NoneSkipped
    <3> QED
      BY <3>1, <3>2, <3>3, <3>4, <3>5
  <2>3. pc' = "post" \/ (pc' = "save" /\ next' \in {"checkManifest", "writeManifest"}) => InLoop'
    BY DEF InLoop
  <2> QED
    BY <2>1, <2>2, <2>3 DEF SkipInv
<1> QED
  BY <1>1, <1>2, <1>3, <1>4

LEMMA NextSkipInv == TInv /\ IInv /\ OwnVerdict /\ SkipInv /\ [Next]_vars => SkipInv'
<1> SUFFICES ASSUME TInv, IInv, OwnVerdict, SkipInv, [Next]_vars PROVE SkipInv'
  OBVIOUS
<1>1. CASE Cancel
  <2>1. UNCHANGED <<memTask, pc, next, pending, dispatched, unit>>
    BY <1>1 DEF Cancel, runner
  <2>2. \A t \in Tasks : diskTask'[t] = IF diskTask[t] \in TerminalTask THEN diskTask[t] ELSE "cancelled"
    BY <1>1 DEF Cancel, CancelAll
  <2>3. dispatched \subseteq Tasks
    BY DEF TInv
  <2> QED
    BY <2>1, <2>2, <2>3 DEF SkipInv, InLoop, NoneSkipped, TerminalTask
<1>2. CASE Abort \/ UNCHANGED vars
  BY <1>2 DEF Abort, vars, runner, disk, SkipInv, InLoop
<1> QED
  BY <1>1, <1>2, UnitKeepsSkip, RunnerKeepsSkip DEF Next

\* The step property.
LEMMA NothingSkipped ==
  ASSUME TInv, IInv, OwnVerdict, SkipInv, [Next]_vars, pc = "select" => pc' = "save",
         NEW t \in dispatched, memTask'[t] = "skipped"
  PROVE  memTask[t] = "skipped"
<1>1. t \in Tasks
  BY DEF TInv
<1>2. CASE UNCHANGED memTask
  BY <1>2
<1>3. ASSUME NEW s \in Tasks, UnitStep(s) \/ Heartbeat(s) PROVE UNCHANGED memTask
  BY <1>3, StepOfOthers
<1>4. Cancel \/ Abort \/ UNCHANGED vars => UNCHANGED memTask
  BY DEF Cancel, Abort, vars, runner
<1>5. CASE Select
  <2>1. pc = "select"
    BY <1>5, SelectCases
  <2>2. ~(\E vetoed \in SUBSET Tasks, start \in SUBSET Tasks : Starts(vetoed, start))
    BY <2>1 DEF Starts, Goto
  <2>3. Blocks
    BY <1>5, <2>2, SelectCases
  <2>4. memTask[t] \in TerminalTask
    BY <2>1, <2>3 DEF Blocks, SkipInv, InLoop
  <2> QED
    BY <1>1, <2>3, <2>4 DEF Blocks, Blocked, TerminalTask
<1>6. CASE \E s \in Tasks : Merge(s)
  BY <1>1, <1>6, MergeKeepsSkip DEF NoneSkipped
<1>7. CASE Settle
  <2>1. CASE pending = {}
    BY <1>1, <1>7, <2>1, SettleTasks DEF TerminalTask
  <2>2. CASE pending # {}
    BY <1>1, <1>7, <2>2, SettleTasks, SettleMergesNoSkip DEF TerminalTask
  <2> QED
    BY <2>1, <2>2
<1>8. CASE RunnerStep /\ ~Select /\ ~(\E s \in Tasks : Merge(s)) /\ ~Settle
  BY <1>1, <1>8, RunnerTasks DEF SkipInv
<1> QED
  BY <1>2, <1>3, <1>4, <1>5, <1>6, <1>7, <1>8 DEF Next

\* terminaliseRunWithDrain and the blocked exit: no abort marks as skipped a task
\* that was dispatched, whatever its unit came to.
THEOREM DispatchedKept == Spec => DispatchedNeverSkipped
<1>1. Init => SkipInv
  BY DEF Init, NoUnit, SkipInv, NoneSkipped
<1>2. TInv /\ IInv /\ OwnVerdict /\ SkipInv /\ [Next]_vars =>
        [(pc = "select" => pc' = "save") =>
           \A t \in dispatched : memTask'[t] = "skipped" => memTask[t] = "skipped"]_vars
  BY NothingSkipped
<1> QED
  BY <1>1, <1>2, InitTInv, NextTInv, InitIInv, NextIInv, InitWaves, NextOwnVerdict, NextSkipInv,
     PTL DEF Spec, DispatchedNeverSkipped

-----------------------------------------------------------------------------
(* Verdicts. *)

Quiet == {"cancel", "veto"} \cap setting.may = {}

\* From the top of the loop to the close-out, but for the ways out of it.
Merging ==
  \/ pc \in {"top", "select", "wait", "post", "checkManifest", "settle", "setFailed", "finalize", "closeout"}
  \/ pc = "save" /\ next = "checkManifest"
  \/ pc = "writeManifest" /\ memRun # "cancelled"

\* A failure may still be tried again.
Over == TerminalTask \ {"failed"}

\* What is over for the runner is over on the disk, but a failure being retried.
OverOnDisk(t) ==
  memTask[t] \in TerminalTask => diskTask[t] \in TerminalTask \/ (memTask[t] = "failed" /\ t \in pending)

\* A task that is over in any copy is not worked on.
NotWorkedOn(t) ==
  Copy(t, Over) => \/ unit[t].stage = "settled"
                   \/ /\ unit[t].stage \in {"none", "giveup"}
                      /\ memTask[t] \in TerminalTask /\ diskTask[t] \in TerminalTask

VerdictInv ==
  /\ \A t, s \in Tasks : unit[t].stage = "none" => unit[t].snap[s] = "queued"
  /\ pc = "save" /\ next = "writeManifest" => memRun = "cancelled"
  /\ Quiet /\ Merging => \A t \in Tasks : OverOnDisk(t) /\ NotWorkedOn(t)

\* A unit at work overwrites no verdict but a failure.
LEMMA UnitKeepsVerdicts ==
  ASSUME TInv, IInv, OwnVerdict, VerdictInv, NEW s \in Tasks, UnitStep(s) \/ Heartbeat(s)
  PROVE  VerdictInv'
<1>1. /\ UNCHANGED <<setting, memRun, memTask, pc, next, pending>>
      /\ \A t \in Tasks \ {s} : diskTask'[t] = diskTask[t] /\ unit'[t] = unit[t]
                                /\ unit'[s].snap[t] \in {unit[s].snap[t], diskTask[t], "queued"}
  BY StepOfOthers
<1>2. s \in pending /\ unit'[s].stage # "none"
  BY StepOfOwn DEF IInv, UnitsKnown
<1>3. Quiet' = Quiet /\ Merging' = Merging
  BY <1>1 DEF Quiet, Merging
<1>4. {"queued", "running", "failed"} \cap Over = {} /\ Over \subseteq TerminalTask
  BY DEF Over, TerminalTask
<1>5. ASSUME NEW t \in Tasks, OverOnDisk(t), NotWorkedOn(t)
      PROVE  OverOnDisk(t)' /\ NotWorkedOn(t)'
  <2>1. CASE t # s
    <3>1. \A u \in Tasks : unit'[u].snap[t] \in {unit[u].snap[t], diskTask[t], "queued"}
      BY <1>1, <2>1
    <3>2. Copy(t, Over)' => Copy(t, Over)
      BY <1>1, <1>4, <2>1, <3>1 DEF Copy
    <3> QED
      BY <1>1, <1>5, <2>1, <3>2 DEF OverOnDisk, NotWorkedOn
  <2>2. CASE t = s
    <3>1. \A u \in Tasks \ {t} : unit'[u] = unit[u]
      BY <1>1, <2>2
    <3>2. ~Copy(t, Over) => /\ memTask[t] \notin Over /\ diskTask[t] \notin Over
                            /\ \A u \in Tasks : unit[u].snap[t] \notin Over
      BY DEF Copy
    <3>3. Copy(t, Over)' => \/ memTask[t] \in Over \/ diskTask'[t] \in Over \/ unit'[t].snap[t] \in Over
                            \/ \E u \in Tasks \ {t} : unit[u].snap[t] \in Over
      BY <1>1, <3>1 DEF Copy
    <3>4. CASE unit[t].stage \in {"prepare", "running", "backoff", "persist"}
      <4>1. ~Copy(t, Over)
        BY <1>5, <3>4 DEF NotWorkedOn
      <4>2. memTask[t] \in TerminalTask => memTask[t] = "failed"
        BY <3>2, <4>1 DEF Over
      <4>3. OverOnDisk(t)'
        BY <1>1, <1>2, <2>2, <4>2 DEF OverOnDisk
      <4>4. \/ unit'[t].stage = "settled"
            \/ /\ diskTask'[t] \in {diskTask[t], "running", "failed"}
               /\ unit'[t].snap[t] \in {unit[t].snap[t], diskTask[t], "queued", "running"}
        BY <2>2, <3>4, StepOfOwn
      <4>5. NotWorkedOn(t)'
        BY <1>4, <3>2, <3>3, <4>1, <4>4 DEF NotWorkedOn
      <4> QED
        BY <4>3, <4>5
    <3>5. CASE unit[t].stage = "giveup"
      <4>1. unit'[t].stage = "settled" /\ diskTask'[t] = diskTask[t]
        BY <2>2, <3>5, StepOfOwn
      <4> QED
        BY <1>1, <1>5, <4>1 DEF OverOnDisk, NotWorkedOn
    <3>6. unit[t].stage \in {"prepare", "running", "backoff", "persist", "giveup"}
      BY <2>2, StepOfOwn
    <3> QED
      BY <3>4, <3>5, <3>6
  <2> QED
    BY <2>1, <2>2
<1>6. \A t, u \in Tasks : unit'[t].stage = "none" => unit'[t].snap[u] = "queued"
  BY <1>1, <1>2 DEF VerdictInv
<1> QED
  BY <1>1, <1>3, <1>5, <1>6 DEF VerdictInv

\* No veto: a batch starts what is not over.
LEMMA SelectKeepsVerdicts ==
  ASSUME TInv, IInv, VerdictInv, Select
  PROVE  VerdictInv'
<1>1. pc = "select" /\ UNCHANGED <<setting, diskTask>>
  BY SelectCases
<1>2. CASE Blocks
  BY <1>2 DEF Blocks, VerdictInv, Merging, GotoVia
<1>3. ASSUME NEW vetoed \in SUBSET Tasks, NEW start \in SUBSET Tasks, Starts(vetoed, start)
      PROVE  VerdictInv'
  <2>1. \A t \in Tasks : /\ unit'[t] = IF t \in start THEN BeginAttempt(t, 1) ELSE unit[t]
                         /\ memTask'[t] = IF t \in vetoed THEN "skipped" ELSE memTask[t]
                         /\ t \in start => t \notin pending
    BY <1>3, StartsUnits
  <2>2. pc' \in {"top", "wait"} /\ pending' = pending \cup start
    BY <1>3 DEF Starts, Goto
  <2>3. \A u \in Tasks : /\ BeginAttempt(u, 1).stage # "none"
                         /\ \A t \in Tasks : BeginAttempt(u, 1).snap[t] \in {diskTask[t], "queued", "running"}
    BY BeginCopies
  <2>4. \A t, u \in Tasks : unit'[t].stage = "none" => unit'[t].snap[u] = "queued"
    BY <2>1, <2>3 DEF VerdictInv
  <2>5. ASSUME Quiet, NEW t \in Tasks PROVE OverOnDisk(t)' /\ NotWorkedOn(t)'
    <3>1. OverOnDisk(t) /\ NotWorkedOn(t)
      BY <1>1, <2>5 DEF VerdictInv, Merging
    <3>2. memTask'[t] = memTask[t] /\ diskTask'[t] = diskTask[t]
      BY <1>1, <1>3, <2>1, <2>5 DEF Starts, Quiet
    <3>3. OverOnDisk(t)'
      BY <2>2, <3>1, <3>2 DEF OverOnDisk
    <3>4. {"queued", "running"} \cap Over = {}
      BY DEF Over, TerminalTask
    <3>5. \A u \in Tasks : unit'[u].snap[t] \in {unit[u].snap[t], diskTask[t], "queued", "running"}
      BY <2>1, <2>3
    <3>6. Copy(t, Over)' => Copy(t, Over)
      BY <3>2, <3>4, <3>5 DEF Copy
    <3>7. CASE t \in start
      <4>1. unit[t].stage = "none"
        BY <2>1, <3>7 DEF IInv, UnitsKnown
      <4>2. \/ unit'[t].stage \in {"giveup", "settled"}
            \/ unit'[t].stage = "prepare" /\ diskTask[t] \in {"queued", "running"}
        BY <2>1, <3>7, BeginCopies
      <4> QED
        BY <3>1, <3>2, <3>3, <3>6, <4>1, <4>2 DEF NotWorkedOn, TerminalTask
    <3>8. CASE t \notin start
      BY <2>1, <3>1, <3>2, <3>3, <3>6, <3>8 DEF NotWorkedOn
    <3> QED
      BY <3>7, <3>8
  <2> QED
    BY <1>1, <2>2, <2>4, <2>5 DEF VerdictInv, Quiet
<1> QED
  BY <1>2, <1>3, SelectCases

\* A unit is merged: its task is over in both copies, no other is taken back.
LEMMA MergeKeepsVerdicts ==
  ASSUME TInv, OwnVerdict, VerdictInv, NEW s \in Tasks, Merge(s)
  PROVE  VerdictInv'
<1>1. /\ \A t \in Tasks : memTask'[t] = MergeTask(diskTask[t], unit[s].snap[t], t = s)
      /\ diskTask' = memTask' /\ unit[s].stage = "settled" /\ pc = "wait" /\ pc' \in {"finalize", "post"}
      /\ \A u \in Tasks : unit'[u] = IF u = s THEN NoUnit ELSE unit[u]
      /\ setting' = setting
  BY DEF Merge, MergeUnit, TInv, Goto
<1>2. NoUnit.stage = "none" /\ \A t \in Tasks : NoUnit.snap[t] = "queued"
  BY DEF NoUnit
<1>3. ASSUME Quiet, NEW t \in Tasks PROVE OverOnDisk(t)' /\ NotWorkedOn(t)'
  <2>1. NotWorkedOn(t)
    BY <1>1, <1>3 DEF VerdictInv, Merging
  <2>2. diskTask[t] \in AtWork /\ unit[s].snap[t] \in AtWork /\ (t = s) \in BOOLEAN /\ "queued" \notin Over
    BY DEF TInv, BusyUnit, Over, TerminalTask
  <2>3. /\ memTask'[t] \in {diskTask[t], unit[s].snap[t]}
        /\ diskTask[t] \in TerminalTask /\ t # s => memTask'[t] = diskTask[t]
        /\ diskTask[t] \in TerminalTask \/ unit[s].snap[t] \in TerminalTask => memTask'[t] \in TerminalTask
    BY MergedTask
  <2>4. OverOnDisk(t)'
    BY <1>1 DEF OverOnDisk
  <2>5. CASE t = s
    <3>1. memTask'[t] \in TerminalTask /\ unit'[t].stage = "none"
      BY <1>1, <1>2, <2>3, <2>5 DEF OwnVerdict
    <3> QED
      BY <1>1, <2>4, <3>1 DEF NotWorkedOn
  <2>6. CASE t # s
    <3>1. Copy(t, Over)' => Copy(t, Over)
      BY <1>1, <1>2, <2>2, <2>3 DEF Copy
    <3>2. unit'[t] = unit[t]
      BY <1>1, <2>6
    <3> QED
      BY <1>1, <2>1, <2>3, <2>4, <2>6, <3>1, <3>2 DEF NotWorkedOn
  <2> QED
    BY <2>5, <2>6
<1>4. \A t, u \in Tasks : unit'[t].stage = "none" => unit'[t].snap[u] = "queued"
  BY <1>1, <1>2 DEF VerdictInv
<1> QED
  BY <1>1, <1>3, <1>4 DEF VerdictInv, Quiet

\* The array is left alone, saved, or healed from the disk.
LEMMA ArraysKeepVerdicts ==
  ASSUME NEW t \in Tasks, OverOnDisk(t), NotWorkedOn(t), UNCHANGED <<unit, pending>>,
         \/ memTask'[t] = memTask[t] /\ diskTask'[t] \in {diskTask[t], memTask[t]}
         \/ /\ diskTask[t] \in TerminalTask /\ memTask'[t] = diskTask[t]
            /\ diskTask'[t] = diskTask[t]
  PROVE  OverOnDisk(t)' /\ NotWorkedOn(t)'
<1>1. Copy(t, Over)' => Copy(t, Over)
  BY DEF Copy
<1>2. OverOnDisk(t)'
  BY DEF OverOnDisk
<1>3. memTask[t] \in TerminalTask /\ diskTask[t] \in TerminalTask
        => memTask'[t] \in TerminalTask /\ diskTask'[t] \in TerminalTask
  OBVIOUS
<1> QED
  BY <1>1, <1>2, <1>3 DEF NotWorkedOn

\* After terminaliseRunWithDrain no unit is left, and both copies are the same.
LEMMA SavedAfterSettle ==
  ASSUME TInv, IInv, CompletedInv, VerdictInv, Save, next = "setFailed", NEW t \in Tasks
  PROVE  OverOnDisk(t)' /\ NotWorkedOn(t)'
<1>1. pending = {} /\ diskTask' = memTask /\ UNCHANGED <<memTask, unit>>
  BY DEF Save, CompletedInv
<1>2. \A u \in Tasks : unit[u].stage = "none" /\ unit[u].snap[t] = "queued"
  BY <1>1 DEF IInv, UnitsKnown, VerdictInv
<1>3. "queued" \notin Over /\ Over \subseteq TerminalTask
  BY DEF Over, TerminalTask
<1>4. Copy(t, Over)' => memTask'[t] \in TerminalTask /\ diskTask'[t] \in TerminalTask
  BY <1>1, <1>2, <1>3 DEF Copy
<1>5. OverOnDisk(t)'
  BY <1>1 DEF OverOnDisk
<1> QED
  BY <1>1, <1>2, <1>4, <1>5 DEF NotWorkedOn

LEMMA RunnerKeepsVerdicts ==
  ASSUME TInv, IInv, OwnVerdict, CompletedInv, VerdictInv, RunnerStep, [Next]_vars
  PROVE  VerdictInv'
<1>1. CASE Select
  BY <1>1, SelectKeepsVerdicts
<1>2. CASE \E s \in Tasks : Merge(s)
  BY <1>2, MergeKeepsVerdicts
<1>3. CASE Settle \/ Drained
  <2>1. \A t \in Tasks : unit'[t] \in {NoUnit, unit[t]}
    BY <1>3 DEF Settle, Drained
  <2>2. \A t, s \in Tasks : unit'[t].stage = "none" => unit'[t].snap[s] = "queued"
    BY <2>1 DEF VerdictInv, NoUnit
  <2>3. ~Merging' /\ ~(pc' = "save" /\ next' = "writeManifest")
    BY <1>3 DEF Settle, Drained, IInv, OutOfLoop, Merging, GotoVia
  <2> QED
    BY <2>2, <2>3 DEF VerdictInv
<1>4. ASSUME UNCHANGED unit, pc' = "save" /\ next' = "writeManifest" => memRun' = "cancelled",
             ASSUME Quiet, Merging', NEW t \in Tasks
             PROVE  OverOnDisk(t)' /\ NotWorkedOn(t)'
      PROVE  VerdictInv'
  <2>1. Quiet' => Quiet
    <3>1. setting' = setting
      BY SettingStays
    <3> QED
      BY <3>1 DEF Quiet
  <2> QED
    BY <1>4, <2>1 DEF VerdictInv
<1> USE DEF Goto, GotoVia, Drain
<1>5. CASE Top
  <2>1. ~(pc' = "save" /\ next' = "writeManifest")
    BY <1>5 DEF Top
  <2>2. Merging' => memTask' = memTask
    BY <1>5 DEF Top, Merging
  <2>3. UNCHANGED <<unit, pending, diskTask>> /\ pc = "top"
    BY <1>5 DEF Top, disk
  <2>4. ASSUME Quiet, Merging', NEW t \in Tasks PROVE OverOnDisk(t)' /\ NotWorkedOn(t)'
    <3>1. OverOnDisk(t) /\ NotWorkedOn(t)
      BY <2>3, <2>4 DEF VerdictInv, Merging
    <3> QED
      BY <2>2, <2>3, <2>4, <3>1, ArraysKeepVerdicts
  <2> QED
    BY <1>4, <2>1, <2>3, <2>4
<1>6. CASE Post
  <2>1. UNCHANGED <<unit, pending, diskTask>> /\ pc = "post"
        /\ (pc' = "save" /\ next' = "writeManifest" => memRun' = "cancelled")
    BY <1>6 DEF Post
  <2>2. Merging' => memTask' = memTask
    BY <1>6 DEF Post, Merging
  <2>3. ASSUME Quiet, Merging', NEW t \in Tasks PROVE OverOnDisk(t)' /\ NotWorkedOn(t)'
    <3>1. OverOnDisk(t) /\ NotWorkedOn(t)
      BY <2>1, <2>3 DEF VerdictInv, Merging
    <3> QED
      BY <2>1, <2>2, <2>3, <3>1, ArraysKeepVerdicts
  <2> QED
    BY <1>4, <2>1, <2>3
<1>7. CASE Save
  <2>1. /\ UNCHANGED <<unit, pending, memTask, memRun>> /\ diskTask' = memTask
        /\ pc = "save" /\ pc' = next /\ pc' # "save"
    BY <1>7 DEF Save, IInv, OutOfLoop
  <2>2. Merging' => next \in {"checkManifest", "setFailed"}
    BY <1>7, <2>1 DEF Merging, VerdictInv, IInv, OutOfLoop
  <2>3. ASSUME Quiet, Merging', NEW t \in Tasks PROVE OverOnDisk(t)' /\ NotWorkedOn(t)'
    <3>1. CASE next = "setFailed"
      BY <1>7, <3>1, SavedAfterSettle
    <3>2. CASE next = "checkManifest"
      <4>1. OverOnDisk(t) /\ NotWorkedOn(t)
        BY <2>1, <2>3, <3>2 DEF VerdictInv, Merging
      <4> QED
        BY <2>1, <4>1, ArraysKeepVerdicts
    <3> QED
      BY <2>2, <2>3, <3>1, <3>2
  <2> QED
    BY <1>4, <2>1, <2>3
<1>8. CASE CheckManifest \/ WriteManifest \/ SetCancelled \/ SetBlocked \/ SetFailed
  <2>1. UNCHANGED <<unit, pending, diskTask, memTask>> /\ pc' # "save"
    BY <1>8 DEF CheckManifest, WriteManifest, SetCancelled, SetBlocked, SetFailed, SetStatus, disk
  <2>2. Merging' => Merging
    BY <1>8 DEF CheckManifest, WriteManifest, SetCancelled, SetBlocked, SetFailed, SetStatus, Merging
  <2>3. ASSUME Quiet, Merging', NEW t \in Tasks PROVE OverOnDisk(t)' /\ NotWorkedOn(t)'
    <3>1. OverOnDisk(t) /\ NotWorkedOn(t)
      BY <2>2, <2>3 DEF VerdictInv
    <3> QED
      BY <2>1, <3>1, ArraysKeepVerdicts
  <2> QED
    BY <1>4, <2>1, <2>3
<1>9. CASE Finalize
  <2>1. UNCHANGED <<unit, pending, diskTask>> /\ pc = "finalize" /\ pc' # "save"
    BY <1>9 DEF Finalize, disk
  <2>2. ASSUME Quiet, Merging', NEW t \in Tasks PROVE OverOnDisk(t)' /\ NotWorkedOn(t)'
    <3>1. OverOnDisk(t) /\ NotWorkedOn(t)
      BY <2>1, <2>2 DEF VerdictInv, Merging
    <3>2. memTask'[t] = memTask[t] \/ (diskTask[t] \in TerminalTask /\ memTask'[t] = diskTask[t])
      BY <1>9 DEF Finalize
    <3> QED
      BY <2>1, <3>1, <3>2, ArraysKeepVerdicts
  <2> QED
    BY <1>4, <2>1, <2>2
<1>10. CASE Closeout \/ Caught \/ SetCaught
  <2>1. UNCHANGED unit /\ ~Merging' /\ ~(pc' = "save" /\ next' = "writeManifest")
    BY <1>10 DEF Closeout, Caught, SetCaught, Merging
  <2> QED
    BY <1>4, <2>1
<1> QED
  BY <1>1, <1>2, <1>3, <1>5, <1>6, <1>7, <1>8, <1>9, <1>10 DEF RunnerStep

LEMMA NextVerdictInv ==
  TInv /\ IInv /\ OwnVerdict /\ CompletedInv /\ VerdictInv /\ [Next]_vars => VerdictInv'
<1> SUFFICES ASSUME TInv, IInv, OwnVerdict, CompletedInv, VerdictInv, [Next]_vars PROVE VerdictInv'
  OBVIOUS
<1>1. CASE Cancel
  <2>1. "cancel" \in setting.may /\ UNCHANGED <<setting, memRun, pc, next, unit>>
    BY <1>1 DEF Cancel, runner
  <2> QED
    BY <2>1 DEF VerdictInv, Quiet
<1>2. CASE Abort \/ UNCHANGED vars
  <2>1. UNCHANGED <<setting, diskTask, memRun, memTask, pc, next, pending, unit>>
    BY <1>2 DEF Abort, vars, runner, disk
  <2> QED
    BY <2>1 DEF VerdictInv, Quiet, Merging, OverOnDisk, NotWorkedOn, Copy
<1> QED
  BY <1>1, <1>2, UnitKeepsVerdicts, RunnerKeepsVerdicts DEF Next

\* The step property.
LEMMA NothingTakenBack ==
  ASSUME TInv, IInv, OwnVerdict, CompletedInv, VerdictInv, Quiet, [Next]_vars, NEW t \in Tasks,
         memTask[t] \in TerminalTask, ~(t \in pending /\ memTask[t] = "failed")
  PROVE  memTask'[t] \in TerminalTask
<1>1. CASE UNCHANGED memTask
  BY <1>1
<1>2. ASSUME NEW s \in Tasks, UnitStep(s) \/ Heartbeat(s) PROVE UNCHANGED memTask
  BY <1>2, StepOfOthers
<1>3. Cancel \/ Abort \/ UNCHANGED vars => UNCHANGED memTask
  BY DEF Cancel, Abort, vars, runner
<1>4. Merging => diskTask[t] \in TerminalTask
  BY DEF VerdictInv, OverOnDisk
<1>5. diskTask[t] \in AtWork
  BY DEF TInv
<1>6. CASE Select
  <2>1. CASE Blocks
    BY <2>1 DEF Blocks, Blocked, TerminalTask
  <2>2. ASSUME NEW vetoed \in SUBSET Tasks, NEW start \in SUBSET Tasks, Starts(vetoed, start)
        PROVE  memTask'[t] \in TerminalTask
    BY <2>2, StartsUnits DEF TerminalTask
  <2> QED
    BY <1>6, <2>1, <2>2, SelectCases
<1>7. ASSUME NEW s \in Tasks, Merge(s) PROVE memTask'[t] \in TerminalTask
  <2>1. unit[s].snap[t] \in AtWork /\ (t = s) \in BOOLEAN /\ diskTask[t] \in TerminalTask
    BY <1>4, <1>7 DEF TInv, BusyUnit, Merge, Merging
  <2> QED
    BY <1>7, <2>1, MergedTask
<1>8. CASE Settle
  <2>1. diskTask[t] \in TerminalTask
    BY <1>4, <1>8 DEF Settle, Merging
  <2>2. \A u \in pending : \A c \in AtWork \cap TerminalTask :
          MergeTask(c, unit[u].snap[t], t = u) \in AtWork \cap TerminalTask
    <3>1. ASSUME NEW u \in pending, NEW c \in AtWork \cap TerminalTask
          PROVE  MergeTask(c, unit[u].snap[t], t = u) \in AtWork \cap TerminalTask
      <4>1. unit[u].snap[t] \in AtWork /\ (t = u) \in BOOLEAN
        BY DEF TInv, BusyUnit
      <4>2. MergeTask(c, unit[u].snap[t], t = u) \in {c, unit[u].snap[t]}
            /\ MergeTask(c, unit[u].snap[t], t = u) \in TerminalTask
        BY <4>1, MergeFacts
      <4> QED
        BY <4>1, <4>2
    <3> QED
      BY <3>1
  <2>3. \A order \in Orders : MergeAll(order)[t] \in AtWork \cap TerminalTask
    BY <1>5, <2>1, <2>2, MergeAllIn
  <2>4. \A b \in TerminalTask : (IF t \in dispatched /\ b \notin TerminalTask THEN "cancelled"
                                 ELSE IF b = "queued" THEN "skipped" ELSE b) = b
    BY DEF TerminalTask
  <2> QED
    BY <1>8, <2>3, <2>4, SettleTasks
<1>9. CASE RunnerStep /\ ~Select /\ ~(\E s \in Tasks : Merge(s)) /\ ~Settle
  <2>1. pc \in {"top", "finalize", "closeout"} => Merging
    BY DEF Merging
  <2>2. CASE pc # "caught"
    BY <1>4, <1>9, <2>1, <2>2, RunnerTasks
  <2>3. CASE pc = "caught"
    <3>1. Caught
      BY <1>9, <2>3 DEF RunnerStep, Top, Post, Save, CheckManifest, WriteManifest, SetCancelled,
         SetBlocked, SetFailed, SetStatus, Finalize, Closeout, Drained, SetCaught
    <3> QED
      BY <3>1 DEF Caught, TerminalTask
  <2> QED
    BY <2>2, <2>3
<1> QED
  BY <1>1, <1>2, <1>3, <1>6, <1>7, <1>8, <1>9 DEF Next

\* mergeTaskUpdatesPreservingTerminal, the saves and the persists without the
\* lock: with one session and no veto no task that is over goes back to work.
THEOREM VerdictsKept == Spec => VerdictsStay
<1>1. Init => CompletedInv /\ VerdictInv
  BY GoodIsTerminal DEF Init, CompletedInv, VerdictInv, NoUnit, OverOnDisk, NotWorkedOn, Copy, Over,
     TerminalTask
<1>2. TInv /\ IInv /\ OwnVerdict /\ CompletedInv /\ VerdictInv /\ [Next]_vars =>
        [{"cancel", "veto"} \cap setting.may = {} =>
           \A t \in Tasks :
             memTask[t] \in TerminalTask /\ ~(t \in pending /\ memTask[t] = "failed")
               => memTask'[t] \in TerminalTask]_vars
  BY NothingTakenBack DEF Quiet
<1> QED
  BY <1>1, <1>2, InitTInv, NextTInv, InitIInv, NextIInv, InitWaves, NextOwnVerdict, NextCompletedInv,
     NextVerdictInv, PTL DEF Spec, VerdictsStay

-----------------------------------------------------------------------------
(* How a run ends. *)

\* What RunEndsTerminal asks: nobody aborts, and nobody cancels a run that
\* retries.
Told == "signal" \notin setting.may /\ ("cancel" \notin setting.may \/ setting.attempts = 1)

\* The worker's final persist has the run lock from its guard to its write.
LockHeld == \A t \in Tasks : unit[t].stage = "persist" => lock = {t}

Attempted == \A t \in Tasks : Open(t) => unit[t].attempt >= 1

\* While the loop goes on no unit has given up; a unit that has seen the run
\* over has seen it on the disk, and the runner is on its way to look.
LoopUnits ==
  \A t \in Tasks :
    /\ unit[t].stage # "giveup"
    /\ unit[t].run # "blocked"
    /\ unit[t].run \in PreservedRun => diskRun \in PreservedRun /\ pc \in {"top", "wait"}
    /\ unit[t].stage = "persist" =>
         /\ unit[t].carry # "blocked"
         /\ "cancel" \notin setting.may => unit[t].carry \notin PreservedRun

LoopRun ==
  /\ ~stopped
  /\ diskRun # "blocked"
  /\ "cancel" \notin setting.may => diskRun \notin PreservedRun

\* A run that is over stays over, but for a status read before a cancel and
\* written after it; from that one the loop finds its way to another.
Ends ==
  /\ ~signal
  /\ memRun \in PreservedRun => diskRun \in PreservedRun
  /\ pc # "settle" => \A t \in Tasks :
       unit[t].stage = "persist" /\ diskRun \in PreservedRun => unit[t].carry \in PreservedRun
  /\ InLoop => LoopRun /\ LoopUnits
  /\ InLoop \/ pc = "settle" =>
       memRun = "running" \/ (memRun \in PreservedRun /\ pc \in {"top", "wait"})
  /\ pc = "post" => carry \notin PreservedRun
  /\ pc = "writeManifest" => carry # "blocked" /\ (carry \in PreservedRun => diskRun \in PreservedRun)
  /\ pc # "setCancelled" /\ ~(pc = "save" /\ next \in {"setCancelled", "writeManifest"})
  /\ pc \in {"setBlocked", "setFailed"} \/ (pc = "save" /\ next \in {"setBlocked", "setFailed"})
       => pending = {}
  /\ pc \in {"finalize", "closeout"} => diskRun \in PreservedRun \/ pending = {}
  /\ pc = "closeout" => carry \in TerminalRun
  /\ pc = "drain" => IF next = "done"
                     THEN diskRun \in PreservedRun \/ (diskRun = "blocked" /\ pending = {})
                     ELSE pending = {}
  /\ pc = "done" => diskRun \in TerminalRun

EndInv == LockHeld /\ Attempted /\ (Told => Ends)

LEMMA SavedStaysOver ==
  ASSUME NEW d, NEW s
  PROVE  Preserve(d, s) \in PreservedRun <=> d \in PreservedRun \/ s \in PreservedRun
BY DEF Preserve

\* Only a worker's final persist takes the lock for longer than a step.
LEMMA NextLockHeld == TInv /\ LockHeld /\ [Next]_vars => LockHeld'
<1> SUFFICES ASSUME TInv, LockHeld, [Next]_vars, NEW t \in Tasks, unit'[t].stage = "persist"
             PROVE  lock' = {t}
  BY DEF LockHeld
<1>1. ASSUME NEW s \in Tasks, UnitStep(s) \/ Heartbeat(s) PROVE lock' = {t}
  <2>1. CASE s = t
    <3>1. unit[t].stage = "running" /\ unit'[t] # unit[t]
      BY <1>1, <2>1, StepOfOwn
    <3>2. \E v \in setting.verdicts : Finish(t, v)
      BY <1>1, <2>1, <3>1 DEF UnitStep, Heartbeat, Prepare, PersistVerdict, Retry, GiveUp
    <3> QED
      BY <3>2 DEF Finish
  <2>2. CASE s # t
    <3>1. unit'[t] = unit[t]
      BY <1>1, <2>2, StepOfOthers
    <3>2. lock = {t}
      BY <3>1 DEF LockHeld
    <3>3. unit[s].stage # "persist"
      BY <2>2, <3>2 DEF LockHeld
    <3> QED
      BY <1>1, <3>2, <3>3 DEF UnitStep, Heartbeat, Prepare, Finish, PersistVerdict, Retry, GiveUp
  <2> QED
    BY <2>1, <2>2
<1>2. CASE RunnerStep
  <2>1. lock' = lock
    BY <1>2 DEF RunnerStep, Top, Select, Merge, Post, Save, CheckManifest, WriteManifest, SetCancelled,
         SetBlocked, SetFailed, SetStatus, Settle, Finalize, Closeout, Drained, Caught, SetCaught
  <2>2. Open(t)' /\ NoUnit.stage # "persist"
    BY DEF Open, NoUnit
  <2>3. CASE Select
    <3>1. CASE Blocks
      BY <2>1, <3>1 DEF Blocks, LockHeld
    <3>2. ASSUME NEW vetoed \in SUBSET Tasks, NEW start \in SUBSET Tasks, Starts(vetoed, start)
          PROVE  lock' = {t}
      <4>1. unit'[t] \in {BeginAttempt(t, 1), unit[t]}
        BY <3>2, StartsUnits
      <4>2. BeginAttempt(t, 1).stage # "persist"
        BY BeginRun
      <4> QED
        BY <2>1, <4>1, <4>2 DEF LockHeld
    <3> QED
      BY <2>3, <3>1, <3>2, SelectCases
  <2>4. CASE (\E s \in Tasks : Merge(s)) \/ Settle \/ Drained
    <3>1. unit'[t] \in {NoUnit, unit[t]}
      BY <2>4 DEF Merge, Settle, Drained, TInv
    <3> QED
      BY <2>1, <2>2, <3>1 DEF LockHeld
  <2>5. CASE UNCHANGED unit
    BY <2>1, <2>5 DEF LockHeld
  <2> QED
    BY <1>2, <2>3, <2>4, <2>5, RunnerAndUnits
<1>3. CASE Cancel \/ Abort \/ UNCHANGED vars
  BY <1>3 DEF Cancel, Abort, vars, LockHeld
<1> QED
  BY <1>1, <1>2, <1>3 DEF Next

\* A unit at work is at its first attempt or a later one.
LEMMA NextAttempted == TInv /\ Attempted /\ [Next]_vars => Attempted'
<1> SUFFICES ASSUME TInv, Attempted, [Next]_vars, NEW t \in Tasks, Open(t)'
             PROVE  unit'[t].attempt >= 1
  BY DEF Attempted
<1>1. unit[t].attempt \in Nat /\ (Open(t) => unit[t].attempt >= 1)
  BY DEF TInv, BusyUnit, Attempted
<1>2. unit'[t] = unit[t] => unit'[t].attempt >= 1
  BY <1>1 DEF Open
<1>3. ASSUME NEW s \in Tasks, UnitStep(s) \/ Heartbeat(s) PROVE unit'[t].attempt >= 1
  <2>1. CASE s = t
    BY <1>1, <1>2, <1>3, <2>1, StepOfRun DEF Open
  <2>2. CASE s # t
    BY <1>2, <1>3, <2>2, StepOfOthers
  <2> QED
    BY <2>1, <2>2
<1>4. CASE Select
  <2>1. CASE Blocks
    BY <1>2, <2>1 DEF Blocks
  <2>2. ASSUME NEW vetoed \in SUBSET Tasks, NEW start \in SUBSET Tasks, Starts(vetoed, start)
        PROVE  unit'[t].attempt >= 1
    <3>1. unit'[t] \in {BeginAttempt(t, 1), unit[t]}
      BY <2>2, StartsUnits
    <3>2. BeginAttempt(t, 1).stage = "prepare" => BeginAttempt(t, 1).attempt = 1
      BY BeginRun
    <3>3. BeginAttempt(t, 1).stage \in {"prepare", "settled", "giveup"}
      BY BeginRun
    <3> QED
      BY <1>2, <3>1, <3>2, <3>3 DEF Open
  <2> QED
    BY <1>4, <2>1, <2>2, SelectCases
<1>5. CASE (\E s \in Tasks : Merge(s)) \/ Settle \/ Drained
  <2>1. unit'[t] \in {NoUnit, unit[t]}
    BY <1>5 DEF Merge, Settle, Drained, TInv
  <2> QED
    BY <1>2, <2>1 DEF Open, NoUnit
<1>6. CASE UNCHANGED unit
  BY <1>2, <1>6
<1> QED
  BY <1>3, <1>4, <1>5, <1>6, RunnerAndUnits DEF Next, Cancel, Abort, vars

\* Out of the loop, and not at the drain that settles it, a run with a unit in
\* flight is over on the disk.
LEMMA OverWhenOut ==
  ASSUME TInv, IInv, Ends, pending # {}, ~InLoop, pc # "settle"
  PROVE  diskRun \in PreservedRun
BY DEF TInv, RunnerPc, IInv, OutOfLoop, Ends, InLoop

\* With retries nobody cancels, so a unit that backs off has seen no run that
\* is over.
LEMMA UnitKeepsEnds ==
  ASSUME TInv, IInv, EndInv, Told, NEW s \in Tasks, UnitStep(s) \/ Heartbeat(s)
  PROVE  Ends'
<1>1. /\ UNCHANGED <<setting, memRun, pc, next, carry, pending, stopped, signal>>
      /\ \A t \in Tasks \ {s} : unit'[t] = unit[t]
  BY StepOfOthers
<1>2. s \in pending /\ unit[s].stage # "none"
  BY StepOfOwn DEF IInv, UnitsKnown
<1>3. Ends /\ InLoop' = InLoop
  BY <1>1 DEF EndInv, InLoop
<1>4. "cancelled" \in PreservedRun /\ "running" \notin PreservedRun
  BY DEF PreservedRun
<1>5. diskRun \in PreservedRun /\ pc # "settle" => diskRun' \in PreservedRun
  BY <1>3, <1>4, StepOfRun DEF Ends
<1>6. ASSUME NEW t \in Tasks, pc # "settle", unit'[t].stage = "persist", diskRun' \in PreservedRun
      PROVE  unit'[t].carry \in PreservedRun
  <2>1. CASE t = s
    <3>1. diskRun' = diskRun /\ unit'[t].carry = Preserve(diskRun, unit[t].run)
      BY <1>6, <2>1, StepOfRun
    <3> QED
      BY <1>6, <3>1, SavedStaysOver
  <2>2. CASE t # s
    <3>1. unit'[t] = unit[t] /\ unit[s].stage # "persist"
      BY <1>1, <1>6, <2>2 DEF EndInv, LockHeld
    <3>2. CASE unit[s].stage = "giveup"
      <4>1. ~InLoop
        BY <1>3, <3>2 DEF Ends, LoopUnits
      <4>2. diskRun \in PreservedRun
        BY <1>2, <1>3, <1>6, <4>1, OverWhenOut
      <4> QED
        BY <1>3, <1>6, <3>1, <4>2 DEF Ends
    <3>3. CASE unit[s].stage # "giveup"
      <4>1. diskRun' = diskRun
        BY <3>1, <3>3, StepOfRun
      <4> QED
        BY <1>3, <1>6, <3>1, <4>1 DEF Ends
    <3> QED
      BY <3>2, <3>3
  <2> QED
    BY <2>1, <2>2
<1>7. ASSUME InLoop PROVE LoopRun' /\ LoopUnits'
  <2>1. LoopRun /\ LoopUnits /\ pc # "settle" /\ ~Stop
    BY <1>3, <1>7 DEF Ends, InLoop, LoopRun, Stop
  <2>2. unit[s].stage # "giveup"
    BY <2>1 DEF LoopUnits
  <2>3. diskRun' = diskRun \/ (unit[s].stage = "persist" /\ diskRun' = unit[s].carry)
    BY <2>2, StepOfRun
  <2>4. LoopRun'
    BY <1>1, <2>1, <2>3 DEF LoopRun, LoopUnits
  <2>5. ASSUME unit[s].stage = "backoff" PROVE diskRun \notin PreservedRun
    <3>1. unit[s].attempt >= 1 /\ unit[s].attempt < setting.attempts /\ unit[s].attempt \in Nat
      BY <2>5 DEF EndInv, Attempted, Open, TInv, RetriesLeft, BusyUnit
    <3>2. setting.attempts # 1
      BY <3>1, SettingTyped DEF TInv
    <3> QED
      BY <2>1, <3>2 DEF Told, LoopRun
  <2>6. /\ unit'[s].stage # "giveup"
        /\ unit'[s].run = unit[s].run \/ (unit[s].stage = "backoff" /\ unit'[s].run = diskRun)
    BY <1>3, <2>1, <2>2, StepOfRun DEF Ends
  <2>7. ASSUME unit'[s].stage = "persist"
        PROVE  /\ unit'[s].carry # "blocked"
               /\ "cancel" \notin setting.may => unit'[s].carry \notin PreservedRun
    <3>1. unit'[s].carry = Preserve(diskRun, unit[s].run) \/ unit'[s] = unit[s]
      BY <2>7, StepOfRun
    <3> QED
      BY <2>1, <2>7, <3>1, SavedStaysOver, PreserveEither DEF LoopRun, LoopUnits
  <2>8. LoopUnits'
    <3> SUFFICES ASSUME NEW t \in Tasks
                 PROVE  /\ unit'[t].stage # "giveup" /\ unit'[t].run # "blocked"
                        /\ unit'[t].run \in PreservedRun => diskRun' \in PreservedRun /\ pc' \in {"top", "wait"}
                        /\ unit'[t].stage = "persist" =>
                             /\ unit'[t].carry # "blocked"
                             /\ "cancel" \notin setting'.may => unit'[t].carry \notin PreservedRun
      BY DEF LoopUnits
    <3>1. CASE t = s
      BY <1>1, <1>5, <2>1, <2>5, <2>6, <2>7, <3>1 DEF LoopRun, LoopUnits
    <3>2. CASE t # s
      BY <1>1, <1>5, <2>1, <3>2 DEF LoopUnits
    <3> QED
      BY <3>1, <3>2
  <2> QED
    BY <2>4, <2>8
<1>8. pc # "done"
  BY <1>2 DEF IInv, OutOfLoop
<1>9. memRun \in PreservedRun => diskRun' \in PreservedRun
  BY <1>3, <1>4, <1>5 DEF Ends
<1>10. pc = "drain" => IF next = "done" THEN diskRun' \in PreservedRun ELSE pending = {}
  BY <1>2, <1>3, <1>5 DEF Ends
<1> HIDE DEF InLoop
<1> QED
  BY <1>1, <1>2, <1>3, <1>5, <1>6, <1>7, <1>8, <1>9, <1>10 DEF Ends

\* A batch is started on a run that is alive, or the disk says otherwise by now.
LEMMA SelectKeepsEnds ==
  ASSUME TInv, IInv, EndInv, Told, Select
  PROVE  Ends'
<1>1. pc = "select" /\ UNCHANGED <<setting, carry, stopped, signal>> /\ Ends
  BY SelectCases DEF EndInv
<1>2. /\ LoopRun /\ LoopUnits /\ memRun = "running" /\ ~Stop
      /\ "running" \notin PreservedRun /\ TerminalRun = PreservedRun \cup {"blocked"}
  BY <1>1 DEF Ends, InLoop, LoopRun, Stop, PreservedRun, TerminalRun
<1>3. CASE Blocks
  <2>1. pending' = {} /\ pc' = "save" /\ next' = "setBlocked" /\ UNCHANGED <<diskRun, memRun, unit>>
    BY <1>3 DEF Blocks, GotoVia
  <2>2. ~InLoop'
    BY <2>1 DEF InLoop
  <2> QED
    BY <1>1, <1>2, <2>1, <2>2 DEF Ends
<1>4. ASSUME NEW vetoed \in SUBSET Tasks, NEW start \in SUBSET Tasks, Starts(vetoed, start)
      PROVE  Ends'
  <2>1. pc' \in {"top", "wait"}
    BY <1>4 DEF Starts, Goto
  <2>2. /\ \/ memRun' = memRun /\ diskRun' = diskRun
           \/ memRun' = Preserve(diskRun, memRun) /\ diskRun' = memRun'
    BY <1>4 DEF Starts
  <2>3. /\ diskRun' \in {diskRun, "running"} /\ (diskRun' \in PreservedRun <=> diskRun \in PreservedRun)
        /\ memRun' = "running" \/ memRun' \in PreservedRun
        /\ memRun' \in PreservedRun => diskRun' \in PreservedRun
    BY <1>2, <2>2, SavedStaysOver, PreserveEither DEF Preserve
  <2>4. ASSUME NEW t \in Tasks
        PROVE  \/ unit'[t] = unit[t]
               \/ unit'[t].stage \in {"settled", "prepare"} /\ unit'[t].run = diskRun
    <3>1. unit'[t] \in {BeginAttempt(t, 1), unit[t]}
      BY <1>4, StartsUnits
    <3>2. BeginAttempt(t, 1).stage \in {"settled", "prepare"} /\ BeginAttempt(t, 1).run = diskRun
      BY <1>2, BeginRun
    <3> QED
      BY <3>1, <3>2
  <2>5. LoopRun'
    BY <1>1, <1>2, <2>3 DEF LoopRun
  <2>6. LoopUnits'
    <3> SUFFICES ASSUME NEW t \in Tasks
                 PROVE  /\ unit'[t].stage # "giveup" /\ unit'[t].run # "blocked"
                        /\ unit'[t].run \in PreservedRun => diskRun' \in PreservedRun
                        /\ unit'[t].stage = "persist" =>
                             /\ unit'[t].carry # "blocked"
                             /\ "cancel" \notin setting.may => unit'[t].carry \notin PreservedRun
      BY <1>1, <2>1 DEF LoopUnits
    <3> QED
      BY <1>2, <2>3, <2>4 DEF LoopUnits, LoopRun
  <2>7. \A t \in Tasks : unit'[t].stage = "persist" /\ diskRun' \in PreservedRun
                            => unit'[t].carry \in PreservedRun
    BY <1>1, <2>3, <2>4 DEF Ends
  <2>8. ~signal'
    BY <1>1 DEF Ends
  <2> QED
    BY <2>1, <2>3, <2>5, <2>6, <2>7, <2>8 DEF Ends, InLoop
<1> QED
  BY <1>3, <1>4, SelectCases

\* A merge meets no worker at its final persist: both need the lock.
LEMMA MergeKeepsEnds ==
  ASSUME TInv, EndInv, Told, NEW s \in Tasks, Merge(s)
  PROVE  Ends'
<1>1. /\ pc = "wait" /\ lock = {} /\ unit[s].stage = "settled"
      /\ memRun' = Preserve(diskRun, "running") /\ diskRun' = memRun' /\ carry' = unit[s].run
      /\ \A t \in Tasks : unit'[t] = IF t = s THEN NoUnit ELSE unit[t]
      /\ pc' = (IF memRun' \in PreservedRun THEN "finalize" ELSE "post")
      /\ UNCHANGED <<setting, stopped, signal>>
  BY DEF Merge, TInv, Goto
<1>2. Ends /\ LoopRun /\ LoopUnits /\ "running" \notin PreservedRun
  BY <1>1 DEF EndInv, Ends, InLoop, PreservedRun
<1>3. \A t \in Tasks : unit'[t].stage # "persist"
  BY <1>1 DEF EndInv, LockHeld, NoUnit
<1>4. /\ memRun' \in PreservedRun <=> diskRun \in PreservedRun
      /\ memRun' \notin PreservedRun => memRun' = "running"
  BY <1>1, <1>2, SavedStaysOver DEF Preserve
<1>5. pc' = "post" => diskRun \notin PreservedRun /\ carry' \notin PreservedRun
  BY <1>1, <1>2, <1>4 DEF LoopUnits
<1>6. pc' = "post" => LoopRun' /\ LoopUnits'
  <2>1. NoUnit.stage # "giveup" /\ NoUnit.run = "running"
    BY DEF NoUnit
  <2>2. \A t \in Tasks : unit'[t].stage # "giveup" /\ unit'[t].run # "blocked"
                         /\ (pc' = "post" => unit'[t].run \notin PreservedRun)
    BY <1>1, <1>2, <1>5, <2>1 DEF LoopUnits
  <2> QED
    BY <1>1, <1>2, <1>3, <1>4, <2>2 DEF LoopRun, LoopUnits
<1>7. pc' \in {"finalize", "post"} /\ (pc' = "finalize" => diskRun' \in PreservedRun) /\ ~signal'
  BY <1>1, <1>2 DEF Ends
<1> QED
  BY <1>1, <1>3, <1>4, <1>5, <1>6, <1>7 DEF Ends, InLoop

\* The steps of the loop that leave the units alone.
LEMMA LoopKeepsEnds ==
  ASSUME TInv, IInv, EndInv, Told, Top \/ Post \/ Save \/ CheckManifest \/ WriteManifest
  PROVE  Ends'
<1>1. /\ Ends /\ UNCHANGED <<setting, unit, pending, signal>>
      /\ "running" \notin PreservedRun /\ TerminalRun = PreservedRun \cup {"blocked"}
      /\ "cancelled" \in PreservedRun
  BY DEF EndInv, Top, Post, Save, CheckManifest, WriteManifest, PreservedRun, TerminalRun
<1>2. ~signal
  BY <1>1 DEF Ends
<1> USE DEF Goto, GotoVia, Drain
<1>3. CASE Top
  <2>1. pc = "top" /\ InLoop /\ LoopRun /\ LoopUnits /\ UNCHANGED <<diskRun, carry>>
    BY <1>1, <1>3 DEF Top, disk, Ends, InLoop
  <2>2. \/ pc' = "finalize" /\ pending = {} /\ memRun' = memRun
        \/ diskRun \in PreservedRun /\ memRun' = diskRun /\ pc' = "drain" /\ next' = "done"
        \/ diskRun \notin PreservedRun /\ memRun' = memRun /\ pc' = "settle"
        \/ diskRun \notin PreservedRun /\ memRun' = memRun /\ stopped' = stopped /\ pc' = "select"
    BY <1>1, <1>2, <1>3, <2>1 DEF Top, LoopRun
  <2>3. \A t \in Tasks : unit[t].stage = "persist" /\ diskRun \in PreservedRun
                            => unit[t].carry \in PreservedRun
    BY <1>1, <2>1 DEF Ends
  <2>4. (memRun \in PreservedRun => diskRun \in PreservedRun)
        /\ (memRun = "running" \/ memRun \in PreservedRun)
    BY <1>1, <2>1 DEF Ends
  <2>5. pc' = "select" => LoopRun' /\ LoopUnits'
    BY <1>1, <2>1, <2>2 DEF LoopRun, LoopUnits
  <2> QED
    BY <1>1, <1>2, <2>1, <2>2, <2>3, <2>4, <2>5 DEF Ends, InLoop
<1>4. CASE Post
  <2>1. pc = "post" /\ InLoop /\ LoopRun /\ LoopUnits /\ carry \notin PreservedRun /\ memRun = "running"
    BY <1>1, <1>4 DEF Post, Ends, InLoop
  <2>2. /\ pc' = "save" /\ next' = "checkManifest"
        /\ UNCHANGED <<memRun, diskRun, stopped>>
    BY <1>1, <1>2, <1>4, <2>1 DEF Post
  <2>3. LoopRun' /\ LoopUnits'
    BY <1>1, <2>1, <2>2 DEF LoopRun, LoopUnits
  <2>4. \A t \in Tasks : unit[t].stage = "persist" /\ diskRun \in PreservedRun
                            => unit[t].carry \in PreservedRun
    BY <1>1, <2>1 DEF Ends
  <2> QED
    BY <1>1, <1>2, <2>1, <2>2, <2>3, <2>4 DEF Ends, InLoop
<1>5. CASE Save
  <2>1. /\ pc = "save" /\ pc' = next /\ next' = next /\ UNCHANGED <<diskRun, memRun, carry, stopped>>
        /\ next \in {"setBlocked", "setFailed", "setCaught", "checkManifest"}
    BY <1>1, <1>5 DEF Save, IInv, OutOfLoop, Ends
  <2>2. \A t \in Tasks : unit[t].stage = "persist" /\ diskRun \in PreservedRun
                            => unit[t].carry \in PreservedRun
    BY <1>1, <2>1 DEF Ends
  <2>3. next = "checkManifest" => LoopRun' /\ LoopUnits' /\ memRun = "running"
    BY <1>1, <2>1 DEF Ends, InLoop, LoopRun, LoopUnits
  <2> QED
    BY <1>1, <1>2, <2>1, <2>2, <2>3 DEF Ends, InLoop
<1>6. CASE CheckManifest
  <2>1. pc = "checkManifest" /\ InLoop /\ LoopRun /\ LoopUnits /\ memRun = "running"
    BY <1>1, <1>6 DEF CheckManifest, Ends, InLoop
  <2>2. pc' = "writeManifest" /\ carry' = Preserve(diskRun, memRun) /\ UNCHANGED <<diskRun, memRun, stopped>>
    BY <1>6 DEF CheckManifest, disk
  <2>3. carry' # "blocked" /\ (carry' \in PreservedRun => diskRun \in PreservedRun)
    BY <1>1, <2>1, <2>2, SavedStaysOver, PreserveEither DEF LoopRun
  <2>4. LoopRun' /\ LoopUnits'
    BY <1>1, <2>1, <2>2 DEF LoopRun, LoopUnits
  <2>5. \A t \in Tasks : unit[t].stage = "persist" /\ diskRun \in PreservedRun
                            => unit[t].carry \in PreservedRun
    BY <1>1, <2>1 DEF Ends
  <2> QED
    BY <1>1, <1>2, <2>1, <2>2, <2>3, <2>4, <2>5 DEF Ends, InLoop
<1>7. CASE WriteManifest
  <2>1. /\ pc = "writeManifest" /\ InLoop /\ LoopRun /\ LoopUnits /\ memRun = "running"
        /\ carry # "blocked" /\ (carry \in PreservedRun => diskRun \in PreservedRun)
    BY <1>1, <1>7 DEF WriteManifest, Ends, InLoop
  <2>2. pc' = "top" /\ diskRun' = carry /\ UNCHANGED <<memRun, stopped>>
    BY <1>1, <1>7, <2>1 DEF WriteManifest
  <2>3. \A t \in Tasks : unit[t].run \notin PreservedRun
    BY <2>1 DEF LoopUnits
  <2>4. LoopRun' /\ LoopUnits'
    BY <1>1, <2>1, <2>2, <2>3 DEF LoopRun, LoopUnits
  <2>5. \A t \in Tasks : unit[t].stage = "persist" /\ diskRun' \in PreservedRun
                            => unit[t].carry \in PreservedRun
    BY <1>1, <2>1, <2>2 DEF Ends
  <2> QED
    BY <1>1, <1>2, <2>1, <2>2, <2>4, <2>5 DEF Ends, InLoop
<1> QED
  BY <1>3, <1>4, <1>5, <1>6, <1>7

\* ... and the steps out of it.
LEMMA WayOutKeepsEnds ==
  ASSUME TInv, IInv, EndInv, Told,
         SetCancelled \/ SetBlocked \/ SetFailed \/ Settle \/ Finalize \/ Closeout \/ Drained
           \/ Caught \/ SetCaught
  PROVE  Ends'
<1>1. /\ Ends /\ ~signal /\ UNCHANGED <<setting, signal>>
      /\ "running" \notin PreservedRun /\ TerminalRun = PreservedRun \cup {"blocked"}
      /\ PreservedRun = {"completed", "failed", "cancelled"}
  BY DEF EndInv, Ends, SetCancelled, SetBlocked, SetFailed, SetStatus, Settle, Finalize, Closeout,
         Drained, Caught, SetCaught, PreservedRun, TerminalRun
<1>2. pending = {} => \A t \in Tasks : unit[t].stage # "persist"
  BY DEF IInv, UnitsKnown
<1> USE DEF Goto, GotoVia, Drain
<1>3. CASE SetCancelled \/ SetBlocked \/ SetFailed
  <2>1. /\ pc \in {"setBlocked", "setFailed"} /\ pending = {} /\ UNCHANGED <<unit, pending>>
    BY <1>1, <1>3 DEF SetCancelled, SetBlocked, SetFailed, SetStatus, Ends
  <2>2. \/ UNCHANGED <<diskRun, memRun>> /\ pc' = "drain" /\ next' = "caught"
        \/ /\ diskRun' = Preserve(diskRun, "blocked") /\ memRun' = diskRun'
           /\ pc' = "drain" /\ next' = "done"
        \/ diskRun' = Preserve(diskRun, "failed") /\ memRun' = diskRun' /\ pc' = "finalize"
    BY <1>3, <2>1 DEF SetCancelled, SetBlocked, SetFailed, SetStatus
  <2>3. Preserve(diskRun, "blocked") \in PreservedRun \cup {"blocked"}
    BY DEF Preserve
  <2> QED
    BY <1>1, <1>2, <2>1, <2>2, <2>3 DEF Ends, InLoop
<1>4. CASE Settle
  <2>1. /\ pc = "settle" /\ pc' = "save" /\ next' = "setFailed" /\ pending' = {}
        /\ \A t \in Tasks : unit'[t].stage # "persist"
        /\ \/ UNCHANGED <<diskRun, memRun>>
           \/ memRun' = Preserve(diskRun, "running") /\ diskRun' = memRun'
    BY <1>2, <1>4 DEF Settle, disk, AllSettled, NoUnit, IInv, UnitsKnown
  <2> QED
    BY <1>1, <2>1 DEF Ends, InLoop
<1>5. CASE Finalize
  <2>1. /\ pc = "finalize" /\ pc' = "closeout" /\ UNCHANGED <<diskRun, memRun, unit, pending>>
        /\ carry' \in TerminalRun
    BY <1>1, <1>5 DEF Finalize, disk
  <2> QED
    BY <1>1, <2>1 DEF Ends, InLoop
<1>6. CASE Closeout
  <2>1. /\ pc = "closeout" /\ pc' = "drain" /\ lock = {} /\ UNCHANGED <<unit, pending>>
        /\ carry \in TerminalRun /\ (diskRun \in PreservedRun \/ pending = {})
    BY <1>1, <1>6 DEF Closeout, Ends
  <2>2. \A t \in Tasks : unit[t].stage # "persist"
    BY <2>1 DEF EndInv, LockHeld
  <2>3. \/ diskRun \in PreservedRun /\ memRun' = diskRun /\ diskRun' = memRun' /\ next' = "done"
        \/ pending = {} /\ memRun' = carry /\ diskRun' = carry /\ next' = "done"
        \/ pending = {} /\ UNCHANGED <<diskRun, memRun>> /\ next' = "caught"
    BY <1>1, <1>6, <2>1 DEF Closeout, disk
  <2> QED
    BY <1>1, <2>1, <2>2, <2>3 DEF Ends, InLoop
<1>7. CASE Drained
  <2>1. /\ pc = "drain" /\ pc' = next /\ next' = next /\ next \in {"done", "caught"} /\ pending' = {}
        /\ UNCHANGED <<diskRun, memRun>> /\ \A t \in Tasks : unit'[t].stage # "persist"
    BY <1>7 DEF Drained, disk, IInv, OutOfLoop, NoUnit
  <2> QED
    BY <1>1, <2>1 DEF Ends, InLoop
<1>8. CASE Caught
  <2>1. /\ pc = "caught" /\ pc' = "save" /\ next' = "setCaught" /\ memRun' = diskRun
        /\ UNCHANGED <<diskRun, unit, pending>> /\ pending = {}
    BY <1>8 DEF Caught, disk, IInv, OutOfLoop
  <2> QED
    BY <1>1, <1>2, <2>1 DEF Ends, InLoop
<1>9. CASE SetCaught
  <2>1. /\ pc = "setCaught" /\ pc' = "done" /\ pending = {} /\ UNCHANGED <<unit, pending>>
        /\ \/ diskRun' = "failed" /\ memRun' = "failed"
           \/ ~CanTransitionRun(memRun, "failed") /\ UNCHANGED <<diskRun, memRun>>
    BY <1>9 DEF SetCaught, IInv, OutOfLoop
  <2>2. ~CanTransitionRun(memRun, "failed") => memRun \in PreservedRun
    BY <1>1 DEF CanTransitionRun, RunTransitions, TInv, RunStatus
  <2> QED
    BY <1>1, <1>2, <2>1, <2>2 DEF Ends, InLoop
<1> QED
  BY <1>3, <1>4, <1>5, <1>6, <1>7, <1>8, <1>9

LEMMA NextEndInv == TInv /\ IInv /\ EndInv /\ [Next]_vars => EndInv'
<1> SUFFICES ASSUME TInv, IInv, EndInv, [Next]_vars, Told PROVE Ends'
  <2>1. setting' = setting => (Told' <=> Told)
    BY DEF Told
  <2> QED
    BY <2>1, SettingStays, NextLockHeld, NextAttempted DEF EndInv
<1>1. CASE Cancel
  <2>1. /\ "cancel" \in setting.may /\ lock = {} /\ diskRun' = "cancelled"
        /\ UNCHANGED <<setting, memRun, pc, next, carry, pending, stopped, unit, signal>>
    BY <1>1 DEF Cancel, runner
  <2>2. \A t \in Tasks : unit[t].stage # "persist"
    BY <2>1 DEF EndInv, LockHeld
  <2>3. "cancelled" \in PreservedRun /\ "cancelled" \in TerminalRun /\ Ends
    BY DEF PreservedRun, TerminalRun, EndInv
  <2>4. InLoop => LoopRun' /\ LoopUnits'
    BY <2>1, <2>2, <2>3 DEF Ends, LoopRun, LoopUnits
  <2> QED
    BY <2>1, <2>2, <2>3, <2>4 DEF Ends, InLoop
<1>2. CASE Abort
  BY <1>2 DEF Abort, Told
<1>3. CASE UNCHANGED vars
  BY <1>3 DEF vars, runner, disk, EndInv, Ends, InLoop, LoopRun, LoopUnits
<1>4. CASE RunnerStep
  BY <1>4, SelectKeepsEnds, MergeKeepsEnds, LoopKeepsEnds, WayOutKeepsEnds DEF RunnerStep
<1> QED
  BY <1>1, <1>2, <1>3, <1>4, UnitKeepsEnds DEF Next

LEMMA InitEndInv == Init => EndInv
BY DEF Init, EndInv, NoUnit, LockHeld, Attempted, Open, Told, Ends, InLoop, LoopRun,
       LoopUnits, PreservedRun

\* finalizeRun, the drains and the catch clause: with nobody aborting, and no
\* foreign cancel of a run that retries, executeTeamRun leaves a run that is over.
THEOREM EndsTerminal == Spec => []RunEndsTerminal
<1>1. EndInv => RunEndsTerminal
  BY DEF EndInv, Ends, Told, RunEndsTerminal
<1> QED
  BY <1>1, InitEndInv, InitTInv, NextTInv, InitIInv, NextIInv, NextEndInv, PTL DEF Spec

=============================================================================
