------------------------------ MODULE MCRunLock ------------------------------
(* Instances of RunLock for TLC: a1 and a2 are asynchronous contexts, s1 is   *)
(* synchronous.                                                               *)
EXTENDS RunLock

CONSTANTS a1, a2, s1, p1, p2

Place(one) == [c \in Contexts |-> IF c \in one THEN p1 ELSE p2]

\* All in one process, or a1 alone, a1 and another, or the others with s1.
OneProcess == {Place(Contexts)}
TwoProcesses == {Place({a1}), Place({a1, a2}), Place({a1, s1}), Place({s1})}
AnyPlacement == OneProcess \cup TwoProcesses
=============================================================================
