------------------------------ MODULE SlotPool ------------------------------
(***************************************************************************)
(* What a counting semaphore promises its callers: at most MaxSlots of     *)
(* them hold a slot, a caller waits only when all are taken, and a freed   *)
(* slot goes straight to a waiter when there is one.  The specification    *)
(* abstracts from the order of the queue and from the counter.             *)
(***************************************************************************)
EXTENDS Integers, FiniteSets

CONSTANTS Workers, MaxSlots

VARIABLES holders, waiting

poolVars == <<holders, waiting>>

Init == holders = {} /\ waiting = {}

Enter(w) ==
  /\ w \notin holders \cup waiting
  /\ waiting = {}
  /\ Cardinality(holders) < MaxSlots
  /\ holders' = holders \cup {w}
  /\ UNCHANGED waiting

Wait(w) ==
  /\ w \notin holders \cup waiting
  /\ Cardinality(holders) = MaxSlots
  /\ waiting' = waiting \cup {w}
  /\ UNCHANGED holders

GiveUp(w) ==
  /\ w \in waiting
  /\ waiting' = waiting \ {w}
  /\ UNCHANGED holders

Leave(w) ==
  /\ w \in holders
  /\ waiting = {}
  /\ holders' = holders \ {w}
  /\ UNCHANGED waiting

Handoff(w, v) ==
  /\ w \in holders
  /\ v \in waiting
  /\ holders' = (holders \ {w}) \cup {v}
  /\ waiting' = waiting \ {v}

Next ==
  \/ \E w \in Workers : Enter(w) \/ Wait(w) \/ GiveUp(w) \/ Leave(w)
  \/ \E w, v \in Workers : Handoff(w, v)

Spec == Init /\ [][Next]_poolVars
=============================================================================
