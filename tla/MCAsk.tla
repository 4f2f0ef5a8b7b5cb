-------------------------------- MODULE MCAsk --------------------------------
(***************************************************************************)
(* Two tasks, two questions with timeouts of one or two half-minutes: both *)
(* tasks can be parked at once with different deadlines, and one can ask   *)
(* again.  A runner in the broker's process with calls that get lost; a    *)
(* runner of its own, with and without lost calls; one that dies.          *)
(***************************************************************************)
EXTENDS Ask, TLC

MCSettings ==
  {[apart |-> FALSE, crash |-> FALSE, lossy |-> TRUE],
   [apart |-> TRUE,  crash |-> FALSE, lossy |-> TRUE],
   [apart |-> TRUE,  crash |-> TRUE,  lossy |-> FALSE]}

\* Nothing is claimed of a run once a save from an older copy has replaced a park
\* or the slot, so what follows such a save is not explored.
Unreplaced == ~replaced

Symmetry == Permutations(Tasks)
=============================================================================
