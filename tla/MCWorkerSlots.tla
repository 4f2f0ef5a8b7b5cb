---------------------------- MODULE MCWorkerSlots ----------------------------
(* Instances of WorkerSlots for TLC. *)
EXTENDS WorkerSlots
=============================================================================
