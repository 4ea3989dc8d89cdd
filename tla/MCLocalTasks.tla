---------------------------- MODULE MCLocalTasks ----------------------------
(* LocalTasks for TLC: sets of model values, and their symmetry.            *)
EXTENDS LocalTasks, TLC

Symmetry == Permutations(Tasks) \cup Permutations(BusSlots)
=============================================================================
