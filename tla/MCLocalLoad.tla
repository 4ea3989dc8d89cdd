----------------------------- MODULE MCLocalLoad -----------------------------
(* LocalLoad for TLC: the symmetry of the tasks, and what is followed: runs *)
(* that are in order and over before a task has run for 15 minutes.         *)
EXTENDS LocalLoad, TLC

Symmetry == Permutations(Tasks)
InOrder == orderly /\ aged = {}
=============================================================================
