---------------------------- MODULE MCTaskTable ----------------------------
(* Model checking of TaskTable. *)
EXTENDS TaskTable, TLC

Symmetry == Permutations(CPUs) \cup Permutations(Demos) \cup Permutations(Stacks)
=============================================================================
