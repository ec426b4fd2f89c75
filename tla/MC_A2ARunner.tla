---------------------------- MODULE MC_A2ARunner ----------------------------
(* Small instances of A2ARunner for TLC. *)
EXTENDS A2ARunner, TLC

Symmetry == Permutations(Tasks) \cup Permutations(Handlers)
=============================================================================
