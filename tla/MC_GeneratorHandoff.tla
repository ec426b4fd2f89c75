------------------------ MODULE MC_GeneratorHandoff -------------------------
(* One task id for two dispatches that overlap, two features, two files.   *)
EXTENDS GeneratorHandoff, TLC

Symmetry == UNION {Permutations(S) : S \in {Dispatchers, Features, Paths}}

=============================================================================
