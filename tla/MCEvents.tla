------------------------------ MODULE MCEvents ------------------------------
(* Symmetry of the hooks' memory and of their functions.                   *)
EXTENDS Events, TLC

HookSymmetry == Permutations(Structs) \cup Permutations(Funcs)
=============================================================================
