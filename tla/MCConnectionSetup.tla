------------------------- MODULE MCConnectionSetup -------------------------
(* Symmetry of the connections, for the runs without liveness.             *)
EXTENDS ConnectionSetup, TLC

ConnSymmetry == Permutations(Conns)
=============================================================================
