----------------------------- MODULE MCNetwork -----------------------------
(* Small networks for TLC. *)
EXTENDS Network, TLC

CONSTANTS east, mid, west

(* everyone may dial everyone *)
Anyone == [s \in Servers |-> Servers \ {s}]

(* everyone may introduce servers, or everyone but one *)
AllButOne == {Servers} \cup {Servers \ {s} : s \in Servers}

(* west is a leaf, the others are hubs *)
Alike == Permutations(Hubs)
=============================================================================
