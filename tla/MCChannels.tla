----------------------------- MODULE MCChannels -----------------------------
(* Channels on two servers: alice and bob on the first, carol on the other *)
EXTENDS Channels, TLC

CONSTANTS alice, bob, carol

HomeOf == [u \in Users |-> IF u = carol THEN 2 ELSE 1]
MatchedBy == [u \in Users |-> IF u = carol THEN Masks ELSE {}]
Topics == Permutations(Texts)
SomeChanges ==
    [on : BOOLEAN, mode : {"o"}, arg : {carol}] \cup [on : {TRUE}, mode : {"k"}, arg : Keys]
    \cup [on : BOOLEAN, mode : {"b"}, arg : Masks] \cup [on : {TRUE}, mode : {"i"}, arg : {0}]
    \cup [on : {TRUE}, mode : {"l"}, arg : Limits]
SomeStarts == {[users |-> {carol}, op |-> carol, created |-> 1], [users |-> {alice, carol}, op |-> alice, created |-> 1]}
=============================================================================
