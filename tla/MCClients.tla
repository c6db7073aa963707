----------------------------- MODULE MCClients -----------------------------
(* Two clients of one server and one of another, online or about to be.    *)
EXTENDS Clients, TLC

CONSTANTS alice, bob, carol, nick1, nick2

HomeOf == [u \in Users |-> IF u = bob THEN N ELSE 1]
SomeStarts == {
    alice :> [nick |-> nick1, ts |-> 1] @@ bob :> [nick |-> nick1, ts |-> 2],
    alice :> [nick |-> nick1, ts |-> 1] @@ bob :> [nick |-> nick2, ts |-> 2] }
=============================================================================
