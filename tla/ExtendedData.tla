---------------------------- MODULE ExtendedData ----------------------------
(***************************************************************************)
(* What module data extensions promise (include/ithildin/module.h): every  *)
(* structure has a value for every item.  It is cleared when either of the *)
(* two is created and changes only when the item's owner writes it.        *)
(***************************************************************************)
CONSTANTS Objects, Items

VARIABLES
  owned,  \* items that modules have created
  alive,  \* structures that exist
  value   \* value[o][i]: item i of structure o is "clear" or "set"

vars == <<owned, alive, value>>

Clear == [o \in Objects |-> [i \in Items |-> "clear"]]

Init == owned = {} /\ alive \subseteq Objects /\ value = Clear

CreateItem(i) ==
  /\ i \notin owned
  /\ owned' = owned \cup {i}
  /\ UNCHANGED <<alive, value>>

DestroyItem(i) ==
  /\ i \in owned
  /\ owned' = owned \ {i}
  /\ value' = [o \in Objects |-> [value[o] EXCEPT ![i] = "clear"]]
  /\ UNCHANGED alive

CreateObject(o) ==
  /\ o \notin alive
  /\ alive' = alive \cup {o}
  /\ UNCHANGED <<owned, value>>

DestroyObject(o) ==
  /\ o \in alive
  /\ alive' = alive \ {o}
  /\ value' = [value EXCEPT ![o] = Clear[o]]
  /\ UNCHANGED owned

Write(o, i, v) ==
  /\ o \in alive /\ i \in owned
  /\ value' = [value EXCEPT ![o][i] = v]
  /\ UNCHANGED <<owned, alive>>

Next ==
  \/ \E i \in Items : CreateItem(i) \/ DestroyItem(i)
  \/ \E o \in Objects : CreateObject(o) \/ DestroyObject(o)
  \/ \E o \in Objects, i \in Items, v \in {"clear", "set"} : Write(o, i, v)

Spec == Init /\ [][Next]_vars
=============================================================================
