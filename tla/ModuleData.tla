----------------------------- MODULE ModuleData -----------------------------
(***************************************************************************)
(* Module data extensions (source/module.c): modules keep items of data in *)
(* the structures of another module.  An mdext header, one per type of     *)
(* structure, gives each item its place in the mdext memory that every     *)
(* structure has, and resizes that memory with the iteration function of   *)
(* the type (class_mdext_iter, client_mdext_iter, channel_mdext_iter).     *)
(***************************************************************************)
EXTENDS Integers, Sequences, FiniteSets

CONSTANTS
  Objects,    \* structures: classes, clients or channels
  Items,      \* mdext_item structures
  Sizes,      \* sizes of items
  MaxSize,    \* bound of the size of a header
  First       \* structures that exist before the first item

Zero == "zero"   \* a cleared cell
Junk == "junk"   \* memory that realloc has added

\* A list that starts with a structure never becomes empty: the default class
\* is never destroyed.  Clients and channels come and go.  What an item's owner
\* writes is the item itself, which is not a cleared cell.
ASSUME DataAssumption ==
  /\ First \subseteq Objects /\ Sizes \subseteq Nat \ {0} /\ MaxSize \in Nat
  /\ Zero \notin Items

VARIABLES
  size,     \* header->size
  items,    \* the offset and the size of each item of the header
  listed,   \* the list of the structures
  mdext,    \* the memory of each structure
  started,  \* static int started of the iteration function
  overrun   \* memory past the end of a structure's mdext has been used

vars == <<size, items, listed, mdext, started, overrun>>

Cell == {Zero, Junk} \cup Items

\* Types: offsets are never negative, the header keeps its bound, and a
\* structure that is not there has no memory.
TypeOK ==
  /\ size \in 0..MaxSize
  /\ DOMAIN items \subseteq Items
  /\ items \in [DOMAIN items -> [offset : Nat, size : Sizes]]
  /\ listed \subseteq Objects
  /\ mdext \in [Objects -> Seq(Cell)]
  /\ \A o \in Objects \ listed : mdext[o] = <<>>
  /\ started \in BOOLEAN
  /\ overrun \in BOOLEAN

Init ==
  /\ size = 0
  /\ items = [i \in {} |-> [offset |-> 0, size |-> 0]]
  /\ listed = First
  /\ mdext = [o \in Objects |-> <<>>]
  /\ started = FALSE
  /\ overrun = FALSE

-----------------------------------------------------------------------------
(* The iteration functions.                                                *)

\* The structures that a loop over iter(&rhold) visits, and what the loop
\* leaves in the static flag.
Visited(flag) == IF flag THEN {} ELSE listed
FlagAfter(flag) == ~flag /\ listed = {}

\* Memory of n cells made by realloc, from old.
Resized(old, n) == [k \in 1..n |-> IF k <= Len(old) THEN old[k] ELSE Junk]

\* The cells of an item in a structure's memory.
Slice(it) == (it.offset + 1)..(it.offset + it.size)

-----------------------------------------------------------------------------
(* create_mdext_item, destroy_mdext_item.                                  *)

\* Mutant of Cleared: the new section is not filled with zeros.
NotCleared(old, it) == Resized(old, it.offset + it.size)

\* The memory of a structure with room for a new item, filled with zeros.
Cleared(old, it) ==
  [k \in 1..(it.offset + it.size) |->
     IF k \in Slice(it) THEN Zero ELSE IF k <= Len(old) THEN old[k] ELSE Junk]

CreateItem(i, n) ==
  /\ ~overrun
  /\ i \notin DOMAIN items
  /\ size + n <= MaxSize
  /\ LET it == [offset |-> size, size |-> n]
     IN /\ items' = [j \in DOMAIN items \cup {i} |-> IF j = i THEN it ELSE items[j]]
        /\ mdext' = [o \in Objects |-> IF o \in Visited(started)
                                        THEN Cleared(mdext[o], it) ELSE mdext[o]]
  /\ size' = size + n
  /\ started' = FlagAfter(started)
  /\ UNCHANGED <<listed, overrun>>

\* memmove: what follows the item is moved down over it.
Closed(old, it) ==
  [k \in 1..Len(old) |->
     IF k > it.offset /\ k <= size - it.size THEN old[k + it.size] ELSE old[k]]

\* Mutant of MovedDown: the items that follow keep their offsets.
KeptPlaces(rest, gone) == [j \in rest |-> items[j]]

\* Mutant of MovedDown: the other items all move, those in front too.
MovedAll(rest, gone) ==
  [j \in rest |-> [items[j] EXCEPT !.offset = @ - gone.size]]

\* The other items: those that follow move down.
MovedDown(rest, gone) ==
  [j \in rest |-> [items[j] EXCEPT !.offset =
                     IF @ > gone.offset THEN @ - gone.size ELSE @]]

\* Two loops: one moves data, unless the item is the last, and one resizes.
DestroyItem(i) ==
  /\ ~overrun
  /\ i \in DOMAIN items
  /\ LET it == items[i]
         last == it.offset + it.size = size
         moved == IF last THEN {} ELSE Visited(started)
         flag == IF last THEN started ELSE FlagAfter(started)
         After(o) == IF o \in moved THEN Closed(mdext[o], it) ELSE mdext[o]
     IN /\ overrun' = (\E o \in moved : Len(mdext[o]) < size)
        /\ IF overrun' THEN UNCHANGED mdext
           ELSE mdext' = [o \in Objects |-> IF o \in Visited(flag)
                                             THEN Resized(After(o), size - it.size)
                                             ELSE After(o)]
        /\ size' = size - it.size
        /\ items' = MovedDown(DOMAIN items \ {i}, it)
        /\ started' = FlagAfter(flag)
  /\ UNCHANGED listed

-----------------------------------------------------------------------------
(* The structures: mdext_alloc and mdext_free, and the items' owners.      *)

\* Mutant of Allocated: the memory is made for the items' number.
AllocatedByCount == [k \in 1..Cardinality(DOMAIN items) |-> Zero]

\* calloc of the header's size; NULL if that is 0.
Allocated == [k \in 1..size |-> Zero]

CreateObject(o) ==
  /\ ~overrun
  /\ o \notin listed
  /\ listed' = listed \cup {o}
  /\ mdext' = [mdext EXCEPT ![o] = Allocated]
  /\ UNCHANGED <<size, items, started, overrun>>

DestroyObject(o) ==
  /\ ~overrun
  /\ o \in listed \ First
  /\ listed' = listed \ {o}
  /\ mdext' = [mdext EXCEPT ![o] = <<>>]
  /\ UNCHANGED <<size, items, started, overrun>>

\* The owner of an item writes or clears it in a structure: mdext(x, y).
Write(o, i, v) ==
  /\ ~overrun
  /\ o \in listed /\ i \in DOMAIN items
  /\ overrun' = ~(Slice(items[i]) \subseteq DOMAIN mdext[o])
  /\ mdext' = [mdext EXCEPT ![o] =
                 [k \in DOMAIN @ |-> IF k \in Slice(items[i])
                                       THEN (IF v = "set" THEN i ELSE Zero) ELSE @[k]]]
  /\ UNCHANGED <<size, items, listed, started>>

Next ==
  \/ \E i \in Items : DestroyItem(i) \/ \E n \in Sizes : CreateItem(i, n)
  \/ \E o \in Objects : CreateObject(o) \/ DestroyObject(o)
  \/ \E o \in Objects, i \in Items, v \in {"clear", "set"} : Write(o, i, v)

Spec == Init /\ [][Next]_vars

-----------------------------------------------------------------------------
(* Properties.                                                             *)

\* The items fill the header's size and do not overlap, whatever the order in
\* which modules come and go.
ItemsTile ==
  /\ \A k \in 1..size : \E i \in DOMAIN items : k \in Slice(items[i])
  /\ \A i \in DOMAIN items : Slice(items[i]) \subseteq 1..size
  /\ \A i, j \in DOMAIN items :
       i # j => Slice(items[i]) \cap Slice(items[j]) = {}

\* Every structure has memory for all of the items and no more, whether it or
\* the item came first.  (Where the list of structures is never empty.)
AllHaveRoom == \A o \in listed : Len(mdext[o]) = size

\* Each item has its own cells, in the header and in every structure.
ItemsFit == ItemsTile /\ AllHaveRoom

\* The cells of an item in a structure, read back.
ValueOf(o, i) ==
  IF o \notin listed \/ i \notin DOMAIN items THEN "clear"
  ELSE IF ~(Slice(items[i]) \subseteq DOMAIN mdext[o]) THEN "lost"
  ELSE IF \A k \in Slice(items[i]) : mdext[o][k] = i THEN "set"
  ELSE IF \A k \in Slice(items[i]) : mdext[o][k] = Zero THEN "clear" ELSE "lost"

Promise == INSTANCE ExtendedData WITH
  owned <- DOMAIN items,
  alive <- listed,
  value <- [o \in Objects |-> [i \in Items |-> ValueOf(o, i)]]

\* The offsets and moves implement a value for every structure and item that
\* only its owner changes.
KeepsPromise == Promise!Spec
=============================================================================
