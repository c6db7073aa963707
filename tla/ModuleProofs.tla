----------------------------- MODULE ModuleProofs -----------------------------
(***************************************************************************)
(* Theorems about module data extensions of structures whose list is never *)
(* empty, for any number and size of structures and items, and about the   *)
(* module loader: what it does to module data extensions are calls of      *)
(* create_mdext_item and destroy_mdext_item, one in a step, so that what   *)
(* they promise holds of the loader too.                                   *)
(***************************************************************************)
EXTENDS ModuleLoader, ListLemmas, TLAPS

\* The inductive invariant: the flag of the iteration function is clear
\* between two loops, because each loop has found a structure.
IInv ==
  /\ TypeOK
  /\ First \subseteq listed
  /\ ~started
  /\ ItemsTile
  /\ AllHaveRoom

\* Memory as long as it should be, made of the cells it may have.
LEMMA CellSeq ==
  ASSUME NEW n \in Nat, NEW f \in [1..n -> Cell]
  PROVE  f \in Seq(Cell) /\ Len(f) = n
  OBVIOUS

\* What TypeOK says of an item.
LEMMA ItemType ==
  ASSUME TypeOK, NEW i \in DOMAIN items
  PROVE  /\ i \in Items
         /\ items[i].offset \in Nat
         /\ items[i].size \in Nat /\ items[i].size > 0 /\ items[i].size \in Sizes
  BY DataAssumption DEF TypeOK

\* Two items that do not overlap: one ends before the other begins.
LEMMA Apart ==
  ASSUME TypeOK, ItemsTile,
         NEW i \in DOMAIN items, NEW j \in DOMAIN items, i # j
  PROVE  \/ items[i].offset + items[i].size <= items[j].offset
         \/ items[j].offset + items[j].size <= items[i].offset
<1>1. /\ items[i].offset \in Nat /\ items[i].size \in Nat /\ items[i].size > 0
      /\ items[j].offset \in Nat /\ items[j].size \in Nat /\ items[j].size > 0
  BY ItemType
<1>2. Slice(items[i]) \cap Slice(items[j]) = {}
  BY DEF ItemsTile
<1>3. CASE items[i].offset <= items[j].offset
  <2>1. items[j].offset + 1 \in Slice(items[j])
    BY <1>1 DEF Slice
  <2>2. items[j].offset + 1 \notin Slice(items[i])
    BY <2>1, <1>2
  <2> QED
    BY <2>2, <1>1, <1>3 DEF Slice
<1>4. CASE items[j].offset < items[i].offset
  <2>1. items[i].offset + 1 \in Slice(items[i])
    BY <1>1 DEF Slice
  <2>2. items[i].offset + 1 \notin Slice(items[j])
    BY <2>1, <1>2
  <2> QED
    BY <2>2, <1>1, <1>4 DEF Slice
<1> QED
  BY <1>1, <1>3, <1>4

\* An item lies within the size of the header.
LEMMA Within ==
  ASSUME TypeOK, ItemsTile, NEW i \in DOMAIN items
  PROVE  items[i].offset + items[i].size <= size
<1>1. items[i].offset \in Nat /\ items[i].size \in Nat /\ items[i].size > 0
  BY ItemType
<1>2. items[i].offset + items[i].size \in Slice(items[i])
  BY <1>1 DEF Slice
<1>3. items[i].offset + items[i].size \in 1..size
  BY <1>2 DEF ItemsTile
<1> QED
  BY <1>3, <1>1, DataAssumption DEF TypeOK

\* A loop over a list that is not empty visits all of it and clears the flag.
LEMMA LoopVisitsAll ==
  ASSUME First # {}, First \subseteq listed, NEW set \in BOOLEAN, ~set
  PROVE  Visited(set) = listed /\ FlagAfter(set) = FALSE
  BY DEF Visited, FlagAfter

\* The invariant holds when the module that owns the structures has started.
LEMMA InitIInv ==
  ASSUME Init
  PROVE  IInv
<1>1. DOMAIN items = {} /\ size = 0 /\ listed = First
  BY DEF Init
<1>2. TypeOK
  <2>1. items \in [DOMAIN items -> [offset : Nat, size : Sizes]]
    BY DEF Init
  <2>2. mdext \in [Objects -> Seq(Cell)]
    BY DEF Init
  <2>3. size \in 0..MaxSize /\ DOMAIN items \subseteq Items /\ listed \subseteq Objects
    BY <1>1, DataAssumption
  <2>4. started \in BOOLEAN /\ overrun \in BOOLEAN
    BY DEF Init
  <2>5. \A o \in Objects \ listed : mdext[o] = <<>>
    BY DEF Init
  <2> QED
    BY <2>1, <2>2, <2>3, <2>4, <2>5 DEF TypeOK
<1>3. ItemsTile
  BY <1>1 DEF ItemsTile
<1>4. AllHaveRoom
  BY DataAssumption DEF AllHaveRoom, Init
<1> QED
  BY <1>1, <1>2, <1>3, <1>4 DEF IInv, Init

\* create_mdext_item preserves it: the new item goes to the end.
LEMMA CreateItemIInv ==
  ASSUME IInv, First # {}, NEW i \in Items, NEW n \in Sizes, CreateItem(i, n)
  PROVE  IInv'
<1> DEFINE it == [offset |-> size, size |-> n]
<1>1. TypeOK /\ ItemsTile /\ AllHaveRoom /\ First \subseteq listed /\ ~started
  BY DEF IInv
<1>2. n \in Nat /\ n > 0 /\ size \in Nat /\ size + n <= MaxSize /\ size' = size + n
  BY <1>1, DataAssumption DEF TypeOK, CreateItem
<1>3. /\ items' = [j \in DOMAIN items \cup {i} |-> IF j = i THEN it ELSE items[j]]
      /\ i \notin DOMAIN items /\ listed' = listed /\ overrun' = overrun
      /\ mdext' = [o \in Objects |-> IF o \in Visited(started)
                                      THEN Cleared(mdext[o], it) ELSE mdext[o]]
      /\ started' = FlagAfter(started)
  BY DEF CreateItem
<1>4. Visited(started) = listed /\ started' = FALSE
  BY <1>1, <1>3, LoopVisitsAll DEF TypeOK
<1>5. \A o \in listed : mdext'[o] \in Seq(Cell) /\ Len(mdext'[o]) = size'
  <2> SUFFICES ASSUME NEW o \in listed
               PROVE  mdext'[o] \in Seq(Cell) /\ Len(mdext'[o]) = size'
    OBVIOUS
  <2>1. o \in Objects /\ mdext[o] \in Seq(Cell) /\ Len(mdext[o]) = size
    BY <1>1 DEF TypeOK, AllHaveRoom
  <2>2. mdext'[o] = [k \in 1..(size + n) |->
                       IF k \in Slice(it) THEN Zero
                       ELSE IF k <= Len(mdext[o]) THEN mdext[o][k] ELSE Junk]
    BY <2>1, <1>3, <1>4 DEF Cleared
  <2>3. mdext'[o] \in [1..(size + n) -> Cell]
    BY <2>1, <2>2, <1>2 DEF Cell
  <2> QED
    BY <2>3, <1>2, CellSeq
<1>6. TypeOK'
  <2>1. items' \in [DOMAIN items' -> [offset : Nat, size : Sizes]]
    BY <1>1, <1>2, <1>3 DEF TypeOK
  <2>2. mdext' \in [Objects -> Seq(Cell)]
    <3>1. \A o \in Objects : mdext'[o] \in Seq(Cell)
      BY <1>1, <1>3, <1>4, <1>5 DEF TypeOK
    <3> QED
      BY <3>1, <1>3
  <2>3. \A o \in Objects \ listed : mdext'[o] = <<>>
    BY <1>1, <1>3, <1>4 DEF TypeOK
  <2>4. DOMAIN items' \subseteq Items /\ size' \in 0..MaxSize
    BY <1>1, <1>2, <1>3, DataAssumption DEF TypeOK
  <2>5. listed' \subseteq Objects /\ started' \in BOOLEAN /\ overrun' \in BOOLEAN
    BY <1>1, <1>3, <1>4 DEF TypeOK
  <2> QED
    BY <2>1, <2>2, <2>3, <2>4, <2>5, <1>3 DEF TypeOK
<1>7. ItemsTile'
  <2>1. Slice(it) = (size + 1)..(size + n)
    BY DEF Slice
  <2>2. \A j \in DOMAIN items : Slice(items'[j]) = Slice(items[j]) /\ Slice(items[j]) \subseteq 1..size
    BY <1>1, <1>3 DEF ItemsTile
  <2>3. DOMAIN items' = DOMAIN items \cup {i} /\ Slice(items'[i]) = Slice(it)
    BY <1>3
  <2>4. \A k \in 1..size' : \E j \in DOMAIN items' : k \in Slice(items'[j])
    <3> SUFFICES ASSUME NEW k \in 1..size'
                 PROVE  \E j \in DOMAIN items' : k \in Slice(items'[j])
      OBVIOUS
    <3>1. CASE k <= size
      <4>1. PICK j \in DOMAIN items : k \in Slice(items[j])
        BY <3>1, <1>1, <1>2 DEF ItemsTile
      <4> QED
        BY <4>1, <2>2, <2>3
    <3>2. CASE k > size
      BY <3>2, <2>1, <2>3, <1>2
    <3> QED
      BY <3>1, <3>2, <1>2
  <2>5. \A j \in DOMAIN items' : Slice(items'[j]) \subseteq 1..size'
    BY <2>1, <2>2, <2>3, <1>2
  <2>6. \A j, k \in DOMAIN items' :
          j # k => Slice(items'[j]) \cap Slice(items'[k]) = {}
    <3>1. \A j, k \in DOMAIN items : j # k => Slice(items'[j]) \cap Slice(items'[k]) = {}
      BY <1>1, <2>2 DEF ItemsTile
    <3>2. \A j \in DOMAIN items : Slice(items'[j]) \cap Slice(items'[i]) = {}
      BY <2>1, <2>2, <2>3, <1>2
    <3> QED
      BY <3>1, <3>2, <2>3
  <2> QED
    BY <2>4, <2>5, <2>6 DEF ItemsTile, Slice
<1>8. AllHaveRoom'
  BY <1>5, <1>3 DEF AllHaveRoom
<1> QED
  BY <1>1, <1>3, <1>4, <1>6, <1>7, <1>8 DEF IInv

\* An item that is closed: every other item is in front of it or behind it.
LEMMA Sides ==
  ASSUME TypeOK, ItemsTile,
         NEW i \in DOMAIN items, NEW j \in DOMAIN items, i # j
  PROVE  /\ items[j].offset > items[i].offset
              => items[j].offset >= items[i].offset + items[i].size
         /\ items[j].offset <= items[i].offset
              => items[j].offset + items[j].size <= items[i].offset
<1>1. /\ items[i].offset \in Nat /\ items[i].size \in Nat /\ items[i].size > 0
      /\ items[j].offset \in Nat /\ items[j].size \in Nat /\ items[j].size > 0
  BY ItemType
<1> QED
  BY <1>1, Apart

\* destroy_mdext_item preserves it: what follows the item closes the gap.
LEMMA DestroyItemIInv ==
  ASSUME IInv, First # {}, NEW i \in Items, DestroyItem(i)
  PROVE  IInv'
<1> DEFINE it == items[i]
           last == it.offset + it.size = size
           moved == IF last THEN {} ELSE Visited(started)
           flag == IF last THEN started ELSE FlagAfter(started)
           After(o) == IF o \in moved THEN Closed(mdext[o], it) ELSE mdext[o]
           rest == DOMAIN items \ {i}
<1>1. TypeOK /\ ItemsTile /\ AllHaveRoom /\ First \subseteq listed /\ ~started
  BY DEF IInv
<1>2. /\ i \in DOMAIN items /\ size' = size - it.size
      /\ overrun' = (\E o \in moved : Len(mdext[o]) < size)
      /\ IF overrun' THEN UNCHANGED mdext
         ELSE mdext' = [o \in Objects |-> IF o \in Visited(flag)
                                           THEN Resized(After(o), size - it.size)
                                           ELSE After(o)]
      /\ items' = MovedDown(rest, it)
      /\ started' = FlagAfter(flag)
      /\ listed' = listed
  BY DEF DestroyItem
<1>3. /\ it.offset \in Nat /\ it.size \in Nat /\ it.size > 0
      /\ size \in Nat /\ size <= MaxSize /\ it.offset + it.size <= size
  BY <1>1, <1>2, ItemType, Within, DataAssumption DEF TypeOK
<1>4. flag = FALSE /\ Visited(flag) = listed /\ started' = FALSE /\ moved \subseteq listed
  <2>1. Visited(started) = listed /\ FlagAfter(started) = FALSE
    BY <1>1, LoopVisitsAll DEF TypeOK
  <2>2. flag = FALSE /\ moved \subseteq listed
    BY <1>1, <2>1
  <2>3. Visited(flag) = listed /\ FlagAfter(flag) = FALSE
    <3> HIDE DEF flag
    <3> QED
      BY <1>1, <2>2, LoopVisitsAll
  <2> QED
    BY <1>2, <2>2, <2>3
<1>5. \A o \in listed : o \in Objects /\ mdext[o] \in Seq(Cell) /\ Len(mdext[o]) = size
  BY <1>1 DEF TypeOK, AllHaveRoom
<1>6. overrun' = FALSE
  BY <1>2, <1>3, <1>4, <1>5
<1>7. mdext' = [o \in Objects |-> IF o \in listed
                                   THEN Resized(After(o), size - it.size) ELSE After(o)]
  BY <1>2, <1>4, <1>6
<1>8. \A o \in listed : mdext'[o] \in Seq(Cell) /\ Len(mdext'[o]) = size'
  <2> SUFFICES ASSUME NEW o \in listed
               PROVE  mdext'[o] \in Seq(Cell) /\ Len(mdext'[o]) = size'
    OBVIOUS
  <2>1. After(o) \in [1..size -> Cell]
    <3>1. mdext[o] \in [1..size -> Cell]
      BY <1>5
    <3>2. Closed(mdext[o], it) \in [1..size -> Cell]
      <4>1. Len(mdext[o]) = size
        BY <1>5
      <4>2. \A k \in 1..size : k <= size - it.size => k + it.size \in 1..size
        BY <1>3
      <4> QED
        BY <3>1, <4>1, <4>2 DEF Closed
    <3> QED
      BY <3>1, <3>2
  <2>2. After(o) \in Seq(Cell) /\ Len(After(o)) = size
    BY <2>1, <1>3, CellSeq
  <2>3. mdext'[o] = Resized(After(o), size - it.size)
    BY <1>5, <1>7
  <2>4. size - it.size \in Nat /\ size - it.size <= size
    BY <1>3
  <2> HIDE DEF After
  <2>5. mdext'[o] \in [1..(size - it.size) -> Cell]
    BY <2>1, <2>2, <2>3, <2>4 DEF Resized, Cell
  <2> QED
    BY <2>4, <2>5, <1>2, CellSeq
<1>9. /\ DOMAIN items' = rest
      /\ \A j \in rest :
           /\ items'[j].size = items[j].size
           /\ items'[j].offset = IF items[j].offset > it.offset
                                   THEN items[j].offset - it.size ELSE items[j].offset
  <2>1. items' = [j \in rest |-> [items[j] EXCEPT !.offset =
                     IF @ > it.offset THEN @ - it.size ELSE @]]
    BY <1>2 DEF MovedDown
  <2>2. \A j \in rest : items[j] \in [offset : Nat, size : Sizes]
    BY <1>1 DEF TypeOK
  <2> QED
    BY <2>1, <2>2
<1>10. \A j \in rest :
         /\ items[j].offset \in Nat /\ items[j].size \in Nat /\ items[j].size > 0
         /\ items[j].size \in Sizes
         /\ items[j].offset + items[j].size <= size
         /\ items[j].offset > it.offset => items[j].offset >= it.offset + it.size
         /\ items[j].offset <= it.offset => items[j].offset + items[j].size <= it.offset
  BY <1>1, <1>2, ItemType, Within, Sides
<1>11. TypeOK'
  <2>1. items' \in [DOMAIN items' -> [offset : Nat, size : Sizes]]
    <3>1. items' = [j \in rest |-> [items[j] EXCEPT !.offset =
                       IF @ > it.offset THEN @ - it.size ELSE @]]
      BY <1>2 DEF MovedDown
    <3>2. \A j \in rest : items[j] \in [offset : Nat, size : Sizes]
      BY <1>1 DEF TypeOK
    <3>3. \A j \in rest : items[j].offset > it.offset => items[j].offset - it.size \in Nat
      BY <1>3, <1>10
    <3> HIDE DEF it, rest
    <3> QED
      BY <3>1, <3>2, <3>3
  <2>2. mdext' \in [Objects -> Seq(Cell)]
    <3>1. \A o \in Objects : mdext'[o] \in Seq(Cell)
      <4> SUFFICES ASSUME NEW o \in Objects PROVE mdext'[o] \in Seq(Cell)
        OBVIOUS
      <4>1. CASE o \in listed
        BY <4>1, <1>8
      <4>2. CASE o \notin listed
        BY <4>2, <1>1, <1>4, <1>7 DEF TypeOK
      <4> QED
        BY <4>1, <4>2
    <3> QED
      BY <3>1, <1>7
  <2>3. \A o \in Objects \ listed : mdext'[o] = <<>>
    BY <1>1, <1>4, <1>7 DEF TypeOK
  <2>4. DOMAIN items' \subseteq Items /\ size' \in 0..MaxSize
    BY <1>1, <1>2, <1>3, <1>9, DataAssumption DEF TypeOK
  <2>5. listed' \subseteq Objects /\ started' \in BOOLEAN /\ overrun' \in BOOLEAN
    BY <1>1, <1>2, <1>4, <1>6 DEF TypeOK
  <2> QED
    BY <2>1, <2>2, <2>3, <2>4, <2>5, <1>2 DEF TypeOK
<1>12. ItemsTile'
  <2> HIDE DEF rest, it
  <2>1. \A k \in 1..size' : \E j \in DOMAIN items' : k \in Slice(items'[j])
    <3> SUFFICES ASSUME NEW k \in 1..size'
                 PROVE  \E j \in rest : k \in Slice(items'[j])
      BY <1>9
    <3>1. CASE k <= it.offset
      <4>1. PICK j \in DOMAIN items : k \in Slice(items[j])
        BY <3>1, <1>1, <1>2, <1>3 DEF ItemsTile
      <4>2. j \in rest
        BY <4>1, <3>1, <1>3 DEF Slice, rest, it
      <4> QED
        BY <4>1, <4>2, <3>1, <1>3, <1>9, <1>10 DEF Slice
    <3>2. CASE k > it.offset
      <4>1. k + it.size \in 1..size
        BY <1>2, <1>3
      <4>2. PICK j \in DOMAIN items : k + it.size \in Slice(items[j])
        BY <4>1, <1>1 DEF ItemsTile
      <4>3. j \in rest
        BY <4>2, <3>2, <1>3 DEF Slice, rest, it
      <4> QED
        BY <4>2, <4>3, <3>2, <1>3, <1>9, <1>10 DEF Slice
    <3> QED
      BY <3>1, <3>2, <1>3
  <2>2. \A j \in DOMAIN items' : Slice(items'[j]) \subseteq 1..size'
    <3> SUFFICES ASSUME NEW j \in rest PROVE Slice(items'[j]) \subseteq 1..size'
      BY <1>9
    <3>1. /\ items'[j].size = items[j].size /\ items[j].size \in Nat /\ items[j].size > 0
          /\ items'[j].offset = IF items[j].offset > it.offset
                                  THEN items[j].offset - it.size ELSE items[j].offset
          /\ items[j].offset \in Nat /\ items[j].offset + items[j].size <= size
          /\ items[j].offset > it.offset => items[j].offset >= it.offset + it.size
          /\ items[j].offset <= it.offset => items[j].offset + items[j].size <= it.offset
      BY <1>9, <1>10
    <3>2. size \in Nat /\ it.offset \in Nat /\ it.size \in Nat /\ it.offset + it.size <= size /\ size' = size - it.size
      BY <1>2, <1>3
    <3> DEFINE off == items'[j].offset
               len == items'[j].size
               all == size'
    <3>3. off \in Nat /\ len \in Nat /\ all \in Nat /\ off + len <= all
      <4> HIDE DEF it
      <4> QED
        BY ONLY <3>1, <3>2
    <3>4. Slice(items'[j]) = (off + 1)..(off + len)
      BY DEF Slice
    <3> HIDE DEF off, len, all
    <3>5. Slice(items'[j]) \subseteq 1..all
      BY ONLY <3>3, <3>4
    <3> QED
      BY <3>5 DEF all
  <2>3. \A j, k \in DOMAIN items' :
          j # k => Slice(items'[j]) \cap Slice(items'[k]) = {}
    <3> SUFFICES ASSUME NEW j \in rest, NEW k \in rest, j # k
                 PROVE  Slice(items'[j]) \cap Slice(items'[k]) = {}
      BY <1>9
    <3>1. \/ items[j].offset + items[j].size <= items[k].offset
          \/ items[k].offset + items[k].size <= items[j].offset
      BY <1>1, Apart DEF rest
    <3>2. \/ items'[j].offset + items'[j].size <= items'[k].offset
          \/ items'[k].offset + items'[k].size <= items'[j].offset
      BY <3>1, <1>3, <1>9, <1>10
    <3>3. /\ items'[j].offset \in Int /\ items'[j].size \in Int
          /\ items'[k].offset \in Int /\ items'[k].size \in Int
      BY <1>3, <1>9, <1>10
    <3> QED
      BY <3>2, <3>3 DEF Slice
  <2> QED
    BY <2>1, <2>2, <2>3 DEF ItemsTile, Slice
<1>13. AllHaveRoom'
  BY <1>8, <1>2 DEF AllHaveRoom
<1> QED
  BY <1>1, <1>2, <1>4, <1>11, <1>12, <1>13 DEF IInv

\* Structures that come and go preserve it: mdext_alloc uses the size.
LEMMA ObjectIInv ==
  ASSUME IInv, NEW o \in Objects, CreateObject(o) \/ DestroyObject(o)
  PROVE  IInv'
<1>1. TypeOK /\ ItemsTile /\ AllHaveRoom /\ First \subseteq listed /\ ~started
  BY DEF IInv
<1>2. size \in Nat
  BY <1>1, DataAssumption DEF TypeOK
<1>3. /\ [k \in 1..size |-> Zero] \in Seq(Cell)
      /\ Len([k \in 1..size |-> Zero]) = size
  <2>1. [k \in 1..size |-> Zero] \in [1..size -> Cell]
    BY DEF Cell
  <2> QED
    BY <2>1, <1>2, CellSeq
<1>4. UNCHANGED <<size, items, started, overrun>>
  BY DEF CreateObject, DestroyObject
<1>5. ItemsTile'
  BY <1>1, <1>4 DEF ItemsTile, Slice
<1>6. CASE CreateObject(o)
  <2>1. listed' = listed \cup {o} /\ mdext' = [mdext EXCEPT ![o] = [k \in 1..size |-> Zero]]
    BY <1>6 DEF CreateObject, Allocated
  <2>2. TypeOK'
    <3>1. mdext' \in [Objects -> Seq(Cell)]
      BY <1>1, <1>3, <2>1 DEF TypeOK
    <3>2. \A p \in Objects \ listed' : mdext'[p] = <<>>
      BY <1>1, <2>1 DEF TypeOK
    <3> QED
      BY <1>1, <1>4, <2>1, <3>1, <3>2 DEF TypeOK
  <2>3. AllHaveRoom'
    BY <1>1, <1>3, <1>4, <2>1 DEF AllHaveRoom, TypeOK
  <2> QED
    BY <1>1, <1>4, <1>5, <2>1, <2>2, <2>3 DEF IInv
<1>7. CASE DestroyObject(o)
  <2>1. o \notin First /\ listed' = listed \ {o} /\ mdext' = [mdext EXCEPT ![o] = <<>>]
    BY <1>7 DEF DestroyObject
  <2>2. TypeOK'
    <3>1. mdext' \in [Objects -> Seq(Cell)]
      BY <1>1, <2>1 DEF TypeOK
    <3>2. \A p \in Objects \ listed' : mdext'[p] = <<>>
      BY <1>1, <2>1 DEF TypeOK
    <3> QED
      BY <1>1, <1>4, <2>1, <3>1, <3>2 DEF TypeOK
  <2>3. AllHaveRoom'
    BY <1>1, <1>4, <2>1 DEF AllHaveRoom, TypeOK
  <2> QED
    BY <1>1, <1>4, <1>5, <2>1, <2>2, <2>3 DEF IInv
<1> QED
  BY <1>6, <1>7

\* An owner's write preserves it: it changes no length.
LEMMA WriteIInv ==
  ASSUME IInv, NEW o \in Objects, NEW i \in Items, NEW v, Write(o, i, v)
  PROVE  IInv'
<1>1. TypeOK /\ ItemsTile /\ AllHaveRoom /\ First \subseteq listed /\ ~started
  BY DEF IInv
<1>2. /\ UNCHANGED <<size, items, listed, started>>
      /\ o \in listed /\ i \in DOMAIN items
      /\ overrun' = ~(Slice(items[i]) \subseteq DOMAIN mdext[o])
      /\ mdext' = [mdext EXCEPT ![o] =
                     [k \in DOMAIN mdext[o] |-> IF k \in Slice(items[i])
                        THEN (IF v = "set" THEN i ELSE Zero) ELSE mdext[o][k]]]
  BY DEF Write
<1>3. /\ size \in Nat /\ mdext[o] \in Seq(Cell) /\ Len(mdext[o]) = size
      /\ mdext \in [Objects -> Seq(Cell)]
  BY <1>1, <1>2, DataAssumption DEF TypeOK, AllHaveRoom
<1>4. mdext'[o] \in Seq(Cell) /\ Len(mdext'[o]) = size
  <2>1. mdext'[o] = [k \in 1..size |-> IF k \in Slice(items[i])
                        THEN (IF v = "set" THEN i ELSE Zero) ELSE mdext[o][k]]
    BY <1>2, <1>3
  <2>2. mdext'[o] \in [1..size -> Cell]
    BY <2>1, <1>3 DEF Cell
  <2> QED
    BY <2>2, <1>3, CellSeq
<1>5. TypeOK'
  <2>1. mdext' \in [Objects -> Seq(Cell)]
    <3>1. \A p \in Objects : p # o => mdext'[p] = mdext[p]
      BY <1>2, <1>3
    <3>2. DOMAIN mdext' = Objects /\ mdext' = [p \in Objects |-> mdext'[p]]
      BY <1>2, <1>3
    <3> QED
      BY <1>3, <1>4, <3>1, <3>2
  <2>2. \A p \in Objects \ listed : mdext'[p] = <<>>
    BY <1>1, <1>2, <1>3 DEF TypeOK
  <2>3. overrun' \in BOOLEAN
    BY <1>2
  <2> QED
    BY <1>1, <1>2, <2>1, <2>2, <2>3 DEF TypeOK
<1>6. ItemsTile'
  BY <1>1, <1>2 DEF ItemsTile, Slice
<1>7. AllHaveRoom'
  BY <1>1, <1>2, <1>3, <1>4 DEF AllHaveRoom, TypeOK
<1> QED
  BY <1>1, <1>2, <1>5, <1>6, <1>7 DEF IInv

\* The invariant is inductive where a structure is never missing.
THEOREM InductiveInvariant ==
  ASSUME First # {}
  PROVE  Spec => []IInv
<1>1. Init => IInv
  BY InitIInv
<1>2. IInv /\ [Next]_vars => IInv'
  <2> SUFFICES ASSUME IInv, [Next]_vars
               PROVE  IInv'
    OBVIOUS
  <2>1. CASE \E i \in Items : DestroyItem(i)
    BY <2>1, DestroyItemIInv
  <2>2. CASE \E i \in Items, n \in Sizes : CreateItem(i, n)
    BY <2>2, CreateItemIInv
  <2>3. CASE \E o \in Objects : CreateObject(o) \/ DestroyObject(o)
    BY <2>3, ObjectIInv
  <2>4. CASE \E o \in Objects, i \in Items, v \in {"clear", "set"} : Write(o, i, v)
    BY <2>4, WriteIInv
  <2>5. CASE UNCHANGED vars
    BY <2>5 DEF vars, IInv, TypeOK, ItemsTile, AllHaveRoom, Slice
  <2> QED
    BY <2>1, <2>2, <2>3, <2>4, <2>5 DEF Next
<1> QED
  BY <1>1, <1>2, PTL DEF Spec

\* create_mdext_item and destroy_mdext_item leave every structure with exactly
\* the memory that the header asks for.
THEOREM EveryoneHasRoom ==
  ASSUME First # {}
  PROVE  Spec => []AllHaveRoom
<1>1. IInv => AllHaveRoom
  BY DEF IInv
<1> QED
  BY <1>1, InductiveInvariant, PTL

\* The offsets of the items neither overlap nor leave a gap, whatever the order
\* in which modules create and destroy them.
THEOREM ItemsFillHeader ==
  ASSUME First # {}
  PROVE  Spec => []ItemsTile
<1>1. IInv => ItemsTile
  BY DEF IInv
<1> QED
  BY <1>1, InductiveInvariant, PTL

\* Offsets and memory fit each other in every reachable state.
THEOREM ItemsAlwaysFit ==
  ASSUME First # {}
  PROVE  Spec => []ItemsFit
<1>1. IInv => ItemsFit
  BY DEF IInv, ItemsFit
<1> QED
  BY <1>1, InductiveInvariant, PTL

-----------------------------------------------------------------------------
(* The implementation of ExtendedData.                                     *)

\* The cells of an item in a structure all hold c.
Holds(o, i, c) == \A k \in Slice(items[i]) : mdext[o][k] = c

\* Nobody has written beyond his memory, and the cells of an item in a
\* structure are all cleared or all its owner's.
RInv ==
  /\ IInv /\ ~overrun
  /\ \A o \in listed, i \in DOMAIN items : Holds(o, i, i) \/ Holds(o, i, Zero)

\* What is read back is then a value.
ReadsBack ==
  \A o \in Objects, i \in Items :
    ValueOf(o, i) = IF o \notin listed \/ i \notin DOMAIN items THEN "clear"
                    ELSE IF Holds(o, i, i) THEN "set" ELSE "clear"

\* Under the invariant a structure reads what the cells of the item hold.
LEMMA ReadBack == RInv => ReadsBack
<1> SUFFICES ASSUME RInv, NEW o \in Objects, NEW i \in Items, o \in listed, i \in DOMAIN items
             PROVE  ValueOf(o, i) = IF Holds(o, i, i) THEN "set" ELSE "clear"
  BY DEF ReadsBack, ValueOf
<1>1. mdext[o] \in Seq(Cell) /\ Len(mdext[o]) = size /\ size \in Nat
  BY DataAssumption DEF RInv, IInv, TypeOK, AllHaveRoom
<1>2. Slice(items[i]) \subseteq DOMAIN mdext[o]
  <2>1. Slice(items[i]) \subseteq 1..size
    BY DEF RInv, IInv, ItemsTile
  <2> QED
    BY <1>1, <2>1
<1>3. Holds(o, i, i) \/ Holds(o, i, Zero)
  BY DEF RInv
<1> QED
  BY <1>2, <1>3 DEF ValueOf, Holds

\* The same of the next state.
LEMMA ReadBackNext == RInv' => ReadsBack'
  BY ReadBack, PTL

\* The places of an item are places of every structure's memory, and no place
\* is two items'.
LEMMA SlicePlaces ==
  ASSUME IInv, NEW i \in DOMAIN items
  PROVE  /\ i \in Items /\ size \in Nat
         /\ Slice(items[i]) \subseteq 1..size /\ items[i].offset + 1 \in Slice(items[i])
         /\ \A j \in DOMAIN items \ {i} : Slice(items[i]) \cap Slice(items[j]) = {}
         /\ \A o \in listed : DOMAIN mdext[o] = 1..size /\ Len(mdext[o]) = size /\ o \in Objects
<1>1. TypeOK /\ ItemsTile /\ AllHaveRoom
  BY DEF IInv
<1>2. items[i].offset \in Nat /\ items[i].size \in Nat /\ items[i].size > 0 /\ i \in Items
  BY <1>1, ItemType
<1>3. items[i].offset + 1 \in Slice(items[i])
  BY <1>2 DEF Slice
<1>4. \A o \in listed : o \in Objects /\ mdext[o] \in Seq(Cell) /\ Len(mdext[o]) = size
  BY <1>1 DEF TypeOK, AllHaveRoom
<1>5. size \in Nat
  BY <1>1, DataAssumption DEF TypeOK
<1>6. /\ Slice(items[i]) \subseteq 1..size
      /\ \A j \in DOMAIN items \ {i} : Slice(items[i]) \cap Slice(items[j]) = {}
  BY <1>1 DEF ItemsTile
<1> QED
  BY <1>2, <1>3, <1>4, <1>5, <1>6

\* Every value: what stands for the variable value of ExtendedData.
Value == [o \in Objects |-> [i \in Items |-> ValueOf(o, i)]]

\* At first there is no value but cleared ones.
LEMMA InitRefines ==
  ASSUME Init
  PROVE  RInv /\ Promise!Init
<1>1. IInv /\ DOMAIN items = {} /\ listed = First /\ ~overrun
  BY InitIInv DEF Init
<1>2. Promise!Init
  BY <1>1, DataAssumption DEF Promise!Init, Promise!Clear, ValueOf
<1> QED
  BY <1>1, <1>2 DEF RInv

\* A new item is cleared in every structure, and disturbs no other.
LEMMA CreateItemRefines ==
  ASSUME RInv, First # {}, NEW i \in Items, NEW n \in Sizes, CreateItem(i, n)
  PROVE  RInv' /\ Promise!CreateItem(i)
<1> DEFINE it == [offset |-> size, size |-> n]
<1>1. IInv /\ IInv' /\ First \subseteq listed /\ ~started /\ started \in BOOLEAN /\ ~overrun
  BY CreateItemIInv DEF RInv, IInv, TypeOK
<1>2. n \in Nat /\ n > 0 /\ size \in Nat
  BY <1>1, DataAssumption DEF IInv, TypeOK
<1>3. /\ items' = [j \in DOMAIN items \cup {i} |-> IF j = i THEN it ELSE items[j]]
      /\ i \notin DOMAIN items /\ listed' = listed /\ ~overrun'
      /\ mdext' = [o \in Objects |-> IF o \in listed THEN Cleared(mdext[o], it) ELSE mdext[o]]
  <2>1. Visited(started) = listed
    BY <1>1, LoopVisitsAll
  <2> QED
    BY <1>1, <2>1 DEF CreateItem
<1>4. /\ DOMAIN items' = DOMAIN items \cup {i} /\ items'[i] = it
      /\ \A j \in DOMAIN items : items'[j] = items[j]
      /\ Slice(it) = (size + 1)..(size + n)
  BY <1>3 DEF Slice
<1>5. ASSUME NEW o \in listed, NEW k \in 1..(size + n)
      PROVE  mdext'[o][k] = IF k > size THEN Zero ELSE mdext[o][k]
  <2>1. o \in Objects /\ Len(mdext[o]) = size
    BY <1>1 DEF IInv, TypeOK, AllHaveRoom
  <2>2. mdext'[o][k] = IF k \in Slice(it) THEN Zero
                       ELSE IF k <= Len(mdext[o]) THEN mdext[o][k] ELSE Junk
    BY <1>3, <2>1 DEF Cleared
  <2> QED
    BY <1>2, <1>4, <2>1, <2>2
<1>6. ASSUME NEW o \in listed, NEW j \in DOMAIN items, NEW c
      PROVE  Holds(o, j, c)' <=> Holds(o, j, c)
  <2>1. \A k \in Slice(items[j]) : k \in 1..(size + n) /\ ~(k > size)
    <3>1. Slice(items[j]) \subseteq 1..size
      BY <1>1, SlicePlaces
    <3> QED
      BY <1>2, <3>1
  <2>2. \A k \in Slice(items[j]) : mdext'[o][k] = mdext[o][k]
    BY <1>5, <2>1
  <2> QED
    BY <1>4, <2>2 DEF Holds, Slice
<1>7. ASSUME NEW o \in listed
      PROVE  Holds(o, i, Zero)' /\ ~Holds(o, i, i)'
  <2>1. \A k \in Slice(it) : mdext'[o][k] = Zero
    BY <1>2, <1>4, <1>5
  <2>2. Holds(o, i, Zero)'
    BY <1>4, <2>1 DEF Holds, Slice
  <2>3. size + 1 \in Slice(it)
    BY <1>2, <1>4
  <2>4. mdext'[o][size + 1] # i
    BY <2>1, <2>3, DataAssumption
  <2> QED
    BY <1>4, <2>2, <2>3, <2>4 DEF Holds, Slice
<1>8. RInv'
  BY <1>1, <1>3, <1>4, <1>6, <1>7 DEF RInv
<1>9. \A o \in Objects, j \in Items : ValueOf(o, j)' = ValueOf(o, j)
  <2> SUFFICES ASSUME NEW o \in Objects, NEW j \in Items PROVE ValueOf(o, j)' = ValueOf(o, j)
    OBVIOUS
  <2>1. /\ ValueOf(o, j) = IF o \notin listed \/ j \notin DOMAIN items THEN "clear"
                           ELSE IF Holds(o, j, j) THEN "set" ELSE "clear"
        /\ ValueOf(o, j)' = IF o \notin listed' \/ j \notin DOMAIN items' THEN "clear"
                            ELSE IF Holds(o, j, j)' THEN "set" ELSE "clear"
    BY <1>8, ReadBack, ReadBackNext DEF ReadsBack
  <2> QED
    BY <1>3, <1>4, <1>6, <1>7, <2>1
<1>10. Value' = Value
  BY <1>9 DEF Value
<1> QED
  BY <1>3, <1>4, <1>8, <1>10 DEF Promise!CreateItem, Value

\* An item that goes takes its values with it; what is behind it moves down
\* with its cells, and no other value changes.
LEMMA DestroyItemRefines ==
  ASSUME RInv, First # {}, NEW i \in Items, DestroyItem(i)
  PROVE  RInv' /\ Promise!DestroyItem(i)
<1> DEFINE it == items[i]
           last == it.offset + it.size = size
           moved == IF last THEN {} ELSE Visited(started)
           flag == IF last THEN started ELSE FlagAfter(started)
           After(o) == IF o \in moved THEN Closed(mdext[o], it) ELSE mdext[o]
           rest == DOMAIN items \ {i}
<1>1. /\ IInv /\ IInv' /\ First \subseteq listed /\ ~started /\ started \in BOOLEAN
      /\ ~overrun /\ TypeOK /\ ItemsTile
  BY DestroyItemIInv DEF RInv, IInv, TypeOK
<1>2. /\ i \in DOMAIN items /\ size' = size - it.size
      /\ overrun' = (\E o \in moved : Len(mdext[o]) < size)
      /\ IF overrun' THEN UNCHANGED mdext
         ELSE mdext' = [o \in Objects |-> IF o \in Visited(flag)
                                           THEN Resized(After(o), size - it.size)
                                           ELSE After(o)]
      /\ items' = MovedDown(rest, it)
      /\ listed' = listed
  BY DEF DestroyItem
<1>3. /\ it.offset \in Nat /\ it.size \in Nat /\ it.size > 0
      /\ size \in Nat /\ it.offset + it.size <= size
  BY <1>1, <1>2, ItemType, Within, DataAssumption DEF TypeOK
<1>4. Visited(flag) = listed /\ moved = (IF last THEN {} ELSE listed)
  <2>1. Visited(started) = listed /\ FlagAfter(started) = FALSE
    BY <1>1, LoopVisitsAll
  <2>2. flag = FALSE
    BY <1>1, <2>1
  <2>3. Visited(flag) = listed
    <3> HIDE DEF flag
    <3> QED
      BY <1>1, <2>2, LoopVisitsAll
  <2> QED
    BY <2>1, <2>3
<1>5. \A o \in listed : o \in Objects /\ Len(mdext[o]) = size /\ DOMAIN mdext[o] = 1..size
  BY <1>1, <1>2, SlicePlaces
<1>6. ~overrun'
  BY <1>2, <1>3, <1>4, <1>5
<1>7. ASSUME NEW o \in listed, NEW k \in 1..(size - it.size)
      PROVE  mdext'[o][k] = IF k > it.offset THEN mdext[o][k + it.size] ELSE mdext[o][k]
  <2>1. mdext'[o] = Resized(After(o), size - it.size)
    BY <1>2, <1>4, <1>5, <1>6
  <2>2. k \in 1..size /\ k <= size - it.size
    BY <1>3
  <2>3. CASE last
    <3>1. After(o) = mdext[o]
      BY <1>4, <2>3
    <3>2. ~(k > it.offset)
      BY <1>3, <2>2, <2>3
    <3> HIDE DEF After, last, it
    <3> QED
      BY <1>5, <2>1, <2>2, <3>1, <3>2 DEF Resized
  <2>4. CASE ~last
    <3>1. After(o) = Closed(mdext[o], it)
      BY <1>4, <2>4
    <3> HIDE DEF After, last, it
    <3>2. After(o) = [l \in 1..size |->
            IF l > it.offset /\ l <= size - it.size THEN mdext[o][l + it.size] ELSE mdext[o][l]]
      BY <1>5, <3>1 DEF Closed
    <3>3. Len(After(o)) = size
      BY <1>3, <3>2
    <3>4. mdext'[o][k] = After(o)[k]
      BY <2>1, <2>2, <3>3 DEF Resized
    <3>5. After(o)[k] = IF k > it.offset /\ k <= size - it.size
                          THEN mdext[o][k + it.size] ELSE mdext[o][k]
      BY <2>2, <3>2
    <3> QED
      BY <2>2, <3>4, <3>5
  <2> QED
    BY <2>3, <2>4
<1>8. /\ DOMAIN items' = rest
      /\ \A j \in rest :
           /\ items'[j].size = items[j].size
           /\ items'[j].offset = IF items[j].offset > it.offset
                                   THEN items[j].offset - it.size ELSE items[j].offset
  <2>1. items' = [j \in rest |-> [items[j] EXCEPT !.offset =
                     IF @ > it.offset THEN @ - it.size ELSE @]]
    BY <1>2 DEF MovedDown
  <2>2. \A j \in rest : items[j] \in [offset : Nat, size : Sizes]
    BY <1>1 DEF TypeOK
  <2> QED
    BY <2>1, <2>2
<1>9. ASSUME NEW o \in listed, NEW j \in rest, NEW c
      PROVE  Holds(o, j, c)' <=> Holds(o, j, c)
  <2>1. /\ items[j].offset \in Nat /\ items[j].size \in Nat /\ items[j].size > 0
        /\ items[j].offset + items[j].size <= size
        /\ items[j].offset > it.offset => items[j].offset >= it.offset + it.size
        /\ items[j].offset <= it.offset => items[j].offset + items[j].size <= it.offset
    BY <1>1, <1>2, ItemType, Within, Sides
  <2>2. CASE items[j].offset > it.offset
    <3>1. items'[j].offset = items[j].offset - it.size /\ items'[j].size = items[j].size
      BY <1>8, <2>2
    <3>2. \A k \in Slice(items'[j]) :
            /\ k \in 1..(size - it.size) /\ k > it.offset /\ k + it.size \in Slice(items[j])
      BY <1>3, <2>1, <2>2, <3>1 DEF Slice
    <3>3. \A k \in Slice(items[j]) :
            k - it.size \in Slice(items'[j]) /\ (k - it.size) + it.size = k
      BY <1>3, <2>1, <2>2, <3>1 DEF Slice
    <3>4. \A k \in Slice(items'[j]) : mdext'[o][k] = mdext[o][k + it.size]
      BY <1>7, <3>2
    <3> HIDE DEF it, rest
    <3>5. Holds(o, j, c)' <=> \A k \in Slice(items'[j]) : mdext'[o][k] = c
      BY DEF Holds, Slice
    <3>6. ASSUME \A k \in Slice(items'[j]) : mdext'[o][k] = c
          PROVE  \A k \in Slice(items[j]) : mdext[o][k] = c
      <4> TAKE k \in Slice(items[j])
      <4>1. mdext'[o][k - it.size] = mdext[o][(k - it.size) + it.size]
        BY <3>3, <3>4
      <4> QED
        BY <3>3, <3>6, <4>1
    <3> QED
      BY <3>2, <3>4, <3>5, <3>6 DEF Holds
  <2>3. CASE items[j].offset <= it.offset
    <3>1. items'[j].offset = items[j].offset /\ items'[j].size = items[j].size
      BY <1>3, <1>8, <2>1, <2>3
    <3>2. Slice(items'[j]) = Slice(items[j])
      BY <3>1 DEF Slice
    <3>3. \A k \in Slice(items[j]) : k \in 1..(size - it.size) /\ ~(k > it.offset)
      BY <1>3, <2>1, <2>3 DEF Slice
    <3>4. \A k \in Slice(items[j]) : mdext'[o][k] = mdext[o][k]
      BY <1>7, <3>3
    <3> HIDE DEF it, rest
    <3>5. Holds(o, j, c)' <=> \A k \in Slice(items'[j]) : mdext'[o][k] = c
      BY DEF Holds, Slice
    <3> QED
      BY <3>2, <3>4, <3>5 DEF Holds
  <2> QED
    BY <1>3, <2>1, <2>2, <2>3
<1>10. RInv'
  <2> SUFFICES ASSUME NEW o \in listed, NEW j \in rest
               PROVE  Holds(o, j, j)' \/ Holds(o, j, Zero)'
    BY <1>1, <1>2, <1>6, <1>8 DEF RInv
  <2>1. Holds(o, j, j) \/ Holds(o, j, Zero)
    BY DEF RInv
  <2> QED
    BY <1>9, <2>1
<1>11. \A o \in Objects, j \in Items :
         ValueOf(o, j)' = IF j = i THEN "clear" ELSE ValueOf(o, j)
  <2> SUFFICES ASSUME NEW o \in Objects, NEW j \in Items
               PROVE  ValueOf(o, j)' = IF j = i THEN "clear" ELSE ValueOf(o, j)
    OBVIOUS
  <2>1. /\ ValueOf(o, j) = IF o \notin listed \/ j \notin DOMAIN items THEN "clear"
                           ELSE IF Holds(o, j, j) THEN "set" ELSE "clear"
        /\ ValueOf(o, j)' = IF o \notin listed' \/ j \notin DOMAIN items' THEN "clear"
                            ELSE IF Holds(o, j, j)' THEN "set" ELSE "clear"
    BY <1>10, ReadBack, ReadBackNext DEF ReadsBack
  <2>2. o \in listed /\ j \in rest => (Holds(o, j, j)' <=> Holds(o, j, j))
    BY <1>9
  <2> QED
    BY <1>2, <1>8, <2>1, <2>2
<1>12. Value' = [o \in Objects |-> [Value[o] EXCEPT ![i] = "clear"]]
  BY <1>11 DEF Value
<1> QED
  BY <1>2, <1>8, <1>10, <1>12 DEF Promise!DestroyItem, Value

\* A structure that comes or goes has only cleared values.
LEMMA ObjectRefines ==
  ASSUME RInv, NEW o \in Objects, CreateObject(o) \/ DestroyObject(o)
  PROVE  RInv' /\ (Promise!CreateObject(o) \/ Promise!DestroyObject(o))
<1>1. /\ IInv /\ IInv' /\ ~overrun /\ mdext \in [Objects -> Seq(Cell)]
      /\ UNCHANGED <<size, items, started, overrun>>
  BY ObjectIInv DEF RInv, IInv, TypeOK, CreateObject, DestroyObject
<1>2. \A p \in Objects \ {o} : (p \in listed' <=> p \in listed) /\ mdext'[p] = mdext[p]
  BY <1>1 DEF CreateObject, DestroyObject
<1>3. ASSUME NEW p \in Objects \ {o}, NEW j \in Items, NEW c
      PROVE  Holds(p, j, c)' <=> Holds(p, j, c)
  BY <1>1, <1>2 DEF Holds, Slice
<1>4. CASE CreateObject(o)
  <2>1. o \notin listed /\ listed' = listed \cup {o} /\ mdext'[o] = [k \in 1..size |-> Zero]
    BY <1>1, <1>4 DEF CreateObject, Allocated
  <2>2. \A j \in DOMAIN items : Holds(o, j, Zero)' /\ ~Holds(o, j, j)'
    <3> SUFFICES ASSUME NEW j \in DOMAIN items
                 PROVE  Holds(o, j, Zero)' /\ ~Holds(o, j, j)'
      OBVIOUS
    <3>1. j \in Items /\ Slice(items[j]) \subseteq 1..size /\ items[j].offset + 1 \in Slice(items[j])
      BY <1>1, SlicePlaces
    <3>2. \A k \in Slice(items[j]) : mdext'[o][k] = Zero
      BY <2>1, <3>1
    <3>3. Zero # j
      BY <3>1, DataAssumption
    <3> QED
      BY <1>1, <3>1, <3>2, <3>3 DEF Holds, Slice
  <2>3. RInv'
    <3> SUFFICES ASSUME NEW p \in listed', NEW j \in DOMAIN items
                 PROVE  Holds(p, j, j)' \/ Holds(p, j, Zero)'
      BY <1>1 DEF RInv
    <3>1. CASE p = o
      BY <2>2, <3>1
    <3>2. CASE p # o
      <4>1. p \in listed /\ p \in Objects /\ j \in Items
        BY <1>1, <2>1, <3>2 DEF IInv, TypeOK
      <4>2. Holds(p, j, j) \/ Holds(p, j, Zero)
        BY <4>1 DEF RInv
      <4> QED
        BY <1>3, <3>2, <4>1, <4>2
    <3> QED
      BY <3>1, <3>2
  <2>4. \A p \in Objects, j \in Items : ValueOf(p, j)' = ValueOf(p, j)
    <3> SUFFICES ASSUME NEW p \in Objects, NEW j \in Items
                 PROVE  ValueOf(p, j)' = ValueOf(p, j)
      OBVIOUS
    <3>1. /\ ValueOf(p, j) = IF p \notin listed \/ j \notin DOMAIN items THEN "clear"
                             ELSE IF Holds(p, j, j) THEN "set" ELSE "clear"
          /\ ValueOf(p, j)' = IF p \notin listed' \/ j \notin DOMAIN items' THEN "clear"
                              ELSE IF Holds(p, j, j)' THEN "set" ELSE "clear"
      BY <2>3, ReadBack, ReadBackNext DEF ReadsBack
    <3>2. p # o => (Holds(p, j, j)' <=> Holds(p, j, j))
      BY <1>3
    <3> QED
      BY <1>1, <1>2, <2>1, <2>2, <3>1, <3>2
  <2>5. Value' = Value
    BY <2>4 DEF Value
  <2> QED
    BY <1>1, <2>1, <2>3, <2>5 DEF Promise!CreateObject, Value
<1>5. CASE DestroyObject(o)
  <2>1. o \in listed /\ listed' = listed \ {o}
    BY <1>5 DEF DestroyObject
  <2>2. RInv'
    <3> SUFFICES ASSUME NEW p \in listed', NEW j \in DOMAIN items
                 PROVE  Holds(p, j, j)' \/ Holds(p, j, Zero)'
      BY <1>1 DEF RInv
    <3>1. p # o /\ p \in listed /\ p \in Objects /\ j \in Items
      BY <1>1, <2>1 DEF IInv, TypeOK
    <3>2. Holds(p, j, j) \/ Holds(p, j, Zero)
      BY <3>1 DEF RInv
    <3> QED
      BY <1>3, <3>1, <3>2
  <2>3. \A p \in Objects, j \in Items :
          ValueOf(p, j)' = IF p = o THEN "clear" ELSE ValueOf(p, j)
    <3> SUFFICES ASSUME NEW p \in Objects, NEW j \in Items
                 PROVE  ValueOf(p, j)' = IF p = o THEN "clear" ELSE ValueOf(p, j)
      OBVIOUS
    <3>1. /\ ValueOf(p, j) = IF p \notin listed \/ j \notin DOMAIN items THEN "clear"
                             ELSE IF Holds(p, j, j) THEN "set" ELSE "clear"
          /\ ValueOf(p, j)' = IF p \notin listed' \/ j \notin DOMAIN items' THEN "clear"
                              ELSE IF Holds(p, j, j)' THEN "set" ELSE "clear"
      BY <2>2, ReadBack, ReadBackNext DEF ReadsBack
    <3>2. p # o => (Holds(p, j, j)' <=> Holds(p, j, j))
      BY <1>3
    <3> QED
      BY <1>1, <1>2, <2>1, <3>1, <3>2
  <2>4. Value' = [Value EXCEPT ![o] = [j \in Items |-> "clear"]]
    BY <2>3 DEF Value
  <2> QED
    BY <1>1, <2>1, <2>2, <2>4 DEF Promise!DestroyObject, Promise!Clear, Value
<1> QED
  BY <1>4, <1>5

\* A write stays within the item's own cells: it sets that value and no other.
LEMMA WriteRefines ==
  ASSUME RInv, NEW o \in Objects, NEW i \in Items, NEW v \in {"clear", "set"}, Write(o, i, v)
  PROVE  RInv' /\ Promise!Write(o, i, v)
<1> DEFINE c == IF v = "set" THEN i ELSE Zero
<1>1. IInv /\ IInv' /\ ~overrun /\ mdext \in [Objects -> Seq(Cell)]
  BY WriteIInv DEF RInv, IInv, TypeOK
<1>2. /\ UNCHANGED <<size, items, listed, started>>
      /\ o \in listed /\ i \in DOMAIN items
      /\ overrun' = ~(Slice(items[i]) \subseteq DOMAIN mdext[o])
      /\ mdext' = [mdext EXCEPT ![o] =
                     [k \in DOMAIN mdext[o] |-> IF k \in Slice(items[i]) THEN c ELSE mdext[o][k]]]
  BY DEF Write
<1>3. /\ Slice(items[i]) \subseteq 1..size /\ items[i].offset + 1 \in Slice(items[i])
      /\ DOMAIN mdext[o] = 1..size
      /\ \A j \in DOMAIN items \ {i} : Slice(items[i]) \cap Slice(items[j]) = {}
  BY <1>1, <1>2, SlicePlaces
<1>4. ~overrun'
  BY <1>2, <1>3
<1>5. Holds(o, i, c)'
  <2>1. \A k \in Slice(items[i]) : mdext'[o][k] = c
    BY <1>1, <1>2, <1>3
  <2> HIDE DEF c
  <2> QED
    BY <1>2, <2>1 DEF Holds, Slice
<1>6. Holds(o, i, i)' <=> v = "set"
  <2>1. v # "set" => ~Holds(o, i, i)'
    <3>1. mdext'[o][items[i].offset + 1] = c
      BY <1>1, <1>2, <1>3
    <3>2. Zero # i
      BY DataAssumption
    <3> QED
      BY <1>2, <1>3, <3>1, <3>2 DEF Holds, Slice
  <2> QED
    BY <1>5, <2>1
<1>7. ASSUME NEW p \in listed, NEW j \in DOMAIN items, p # o \/ j # i, NEW d
      PROVE  Holds(p, j, d)' <=> Holds(p, j, d)
  <2>1. \A k \in Slice(items[j]) : mdext'[p][k] = mdext[p][k]
    <3>1. CASE p # o
      BY <1>1, <1>2, <3>1 DEF IInv, TypeOK
    <3>2. CASE p = o
      <4>1. Slice(items[j]) \subseteq 1..size
        BY <1>1, SlicePlaces
      <4>2. \A k \in Slice(items[j]) : k \notin Slice(items[i]) /\ k \in DOMAIN mdext[o]
        BY <1>3, <1>7, <3>2, <4>1
      <4> QED
        BY <1>1, <1>2, <3>2, <4>2
    <3> QED
      BY <3>1, <3>2
  <2> QED
    BY <1>2, <2>1 DEF Holds, Slice
<1>8. RInv'
  <2> SUFFICES ASSUME NEW p \in listed, NEW j \in DOMAIN items
               PROVE  Holds(p, j, j)' \/ Holds(p, j, Zero)'
    BY <1>1, <1>2, <1>4 DEF RInv
  <2>1. CASE p = o /\ j = i
    BY <1>5, <2>1
  <2>2. CASE p # o \/ j # i
    <3>1. Holds(p, j, j) \/ Holds(p, j, Zero)
      BY DEF RInv
    <3> QED
      BY <1>7, <2>2, <3>1
  <2> QED
    BY <2>1, <2>2
<1>9. \A p \in Objects, j \in Items :
        ValueOf(p, j)' = IF p = o /\ j = i THEN v ELSE ValueOf(p, j)
  <2> SUFFICES ASSUME NEW p \in Objects, NEW j \in Items
               PROVE  ValueOf(p, j)' = IF p = o /\ j = i THEN v ELSE ValueOf(p, j)
    OBVIOUS
  <2>1. /\ ValueOf(p, j) = IF p \notin listed \/ j \notin DOMAIN items THEN "clear"
                           ELSE IF Holds(p, j, j) THEN "set" ELSE "clear"
        /\ ValueOf(p, j)' = IF p \notin listed' \/ j \notin DOMAIN items' THEN "clear"
                            ELSE IF Holds(p, j, j)' THEN "set" ELSE "clear"
    BY <1>8, ReadBack, ReadBackNext DEF ReadsBack
  <2>2. p \in listed /\ j \in DOMAIN items /\ (p # o \/ j # i)
          => (Holds(p, j, j)' <=> Holds(p, j, j))
    BY <1>7
  <2> QED
    BY <1>2, <1>6, <2>1, <2>2
<1>10. Value' = [Value EXCEPT ![o][i] = v]
  BY <1>9 DEF Value
<1> QED
  BY <1>2, <1>8, <1>10 DEF Promise!Write, Value

\* What a step of the program is to ExtendedData: a step of it or none.
LEMMA StepRefines ==
  ASSUME RInv, First # {}, [Next]_vars
  PROVE  RInv' /\ [Promise!Next]_(Promise!vars)
<1>1. CASE \E i \in Items, n \in Sizes : CreateItem(i, n)
  BY <1>1, CreateItemRefines DEF Promise!Next
<1>2. CASE \E i \in Items : DestroyItem(i)
  BY <1>2, DestroyItemRefines DEF Promise!Next
<1>3. CASE \E o \in Objects : CreateObject(o) \/ DestroyObject(o)
  BY <1>3, ObjectRefines DEF Promise!Next
<1>4. CASE \E o \in Objects, i \in Items, v \in {"clear", "set"} : Write(o, i, v)
  BY <1>4, WriteRefines DEF Promise!Next
<1>5. CASE UNCHANGED vars
  <2>1. RInv'
    BY <1>5 DEF vars, RInv, IInv, TypeOK, ItemsTile, AllHaveRoom, Slice, Holds
  <2>2. UNCHANGED Promise!vars
    BY <1>5 DEF vars, Promise!vars, ValueOf, Slice
  <2> QED
    BY <2>1, <2>2
<1> QED
  BY <1>1, <1>2, <1>3, <1>4, <1>5 DEF Next

\* Nothing that create_mdext_item and destroy_mdext_item, the structures or the
\* items' owners do makes memory be used past its end.
THEOREM NeverOverrun ==
  ASSUME First # {}
  PROVE  Spec => []~overrun
<1>1. Init => RInv
  BY InitRefines
<1>2. RInv /\ [Next]_vars => RInv'
  BY StepRefines
<1>3. RInv => ~overrun
  BY DEF RInv
<1> QED
  BY <1>1, <1>2, <1>3, PTL DEF Spec

\* Offsets, moves and resized memory keep what include/ithildin/module.h
\* promises: a value for each structure and item, cleared when either of them
\* is made, which changes only when its owner writes it.
THEOREM PromiseKept ==
  ASSUME First # {}
  PROVE  Spec => KeepsPromise
<1>1. Init => RInv /\ Promise!Init
  BY InitRefines
<1>2. RInv /\ [Next]_vars => RInv' /\ [Promise!Next]_(Promise!vars)
  BY StepRefines
<1> QED
  BY <1>1, <1>2, PTL DEF Spec, KeepsPromise, Promise!Spec

-----------------------------------------------------------------------------
(* The loader                                                              *)

\* load_module makes at most one item: the loader of the module does.
LEMMA OpenStep ==
  ASSUME Open
  PROVE  [Next]_vars
<1>1. CASE UNCHANGED vars
  BY <1>1
<1>2. CASE \E m, r : Loader(m, r)
  <2>1. PICK m, r : Loader(m, r)
    BY <1>2
  <2>2. CASE \E i \in Items : CreateItem(i, SizeOf[i])
    BY <2>2, LoaderAssumption DEF Next
  <2> QED
    BY <1>1, <2>1, <2>2 DEF Loader, ItemsOf
<1> QED
  BY <1>1, <1>2 DEF Open

\* unload_module destroys at most one: the unloader of the module does.
LEMMA CallUnloaderStep ==
  ASSUME CallUnloader
  PROVE  [Next]_vars
<1>1. PICK m : Unloader(m)
  BY DEF CallUnloader
<1>2. UNCHANGED vars \/ \E i \in Items : DestroyItem(i)
  BY <1>1 DEF Unloader, ItemsOf
<1> QED
  BY <1>2 DEF Next

\* A step of the loader is a step of module data or leaves it alone.
LEMMA LoaderStep ==
  ASSUME LoaderNext
  PROVE  [Next]_vars
<1>1. CASE Calls
  <2>1. CASE Open
    BY <2>1, OpenStep
  <2>2. CASE CallUnloader
    BY <2>2, CallUnloaderStep
  <2>3. CASE Load \/ LoadNeeds \/ Needed \/ LoadDependants \/ Unload \/ UnloadDependants
    BY <2>3 DEF Load, LoadNeeds, Needed, LoadDependants, Unload, UnloadDependants
  <2>4. CASE ConfNext \/ Protocol \/ ReloadNext \/ LoadAgain \/ ExitNext \/ DestroyModule
    BY <2>4 DEF ConfNext, Protocol, ReloadNext, LoadAgain, ExitNext, DestroyModule
  <2> QED
    BY <1>1, <2>1, <2>2, <2>3, <2>4 DEF Calls
<1>2. CASE Configure \/ DoReloads \/ Exit
  BY <1>2 DEF Configure, DoReloads, Exit
<1>3. CASE Data
  BY <1>3 DEF Data, Next
<1>4. CASE \E m \in Modules : Wanted(m) \/ OperUnload(m) \/ Reload(m)
  BY <1>4 DEF Wanted, OperUnload, Reload
<1>5. CASE \E m \in DOMAIN Tables : AddProtocol(m)
  BY <1>5 DEF AddProtocol
<1>6. CASE \E m \in Modules, f \in {"good", "missing", "broken", "refuses"} : Replace(m, f)
  BY <1>6 DEF Replace
<1> QED
  BY <1>1, <1>2, <1>3, <1>4, <1>5, <1>6 DEF LoaderNext

\* The loader implements module data: loads, unloads, reloads, rehashes and the
\* exit create and destroy items only as ModuleData allows.
THEOREM LoaderImplements == LoaderSpec => Spec
<1>1. LoaderInit => Init
  BY DEF LoaderInit
<1>2. [LoaderNext]_lvars => [Next]_vars
  BY LoaderStep DEF lvars
<1> QED
  BY <1>1, <1>2, PTL DEF LoaderSpec, Spec

\* However modules are loaded, unloaded and reloaded, a structure keeps the value
\* of every item that its owner does not write.
THEOREM LoaderKeepsPromise ==
  ASSUME First # {}
  PROVE  LoaderSpec => KeepsPromise
BY LoaderImplements, PromiseKept

\* However they are, the items fill the header and every structure has room.
THEOREM LoaderKeepsFit ==
  ASSUME First # {}
  PROVE  LoaderSpec => []ItemsFit
BY LoaderImplements, ItemsAlwaysFit

-----------------------------------------------------------------------------
(* What the loader notes about modules.                                    *)

Frames == [at : Places, of : Modules, flags : SUBSET Flags, todo : Seq(Modules)]
Structures == [flags : SUBSET Flags, opens : Nat, opencalls : Nat, deps : Seq(Modules),
               saved : Seq({"null", "item"}), item : {"null", "item"}, code : BOOLEAN,
               running : BOOLEAN]

\* A call of a set is in progress; or no two are.
Some(st, calls) == \E j \in DOMAIN st : st[j] \in calls
Once(st, calls) == \A j, k \in DOMAIN st : st[j] \in calls /\ st[k] \in calls => j = k

\* Calls that look after the needs of m, that are about to open it, and in which it
\* is on its way out; and the exit.
NeedsOf(m) == {fr \in Frames : fr.of = m /\ fr.at \in {"needs", "needed"}}
OpenOf(m) == {fr \in Frames : fr.of = m /\ fr.at = "open"}
DropOf(m) == {fr \in Frames : fr.of = m /\ fr.at \in {"drop", "call"}}
Exits == {fr \in Frames : fr.at = "exit"}

\* Loads call loads and unloads unloads; what calls the first of them is below.
LoadPlaces == {"load", "needs", "needed", "open", "depart"}
UnloadPlaces == {"unload", "drop", "call"}
Callers == {"conf", "walk", "again", "protocol", "exit"}
Loads(st) ==
  \A j \in DOMAIN st : st[j].at \in LoadPlaces \/ (j = Len(st) /\ st[j].at \in Callers \ {"exit"})
Unloads(st) ==
  \A j \in DOMAIN st :
    \/ st[j].at \in UnloadPlaces
    \/ j = Len(st) /\ st[j].at \in Callers
    \/ j = Len(st) - 1 /\ st[j].at = "destroy" /\ st[Len(st)].at = "exit"
Goes(st) == \A j \in DOMAIN st : st[j].at \in {"needed", "again"} => st[j].todo # <<>>
StackOK(st) == (Loads(st) \/ Unloads(st)) /\ Goes(st)

\* What the calls in progress have done to the flags and the library of a module r.
FlagsOK(st, m, r) ==
  LET loaded == "loaded" \in r.flags IN
  /\ r.running => r.opens > 0
  /\ r.opens > 0 /\ ~r.running => Some(st, NeedsOf(m)) \/ Some(st, OpenOf(m))
  /\ loaded => r.running \/ Some(st, NeedsOf(m))
  /\ r.running => loaded \/ Some(st, DropOf(m))
  /\ Some(st, NeedsOf(m)) => loaded /\ ~r.running
  /\ Some(st, DropOf(m)) => ~loaded /\ r.running
  /\ Once(st, NeedsOf(m)) /\ Once(st, DropOf(m))

\* The data of a module: code that runs has its item, code that is gone at most a
\* saved one.
ItemOK(m, r) ==
  /\ r.opens <= r.opencalls
  /\ r.running => r.code /\ r.saved = <<>> /\ r.item = (IF ItemsOf(m) = {} THEN "null" ELSE "item")
  /\ ~r.running => r.item = "null" /\ r.saved \in Seq({"item"})
  /\ ItemsOf(m) = {} => r.saved = <<>>

\* The process exits or has: no module is listed any more.
Exiting == ~up \/ Some(stack, Exits)
ItemKept(i) ==
  LET m == Owner[i] IN
    \/ m \in given \/ (Exiting /\ ~Known(m))
    \/ i \in DOMAIN items <=> mod[m].item = "item" \/ mod[m].saved # <<>>
DataOK == \A i \in Items : ItemKept(i)

\* The inductive invariant of the loader: of a module that was given up nothing is
\* known but that it is a module.
ModulesOK == \A m \in Modules \ given : FlagsOK(stack, m, mod[m]) /\ ItemOK(m, mod[m])
LoaderTypes ==
  /\ DOMAIN items \subseteq Items
  /\ list \in Seq(Modules) /\ mod \in [Modules -> Structures]
  /\ entry \in [DOMAIN Tables -> {"none", "good", "stale"}]
  /\ stack \in Seq(Frames)
  /\ ret \in BOOLEAN /\ reloads \in BOOLEAN /\ up \in BOOLEAN
  /\ file \in [Modules -> {"good", "missing", "broken", "refuses"}]
LInv ==
  /\ LoaderTypes
  /\ StackOK(stack) /\ (stack # <<>> => up)
  /\ ModulesOK
  /\ DataOK

\* What a call on top of others adds to them.
LEMMA Pushed ==
  ASSUME NEW t \in Seq(Frames), NEW f \in Frames
  PROVE  /\ <<f>> \o t \in Seq(Frames) /\ Len(<<f>> \o t) = Len(t) + 1
         /\ (<<f>> \o t)[1] = f /\ \A j \in 1..Len(t) : (<<f>> \o t)[j + 1] = t[j]
         /\ <<f>> \o t # <<>> /\ Head(<<f>> \o t) = f /\ Tail(<<f>> \o t) = t
  OBVIOUS

\* The calls of a set, by the top one and the others.
LEMMA PushedCalls ==
  ASSUME NEW t \in Seq(Frames), NEW f \in Frames, NEW calls
  PROVE  /\ Some(<<f>> \o t, calls) <=> f \in calls \/ Some(t, calls)
         /\ Once(<<f>> \o t, calls) <=> Once(t, calls) /\ (f \in calls => ~Some(t, calls))
<1> DEFINE st == <<f>> \o t
           n == Len(t)
<1>1. /\ st \in Seq(Frames) /\ Len(st) = n + 1 /\ st[1] = f /\ \A j \in 1..n : st[j + 1] = t[j]
      /\ n \in Nat /\ DOMAIN st = 1..(n + 1) /\ DOMAIN t = 1..n
  BY Pushed
<1> HIDE DEF st, n
<1>2. \A j \in 1..(n + 1) : j = 1 \/ (j - 1 \in 1..n /\ st[j] = t[j - 1])
  BY <1>1
<1>3. 1 \in 1..(n + 1) /\ \A j \in 1..n : j + 1 \in 1..(n + 1) /\ j + 1 # 1
  BY <1>1
<1>4. Some(st, calls) <=> f \in calls \/ Some(t, calls)
  BY <1>1, <1>2, <1>3 DEF Some
<1>5. ASSUME Once(st, calls)
      PROVE  Once(t, calls) /\ (f \in calls => ~Some(t, calls))
  <2>1. \A j, k \in 1..n : j + 1 = k + 1 => j = k
    BY <1>1
  <2> QED
    BY <1>1, <1>3, <1>5, <2>1 DEF Once, Some
<1>6. ASSUME Once(t, calls), f \in calls => ~Some(t, calls)
      PROVE  Once(st, calls)
  <2> SUFFICES ASSUME NEW j \in 1..(n + 1), NEW k \in 1..(n + 1), st[j] \in calls, st[k] \in calls
               PROVE  j = k
    BY <1>1 DEF Once
  <2>1. CASE j = 1 /\ k # 1
    BY <2>1, <1>1, <1>2, <1>6 DEF Some
  <2>2. CASE k = 1 /\ j # 1
    BY <2>2, <1>1, <1>2, <1>6 DEF Some
  <2>3. CASE j # 1 /\ k # 1
    <3>1. j - 1 \in 1..n /\ k - 1 \in 1..n /\ t[j - 1] \in calls /\ t[k - 1] \in calls
      BY <2>3, <1>2
    <3>2. j - 1 = k - 1
      BY <3>1, <1>1, <1>6 DEF Once
    <3> QED
      BY <3>2
  <2> QED
    BY <2>1, <2>2, <2>3
<1> QED
  BY <1>4, <1>5, <1>6 DEF st

\* The shape of the stack, by the top one and the others.
LEMMA PushedShape ==
  ASSUME NEW t \in Seq(Frames), NEW f \in Frames
  PROVE  /\ Loads(<<f>> \o t) <=>
              Loads(t) /\ (f.at \in LoadPlaces \/ (t = <<>> /\ f.at \in Callers \ {"exit"}))
         /\ Unloads(<<f>> \o t) <=>
              /\ Unloads(t)
              /\ \/ f.at \in UnloadPlaces
                 \/ t = <<>> /\ f.at \in Callers
                 \/ Len(t) = 1 /\ f.at = "destroy" /\ t[1].at = "exit"
         /\ Goes(<<f>> \o t) <=> Goes(t) /\ (f.at \in {"needed", "again"} => f.todo # <<>>)
<1> DEFINE st == <<f>> \o t
           n == Len(t)
<1>1. /\ st \in Seq(Frames) /\ Len(st) = n + 1 /\ st[1] = f /\ \A j \in 1..n : st[j + 1] = t[j]
      /\ n \in Nat /\ DOMAIN st = 1..(n + 1) /\ DOMAIN t = 1..n /\ (t = <<>> <=> n = 0)
  BY Pushed
<1> HIDE DEF st, n
<1>2. \A j \in 1..(n + 1) : j = 1 \/ (j - 1 \in 1..n /\ st[j] = t[j - 1])
  BY <1>1
<1>3. 1 \in 1..(n + 1) /\ \A j \in 1..n : j + 1 \in 1..(n + 1) /\ j + 1 # 1
  BY <1>1
<1>4. /\ \A j \in 1..n : (j + 1 = n + 1 <=> j = n) /\ (j + 1 = n + 1 - 1 <=> j = n - 1)
      /\ 1 = n + 1 <=> n = 0
      /\ 1 = n + 1 - 1 <=> n = 1
      /\ n # 0 => st[n + 1] = t[n]
  BY <1>1, <1>3
<1>5. Loads(st) <=> Loads(t) /\ (f.at \in LoadPlaces \/ (t = <<>> /\ f.at \in Callers \ {"exit"}))
  <2>1. Loads(st) => Loads(t) /\ (f.at \in LoadPlaces \/ (t = <<>> /\ f.at \in Callers \ {"exit"}))
    BY <1>1, <1>3, <1>4 DEF Loads
  <2>2. ASSUME Loads(t), f.at \in LoadPlaces \/ (t = <<>> /\ f.at \in Callers \ {"exit"}),
               NEW j \in 1..(n + 1)
        PROVE  st[j].at \in LoadPlaces \/ (j = n + 1 /\ st[j].at \in Callers \ {"exit"})
    <3>1. CASE j = 1
      BY <3>1, <2>2, <1>1
    <3>2. CASE j # 1
      <4>1. j - 1 \in 1..n /\ st[j] = t[j - 1] /\ (j - 1 = n => j = n + 1)
        BY <3>2, <1>1, <1>2
      <4> QED
        BY <4>1, <2>2, <1>1 DEF Loads, n
    <3> QED
      BY <3>1, <3>2
  <2> QED
    BY <2>1, <2>2, <1>1 DEF Loads
<1>6. Goes(st) <=> Goes(t) /\ (f.at \in {"needed", "again"} => f.todo # <<>>)
  <2>1. Goes(st) => Goes(t) /\ (f.at \in {"needed", "again"} => f.todo # <<>>)
    BY <1>1, <1>3 DEF Goes
  <2>2. Goes(t) /\ (f.at \in {"needed", "again"} => f.todo # <<>>) => Goes(st)
    <3> SUFFICES ASSUME Goes(t), f.at \in {"needed", "again"} => f.todo # <<>>,
                        NEW j \in DOMAIN st, st[j].at \in {"needed", "again"}
                 PROVE  st[j].todo # <<>>
      BY DEF Goes
    <3>1. CASE j = 1
      BY <3>1, <1>1
    <3>2. CASE j # 1
      <4>1. j - 1 \in DOMAIN t /\ st[j] = t[j - 1]
        BY <3>2, <1>1, <1>2
      <4> QED
        BY <4>1 DEF Goes
    <3> QED
      BY <3>1, <3>2
  <2> QED
    BY <2>1, <2>2
<1>7. ASSUME Unloads(st)
      PROVE  Unloads(t) /\ \/ f.at \in UnloadPlaces
                           \/ t = <<>> /\ f.at \in Callers
                           \/ Len(t) = 1 /\ f.at = "destroy" /\ t[1].at = "exit"
  <2>1. \/ f.at \in UnloadPlaces
        \/ n = 0 /\ f.at \in Callers
        \/ n = 1 /\ f.at = "destroy" /\ st[n + 1].at = "exit"
    BY <1>1, <1>3, <1>4, <1>7 DEF Unloads
  <2>2. ASSUME NEW j \in 1..n
        PROVE  \/ t[j].at \in UnloadPlaces
               \/ j = n /\ t[j].at \in Callers
               \/ j = n - 1 /\ t[j].at = "destroy" /\ t[n].at = "exit"
    BY <1>1, <1>3, <1>4, <1>7 DEF Unloads
  <2> QED
    BY <1>1, <1>4, <2>1, <2>2 DEF Unloads, n
<1>8. ASSUME Unloads(t), \/ f.at \in UnloadPlaces
                         \/ t = <<>> /\ f.at \in Callers
                         \/ Len(t) = 1 /\ f.at = "destroy" /\ t[1].at = "exit"
      PROVE  Unloads(st)
  <2> SUFFICES ASSUME NEW j \in 1..(n + 1)
               PROVE  \/ st[j].at \in UnloadPlaces
                      \/ j = n + 1 /\ st[j].at \in Callers
                      \/ j = n + 1 - 1 /\ st[j].at = "destroy" /\ st[n + 1].at = "exit"
    BY <1>1 DEF Unloads
  <2>1. CASE j = 1
    BY <2>1, <1>1, <1>4, <1>8 DEF n
  <2>2. CASE j # 1
    <3>1. /\ j - 1 \in 1..n /\ st[j] = t[j - 1] /\ n # 0 /\ st[n + 1] = t[n]
          /\ j - 1 = n => j = n + 1
          /\ j - 1 = n - 1 => j = n + 1 - 1
      BY <2>2, <1>1, <1>2, <1>4
    <3>2. \/ t[j - 1].at \in UnloadPlaces
          \/ j - 1 = n /\ t[j - 1].at \in Callers
          \/ j - 1 = n - 1 /\ t[j - 1].at = "destroy" /\ t[n].at = "exit"
      BY <3>1, <1>1, <1>8 DEF Unloads, n
    <3> QED
      BY <3>1, <3>2
  <2> QED
    BY <2>1, <2>2
<1> QED
  BY <1>5, <1>6, <1>7, <1>8 DEF st

\* The top of the stack and what is below it.
LEMMA Tops ==
  ASSUME stack \in Seq(Frames), stack # <<>>
  PROVE  /\ Top \in Frames /\ Tail(stack) \in Seq(Frames) /\ stack = <<Top>> \o Tail(stack)
         /\ Top.at \in Places /\ Top.of \in Modules /\ Top.flags \subseteq Flags
         /\ Top.todo \in Seq(Modules)
         /\ Len(stack) = Len(Tail(stack)) + 1 /\ Len(Tail(stack)) \in Nat
<1>1. /\ Top \in Frames /\ Tail(stack) \in Seq(Frames) /\ stack = <<Top>> \o Tail(stack)
      /\ Len(stack) = Len(Tail(stack)) + 1 /\ Len(Tail(stack)) \in Nat
  BY DEF Top
<1> QED
  BY <1>1 DEF Frames

\* The calls of the stack, by its top and what is below.
LEMMA TopCalls ==
  ASSUME stack \in Seq(Frames), stack # <<>>
  PROVE  /\ \A calls : Some(stack, calls) <=> Top \in calls \/ Some(Tail(stack), calls)
         /\ \A calls : Once(stack, calls) <=>
              Once(Tail(stack), calls) /\ (Top \in calls => ~Some(Tail(stack), calls))
         /\ Loads(stack) <=>
              /\ Loads(Tail(stack))
              /\ Top.at \in LoadPlaces \/ (Tail(stack) = <<>> /\ Top.at \in Callers \ {"exit"})
         /\ Unloads(stack) <=>
              /\ Unloads(Tail(stack))
              /\ \/ Top.at \in UnloadPlaces
                 \/ Tail(stack) = <<>> /\ Top.at \in Callers
                 \/ Len(Tail(stack)) = 1 /\ Top.at = "destroy" /\ Tail(stack)[1].at = "exit"
         /\ Goes(stack) <=> Goes(Tail(stack)) /\ (Top.at \in {"needed", "again"} => Top.todo # <<>>)
<1>1. PICK f, t : f = Top /\ t = Tail(stack)
  OBVIOUS
<1>2. f \in Frames /\ t \in Seq(Frames) /\ stack = <<f>> \o t
  BY <1>1, Tops
<1>3. /\ \A calls : Some(<<f>> \o t, calls) <=> f \in calls \/ Some(t, calls)
      /\ \A calls : Once(<<f>> \o t, calls) <=> Once(t, calls) /\ (f \in calls => ~Some(t, calls))
  BY <1>2, PushedCalls
<1>4. /\ Loads(<<f>> \o t) <=>
           Loads(t) /\ (f.at \in LoadPlaces \/ (t = <<>> /\ f.at \in Callers \ {"exit"}))
      /\ Unloads(<<f>> \o t) <=>
           /\ Unloads(t)
           /\ \/ f.at \in UnloadPlaces
              \/ t = <<>> /\ f.at \in Callers
              \/ Len(t) = 1 /\ f.at = "destroy" /\ t[1].at = "exit"
      /\ Goes(<<f>> \o t) <=> Goes(t) /\ (f.at \in {"needed", "again"} => f.todo # <<>>)
  BY <1>2, PushedShape
<1> QED
  BY ONLY <1>1, <1>2, <1>3, <1>4

\* What may be left of a list of modules.
LEMMA HeadTail ==
  ASSUME NEW s \in Seq(Modules), s # <<>>
  PROVE  Head(s) \in Modules /\ Tail(s) \in Seq(Modules)
  OBVIOUS

\* A call of another module, or of a place that says nothing, does not matter to m.
LEMMA Unmoved ==
  ASSUME NEW t \in Seq(Frames), NEW f \in Frames, NEW m, NEW r,
         f.of # m \/ f.at \notin {"needs", "needed", "open", "drop", "call"}
  PROVE  FlagsOK(<<f>> \o t, m, r) <=> FlagsOK(t, m, r)
<1>1. f \notin NeedsOf(m) /\ f \notin OpenOf(m) /\ f \notin DropOf(m)
  BY DEF NeedsOf, OpenOf, DropOf
<1>2. /\ Some(<<f>> \o t, NeedsOf(m)) <=> Some(t, NeedsOf(m))
      /\ Some(<<f>> \o t, OpenOf(m)) <=> Some(t, OpenOf(m))
      /\ Some(<<f>> \o t, DropOf(m)) <=> Some(t, DropOf(m))
      /\ Once(<<f>> \o t, NeedsOf(m)) <=> Once(t, NeedsOf(m))
      /\ Once(<<f>> \o t, DropOf(m)) <=> Once(t, DropOf(m))
  BY <1>1, PushedCalls
<1> QED
  BY ONLY <1>2 DEF FlagsOK

\* What matters of a module is its library, its loader and one flag.
LEMMA SameFlags ==
  ASSUME NEW st, NEW m, NEW r, NEW q, FlagsOK(st, m, r),
         q.running = r.running, q.opens = r.opens, "loaded" \in q.flags <=> "loaded" \in r.flags
  PROVE  FlagsOK(st, m, q)
  BY DEF FlagsOK

\* The item of a module and its saved data.
LEMMA SameItem ==
  ASSUME NEW m, NEW r, NEW q, ItemOK(m, r),
         q.running = r.running, q.opens = r.opens, q.opencalls = r.opencalls,
         q.item = r.item, q.saved = r.saved, q.code = r.code
  PROVE  ItemOK(m, q)
  BY DEF ItemOK

\* While loads are in progress nothing is unloaded, and the process does not exit.
LEMMA Loading ==
  ASSUME LInv, stack # <<>>, Top.at \in LoadPlaces
  PROVE  /\ Loads(Tail(stack)) /\ Goes(Tail(stack)) /\ up /\ ~Exiting
         /\ \A m : ~Some(stack, DropOf(m)) /\ ~Some(Tail(stack), DropOf(m))
<1> DEFINE t == Tail(stack)
<1>1. /\ Top \in Frames /\ t \in Seq(Frames) /\ stack \in Seq(Frames)
  BY Tops DEF LInv, LoaderTypes
<1>2. Loads(stack) /\ Loads(t) /\ Goes(t)
  <2>1. ~Unloads(stack)
    BY <1>1, TopCalls DEF LoadPlaces, UnloadPlaces, Callers
  <2>2. Loads(stack) /\ Goes(stack)
    BY <2>1 DEF LInv, StackOK
  <2> QED
    BY <2>2, <1>1, TopCalls
<1>3. \A j \in DOMAIN stack : stack[j] \in Frames /\ stack[j].at \notin {"drop", "call", "exit"}
  BY <1>1, <1>2 DEF Loads, LoadPlaces, Callers
<1>4. \A m : ~Some(stack, DropOf(m))
  BY <1>3 DEF Some, DropOf
<1>5. ~Some(stack, Exits)
  BY <1>3 DEF Some, Exits
<1>6. \A m : ~Some(t, DropOf(m))
  BY <1>1, <1>4, TopCalls
<1> QED
  BY <1>2, <1>4, <1>5, <1>6 DEF LInv, Exiting

\* While unloads are, nothing is loaded.
LEMMA Unloading ==
  ASSUME LInv, stack # <<>>, Top.at \in UnloadPlaces
  PROVE  /\ Unloads(Tail(stack)) /\ Goes(Tail(stack)) /\ up
         /\ \A m : ~Some(stack, NeedsOf(m)) /\ ~Some(stack, OpenOf(m))
         /\ \A m : ~Some(Tail(stack), NeedsOf(m)) /\ ~Some(Tail(stack), OpenOf(m))
         /\ Exiting => Some(Tail(stack), Exits)
<1> DEFINE t == Tail(stack)
<1>1. /\ Top \in Frames /\ t \in Seq(Frames) /\ stack \in Seq(Frames)
  BY Tops DEF LInv, LoaderTypes
<1>2. Unloads(stack) /\ Unloads(t) /\ Goes(t)
  <2>1. ~Loads(stack)
    BY <1>1, TopCalls DEF LoadPlaces, UnloadPlaces, Callers
  <2>2. Unloads(stack) /\ Goes(stack)
    BY <2>1 DEF LInv, StackOK
  <2> QED
    BY <2>2, <1>1, TopCalls
<1>3. \A j \in DOMAIN stack : stack[j] \in Frames /\ stack[j].at \notin {"needs", "needed", "open"}
  BY <1>1, <1>2 DEF Unloads, UnloadPlaces, Callers
<1>4. \A m : ~Some(stack, NeedsOf(m)) /\ ~Some(stack, OpenOf(m))
  BY <1>3 DEF Some, NeedsOf, OpenOf
<1>5. Top \notin Exits
  BY DEF Exits, UnloadPlaces
<1>6. Some(stack, Exits) => Some(t, Exits)
  BY <1>1, <1>5, TopCalls
<1>7. \A m : ~Some(t, NeedsOf(m)) /\ ~Some(t, OpenOf(m))
  BY <1>1, <1>4, TopCalls
<1> QED
  BY <1>2, <1>4, <1>6, <1>7 DEF LInv, Exiting

\* Nothing is in progress.
LEMMA Empty == /\ <<>> \in Seq(Frames) /\ Loads(<<>>) /\ Unloads(<<>>) /\ Goes(<<>>)
               /\ \A calls : ~Some(<<>>, calls)
  BY DEF Loads, Unloads, Goes, Some

\* Nothing is below the main loop's calls.
LEMMA Calling ==
  ASSUME LInv, stack # <<>>, Top.at \in Callers
  PROVE  Tail(stack) = <<>> /\ Len(stack) = 1 /\ stack[1] = Top /\ up
<1>1. stack \in Seq(Frames)
  BY DEF LInv, LoaderTypes
<1>2. Tail(stack) = <<>>
  BY <1>1, TopCalls DEF LInv, StackOK, LoadPlaces, UnloadPlaces, Callers
<1>3. Len(stack) = Len(Tail(stack)) + 1
  BY <1>1, Tops
<1>4. Len(stack) = 1
  BY <1>2, <1>3
<1>5. stack[1] = Head(stack)
  BY <1>1
<1> QED
  BY <1>2, <1>4, <1>5 DEF LInv, Top

\* The data are where they were.
LEMMA DataUnmoved ==
  ASSUME DataOK, LoaderTypes, DOMAIN items' = DOMAIN items, given \subseteq given', Exiting => Exiting',
         \A m \in Modules : Known(m)' => Known(m) \/ ~Exiting,
         \A m \in Modules : mod'[m].item = mod[m].item /\ mod'[m].saved = mod[m].saved
  PROVE  DataOK'
<1>1. ASSUME NEW i \in Items
      PROVE  ItemKept(i)'
  <2>1. Owner[i] \in Modules /\ ItemKept(i)
    BY <1>1, LoaderAssumption DEF DataOK
  <2> QED
    BY <2>1 DEF ItemKept
<1> QED
  BY <1>1 DEF DataOK

-----------------------------------------------------------------------------
(* load_module.                                                            *)

\* The fields of a module.
LEMMA ModFields ==
  ASSUME LoaderTypes, NEW m \in Modules
  PROVE  /\ mod[m] \in Structures /\ mod[m].flags \subseteq Flags /\ mod[m].opens \in Nat
         /\ mod[m].opencalls \in Nat /\ mod[m].deps \in Seq(Modules)
         /\ mod[m].saved \in Seq({"null", "item"}) /\ mod[m].item \in {"null", "item"}
         /\ mod[m].code \in BOOLEAN /\ mod[m].running \in BOOLEAN
<1>1. mod[m] \in Structures
  BY DEF LoaderTypes
<1> QED
  BY <1>1 DEF Structures

\* A call that returns leaves those below.
LEMMA Returned ==
  ASSUME LoaderTypes, stack # <<>>, NEW v \in BOOLEAN, Return(v)
  PROVE  stack' = Tail(stack) /\ stack' \in Seq(Frames) /\ ret' \in BOOLEAN
<1>1. stack' = Tail(stack) /\ ret' = (v \/ Len(stack) = 1)
  BY DEF Return
<1> QED
  BY <1>1, Tops DEF LoaderTypes

\* One that goes on takes its place.
LEMMA WentOn ==
  ASSUME LoaderTypes, stack # <<>>, NEW at \in Places, NEW todo \in Seq(Modules)
  PROVE  \E g \in Frames :
           /\ g.at = at /\ g.todo = todo /\ g.of = Top.of
           /\ Goto(at, todo) => stack' = <<g>> \o Tail(stack) /\ stack' \in Seq(Frames) /\ ret' = ret
<1> DEFINE g == [Top EXCEPT !.at = at, !.todo = todo]
<1>1. stack \in Seq(Frames) /\ Top \in Frames /\ Tail(stack) \in Seq(Frames)
  BY Tops DEF LoaderTypes
<1>2. g \in Frames /\ g.at = at /\ g.todo = todo /\ g.of = Top.of
  BY <1>1 DEF Frames
<1>3. Goto(at, todo) => stack' = <<g>> \o Tail(stack) /\ ret' = ret
  BY DEF Goto
<1> HIDE DEF g
<1>4. <<g>> \o Tail(stack) \in Seq(Frames)
  BY <1>1, <1>2
<1> QED
  BY <1>2, <1>3, <1>4

\* The call that goes on.
LEMMA GoesOn ==
  ASSUME LoaderTypes, stack # <<>>, NEW at \in Places, NEW todo \in Seq(Modules)
  PROVE  \E g \in Frames : /\ g = [Top EXCEPT !.at = at, !.todo = todo]
                           /\ g.at = at /\ g.todo = todo /\ g.of = Top.of
<1> DEFINE g == [Top EXCEPT !.at = at, !.todo = todo]
<1>1. Top \in Frames
  BY Tops DEF LoaderTypes
<1>2. g \in Frames /\ g.at = at /\ g.todo = todo /\ g.of = Top.of
  BY <1>1 DEF Frames
<1> QED
  BY <1>2

\* Two calls on others.
LEMMA Two ==
  ASSUME NEW t \in Seq(Frames), NEW f \in Frames, NEW g \in Frames
  PROVE  /\ <<f, g>> \o t = <<f>> \o (<<g>> \o t)
         /\ <<f, g>> \o t \in Seq(Frames) /\ <<g>> \o t \in Seq(Frames)
<1>1. <<g>> \o t \in Seq(Frames)
  OBVIOUS
<1>2. <<f, g>> \o t = <<f>> \o (<<g>> \o t)
  <2>1. PICK a, b : a = <<f, g>> \o t /\ b = <<f>> \o (<<g>> \o t)
    OBVIOUS
  <2>2. /\ a \in Seq(Frames) /\ Len(a) = Len(t) + 2 /\ a[1] = f /\ a[2] = g
        /\ \A j \in 1..Len(t) : a[j + 2] = t[j]
    BY <2>1
  <2>3. PICK c : c = <<g>> \o t
    OBVIOUS
  <2>4. c \in Seq(Frames) /\ Len(c) = Len(t) + 1 /\ c[1] = g /\ \A j \in 1..Len(t) : c[j + 1] = t[j]
    BY <2>3
  <2>5. /\ b \in Seq(Frames) /\ Len(b) = Len(c) + 1 /\ b[1] = f
        /\ \A j \in 1..Len(c) : b[j + 1] = c[j]
    BY <2>1, <2>3, <2>4
  <2>6. ASSUME NEW k \in 1..Len(a)
        PROVE  a[k] = b[k]
    <3>1. CASE k = 1
      BY <3>1, <2>2, <2>5
    <3>2. CASE k = 2
      <4>1. b[1 + 1] = c[1]
        BY <2>4, <2>5
      <4> QED
        BY <4>1, <3>2, <2>2, <2>4
    <3>3. CASE k > 2
      <4>1. k - 2 \in 1..Len(t) /\ k - 1 \in 1..Len(c)
        BY <3>3, <2>2, <2>4
      <4>2. a[(k - 2) + 2] = t[k - 2] /\ c[(k - 2) + 1] = t[k - 2] /\ b[(k - 1) + 1] = c[k - 1]
        BY <4>1, <2>2, <2>4, <2>5
      <4>3. (k - 2) + 2 = k /\ (k - 2) + 1 = k - 1 /\ (k - 1) + 1 = k
        BY <4>1
      <4> QED
        BY ONLY <4>2, <4>3
    <3> QED
      BY <3>1, <3>2, <3>3
  <2>7. Len(a) = Len(b)
    BY <2>2, <2>4, <2>5
  <2>8. a = b
    BY <2>2, <2>5, <2>6, <2>7
  <2> QED
    BY <2>1, <2>8
<1>3. <<f>> \o (<<g>> \o t) \in Seq(Frames)
  BY <1>1
<1> QED
  BY <1>1, <1>2, <1>3

\* The calls of a module, by the top one and the others.
LEMMA PushedKinds ==
  ASSUME NEW t \in Seq(Frames), NEW f \in Frames, NEW m
  PROVE  LET needs == f.of = m /\ f.at \in {"needs", "needed"}
             open == f.of = m /\ f.at = "open"
             drop == f.of = m /\ f.at \in {"drop", "call"}
         IN /\ Some(<<f>> \o t, NeedsOf(m)) <=> needs \/ Some(t, NeedsOf(m))
            /\ Some(<<f>> \o t, OpenOf(m)) <=> open \/ Some(t, OpenOf(m))
            /\ Some(<<f>> \o t, DropOf(m)) <=> drop \/ Some(t, DropOf(m))
            /\ Once(<<f>> \o t, NeedsOf(m)) <=>
                 Once(t, NeedsOf(m)) /\ (needs => ~Some(t, NeedsOf(m)))
            /\ Once(<<f>> \o t, DropOf(m)) <=>
                 Once(t, DropOf(m)) /\ (drop => ~Some(t, DropOf(m)))
<1>1. /\ f \in NeedsOf(m) <=> f.of = m /\ f.at \in {"needs", "needed"}
      /\ f \in OpenOf(m) <=> f.of = m /\ f.at = "open"
      /\ f \in DropOf(m) <=> f.of = m /\ f.at \in {"drop", "call"}
  BY DEF NeedsOf, OpenOf, DropOf
<1>2. \A calls : /\ Some(<<f>> \o t, calls) <=> f \in calls \/ Some(t, calls)
                 /\ Once(<<f>> \o t, calls) <=> Once(t, calls) /\ (f \in calls => ~Some(t, calls))
  BY PushedCalls
<1> QED
  BY ONLY <1>1, <1>2

\* So for the stack.
LEMMA TopKinds ==
  ASSUME LoaderTypes, stack # <<>>, NEW m
  PROVE  LET t == Tail(stack)
             needs == Top.of = m /\ Top.at \in {"needs", "needed"}
             open == Top.of = m /\ Top.at = "open"
             drop == Top.of = m /\ Top.at \in {"drop", "call"}
         IN /\ Some(stack, NeedsOf(m)) <=> needs \/ Some(t, NeedsOf(m))
            /\ Some(stack, OpenOf(m)) <=> open \/ Some(t, OpenOf(m))
            /\ Some(stack, DropOf(m)) <=> drop \/ Some(t, DropOf(m))
            /\ Once(stack, NeedsOf(m)) <=> Once(t, NeedsOf(m)) /\ (needs => ~Some(t, NeedsOf(m)))
            /\ Once(stack, DropOf(m)) <=> Once(t, DropOf(m)) /\ (drop => ~Some(t, DropOf(m)))
<1>1. PICK f, t : f = Top /\ t = Tail(stack)
  OBVIOUS
<1>2. f \in Frames /\ t \in Seq(Frames) /\ stack = <<f>> \o t
  BY <1>1, Tops DEF LoaderTypes
<1>3. LET needs == f.of = m /\ f.at \in {"needs", "needed"}
          open == f.of = m /\ f.at = "open"
          drop == f.of = m /\ f.at \in {"drop", "call"}
      IN /\ Some(<<f>> \o t, NeedsOf(m)) <=> needs \/ Some(t, NeedsOf(m))
         /\ Some(<<f>> \o t, OpenOf(m)) <=> open \/ Some(t, OpenOf(m))
         /\ Some(<<f>> \o t, DropOf(m)) <=> drop \/ Some(t, DropOf(m))
         /\ Once(<<f>> \o t, NeedsOf(m)) <=> Once(t, NeedsOf(m)) /\ (needs => ~Some(t, NeedsOf(m)))
         /\ Once(<<f>> \o t, DropOf(m)) <=> Once(t, DropOf(m)) /\ (drop => ~Some(t, DropOf(m)))
  BY <1>2, PushedKinds
<1> QED
  BY ONLY <1>1, <1>2, <1>3

\* The top of the stack does not matter to a module that it is not about, or if it is at
\* a place that says nothing.
LEMMA TopUnmoved ==
  ASSUME LoaderTypes, stack # <<>>, NEW m, NEW r,
         Top.of # m \/ Top.at \notin {"needs", "needed", "open", "drop", "call"}
  PROVE  FlagsOK(stack, m, r) <=> FlagsOK(Tail(stack), m, r)
<1>1. /\ Some(stack, NeedsOf(m)) <=> Some(Tail(stack), NeedsOf(m))
      /\ Some(stack, OpenOf(m)) <=> Some(Tail(stack), OpenOf(m))
      /\ Some(stack, DropOf(m)) <=> Some(Tail(stack), DropOf(m))
      /\ Once(stack, NeedsOf(m)) <=> Once(Tail(stack), NeedsOf(m))
      /\ Once(stack, DropOf(m)) <=> Once(Tail(stack), DropOf(m))
  BY TopKinds
<1> QED
  BY ONLY <1>1 DEF FlagsOK

\* Nothing of a module changes but its flags.
LEMMA Flagged ==
  ASSUME LoaderTypes, NEW m \in Modules, NEW fl \in SUBSET Flags
  PROVE  \E q \in Structures :
           /\ q = [mod[m] EXCEPT !.flags = fl] /\ q.flags = fl
           /\ q.opens = mod[m].opens /\ q.opencalls = mod[m].opencalls /\ q.saved = mod[m].saved
           /\ q.item = mod[m].item /\ q.code = mod[m].code /\ q.running = mod[m].running
<1> DEFINE q == [mod[m] EXCEPT !.flags = fl]
<1>1. mod[m] \in Structures
  BY DEF LoaderTypes
<1>2. /\ q \in Structures /\ q.flags = fl
      /\ q.opens = mod[m].opens /\ q.opencalls = mod[m].opencalls /\ q.saved = mod[m].saved
      /\ q.item = mod[m].item /\ q.code = mod[m].code /\ q.running = mod[m].running
  BY <1>1 DEF Structures
<1> QED
  BY <1>2

\* Nothing but its list of dependants.
LEMMA Relisted ==
  ASSUME LoaderTypes, NEW m \in Modules, NEW ds \in Seq(Modules)
  PROVE  \E q \in Structures :
           /\ q = [mod[m] EXCEPT !.deps = ds] /\ q.flags = mod[m].flags
           /\ q.opens = mod[m].opens /\ q.opencalls = mod[m].opencalls /\ q.saved = mod[m].saved
           /\ q.item = mod[m].item /\ q.code = mod[m].code /\ q.running = mod[m].running
<1> DEFINE q == [mod[m] EXCEPT !.deps = ds]
<1>1. mod[m] \in Structures
  BY DEF LoaderTypes
<1>2. /\ q \in Structures /\ q.flags = mod[m].flags
      /\ q.opens = mod[m].opens /\ q.opencalls = mod[m].opencalls /\ q.saved = mod[m].saved
      /\ q.item = mod[m].item /\ q.code = mod[m].code /\ q.running = mod[m].running
  BY <1>1 DEF Structures
<1> QED
  BY <1>2

\* A module's structure is made if need be, and its needs are looked after first.
LEMMA LoadLInv ==
  ASSUME LInv, Load
  PROVE  LInv'
<1> DEFINE t == Tail(stack)
           m == Top.of
           knows == Known(m) \/ ("create" \in Top.flags /\ file[m] # "missing")
           asks == Needs[m] # <<>> /\ ~Has(m, "loaded")
           at == IF asks THEN "needs" ELSE "open"
<1>1. LoaderTypes /\ ModulesOK /\ DataOK /\ stack # <<>> /\ Top.at = "load"
  BY DEF LInv, Load, At
<1>2. /\ Top \in Frames /\ t \in Seq(Frames) /\ m \in Modules /\ Needs[m] \in Seq(Modules)
      /\ stack \in Seq(Frames)
  BY <1>1, Tops, LoaderAssumption DEF LoaderTypes
<1>3. Loads(t) /\ Goes(t) /\ up /\ ~Exiting /\ \A x : ~Some(stack, DropOf(x)) /\ ~Some(t, DropOf(x))
  BY <1>1, Loading DEF LoadPlaces
<1>4. /\ list' = (IF knows /\ ~Known(m) THEN Append(list, m) ELSE list)
      /\ mod' = (IF knows /\ asks THEN [mod EXCEPT ![m].flags = @ \cup {"loaded"}] ELSE mod)
      /\ ~knows => Return(FALSE)
      /\ knows => Goto(at, Needs[m])
      /\ UNCHANGED <<entry, reloads, file, up, given, faulty, items>>
  BY DEF Load, Fails, vars
<1>5. PICK g \in Frames : /\ g.at = at /\ g.todo = Needs[m] /\ g.of = m
                          /\ knows => stack' = <<g>> \o t /\ stack' \in Seq(Frames) /\ ret' = ret
  <2>1. at \in Places
    BY DEF Places
  <2>2. PICK g \in Frames :
          /\ g.at = at /\ g.todo = Needs[m] /\ g.of = m
          /\ Goto(at, Needs[m]) => stack' = <<g>> \o t /\ stack' \in Seq(Frames) /\ ret' = ret
    <3> HIDE DEF at
    <3> QED
      BY <2>1, <1>1, <1>2, WentOn, ZenonT(60)
  <2> QED
    BY <2>2, <1>4
<1>6. ~knows => stack' = t /\ stack' \in Seq(Frames) /\ ret' \in BOOLEAN
  BY <1>1, <1>4, Returned
<1>7. /\ mod' \in [Modules -> Structures]
      /\ \A x \in Modules : x # m => mod'[x] = mod[x]
      /\ \A x \in Modules :
           /\ mod'[x].opens = mod[x].opens /\ mod'[x].opencalls = mod[x].opencalls
           /\ mod'[x].saved = mod[x].saved /\ mod'[x].item = mod[x].item
           /\ mod'[x].code = mod[x].code /\ mod'[x].running = mod[x].running
      /\ knows /\ asks => "loaded" \in mod'[m].flags
      /\ ~(knows /\ asks) => mod' = mod
  <2>1. CASE knows /\ asks
    <3>1. PICK fl : fl = mod[m].flags \cup {"loaded"}
      OBVIOUS
    <3>2. fl \in SUBSET Flags /\ mod' = [mod EXCEPT ![m].flags = fl]
      BY <3>1, <2>1, <1>1, <1>2, <1>4, ModFields DEF Flags
    <3>3. PICK q \in Structures :
            /\ q = [mod[m] EXCEPT !.flags = fl] /\ q.flags = fl
            /\ q.opens = mod[m].opens /\ q.opencalls = mod[m].opencalls /\ q.saved = mod[m].saved
            /\ q.item = mod[m].item /\ q.code = mod[m].code /\ q.running = mod[m].running
      BY <3>2, <1>1, <1>2, Flagged
    <3>4. mod' = [mod EXCEPT ![m] = q]
      BY <3>2, <3>3
    <3> HIDE DEF knows, asks
    <3> QED
      BY <3>1, <3>3, <3>4, <2>1, <1>1, <1>2 DEF LoaderTypes
  <2>2. CASE ~(knows /\ asks)
    BY <2>2, <1>1, <1>4 DEF LoaderTypes
  <2> QED
    BY <2>1, <2>2
<1>8. LoaderTypes'
  <2>1. list' \in Seq(Modules)
    BY <1>1, <1>2, <1>4 DEF LoaderTypes
  <2> QED
    BY <2>1, <1>1, <1>4, <1>5, <1>6, <1>7 DEF LoaderTypes
<1>9. StackOK(stack)'
  <2>1. Loads(<<g>> \o t) /\ Goes(<<g>> \o t)
    BY <1>2, <1>3, <1>5, PushedShape DEF LoadPlaces
  <2>2. stack' = t \/ stack' = <<g>> \o t
    BY <1>5, <1>6
  <2> QED
    BY <2>1, <2>2, <1>3 DEF StackOK
<1>10. ASSUME NEW x \in Modules \ given
       PROVE  FlagsOK(stack', x, mod'[x]) /\ ItemOK(x, mod'[x])
  <2>1. FlagsOK(t, x, mod[x]) /\ ItemOK(x, mod[x])
    BY <1>1, TopUnmoved DEF ModulesOK
  <2>2. CASE ~knows
    BY <2>1, <2>2, <1>6, <1>7
  <2>3. CASE knows /\ x # m
    <3>1. FlagsOK(<<g>> \o t, x, mod[x]) <=> FlagsOK(t, x, mod[x])
      BY <2>3, <1>2, <1>5, Unmoved
    <3> QED
      BY <3>1, <2>1, <2>3, <1>5, <1>7
  <2>4. CASE knows /\ x = m /\ asks
    <3>1. ItemOK(m, mod'[m])
      BY <2>1, <2>4, <1>2, <1>7, SameItem
    <3>2. /\ mod'[m].running = mod[m].running /\ mod'[m].opens = mod[m].opens
          /\ "loaded" \in mod'[m].flags /\ "loaded" \notin mod[m].flags
      BY <2>4, <1>2, <1>7 DEF Has
    <3>3. /\ Some(<<g>> \o t, NeedsOf(m)) /\ ~Some(<<g>> \o t, DropOf(m))
          /\ Once(<<g>> \o t, NeedsOf(m)) <=> Once(t, NeedsOf(m)) /\ ~Some(t, NeedsOf(m))
          /\ Once(<<g>> \o t, DropOf(m)) <=> Once(t, DropOf(m))
      BY <2>4, <1>2, <1>3, <1>5, PushedKinds
    <3>4. FlagsOK(t, m, mod[m]) /\ ~Some(t, DropOf(m))
      BY <2>1, <2>4, <1>3
    <3>5. FlagsOK(<<g>> \o t, m, mod'[m])
      BY ONLY <3>2, <3>3, <3>4 DEF FlagsOK
    <3> QED
      BY <3>1, <3>5, <2>4, <1>5
  <2>5. CASE knows /\ x = m /\ ~asks
    <3>1. /\ Some(<<g>> \o t, OpenOf(m))
          /\ Some(<<g>> \o t, NeedsOf(m)) <=> Some(t, NeedsOf(m))
          /\ Some(<<g>> \o t, DropOf(m)) <=> Some(t, DropOf(m))
          /\ Once(<<g>> \o t, NeedsOf(m)) <=> Once(t, NeedsOf(m))
          /\ Once(<<g>> \o t, DropOf(m)) <=> Once(t, DropOf(m))
      BY <2>5, <1>2, <1>5, PushedKinds
    <3>2. FlagsOK(t, m, mod[m]) /\ mod'[m] = mod[m] /\ stack' = <<g>> \o t
      BY <2>1, <2>5, <1>5, <1>7
    <3>3. FlagsOK(<<g>> \o t, m, mod[m])
      BY ONLY <3>1, <3>2 DEF FlagsOK
    <3> QED
      BY <3>2, <3>3, <2>1, <2>5
  <2> QED
    BY <2>2, <2>3, <2>4, <2>5
<1>11. DataOK'
  <2>1. \A x \in Modules : mod'[x].item = mod[x].item /\ mod'[x].saved = mod[x].saved
    BY <1>7
  <2> QED
    BY <2>1, <1>1, <1>3, <1>4, DataUnmoved
<1> QED
  BY <1>3, <1>4, <1>8, <1>9, <1>10, <1>11 DEF LInv, ModulesOK

\* A call that goes on in its place is still the same need, opening or removal.
LEMMA Onward ==
  ASSUME LoaderTypes, stack # <<>>, NEW g \in Frames, g.of = Top.of,
         \/ {Top.at, g.at} \subseteq {"needs", "needed"}
         \/ {Top.at, g.at} \subseteq {"drop", "call"}
         \/ {Top.at, g.at} \cap {"needs", "needed", "open", "drop", "call"} = {},
         NEW m, NEW r
  PROVE  FlagsOK(<<g>> \o Tail(stack), m, r) <=> FlagsOK(stack, m, r)
<1> DEFINE t == Tail(stack)
<1>1. t \in Seq(Frames)
  BY Tops DEF LoaderTypes
<1>2. /\ Some(<<g>> \o t, NeedsOf(m)) <=> Some(stack, NeedsOf(m))
      /\ Some(<<g>> \o t, OpenOf(m)) <=> Some(stack, OpenOf(m))
      /\ Some(<<g>> \o t, DropOf(m)) <=> Some(stack, DropOf(m))
      /\ Once(<<g>> \o t, NeedsOf(m)) <=> Once(stack, NeedsOf(m))
      /\ Once(<<g>> \o t, DropOf(m)) <=> Once(stack, DropOf(m))
  BY <1>1, TopKinds, PushedKinds
<1> QED
  BY ONLY <1>2 DEF FlagsOK

\* What a step keeps that moves no library, runs no loader or unloader and sets no flag
\* "loaded".
LEMMA Kept ==
  ASSUME LInv, DOMAIN items' = DOMAIN items, given \subseteq given', Exiting => Exiting',
         \A x \in Modules : Known(x)' => Known(x) \/ ~Exiting,
         \A x \in Modules \ given' : \A r : FlagsOK(stack, x, r) => FlagsOK(stack', x, r),
         \A x \in Modules :
           /\ mod'[x].opens = mod[x].opens /\ mod'[x].opencalls = mod[x].opencalls
           /\ mod'[x].saved = mod[x].saved /\ mod'[x].item = mod[x].item
           /\ mod'[x].code = mod[x].code /\ mod'[x].running = mod[x].running
           /\ "loaded" \in mod'[x].flags <=> "loaded" \in mod[x].flags
  PROVE  ModulesOK' /\ DataOK'
<1>1. LoaderTypes /\ ModulesOK /\ DataOK
  BY DEF LInv
<1>2. ASSUME NEW x \in Modules \ given'
      PROVE  FlagsOK(stack', x, mod'[x]) /\ ItemOK(x, mod'[x])
  <2>1. FlagsOK(stack, x, mod[x]) /\ ItemOK(x, mod[x])
    BY <1>1 DEF ModulesOK
  <2>2. FlagsOK(stack', x, mod[x])
    BY <2>1
  <2> QED
    BY <2>1, <2>2, SameFlags, SameItem
<1>3. DataOK'
  BY <1>1, DataUnmoved
<1> QED
  BY <1>2, <1>3 DEF ModulesOK

\* A module that is noted as a dependant.
LEMMA NotedKeeps ==
  ASSUME LoaderTypes, NEW m \in Modules, NEW n \in Modules
  PROVE  LET md == Noted(m, n) IN
         /\ md \in [Modules -> Structures]
         /\ \A x \in Modules : /\ md[x].opens = mod[x].opens /\ md[x].opencalls = mod[x].opencalls
                               /\ md[x].saved = mod[x].saved /\ md[x].item = mod[x].item
                               /\ md[x].code = mod[x].code /\ md[x].running = mod[x].running
                               /\ md[x].flags = mod[x].flags
<1>1. PICK ds : ds = <<m>> \o mod[n].deps
  OBVIOUS
<1>2. ds \in Seq(Modules)
  BY <1>1, ModFields
<1>3. PICK q \in Structures :
        /\ q = [mod[n] EXCEPT !.deps = ds] /\ q.flags = mod[n].flags
        /\ q.opens = mod[n].opens /\ q.opencalls = mod[n].opencalls /\ q.saved = mod[n].saved
        /\ q.item = mod[n].item /\ q.code = mod[n].code /\ q.running = mod[n].running
  BY <1>2, Relisted
<1>4. Noted(m, n) = [mod EXCEPT ![n] = q]
  BY <1>1, <1>3 DEF Noted
<1> QED
  BY <1>3, <1>4 DEF LoaderTypes

\* A module is noted as a dependant of those that it needs, which are loaded first.
LEMMA LoadNeedsLInv ==
  ASSUME LInv, LoadNeeds
  PROVE  LInv'
<1> DEFINE t == Tail(stack)
           m == Top.of
           n == Head(Top.todo)
           f == Frame("load", n, Top.flags \cup {"depend", "create"}, <<>>)
<1>1. LoaderTypes /\ ModulesOK /\ DataOK /\ stack # <<>> /\ Top.at = "needs"
  BY DEF LInv, LoadNeeds, At
<1>2. /\ Top \in Frames /\ t \in Seq(Frames) /\ m \in Modules /\ Top.flags \subseteq Flags
      /\ Top.todo \in Seq(Modules) /\ stack \in Seq(Frames)
  BY <1>1, Tops DEF LoaderTypes
<1>3. Loads(t) /\ Goes(t) /\ up /\ ~Exiting /\ \A x : ~Some(stack, DropOf(x)) /\ ~Some(t, DropOf(x))
  BY <1>1, Loading DEF LoadPlaces
<1>4. UNCHANGED <<list, entry, reloads, file, up, given, faulty, items>>
  BY DEF LoadNeeds, vars
<1>5. CASE Top.todo = <<>>
  <2>1. mod' = [mod EXCEPT ![m].flags = @ \ {"loaded"}] /\ Goto("open", <<>>)
    BY <1>5 DEF LoadNeeds
  <2>2. PICK g \in Frames : g.at = "open" /\ g.of = m /\ stack' = <<g>> \o t
    <3>1. "open" \in Places /\ <<>> \in Seq(Modules)
      BY DEF Places
    <3> QED
      BY <3>1, <1>1, <2>1, WentOn, ZenonT(60)
  <2>3. /\ mod' \in [Modules -> Structures]
        /\ \A x \in Modules : x # m => mod'[x] = mod[x]
        /\ \A x \in Modules :
             /\ mod'[x].opens = mod[x].opens /\ mod'[x].opencalls = mod[x].opencalls
             /\ mod'[x].saved = mod[x].saved /\ mod'[x].item = mod[x].item
             /\ mod'[x].code = mod[x].code /\ mod'[x].running = mod[x].running
        /\ "loaded" \notin mod'[m].flags
    <3>1. PICK fl : fl = mod[m].flags \ {"loaded"}
      OBVIOUS
    <3>2. fl \in SUBSET Flags /\ mod' = [mod EXCEPT ![m].flags = fl]
      BY <3>1, <2>1, <1>1, <1>2, ModFields
    <3>3. PICK q \in Structures :
            /\ q = [mod[m] EXCEPT !.flags = fl] /\ q.flags = fl
            /\ q.opens = mod[m].opens /\ q.opencalls = mod[m].opencalls /\ q.saved = mod[m].saved
            /\ q.item = mod[m].item /\ q.code = mod[m].code /\ q.running = mod[m].running
      BY <3>2, <1>1, <1>2, Flagged
    <3>4. mod' = [mod EXCEPT ![m] = q]
      BY <3>2, <3>3
    <3> QED
      BY <3>1, <3>3, <3>4, <1>1, <1>2 DEF LoaderTypes
  <2>4. Loads(stack') /\ Goes(stack')
    BY <1>2, <1>3, <2>2, PushedShape DEF LoadPlaces
  <2>5. LoaderTypes'
    <3>1. stack' \in Seq(Frames) /\ ret' = ret
      BY <1>2, <2>1, <2>2 DEF Goto
    <3> QED
      BY <3>1, <1>1, <1>4, <2>3 DEF LoaderTypes
  <2>6. ASSUME NEW x \in Modules \ given
        PROVE  FlagsOK(stack', x, mod'[x]) /\ ItemOK(x, mod'[x])
    <3>1. FlagsOK(stack, x, mod[x]) /\ ItemOK(x, mod[x]) /\ ItemOK(x, mod'[x])
      BY <1>1, <2>3, SameItem DEF ModulesOK
    <3>2. CASE x # m
      BY <3>1, <3>2, <1>1, <1>2, <2>2, <2>3, TopUnmoved, Unmoved
    <3>3. CASE x = m
      <4>1. /\ mod'[m].running = mod[m].running /\ mod'[m].opens = mod[m].opens
            /\ "loaded" \notin mod'[m].flags
        BY <1>2, <2>3
      <4>2. /\ Some(stack, NeedsOf(m)) /\ ~Some(t, NeedsOf(m)) /\ Once(t, NeedsOf(m))
            /\ Once(t, DropOf(m)) /\ ~Some(t, DropOf(m))
        BY <3>1, <3>3, <1>1, <1>3, TopKinds DEF FlagsOK
      <4>3. /\ Some(<<g>> \o t, OpenOf(m)) /\ ~Some(<<g>> \o t, NeedsOf(m))
            /\ ~Some(<<g>> \o t, DropOf(m))
            /\ Once(<<g>> \o t, NeedsOf(m)) /\ Once(<<g>> \o t, DropOf(m))
        BY <4>2, <1>2, <2>2, PushedKinds
      <4>4. FlagsOK(stack, m, mod[m])
        BY <3>1, <3>3
      <4>5. FlagsOK(<<g>> \o t, m, mod'[m])
        BY ONLY <4>1, <4>2, <4>3, <4>4 DEF FlagsOK
      <4> QED
        BY <4>5, <3>1, <3>3, <2>2
    <3> QED
      BY <3>2, <3>3
  <2>7. DataOK'
    BY <2>3, <1>1, <1>3, <1>4, DataUnmoved
  <2> QED
    BY <2>4, <2>5, <2>6, <2>7, <1>3, <1>4 DEF LInv, ModulesOK, StackOK
<1>6. CASE Top.todo # <<>>
  <2>1. n \in Modules /\ Tail(Top.todo) \in Seq(Modules) /\ "needs" \in Places /\ "needed" \in Places
    <3>1. n \in Modules /\ Tail(Top.todo) \in Seq(Modules)
      BY <1>2, <1>6, HeadTail
    <3> QED
      BY <3>1 DEF Places
  <2>2. CASE Known(n) /\ Has(n, "depend")
    <3>1. mod' = Noted(m, n) /\ Goto("needs", Tail(Top.todo))
      BY <1>6, <2>2 DEF LoadNeeds
    <3>2. PICK g \in Frames :
            g.at = "needs" /\ g.of = m /\ stack' = <<g>> \o t /\ stack' \in Seq(Frames) /\ ret' = ret
      BY <1>1, <2>1, <3>1, WentOn, ZenonT(60)
    <3>3. /\ mod' \in [Modules -> Structures]
          /\ \A x \in Modules :
               /\ mod'[x].opens = mod[x].opens /\ mod'[x].opencalls = mod[x].opencalls
               /\ mod'[x].saved = mod[x].saved /\ mod'[x].item = mod[x].item
               /\ mod'[x].code = mod[x].code /\ mod'[x].running = mod[x].running
               /\ mod'[x].flags = mod[x].flags
      BY <1>1, <1>2, <2>1, <3>1, NotedKeeps
    <3>4. Loads(stack') /\ Goes(stack')
      BY <1>2, <1>3, <3>2, PushedShape DEF LoadPlaces
    <3>5. LoaderTypes'
      BY <1>1, <1>4, <3>2, <3>3 DEF LoaderTypes
    <3>6. \A x \in Modules : \A r : FlagsOK(stack, x, r) => FlagsOK(stack', x, r)
      BY <1>1, <3>2, Onward
    <3>7. ModulesOK' /\ DataOK'
      BY <1>3, <1>4, <3>3, <3>6, Kept
    <3> QED
      BY <3>4, <3>5, <3>7, <1>3, <1>4 DEF LInv, StackOK
  <2>3. CASE ~(Known(n) /\ Has(n, "depend"))
    <3>1. mod' = mod /\ Call(f, "needed", Top.todo)
      BY <1>6, <2>3 DEF LoadNeeds
    <3>2. f \in Frames /\ f.at = "load" /\ f.todo = <<>>
      BY <1>2, <2>1 DEF Frame, Frames, Places, Flags
    <3>3. PICK g \in Frames : /\ g = [Top EXCEPT !.at = "needed", !.todo = Top.todo]
                              /\ g.at = "needed" /\ g.todo = Top.todo /\ g.of = m
      BY <1>1, <1>2, <2>1, GoesOn, ZenonT(60)
    <3>4. stack' = <<f, g>> \o t /\ ret' = ret
      BY <3>1, <3>3 DEF Call
    <3> HIDE DEF f
    <3>5. /\ stack' = <<f>> \o (<<g>> \o t) /\ stack' \in Seq(Frames)
          /\ <<g>> \o t \in Seq(Frames)
      BY <3>2, <3>4, <1>2, Two
    <3>6. Loads(stack') /\ Goes(stack')
      <4>1. g.at = "needed" /\ g.todo # <<>>
        BY <1>6, <3>3
      <4>2. Loads(<<g>> \o t) /\ Goes(<<g>> \o t)
        BY <4>1, <1>2, <1>3, PushedShape DEF LoadPlaces
      <4> QED
        BY <4>2, <3>2, <3>5, PushedShape DEF LoadPlaces
    <3>7. LoaderTypes'
      BY <1>1, <1>4, <3>1, <3>4, <3>5 DEF LoaderTypes
    <3>8. \A x \in Modules : \A r : FlagsOK(stack, x, r) => FlagsOK(stack', x, r)
      <4>1. \A x \in Modules : \A r : FlagsOK(stack, x, r) => FlagsOK(<<g>> \o t, x, r)
        BY <1>1, <3>3, Onward
      <4>2. \A x \in Modules : \A r : FlagsOK(<<f>> \o (<<g>> \o t), x, r) <=> FlagsOK(<<g>> \o t, x, r)
        BY <3>2, <3>5, Unmoved
      <4> QED
        BY <4>1, <4>2, <3>5
    <3>9. ModulesOK' /\ DataOK'
      BY <1>3, <1>4, <3>1, <3>8, Kept
    <3> QED
      BY <3>6, <3>7, <3>9, <1>3, <1>4 DEF LInv, StackOK
  <2> QED
    BY <2>2, <2>3
<1> QED
  BY <1>5, <1>6

\* The module that needs it goes on; or it is given up.
LEMMA NeededLInv ==
  ASSUME LInv, Needed
  PROVE  LInv'
<1> DEFINE t == Tail(stack)
           m == Top.of
           n == Head(Top.todo)
<1>1. LoaderTypes /\ ModulesOK /\ DataOK /\ stack # <<>> /\ Top.at = "needed"
  BY DEF LInv, Needed, At
<1>2. /\ Top \in Frames /\ t \in Seq(Frames) /\ m \in Modules
      /\ Top.todo \in Seq(Modules) /\ stack \in Seq(Frames) /\ Top.todo # <<>>
  <2>1. Goes(stack)
    BY DEF LInv, StackOK
  <2> QED
    BY <2>1, <1>1, Tops, TopCalls DEF LoaderTypes
<1>3. Loads(t) /\ Goes(t) /\ up /\ ~Exiting
  BY <1>1, Loading DEF LoadPlaces
<1>4. UNCHANGED <<list, entry, reloads, file, up, faulty, items>>
  BY DEF Needed, vars
<1>5. CASE ret
  <2>1. mod' = Noted(m, n) /\ Goto("needs", Tail(Top.todo)) /\ given' = given
    BY <1>5 DEF Needed
  <2>2. n \in Modules /\ Tail(Top.todo) \in Seq(Modules) /\ "needs" \in Places
    <3>1. n \in Modules /\ Tail(Top.todo) \in Seq(Modules)
      BY <1>2, HeadTail
    <3> QED
      BY <3>1 DEF Places
  <2>3. PICK g \in Frames :
          g.at = "needs" /\ g.of = m /\ stack' = <<g>> \o t /\ stack' \in Seq(Frames) /\ ret' = ret
    BY <1>1, <2>1, <2>2, WentOn, ZenonT(60)
  <2>4. /\ mod' \in [Modules -> Structures]
        /\ \A x \in Modules :
             /\ mod'[x].opens = mod[x].opens /\ mod'[x].opencalls = mod[x].opencalls
             /\ mod'[x].saved = mod[x].saved /\ mod'[x].item = mod[x].item
             /\ mod'[x].code = mod[x].code /\ mod'[x].running = mod[x].running
             /\ mod'[x].flags = mod[x].flags
    BY <1>1, <1>2, <2>1, <2>2, NotedKeeps
  <2>5. Loads(stack') /\ Goes(stack')
    BY <1>2, <1>3, <2>3, PushedShape DEF LoadPlaces
  <2>6. LoaderTypes'
    BY <1>1, <1>4, <2>3, <2>4 DEF LoaderTypes
  <2>7. \A x \in Modules : \A r : FlagsOK(stack, x, r) => FlagsOK(stack', x, r)
    BY <1>1, <2>3, Onward
  <2>8. ModulesOK' /\ DataOK'
    BY <1>3, <1>4, <2>1, <2>4, <2>7, Kept
  <2> QED
    BY <2>5, <2>6, <2>8, <1>3, <1>4 DEF LInv, StackOK
<1>6. CASE ~ret
  <2>1. mod' = mod /\ Return(FALSE) /\ given' = given \cup {m}
    BY <1>6 DEF Needed
  <2>2. stack' = t /\ stack' \in Seq(Frames) /\ ret' \in BOOLEAN
    BY <1>1, <2>1, Returned
  <2>3. LoaderTypes'
    BY <1>1, <1>4, <2>1, <2>2 DEF LoaderTypes
  <2>4. \A x \in Modules \ given' : \A r : FlagsOK(stack, x, r) => FlagsOK(stack', x, r)
    BY <1>1, <2>1, <2>2, TopUnmoved
  <2>5. ModulesOK' /\ DataOK'
    BY <1>3, <1>4, <2>1, <2>4, Kept
  <2> QED
    BY <2>2, <2>3, <2>5, <1>3, <1>4 DEF LInv, StackOK
<1> QED
  BY <1>5, <1>6

\* The dependants of a reloaded module are loaded, one after another.
LEMMA LoadDependantsLInv ==
  ASSUME LInv, LoadDependants
  PROVE  LInv'
<1> DEFINE t == Tail(stack)
           d == Head(Top.todo)
           f == Frame("load", d, mod[d].flags \cup {"depend"}, <<>>)
<1>1. LoaderTypes /\ ModulesOK /\ DataOK /\ stack # <<>> /\ Top.at = "depart"
  BY DEF LInv, LoadDependants, At
<1>2. Top \in Frames /\ t \in Seq(Frames) /\ Top.todo \in Seq(Modules) /\ stack \in Seq(Frames)
  BY <1>1, Tops DEF LoaderTypes
<1>3. Loads(t) /\ Goes(t) /\ up /\ ~Exiting
  BY <1>1, Loading DEF LoadPlaces
<1>4. UNCHANGED <<list, mod, entry, reloads, file, up, given, faulty, items>>
  BY DEF LoadDependants, vars
<1>5. stack' \in Seq(Frames) /\ ret' \in BOOLEAN /\ Loads(stack') /\ Goes(stack')
      /\ \A x \in Modules : \A r : FlagsOK(stack, x, r) => FlagsOK(stack', x, r)
  <2>1. CASE Top.todo = <<>>
    <3>1. stack' = t /\ stack' \in Seq(Frames) /\ ret' \in BOOLEAN
      BY <1>1, <2>1, Returned DEF LoadDependants
    <3> QED
      BY <3>1, <1>1, <1>3, TopUnmoved
  <2>2. CASE Top.todo # <<>>
    <3>1. Call(f, "depart", Tail(Top.todo)) /\ d \in Modules /\ Tail(Top.todo) \in Seq(Modules)
      BY <1>2, <2>2, HeadTail DEF LoadDependants
    <3>2. f \in Frames /\ f.at = "load"
      BY <1>1, <3>1, ModFields DEF Frame, Frames, Places, Flags
    <3>3. PICK g \in Frames : /\ g = [Top EXCEPT !.at = "depart", !.todo = Tail(Top.todo)]
                              /\ g.at = "depart" /\ g.todo = Tail(Top.todo) /\ g.of = Top.of
      <4>1. "depart" \in Places
        BY DEF Places
      <4> QED
        BY <4>1, <1>1, <3>1, GoesOn, ZenonT(60) DEF LoaderTypes
    <3>4. stack' = <<f, g>> \o t /\ ret' = ret
      BY <3>1, <3>3 DEF Call
    <3> HIDE DEF f
    <3>5. /\ stack' = <<f>> \o (<<g>> \o t) /\ stack' \in Seq(Frames)
          /\ <<g>> \o t \in Seq(Frames)
      BY <3>2, <3>4, <1>2, Two
    <3>6. Loads(stack') /\ Goes(stack')
      <4>1. g.at = "depart"
        BY <3>3
      <4>2. Loads(<<g>> \o t) /\ Goes(<<g>> \o t)
        BY <4>1, <1>2, <1>3, PushedShape DEF LoadPlaces
      <4> QED
        BY <4>2, <3>2, <3>5, PushedShape DEF LoadPlaces
    <3>7. \A x \in Modules : \A r : FlagsOK(stack, x, r) => FlagsOK(<<g>> \o t, x, r)
      BY <1>1, <3>3, Onward
    <3>8. \A x \in Modules : \A r : FlagsOK(<<f>> \o (<<g>> \o t), x, r) <=> FlagsOK(<<g>> \o t, x, r)
      BY <3>2, <3>5, Unmoved
    <3> QED
      BY <3>4, <3>5, <3>6, <3>7, <3>8, <1>1 DEF LoaderTypes
  <2> QED
    BY <2>1, <2>2
<1>6. LoaderTypes'
  BY <1>1, <1>4, <1>5 DEF LoaderTypes
<1>7. ModulesOK' /\ DataOK'
  BY <1>3, <1>4, <1>5, Kept
<1> QED
  BY <1>5, <1>6, <1>7, <1>3, <1>4 DEF LInv, StackOK

\* What a step keeps that is about one module.
LEMMA OneMoved ==
  ASSUME LInv, NEW m \in Modules, UNCHANGED <<list, given>>, Exiting => Exiting',
         m \in given \/ (FlagsOK(stack', m, mod'[m]) /\ ItemOK(m, mod'[m])),
         \A x \in Modules \ {m} : \A r : FlagsOK(stack, x, r) => FlagsOK(stack', x, r),
         \A x \in Modules \ {m} :
           /\ mod'[x].opens = mod[x].opens /\ mod'[x].opencalls = mod[x].opencalls
           /\ mod'[x].saved = mod[x].saved /\ mod'[x].item = mod[x].item
           /\ mod'[x].code = mod[x].code /\ mod'[x].running = mod[x].running
           /\ "loaded" \in mod'[x].flags <=> "loaded" \in mod[x].flags,
         \A i \in Items \ ItemsOf(m) : i \in DOMAIN items' <=> i \in DOMAIN items,
         \A i \in ItemsOf(m) :
           \/ m \in given \/ (Exiting' /\ m \notin ToSet(list))
           \/ i \in DOMAIN items' <=> mod'[m].item = "item" \/ mod'[m].saved # <<>>
  PROVE  ModulesOK' /\ DataOK'
<1>1. LoaderTypes /\ ModulesOK /\ DataOK
  BY DEF LInv
<1>2. ASSUME NEW x \in Modules \ given'
      PROVE  FlagsOK(stack', x, mod'[x]) /\ ItemOK(x, mod'[x])
  <2>1. FlagsOK(stack, x, mod[x]) /\ ItemOK(x, mod[x])
    BY <1>1 DEF ModulesOK
  <2>2. CASE x = m
    BY <2>2
  <2>3. CASE x # m
    <3>1. FlagsOK(stack', x, mod[x])
      BY <2>1, <2>3
    <3> QED
      BY <2>1, <2>3, <3>1, SameFlags, SameItem
  <2> QED
    BY <2>2, <2>3
<1>3. ASSUME NEW i \in Items
      PROVE  ItemKept(i)'
  <2>1. Owner[i] \in Modules /\ ItemKept(i)
    BY <1>1, <1>3, LoaderAssumption DEF DataOK
  <2>2. CASE Owner[i] = m
    <3>1. i \in ItemsOf(m)
      BY <1>3, <2>2 DEF ItemsOf
    <3> QED
      BY <3>1, <2>2 DEF ItemKept, Known
  <2>3. CASE Owner[i] # m
    <3>1. i \in Items \ ItemsOf(m)
      BY <1>3, <2>3 DEF ItemsOf
    <3>2. i \in DOMAIN items' <=> i \in DOMAIN items
      BY <3>1
    <3>3. mod'[Owner[i]].item = mod[Owner[i]].item /\ mod'[Owner[i]].saved = mod[Owner[i]].saved
      BY <2>1, <2>3
    <3> QED
      BY <2>1, <3>2, <3>3 DEF ItemKept, Known
  <2> QED
    BY <2>2, <2>3
<1> QED
  BY <1>2, <1>3 DEF ModulesOK, DataOK

\* A library is opened and its loader called, or either fails.
LEMMA OpenLInv ==
  ASSUME LInv, Open
  PROVE  LInv'
<1> DEFINE t == Tail(stack)
           m == Top.of
           o == mod[m]
           dep == "depend" \in Top.flags
           r == [o EXCEPT !.flags = IF dep THEN @ \cup {"depend"} ELSE @, !.opencalls = @ + 1]
           opened == [r EXCEPT !.opens = @ + 1]
           ready == [opened EXCEPT !.flags = @ \cup {"loaded"} \cup Top.flags, !.code = TRUE]
           rejected == Close([opened EXCEPT !.opencalls = 0, !.code = TRUE], 1)
           closed == Close([ready EXCEPT !.opencalls = 0, !.flags = @ \ {"loaded"}], 1)
           done == [Loaded(m, ready) EXCEPT !.flags = @ \ {"reloading"}]
<1>1. LoaderTypes /\ ModulesOK /\ DataOK /\ stack # <<>> /\ Top.at = "open"
  BY DEF LInv, Open, At
<1>2. /\ Top \in Frames /\ t \in Seq(Frames) /\ m \in Modules /\ Top.flags \subseteq Flags
      /\ stack \in Seq(Frames)
  BY <1>1, Tops DEF LoaderTypes
<1>3. Loads(t) /\ Goes(t) /\ up /\ ~Exiting /\ ~Some(t, DropOf(m))
  BY <1>1, Loading DEF LoadPlaces
<1>4. UNCHANGED <<list, reloads, file, up, given>>
  BY DEF Open
<1>5. /\ o \in Structures /\ o.flags \subseteq Flags /\ o.opens \in Nat /\ o.opencalls \in Nat
      /\ o.saved \in Seq({"null", "item"}) /\ o.item \in {"null", "item"}
      /\ o.code \in BOOLEAN /\ o.running \in BOOLEAN /\ o.deps \in Seq(Modules) /\ o = mod[m]
  BY <1>1, <1>2, ModFields
<1> HIDE DEF o
<1>6. /\ r \in Structures /\ r.opens = o.opens /\ r.opencalls = o.opencalls + 1
      /\ "loaded" \in r.flags <=> "loaded" \in o.flags
      /\ r.saved = o.saved /\ r.item = o.item /\ r.code = o.code /\ r.running = o.running
  <2>1. PICK fl : fl = IF dep THEN o.flags \cup {"depend"} ELSE o.flags
    OBVIOUS
  <2>2. PICK n \in Nat : n = o.opencalls + 1
    BY <1>5
  <2>3. fl \in SUBSET Flags /\ ("loaded" \in fl <=> "loaded" \in o.flags)
    BY <2>1, <1>5 DEF Flags
  <2>4. r = [o EXCEPT !.flags = fl, !.opencalls = n]
    BY <2>1, <2>2
  <2> HIDE DEF r
  <2>5. /\ r \in Structures /\ r.opens = o.opens /\ r.opencalls = n /\ r.flags = fl
        /\ r.saved = o.saved /\ r.item = o.item /\ r.code = o.code /\ r.running = o.running
    BY <2>3, <2>4, <1>5 DEF Structures
  <2> QED
    BY <2>2, <2>3, <2>5
<1> HIDE DEF r
<1>7. /\ opened \in Structures /\ opened.opens = o.opens + 1 /\ opened.opencalls = o.opencalls + 1
      /\ "loaded" \in opened.flags <=> "loaded" \in o.flags
      /\ opened.saved = o.saved /\ opened.item = o.item /\ opened.code = o.code
      /\ opened.running = o.running
  <2>1. PICK n \in Nat : n = r.opens + 1
    BY <1>5, <1>6
  <2>2. opened = [r EXCEPT !.opens = n]
    BY <2>1
  <2> HIDE DEF opened
  <2>3. /\ opened \in Structures /\ opened.opens = n /\ opened.opencalls = r.opencalls
        /\ opened.flags = r.flags /\ opened.saved = r.saved /\ opened.item = r.item
        /\ opened.code = r.code /\ opened.running = r.running
    BY <2>2, <1>6 DEF Structures
  <2> QED
    BY <2>1, <2>3, <1>5, <1>6
<1> HIDE DEF opened
<1>8. /\ ready \in Structures /\ ready.opens = o.opens + 1 /\ ready.opencalls = o.opencalls + 1
      /\ "loaded" \in ready.flags
      /\ ready.saved = o.saved /\ ready.item = o.item /\ ready.code = TRUE
      /\ ready.running = o.running
  <2>1. PICK fl : fl = opened.flags \cup {"loaded"} \cup Top.flags
    OBVIOUS
  <2>2. ready = [opened EXCEPT !.flags = fl, !.code = TRUE]
    BY <2>1
  <2>3. fl \in SUBSET Flags /\ "loaded" \in fl
    BY <2>1, <1>2, <1>7 DEF Structures, Flags
  <2> HIDE DEF ready
  <2> QED
    BY <2>2, <2>3, <1>7 DEF Structures
<1> HIDE DEF ready
<1>9. o.opens = 0 =>
      /\ closed \in Structures /\ closed.opens = 0 /\ closed.opencalls = 0
      /\ "loaded" \notin closed.flags
      /\ closed.saved = o.saved /\ closed.item = "null" /\ closed.running = o.running
  <2>1. PICK fl, q : fl = ready.flags \ {"loaded"} /\ q = [ready EXCEPT !.opencalls = 0, !.flags = fl]
    OBVIOUS
  <2>2. closed = Close(q, 1)
    BY <2>1
  <2>3. /\ q \in Structures /\ q.opens = o.opens + 1 /\ q.opencalls = 0 /\ q.flags = fl
        /\ q.saved = o.saved /\ q.running = o.running
    BY <2>1, <1>8 DEF Structures
  <2>4. o.opens = 0 => closed = [q EXCEPT !.opens = 0, !.item = "null"]
    BY <2>2, <2>3 DEF Close
  <2> HIDE DEF closed
  <2> QED
    BY <2>1, <2>3, <2>4 DEF Structures
<1>10. o.opens = 0 =>
      /\ rejected \in Structures /\ rejected.opens = 0 /\ rejected.opencalls = 0
      /\ "loaded" \in rejected.flags <=> "loaded" \in o.flags
      /\ rejected.saved = o.saved /\ rejected.item = "null" /\ rejected.running = o.running
  <2>1. PICK q : q = [opened EXCEPT !.opencalls = 0, !.code = TRUE]
    OBVIOUS
  <2>2. rejected = Close(q, 1)
    BY <2>1
  <2>3. /\ q \in Structures /\ q.opens = o.opens + 1 /\ q.opencalls = 0 /\ q.flags = opened.flags
        /\ q.saved = o.saved /\ q.running = o.running
    BY <2>1, <1>7 DEF Structures
  <2>4. o.opens = 0 => rejected = [q EXCEPT !.opens = 0, !.item = "null"]
    BY <2>2, <2>3 DEF Close
  <2> HIDE DEF rejected
  <2> QED
    BY <1>7, <2>3, <2>4 DEF Structures
<1>11. /\ done \in Structures /\ done.opens = o.opens + 1 /\ done.opencalls = o.opencalls + 1
      /\ "loaded" \in done.flags /\ done.saved = <<>> /\ done.code = TRUE /\ done.running = TRUE
      /\ done.item = (IF ItemsOf(m) = {} THEN o.item
                      ELSE IF o.saved # <<>> THEN Head(o.saved) ELSE "item")
  <2>1. PICK it : it = IF ItemsOf(m) = {} THEN ready.item
                       ELSE IF Restores(ready) THEN Head(ready.saved) ELSE "item"
    OBVIOUS
  <2>2. PICK q : q = [ready EXCEPT !.running = TRUE, !.saved = <<>>, !.item = it]
    OBVIOUS
  <2>3. Loaded(m, ready) = q
    BY <2>1, <2>2 DEF Loaded
  <2>4. PICK fl : fl = q.flags \ {"reloading"}
    OBVIOUS
  <2>5. done = [q EXCEPT !.flags = fl]
    BY <2>3, <2>4
  <2>6. it \in {"null", "item"}
        /\ it = (IF ItemsOf(m) = {} THEN o.item
                 ELSE IF o.saved # <<>> THEN Head(o.saved) ELSE "item")
    BY <2>1, <1>5, <1>8 DEF Restores
  <2>7. /\ q \in Structures /\ q.opens = o.opens + 1 /\ q.opencalls = o.opencalls + 1
        /\ "loaded" \in q.flags /\ q.saved = <<>> /\ q.code = TRUE /\ q.running = TRUE
        /\ q.item = it
    <3>1. PICK sv \in Seq({"null", "item"}) : sv = <<>>
      <4>1. <<>> \in Seq({"null", "item"})
        OBVIOUS
      <4> QED
        BY <4>1
    <3>2. q = [ready EXCEPT !.running = TRUE, !.saved = sv, !.item = it]
      BY <2>2, <3>1
    <3>3. /\ q \in Structures /\ q.opens = ready.opens /\ q.opencalls = ready.opencalls
          /\ q.flags = ready.flags /\ q.saved = sv /\ q.code = ready.code /\ q.running = TRUE
          /\ q.item = it
      BY <3>1, <3>2, <2>6, <1>8 DEF Structures
    <3> QED
      BY <3>1, <3>3, <1>8
  <2>8. fl \in SUBSET Flags /\ "loaded" \in fl
    BY <2>4, <2>7 DEF Structures
  <2> HIDE DEF done
  <2> QED
    BY <2>5, <2>6, <2>7, <2>8 DEF Structures
<1> HIDE DEF rejected, closed, done
<1>12. ASSUME m \notin given
      PROVE  /\ o.running => o.opens > 0 /\ "loaded" \in o.flags
             /\ "loaded" \in o.flags => o.running \/ Some(t, NeedsOf(m))
             /\ Some(t, NeedsOf(m)) => "loaded" \in o.flags /\ ~o.running
             /\ Once(t, NeedsOf(m)) /\ Once(t, DropOf(m))
             /\ ItemOK(m, o)
             /\ \A i \in ItemsOf(m) : i \in DOMAIN items <=> o.item = "item" \/ o.saved # <<>>
  <2>1. FlagsOK(stack, m, o) /\ ItemOK(m, o)
    BY <1>1, <1>2, <1>5, <1>12 DEF ModulesOK
  <2>2. /\ Some(stack, NeedsOf(m)) <=> Some(t, NeedsOf(m))
        /\ ~Some(stack, DropOf(m))
        /\ Once(stack, NeedsOf(m)) <=> Once(t, NeedsOf(m))
        /\ Once(stack, DropOf(m)) <=> Once(t, DropOf(m))
    BY <1>1, <1>3, TopKinds
  <2>3. /\ o.running => o.opens > 0 /\ "loaded" \in o.flags
        /\ "loaded" \in o.flags => o.running \/ Some(t, NeedsOf(m))
        /\ Some(t, NeedsOf(m)) => "loaded" \in o.flags /\ ~o.running
        /\ Once(t, NeedsOf(m)) /\ Once(t, DropOf(m))
    BY ONLY <2>1, <2>2 DEF FlagsOK
  <2>4. \A i \in ItemsOf(m) : i \in DOMAIN items <=> o.item = "item" \/ o.saved # <<>>
    BY <1>1, <1>3, <1>5, <1>12 DEF ItemsOf, DataOK, ItemKept
  <2> QED
    BY <2>1, <2>3, <2>4
<1>13. \A x \in Modules \ {m} : \A q : FlagsOK(stack, x, q) => FlagsOK(t, x, q)
  BY <1>1, TopUnmoved
<1>14. ASSUME NEW q \in Structures, mod' = [mod EXCEPT ![m] = q], items' = items,
             \E v \in BOOLEAN : Return(v), entry' \in [DOMAIN Tables -> {"none", "good", "stale"}],
             m \in given \/ (FlagsOK(t, m, q) /\ ItemOK(m, q)),
             m \in given \/ ((q.item = "item" \/ q.saved # <<>>) <=> (o.item = "item" \/ o.saved # <<>>))
      PROVE  LInv'
  <2>1. stack' = t /\ stack' \in Seq(Frames) /\ ret' \in BOOLEAN
    BY <1>1, <1>14, Returned
  <2>2. mod' \in [Modules -> Structures] /\ mod'[m] = q /\ \A x \in Modules \ {m} : mod'[x] = mod[x]
    BY <1>1, <1>2, <1>14 DEF LoaderTypes
  <2>3. LoaderTypes'
    BY <1>1, <1>4, <1>14, <2>1, <2>2 DEF LoaderTypes
  <2>4. m \in given \/ (FlagsOK(stack', m, mod'[m]) /\ ItemOK(m, mod'[m]))
    BY <1>14, <2>1, <2>2
  <2>5. \A i \in ItemsOf(m) :
          m \in given \/ (i \in DOMAIN items' <=> mod'[m].item = "item" \/ mod'[m].saved # <<>>)
    BY <1>12, <1>14, <2>2
  <2>6. ModulesOK' /\ DataOK'
    BY <1>2, <1>3, <1>4, <1>13, <1>14, <2>1, <2>2, <2>4, <2>5, OneMoved
  <2> QED
    BY <1>3, <1>4, <2>1, <2>3, <2>6 DEF LInv, StackOK
<1>15. CASE dep /\ Has(m, "depend") /\ Has(m, "loaded") /\ Return(TRUE) /\ UNCHANGED <<mod, entry, vars>>
  <2>1. mod' = [mod EXCEPT ![m] = o] /\ items' = items /\ entry' = entry
    BY <1>1, <1>2, <1>5, <1>15 DEF LoaderTypes, vars
  <2>2. m \in given \/ (FlagsOK(t, m, o) /\ ItemOK(m, o))
    BY <1>3, <1>5, <1>12, <1>15 DEF FlagsOK, Has
  <2> QED
    BY <1>1, <1>5, <1>14, <1>15, <2>1, <2>2 DEF LoaderTypes
<1>16. CASE ~Links(m) /\ mod' = [mod EXCEPT ![m] = r] /\ Fails /\ UNCHANGED <<entry, vars>>
  <2>1. ~(o.opens > 0) /\ Return(FALSE) /\ items' = items /\ entry' = entry
    BY <1>5, <1>16 DEF Links, Fails, vars
  <2>2. m \in given \/ (FlagsOK(t, m, r) /\ ItemOK(m, r))
    BY <1>3, <1>5, <1>12, <1>6, <2>1 DEF FlagsOK, ItemOK
  <2> QED
    BY <1>1, <1>14, <1>16, <1>6, <2>1, <2>2 DEF LoaderTypes
<1>17. CASE Has(m, "loaded") /\ mod' = [mod EXCEPT ![m] = opened] /\ Return(TRUE) /\ UNCHANGED <<entry, vars>>
  <2>1. "loaded" \in o.flags /\ items' = items /\ entry' = entry
    BY <1>5, <1>17 DEF Has, vars
  <2>2. m \in given \/ (FlagsOK(t, m, opened) /\ ItemOK(m, opened))
    BY <1>3, <1>5, <1>12, <1>7, <2>1 DEF FlagsOK, ItemOK
  <2> QED
    BY <1>1, <1>14, <1>17, <1>7, <2>1, <2>2 DEF LoaderTypes
<1>18. CASE /\ ~Has(m, "loaded") /\ Refuses(m) /\ mod' = [mod EXCEPT ![m] = closed]
            /\ entry' = Left(Hooked(m), m, 0) /\ Fails /\ UNCHANGED vars
  <2>1. o.opens = 0 /\ Return(FALSE) /\ items' = items /\ "loaded" \notin o.flags
    BY <1>5, <1>18 DEF Refuses, Fails, Has, vars
  <2>2. entry' \in [DOMAIN Tables -> {"none", "good", "stale"}]
    BY <1>1, <1>18 DEF LoaderTypes, Left, Hooked
  <2>3. m \in given \/ (FlagsOK(t, m, closed) /\ ItemOK(m, closed) /\ o.item = "null")
    BY <1>3, <1>5, <1>12, <2>1, <1>9 DEF FlagsOK, ItemOK
  <2> QED
    BY <1>14, <1>18, <2>1, <1>9, <2>2, <2>3
<1>19. CASE /\ ~Has(m, "loaded") /\ Refuses(m) /\ mod' = [mod EXCEPT ![m] = rejected]
            /\ Fails /\ UNCHANGED <<entry, vars>>
  <2>1. /\ o.opens = 0 /\ Return(FALSE) /\ items' = items /\ entry' = entry
        /\ "loaded" \notin o.flags
    BY <1>5, <1>19 DEF Refuses, Fails, Has, vars
  <2>2. m \in given \/ (FlagsOK(t, m, rejected) /\ ItemOK(m, rejected) /\ o.item = "null")
    BY <1>3, <1>5, <1>12, <2>1, <1>10 DEF FlagsOK, ItemOK
  <2> QED
    BY <1>1, <1>14, <1>19, <2>1, <1>10, <2>2 DEF LoaderTypes
<1>20. CASE /\ ~Has(m, "loaded") /\ Loader(m, r) /\ mod' = [mod EXCEPT ![m] = done]
            /\ entry' = Resolved(m) /\ (Goto("depart", o.deps) \/ Return(TRUE))
  <2>1. "loaded" \notin o.flags
    BY <1>5, <1>20 DEF Has
  <2>2. entry' \in [DOMAIN Tables -> {"none", "good", "stale"}]
    BY <1>1, <1>20 DEF LoaderTypes, Resolved, Hooked
  <2>3. /\ m \notin given => (\A i \in ItemsOf(m) : i \in DOMAIN items')
        /\ \A i \in Items \ ItemsOf(m) : i \in DOMAIN items' <=> i \in DOMAIN items
        /\ DOMAIN items' \subseteq Items
    <3>1. CASE (o.saved # <<>> \/ ItemsOf(m) = {}) /\ UNCHANGED vars
      BY <3>1, <1>1, <1>12 DEF vars, LoaderTypes
    <3>2. ASSUME o.saved = <<>>, ItemsOf(m) # {},
                 NEW i \in ItemsOf(m), CreateItem(i, SizeOf[i])
          PROVE  /\ m \notin given => (\A j \in ItemsOf(m) : j \in DOMAIN items')
                 /\ \A j \in Items \ ItemsOf(m) : j \in DOMAIN items' <=> j \in DOMAIN items
                 /\ DOMAIN items' \subseteq Items
      <4>1. DOMAIN items' = DOMAIN items \cup {i} /\ i \in Items
        BY <3>2 DEF CreateItem, ItemsOf
      <4>2. \A j \in ItemsOf(m) : j = i
        BY <3>2, LoaderAssumption DEF ItemsOf
      <4> QED
        BY <4>1, <4>2, <3>2, <1>1 DEF LoaderTypes
    <3>3. ASSUME o.saved = <<>>, ItemsOf(m) # {},
                 NEW i \in ItemsOf(m), i \in DOMAIN items, UNCHANGED vars
          PROVE  /\ m \notin given => (\A j \in ItemsOf(m) : j \in DOMAIN items')
                 /\ \A j \in Items \ ItemsOf(m) : j \in DOMAIN items' <=> j \in DOMAIN items
                 /\ DOMAIN items' \subseteq Items
      <4>1. \A j \in ItemsOf(m) : j = i
        BY <3>3, LoaderAssumption DEF ItemsOf
      <4> QED
        BY <4>1, <3>3, <1>1 DEF LoaderTypes, vars
    <3>4. \/ (o.saved # <<>> \/ ItemsOf(m) = {}) /\ UNCHANGED vars
          \/ /\ o.saved = <<>> /\ ItemsOf(m) # {}
             /\ \E i \in ItemsOf(m) : (i \in DOMAIN items /\ UNCHANGED vars) \/ CreateItem(i, SizeOf[i])
      BY <1>20, <1>6 DEF Loader, Restores
    <3> QED
      BY <3>1, <3>2, <3>3, <3>4
  <2>4. stack' \in Seq(Frames) /\ ret' \in BOOLEAN /\ Loads(stack') /\ Goes(stack')
        /\ (stack' = t \/ \E g \in Frames : g.at = "depart" /\ stack' = <<g>> \o t)
    <3>1. CASE Goto("depart", o.deps)
      <4>1. "depart" \in Places /\ o.deps \in Seq(Modules)
        BY <1>5 DEF Places
      <4>2. PICK g \in Frames : g.at = "depart" /\ stack' = <<g>> \o t /\ stack' \in Seq(Frames) /\ ret' = ret
        BY <4>1, <3>1, <1>1, WentOn, ZenonT(60)
      <4>3. Loads(<<g>> \o t) /\ Goes(<<g>> \o t)
        BY <4>2, <1>2, <1>3, PushedShape DEF LoadPlaces
      <4> QED
        BY <4>2, <4>3, <1>1 DEF LoaderTypes
    <3>2. CASE Return(TRUE)
      BY <3>2, <1>1, <1>3, Returned
    <3> QED
      BY <3>1, <3>2, <1>20
  <2>5. \A x : \A q : FlagsOK(t, x, q) => FlagsOK(stack', x, q)
    BY <2>4, <1>2, Unmoved, ZenonT(60)
  <2>6. mod' \in [Modules -> Structures] /\ mod'[m] = done /\ \A x \in Modules \ {m} : mod'[x] = mod[x]
    <3> QED
      BY <1>1, <1>2, <1>20, <1>11 DEF LoaderTypes
  <2>7. LoaderTypes'
    BY <1>1, <1>4, <2>2, <2>3, <2>4, <2>6 DEF LoaderTypes
  <2>8. m \in given \/ (FlagsOK(stack', m, mod'[m]) /\ ItemOK(m, mod'[m]))
    <3> SUFFICES ASSUME m \notin given
                 PROVE  FlagsOK(stack', m, done) /\ ItemOK(m, done)
      BY <2>6
    <3>1. ~o.running /\ ~Some(t, NeedsOf(m))
      BY <1>12, <2>1
    <3>2. FlagsOK(t, m, done)
      BY <3>1, <1>3, <1>5, <1>12, <1>11 DEF FlagsOK
    <3>3. o.item = "null" /\ o.saved \in Seq({"item"})
      BY <3>1, <1>12 DEF ItemOK
    <3>4. o.saved # <<>> => Head(o.saved) = "item"
      BY <3>3
    <3>5. ItemOK(m, done)
      BY <3>3, <3>4, <1>5, <1>12, <1>11 DEF ItemOK
    <3> QED
      BY <3>2, <3>5, <2>5
  <2>9. \A i \in ItemsOf(m) :
          m \in given \/ (i \in DOMAIN items' <=> mod'[m].item = "item" \/ mod'[m].saved # <<>>)
    BY <1>11, <2>3, <2>6, <2>8 DEF ItemOK
  <2>10. ModulesOK' /\ DataOK'
    BY <1>2, <1>3, <1>4, <1>13, <2>3, <2>5, <2>6, <2>8, <2>9, OneMoved
  <2> QED
    BY <1>3, <1>4, <2>4, <2>7, <2>10 DEF LInv, StackOK
<1>21. \/ dep /\ Has(m, "depend") /\ Has(m, "loaded") /\ Return(TRUE) /\ UNCHANGED <<mod, entry, vars>>
       \/ ~Links(m) /\ mod' = [mod EXCEPT ![m] = r] /\ Fails /\ UNCHANGED <<entry, vars>>
       \/ Has(m, "loaded") /\ mod' = [mod EXCEPT ![m] = opened] /\ Return(TRUE) /\ UNCHANGED <<entry, vars>>
       \/ /\ ~Has(m, "loaded") /\ Refuses(m) /\ mod' = [mod EXCEPT ![m] = rejected]
          /\ Fails /\ UNCHANGED <<entry, vars>>
       \/ /\ ~Has(m, "loaded") /\ Refuses(m) /\ mod' = [mod EXCEPT ![m] = closed]
          /\ entry' = Left(Hooked(m), m, 0) /\ Fails /\ UNCHANGED vars
       \/ /\ ~Has(m, "loaded") /\ Loader(m, r) /\ mod' = [mod EXCEPT ![m] = done]
          /\ entry' = Resolved(m) /\ (Goto("depart", o.deps) \/ Return(TRUE))
  BY Zenon DEF Open, o, r, opened, ready, rejected, closed, done
<1> QED
  BY <1>15, <1>16, <1>17, <1>18, <1>20, <1>21, <1>19

-----------------------------------------------------------------------------
(* unload_module.                                                          *)

\* What is in progress below stays in progress.
LEMMA StillExiting ==
  ASSUME LInv, stack # <<>>, Top.at \in UnloadPlaces, up' = up,
         stack' = Tail(stack) \/ \E s \in Seq(Frames) : \E f \in Frames :
           stack' = <<f>> \o s /\ (s = Tail(stack) \/ \E g \in Frames : s = <<g>> \o Tail(stack))
  PROVE  Exiting => Exiting'
<1> DEFINE t == Tail(stack)
<1>1. t \in Seq(Frames) /\ (Exiting => Some(t, Exits))
  BY Unloading, Tops DEF LInv, LoaderTypes
<1>2. ASSUME Some(t, Exits)
      PROVE  Some(stack', Exits)
  <2>1. \A g \in Frames : Some(<<g>> \o t, Exits)
    BY <1>1, <1>2, PushedCalls
  <2>2. ASSUME NEW s \in Seq(Frames), NEW f \in Frames, stack' = <<f>> \o s,
               s = t \/ \E g \in Frames : s = <<g>> \o t
        PROVE  Some(stack', Exits)
    <3>1. Some(s, Exits)
      BY <1>2, <2>1, <2>2
    <3>2. Some(<<f>> \o s, Exits)
      BY <3>1, PushedCalls
    <3> QED
      BY <3>2, <2>2
  <2> QED
    BY <1>2, <2>2
<1> QED
  BY <1>1, <1>2 DEF Exiting

\* A module that is on its way out is not loaded any more, though it runs.
LEMMA UnloadLInv ==
  ASSUME LInv, Unload
  PROVE  LInv'
<1> DEFINE t == Tail(stack)
           m == Top.of
<1>1. LoaderTypes /\ ModulesOK /\ DataOK /\ stack # <<>> /\ Top.at = "unload"
  BY DEF LInv, Unload, At
<1>2. Top \in Frames /\ t \in Seq(Frames) /\ m \in Modules /\ stack \in Seq(Frames)
  BY <1>1, Tops DEF LoaderTypes
<1>3. Unloads(t) /\ Goes(t) /\ up /\ ~Some(stack, NeedsOf(m)) /\ ~Some(t, NeedsOf(m))
  BY <1>1, Unloading DEF UnloadPlaces
<1>4. UNCHANGED <<list, entry, reloads, file, up, given, faulty, items>>
  BY DEF Unload, vars
<1>5. CASE ~Known(m) \/ ~Has(m, "loaded")
  <2>1. stack' = t /\ ret' = (Known(m) \/ Len(stack) = 1) /\ mod' = mod
    BY <1>5 DEF Unload, Return
  <2>2. stack' = t /\ stack' \in Seq(Frames) /\ ret' \in BOOLEAN
    BY <1>2, <2>1
  <2>3. LoaderTypes'
    BY <1>1, <1>4, <2>1, <2>2 DEF LoaderTypes
  <2>4. \A x \in Modules : \A r : FlagsOK(stack, x, r) => FlagsOK(stack', x, r)
    BY <1>1, <2>2, TopUnmoved
  <2>5. Exiting => Exiting'
    BY <1>1, <1>4, <2>2, StillExiting DEF UnloadPlaces
  <2>6. ModulesOK' /\ DataOK'
    BY <1>4, <2>1, <2>4, <2>5, Kept DEF Known
  <2> QED
    BY <2>2, <2>3, <2>6, <1>3, <1>4 DEF LInv, StackOK
<1>6. CASE Known(m) /\ Has(m, "loaded")
  <2>1. mod' = [mod EXCEPT ![m].flags = @ \ {"loaded", "depend"}] /\ Goto("drop", mod[m].deps)
    BY <1>6 DEF Unload
  <2>2. PICK g \in Frames :
          g.at = "drop" /\ g.of = m /\ stack' = <<g>> \o t /\ stack' \in Seq(Frames) /\ ret' = ret
    <3>1. mod[m].deps \in Seq(Modules)
      BY <1>1, <1>2, ModFields
    <3>2. "drop" \in Places
      BY DEF Places
    <3>3. Goto("drop", mod[m].deps)
      BY <2>1
    <3> QED
      BY <3>1, <3>2, <3>3, <1>1, WentOn, ZenonT(60)
  <2>3. PICK q \in Structures :
          /\ mod' = [mod EXCEPT ![m] = q] /\ "loaded" \notin q.flags
          /\ q.opens = mod[m].opens /\ q.opencalls = mod[m].opencalls /\ q.saved = mod[m].saved
          /\ q.item = mod[m].item /\ q.code = mod[m].code /\ q.running = mod[m].running
    <3>1. PICK fl : fl = mod[m].flags \ {"loaded", "depend"}
      OBVIOUS
    <3>2. fl \in SUBSET Flags /\ mod' = [mod EXCEPT ![m].flags = fl]
      BY <3>1, <2>1, <1>1, <1>2, ModFields
    <3>3. PICK q \in Structures :
            /\ q = [mod[m] EXCEPT !.flags = fl] /\ q.flags = fl
            /\ q.opens = mod[m].opens /\ q.opencalls = mod[m].opencalls /\ q.saved = mod[m].saved
            /\ q.item = mod[m].item /\ q.code = mod[m].code /\ q.running = mod[m].running
      BY <3>2, <1>1, <1>2, Flagged
    <3>4. mod' = [mod EXCEPT ![m] = q]
      BY <3>2, <3>3
    <3>5. "loaded" \notin q.flags
      BY <3>1, <3>3
    <3> QED
      BY <3>3, <3>4, <3>5
  <2>4. mod' \in [Modules -> Structures] /\ mod'[m] = q /\ \A x \in Modules \ {m} : mod'[x] = mod[x]
    BY <1>1, <1>2, <2>3 DEF LoaderTypes
  <2>5. LoaderTypes'
    BY <1>1, <1>4, <2>2, <2>4 DEF LoaderTypes
  <2>6. Unloads(stack') /\ Goes(stack')
    BY <1>2, <1>3, <2>2, PushedShape DEF UnloadPlaces
  <2>7. Exiting => Exiting'
    BY <1>1, <1>2, <1>4, <2>2, StillExiting DEF UnloadPlaces
  <2>8. \A x \in Modules \ {m} : \A r : FlagsOK(stack, x, r) => FlagsOK(stack', x, r)
    BY <1>1, <1>2, <2>2, TopUnmoved, Unmoved
  <2>9. ASSUME m \notin given
        PROVE  FlagsOK(stack', m, mod'[m]) /\ ItemOK(m, mod'[m])
    <3>1. FlagsOK(t, m, mod[m]) /\ ItemOK(m, mod[m])
      BY <1>1, <1>2, <2>9, TopUnmoved DEF ModulesOK
    <3>2. /\ ~Some(<<g>> \o t, NeedsOf(m)) /\ Some(<<g>> \o t, DropOf(m))
          /\ Once(<<g>> \o t, NeedsOf(m)) <=> Once(t, NeedsOf(m))
          /\ Once(<<g>> \o t, DropOf(m)) <=> Once(t, DropOf(m)) /\ ~Some(t, DropOf(m))
          /\ Some(<<g>> \o t, OpenOf(m)) <=> Some(t, OpenOf(m))
      BY <1>2, <1>3, <2>2, PushedKinds
    <3>3. /\ ~Some(t, NeedsOf(m)) /\ "loaded" \in mod[m].flags
          /\ q.running = mod[m].running /\ q.opens = mod[m].opens /\ "loaded" \notin q.flags
      BY <1>3, <1>6, <2>3 DEF Has
    <3>4. FlagsOK(t, m, mod[m])
      BY <3>1
    <3>5. FlagsOK(<<g>> \o t, m, q)
      BY ONLY <3>2, <3>3, <3>4 DEF FlagsOK
    <3>6. ItemOK(m, q)
      BY <3>1, <2>3, SameItem
    <3> QED
      BY <3>5, <3>6, <2>2, <2>4
  <2>10. \A i \in ItemsOf(m) :
           \/ m \in given \/ (Exiting' /\ m \notin ToSet(list))
           \/ i \in DOMAIN items' <=> mod'[m].item = "item" \/ mod'[m].saved # <<>>
    BY <1>1, <1>4, <2>3, <2>4, <2>7 DEF DataOK, ItemKept, ItemsOf, Known
  <2>11. ModulesOK' /\ DataOK'
    BY <1>2, <1>4, <2>4, <2>7, <2>8, <2>9, <2>10, OneMoved
  <2> QED
    BY <2>5, <2>6, <2>11, <1>3, <1>4 DEF LInv, StackOK
<1> QED
  BY <1>5, <1>6

\* A dependant is marked, or leaves the list.
LEMMA DependantKeeps ==
  ASSUME LoaderTypes, NEW d \in Modules, NEW ds \in Seq(Modules),
         mod' = mod \/ mod' = Marked(d) \/ mod' = [mod EXCEPT ![d].deps = ds]
  PROVE  /\ mod' \in [Modules -> Structures]
         /\ \A x \in Modules :
              /\ mod'[x].opens = mod[x].opens /\ mod'[x].opencalls = mod[x].opencalls
              /\ mod'[x].saved = mod[x].saved /\ mod'[x].item = mod[x].item
              /\ mod'[x].code = mod[x].code /\ mod'[x].running = mod[x].running
              /\ "loaded" \in mod'[x].flags <=> "loaded" \in mod[x].flags
<1>1. ASSUME NEW q \in Structures, mod' = [mod EXCEPT ![d] = q],
             /\ q.opens = mod[d].opens /\ q.opencalls = mod[d].opencalls /\ q.saved = mod[d].saved
             /\ q.item = mod[d].item /\ q.code = mod[d].code /\ q.running = mod[d].running,
             "loaded" \in q.flags <=> "loaded" \in mod[d].flags
      PROVE  /\ mod' \in [Modules -> Structures]
             /\ \A x \in Modules :
                  /\ mod'[x].opens = mod[x].opens /\ mod'[x].opencalls = mod[x].opencalls
                  /\ mod'[x].saved = mod[x].saved /\ mod'[x].item = mod[x].item
                  /\ mod'[x].code = mod[x].code /\ mod'[x].running = mod[x].running
                  /\ "loaded" \in mod'[x].flags <=> "loaded" \in mod[x].flags
  BY <1>1 DEF LoaderTypes
<1>2. CASE mod' = mod
  BY <1>2 DEF LoaderTypes
<1>3. CASE mod' = Marked(d)
  <2>1. PICK fl : fl = mod[d].flags \cup {"reloading"}
    OBVIOUS
  <2>2. fl \in SUBSET Flags /\ mod' = [mod EXCEPT ![d].flags = fl]
    BY <2>1, <1>3, ModFields DEF Marked, Flags
  <2>3. PICK q \in Structures :
          /\ q = [mod[d] EXCEPT !.flags = fl] /\ q.flags = fl
          /\ q.opens = mod[d].opens /\ q.opencalls = mod[d].opencalls /\ q.saved = mod[d].saved
          /\ q.item = mod[d].item /\ q.code = mod[d].code /\ q.running = mod[d].running
    BY <2>2, Flagged
  <2>4. mod' = [mod EXCEPT ![d] = q]
    BY <2>2, <2>3
  <2>5. "loaded" \in q.flags <=> "loaded" \in mod[d].flags
    BY <2>1, <2>3
  <2> QED
    BY <1>1, <2>3, <2>4, <2>5
<1>4. CASE mod' = [mod EXCEPT ![d].deps = ds]
  <2>1. PICK q \in Structures :
          /\ q = [mod[d] EXCEPT !.deps = ds] /\ q.flags = mod[d].flags
          /\ q.opens = mod[d].opens /\ q.opencalls = mod[d].opencalls /\ q.saved = mod[d].saved
          /\ q.item = mod[d].item /\ q.code = mod[d].code /\ q.running = mod[d].running
    BY Relisted
  <2>2. mod' = [mod EXCEPT ![d] = q]
    BY <1>4, <2>1
  <2> QED
    BY <1>1, <2>1, <2>2
<1> QED
  BY <1>2, <1>3, <1>4

\* The dependants go before the module itself.
LEMMA UnloadDependantsLInv ==
  ASSUME LInv, UnloadDependants
  PROVE  LInv'
<1> DEFINE t == Tail(stack)
           m == Top.of
           reload == Has(m, "reloading")
           todo == IF reload THEN Top.todo ELSE mod[m].deps
           d == Head(todo)
           f == Frame("unload", d, {}, <<>>)
<1>1. LoaderTypes /\ ModulesOK /\ DataOK /\ stack # <<>> /\ Top.at = "drop"
  BY DEF LInv, UnloadDependants, At
<1>2. /\ Top \in Frames /\ t \in Seq(Frames) /\ m \in Modules /\ stack \in Seq(Frames)
      /\ todo \in Seq(Modules)
  BY <1>1, Tops, ModFields DEF LoaderTypes
<1>3. Unloads(t) /\ Goes(t) /\ up
  BY <1>1, Unloading DEF UnloadPlaces
<1>4. UNCHANGED <<list, entry, reloads, file, up, given, items>>
  BY DEF UnloadDependants, vars
<1>5. /\ mod' \in [Modules -> Structures]
      /\ \A x \in Modules :
           /\ mod'[x].opens = mod[x].opens /\ mod'[x].opencalls = mod[x].opencalls
           /\ mod'[x].saved = mod[x].saved /\ mod'[x].item = mod[x].item
           /\ mod'[x].code = mod[x].code /\ mod'[x].running = mod[x].running
           /\ "loaded" \in mod'[x].flags <=> "loaded" \in mod[x].flags
  <2>1. CASE todo = <<>>
    <3>1. mod' = mod
      BY <2>1 DEF UnloadDependants
    <3> QED
      BY <3>1, <1>1 DEF LoaderTypes
  <2>2. CASE todo # <<>>
    <3>1. d \in Modules /\ Tail(todo) \in Seq(Modules)
      BY <1>2, <2>2, HeadTail
    <3>2. mod' = mod \/ mod' = Marked(d) \/ mod' = [mod EXCEPT ![m].deps = Tail(todo)]
      BY <2>2 DEF UnloadDependants
    <3>3. mod' = Marked(d) \/ mod' = mod =>
            /\ mod' \in [Modules -> Structures]
            /\ \A x \in Modules :
                 /\ mod'[x].opens = mod[x].opens /\ mod'[x].opencalls = mod[x].opencalls
                 /\ mod'[x].saved = mod[x].saved /\ mod'[x].item = mod[x].item
                 /\ mod'[x].code = mod[x].code /\ mod'[x].running = mod[x].running
                 /\ "loaded" \in mod'[x].flags <=> "loaded" \in mod[x].flags
      BY <1>1, <3>1, DependantKeeps
    <3>4. mod' = [mod EXCEPT ![m].deps = Tail(todo)] =>
            /\ mod' \in [Modules -> Structures]
            /\ \A x \in Modules :
                 /\ mod'[x].opens = mod[x].opens /\ mod'[x].opencalls = mod[x].opencalls
                 /\ mod'[x].saved = mod[x].saved /\ mod'[x].item = mod[x].item
                 /\ mod'[x].code = mod[x].code /\ mod'[x].running = mod[x].running
                 /\ "loaded" \in mod'[x].flags <=> "loaded" \in mod[x].flags
      BY <1>1, <1>2, <3>1, DependantKeeps
    <3> QED
      BY <3>2, <3>3, <3>4
  <2> QED
    BY <2>1, <2>2
<1>6. /\ stack' \in Seq(Frames) /\ ret' = ret /\ Unloads(stack') /\ Goes(stack')
      /\ \A x \in Modules : \A r : FlagsOK(stack, x, r) => FlagsOK(stack', x, r)
      /\ Exiting => Exiting'
  <2>1. ASSUME NEW at \in {"drop", "call"}, NEW td \in Seq(Modules), Goto(at, td)
        PROVE  /\ stack' \in Seq(Frames) /\ ret' = ret /\ Unloads(stack') /\ Goes(stack')
               /\ \A x \in Modules : \A r : FlagsOK(stack, x, r) => FlagsOK(stack', x, r)
               /\ Exiting => Exiting'
    <3>1. at \in Places
      BY <2>1 DEF Places
    <3>2. PICK g \in Frames : g.at = at /\ g.of = m /\ stack' = <<g>> \o t /\ stack' \in Seq(Frames) /\ ret' = ret
      BY <3>1, <2>1, <1>1, WentOn, ZenonT(60)
    <3>3. Unloads(<<g>> \o t) /\ Goes(<<g>> \o t)
      BY <3>2, <2>1, <1>2, <1>3, PushedShape DEF UnloadPlaces
    <3>4. \A x \in Modules : \A r : FlagsOK(stack, x, r) => FlagsOK(<<g>> \o t, x, r)
      BY <1>1, <2>1, <3>2, Onward
    <3>5. Exiting => Exiting'
      BY <1>1, <1>2, <1>4, <3>2, StillExiting DEF UnloadPlaces
    <3> QED
      BY <3>2, <3>3, <3>4, <3>5
  <2>2. CASE todo # <<>> /\ Has(d, "loaded")
    <3>1. d \in Modules /\ Tail(todo) \in Seq(Modules) /\ "drop" \in Places
      BY <1>2, <2>2, HeadTail DEF Places
    <3>2. Call(f, "drop", Tail(todo))
      BY <2>2 DEF UnloadDependants
    <3>3. f \in Frames /\ f.at = "unload"
      BY <3>1 DEF Frame, Frames, Places
    <3> HIDE DEF todo
    <3>4. PICK g \in Frames : /\ g = [Top EXCEPT !.at = "drop", !.todo = Tail(todo)]
                              /\ g.at = "drop" /\ g.todo = Tail(todo) /\ g.of = Top.of
      BY <1>1, <3>1, GoesOn, ZenonT(60)
    <3>5. stack' = <<f, g>> \o t /\ ret' = ret
      BY <3>2, <3>4 DEF Call
    <3> HIDE DEF f
    <3>6. /\ stack' = <<f>> \o (<<g>> \o t) /\ stack' \in Seq(Frames)
          /\ <<g>> \o t \in Seq(Frames)
      BY <3>3, <3>5, <1>2, Two
    <3>7. g.at = "drop"
      BY <3>4
    <3>8. Unloads(<<g>> \o t) /\ Goes(<<g>> \o t)
      BY <3>7, <1>2, <1>3, PushedShape DEF UnloadPlaces
    <3>9. Unloads(stack') /\ Goes(stack')
      BY <3>3, <3>6, <3>8, PushedShape DEF UnloadPlaces
    <3>10. \A x \in Modules : \A r : FlagsOK(stack, x, r) => FlagsOK(<<g>> \o t, x, r)
      BY <1>1, <3>4, Onward
    <3>11. \A x \in Modules : \A r : FlagsOK(<<f>> \o (<<g>> \o t), x, r) <=> FlagsOK(<<g>> \o t, x, r)
      BY <3>3, <3>6, Unmoved
    <3>12. Exiting => Exiting'
      BY <1>1, <1>2, <1>4, <3>3, <3>6, StillExiting DEF UnloadPlaces
    <3> QED
      BY <3>5, <3>6, <3>9, <3>10, <3>11, <3>12
  <2>3. CASE todo = <<>>
    <3>1. Goto("call", <<>>) /\ <<>> \in Seq(Modules)
      BY <2>3 DEF UnloadDependants
    <3> QED
      BY <2>1, <3>1
  <2>4. CASE todo # <<>> /\ ~Has(d, "loaded")
    <3>1. Goto("drop", Tail(todo)) /\ Tail(todo) \in Seq(Modules)
      BY <2>4, <1>2, HeadTail DEF UnloadDependants
    <3> QED
      BY <2>1, <3>1
  <2> QED
    BY <2>2, <2>3, <2>4
<1>7. LoaderTypes'
  BY <1>1, <1>4, <1>5, <1>6 DEF LoaderTypes
<1>8. ModulesOK' /\ DataOK'
  BY <1>4, <1>5, <1>6, Kept DEF Known
<1> QED
  BY <1>3, <1>4, <1>6, <1>7, <1>8 DEF LInv, StackOK

\* Modules leave lists of dependants, and nothing else of them changes.
LEMMA UnlistedKeeps ==
  ASSUME LoaderTypes, NEW m \in Modules, NEW r \in Structures
  PROVE  LET md == Unlisted(m, r) IN
         /\ md \in [Modules -> Structures]
         /\ \A x \in Modules \ {m} :
              /\ md[x].opens = mod[x].opens /\ md[x].opencalls = mod[x].opencalls
              /\ md[x].saved = mod[x].saved /\ md[x].item = mod[x].item
              /\ md[x].code = mod[x].code /\ md[x].running = mod[x].running
              /\ md[x].flags = mod[x].flags
         /\ md[m].opens = r.opens /\ md[m].opencalls = r.opencalls
         /\ md[m].saved = r.saved /\ md[m].item = r.item
         /\ md[m].code = r.code /\ md[m].running = r.running /\ md[m].flags = r.flags
<1> DEFINE md == Unlisted(m, r)
<1>1. ASSUME NEW x \in Modules
      PROVE  LET s == IF x = m THEN r ELSE mod[x] IN
             /\ md[x] \in Structures
             /\ md[x].opens = s.opens /\ md[x].opencalls = s.opencalls
             /\ md[x].saved = s.saved /\ md[x].item = s.item
             /\ md[x].code = s.code /\ md[x].running = s.running /\ md[x].flags = s.flags
  <2>1. PICK s : s = IF x = m THEN r ELSE mod[x]
    OBVIOUS
  <2>2. s \in Structures
    BY <2>1 DEF LoaderTypes
  <2>3. s.deps \in Seq(Modules)
    BY <2>2 DEF Structures
  <2>4. Without(s.deps, {m}) \in Seq(Modules)
    BY <2>3, WithoutProperties
  <2>5. PICK ds \in Seq(Modules) : ds = Without(s.deps, {m})
    BY <2>4
  <2>6. md[x] = s \/ md[x] = [s EXCEPT !.deps = ds]
    BY <1>1, <2>1, <2>5 DEF Unlisted
  <2> HIDE DEF md
  <2>7. CASE md[x] = s
    BY <2>1, <2>2, <2>7
  <2>8. CASE md[x] = [s EXCEPT !.deps = ds]
    <3>1. PICK q : q = [s EXCEPT !.deps = ds]
      OBVIOUS
    <3>2. /\ q \in Structures
          /\ q.opens = s.opens /\ q.opencalls = s.opencalls /\ q.saved = s.saved /\ q.item = s.item
          /\ q.code = s.code /\ q.running = s.running /\ q.flags = s.flags
      BY <3>1, <2>2, <2>5 DEF Structures
    <3>3. md[x] = q
      BY <3>1, <2>8
    <3> QED
      BY <2>1, <3>2, <3>3
  <2> QED
    BY <2>6, <2>7, <2>8
<1>2. DOMAIN md = Modules /\ md = [x \in Modules |-> md[x]]
  BY DEF Unlisted
<1> HIDE DEF md
<1>3. md \in [Modules -> Structures]
  BY <1>1, <1>2
<1>4. \A x \in Modules \ {m} :
        /\ md[x].opens = mod[x].opens /\ md[x].opencalls = mod[x].opencalls
        /\ md[x].saved = mod[x].saved /\ md[x].item = mod[x].item
        /\ md[x].code = mod[x].code /\ md[x].running = mod[x].running
        /\ md[x].flags = mod[x].flags
  BY <1>1
<1>5. /\ md[m].opens = r.opens /\ md[m].opencalls = r.opencalls
      /\ md[m].saved = r.saved /\ md[m].item = r.item
      /\ md[m].code = r.code /\ md[m].running = r.running /\ md[m].flags = r.flags
  BY <1>1
<1> QED
  BY <1>3, <1>4, <1>5 DEF md

\* The unloader destroys the item of its module or saves it, and the library is closed.
LEMMA CallUnloaderLInv ==
  ASSUME LInv, CallUnloader
  PROVE  LInv'
<1> DEFINE t == Tail(stack)
           m == Top.of
           o == mod[m]
           saves == o.code /\ ItemsOf(m) # {} /\ Saves(m)
           destroys == o.code /\ ItemsOf(m) # {} /\ ~Saves(m)
           q == Close([o EXCEPT !.running = FALSE, !.opencalls = 0,
                                !.item = IF saves THEN @ ELSE "null",
                                !.saved = IF saves THEN <<o.item>> \o @ ELSE @], o.opencalls)
<1>1. LoaderTypes /\ ModulesOK /\ DataOK /\ stack # <<>> /\ Top.at = "call"
  BY DEF LInv, CallUnloader, At
<1>2. Top \in Frames /\ t \in Seq(Frames) /\ m \in Modules /\ stack \in Seq(Frames)
  BY <1>1, Tops DEF LoaderTypes
<1>3. /\ Unloads(t) /\ Goes(t) /\ up
      /\ ~Some(t, NeedsOf(m)) /\ ~Some(stack, NeedsOf(m)) /\ ~Some(stack, OpenOf(m))
  BY <1>1, Unloading DEF UnloadPlaces
<1>4. /\ UNCHANGED <<list, reloads, file, up, given>> /\ Unloader(m) /\ Return(TRUE)
      /\ mod' = Unlisted(m, q) /\ entry' = Left(Unhooked(m), m, o.opencalls)
  BY DEF CallUnloader
<1>5. stack' = t /\ stack' \in Seq(Frames) /\ ret' \in BOOLEAN
  BY <1>1, <1>4, Returned
<1>6. entry' \in [DOMAIN Tables -> {"none", "good", "stale"}]
  BY <1>1, <1>4 DEF LoaderTypes, Left, Unhooked
<1>7. /\ o \in Structures /\ o.flags \subseteq Flags /\ o.opens \in Nat /\ o.opencalls \in Nat
      /\ o.saved \in Seq({"null", "item"}) /\ o.item \in {"null", "item"}
      /\ o.code \in BOOLEAN /\ o.running \in BOOLEAN /\ o = mod[m]
  BY <1>1, <1>2, ModFields
<1>8. m \notin given =>
        /\ o.running /\ o.opens > 0 /\ "loaded" \notin o.flags
        /\ Once(t, NeedsOf(m)) /\ Once(t, DropOf(m)) /\ ~Some(t, DropOf(m))
        /\ ItemOK(m, o)
  <2>1. SUFFICES ASSUME m \notin given
                 PROVE  /\ o.running /\ o.opens > 0 /\ "loaded" \notin o.flags
                        /\ Once(t, NeedsOf(m)) /\ Once(t, DropOf(m)) /\ ~Some(t, DropOf(m))
                        /\ ItemOK(m, o)
    OBVIOUS
  <2>2. FlagsOK(stack, m, o) /\ ItemOK(m, o)
    BY <1>1, <1>2, <1>7, <2>1 DEF ModulesOK
  <2>3. /\ Some(stack, DropOf(m))
        /\ Once(stack, NeedsOf(m)) <=> Once(t, NeedsOf(m))
        /\ Once(stack, DropOf(m)) <=> Once(t, DropOf(m)) /\ ~Some(t, DropOf(m))
    BY <1>1, TopKinds
  <2> QED
    BY <2>2, <2>3 DEF FlagsOK
<1> HIDE DEF o
<1>9. /\ q \in Structures /\ ~q.running /\ q.opencalls = 0 /\ q.flags = o.flags
      /\ q.saved = (IF saves THEN <<o.item>> \o o.saved ELSE o.saved)
      /\ o.opens <= o.opencalls => q.opens = 0 /\ q.item = "null"
  <2>1. PICK it, sv : /\ it = IF saves THEN o.item ELSE "null"
                      /\ sv = IF saves THEN <<o.item>> \o o.saved ELSE o.saved
    OBVIOUS
  <2>2. it \in {"null", "item"} /\ sv \in Seq({"null", "item"})
    <3>1. \A e \in {"null", "item"}, s \in Seq({"null", "item"}) : <<e>> \o s \in Seq({"null", "item"})
      OBVIOUS
    <3>2. <<o.item>> \o o.saved \in Seq({"null", "item"})
      BY <3>1, <1>7
    <3> HIDE DEF saves
    <3> QED
      BY <3>2, <1>7, <2>1
  <2>3. PICK p : p = [o EXCEPT !.running = FALSE, !.opencalls = 0, !.item = it, !.saved = sv]
    OBVIOUS
  <2>4. /\ p \in Structures /\ ~p.running /\ p.opencalls = 0 /\ p.flags = o.flags /\ p.saved = sv
        /\ p.opens = o.opens
    BY <1>7, <2>2, <2>3 DEF Structures
  <2>5. q = Close(p, o.opencalls)
    BY <2>1, <2>3
  <2> HIDE DEF q, saves
  <2>6. CASE o.opens > o.opencalls
    <3>1. PICK n \in Nat : n = o.opens - o.opencalls
      BY <2>6, <1>7
    <3>2. q = [p EXCEPT !.opens = n]
      BY <2>4, <2>5, <2>6, <3>1 DEF Close
    <3>3. /\ q \in Structures /\ q.running = p.running /\ q.opencalls = p.opencalls /\ q.flags = p.flags
          /\ q.saved = p.saved
      BY <2>4, <3>2 DEF Structures
    <3> QED
      BY <2>1, <2>4, <2>6, <3>3, <1>7
  <2>7. CASE ~(o.opens > o.opencalls)
    <3>1. q = [p EXCEPT !.opens = 0, !.item = "null"]
      BY <2>4, <2>5, <2>7 DEF Close
    <3>2. /\ q \in Structures /\ q.running = p.running /\ q.opencalls = p.opencalls /\ q.flags = p.flags
          /\ q.saved = p.saved /\ q.opens = 0 /\ q.item = "null"
      BY <2>4, <3>1 DEF Structures
    <3> QED
      BY <2>1, <2>4, <3>2
  <2> QED
    BY <2>6, <2>7
<1> HIDE DEF q
<1>10. /\ mod' \in [Modules -> Structures]
       /\ \A x \in Modules \ {m} :
            /\ mod'[x].opens = mod[x].opens /\ mod'[x].opencalls = mod[x].opencalls
            /\ mod'[x].saved = mod[x].saved /\ mod'[x].item = mod[x].item
            /\ mod'[x].code = mod[x].code /\ mod'[x].running = mod[x].running
            /\ mod'[x].flags = mod[x].flags
       /\ mod'[m].opens = q.opens /\ mod'[m].opencalls = q.opencalls
       /\ mod'[m].saved = q.saved /\ mod'[m].item = q.item
       /\ mod'[m].code = q.code /\ mod'[m].running = q.running /\ mod'[m].flags = q.flags
  BY <1>1, <1>2, <1>4, <1>9, UnlistedKeeps, ZenonT(60)
<1>11. /\ DOMAIN items' \subseteq Items
       /\ \A i \in Items \ ItemsOf(m) : i \in DOMAIN items' <=> i \in DOMAIN items
       /\ m \notin given /\ destroys => \A i \in ItemsOf(m) : i \notin DOMAIN items'
       /\ ~destroys => DOMAIN items' = DOMAIN items
  <2>1. CASE UNCHANGED vars /\ (destroys => m \in given)
    BY <1>1, <2>1 DEF vars, LoaderTypes
  <2>2. ASSUME destroys, NEW i \in ItemsOf(m), DestroyItem(i)
        PROVE  /\ DOMAIN items' \subseteq Items
               /\ \A j \in Items \ ItemsOf(m) : j \in DOMAIN items' <=> j \in DOMAIN items
               /\ \A j \in ItemsOf(m) : j \notin DOMAIN items'
    <3>1. DOMAIN items' = DOMAIN items \ {i}
      BY <2>2 DEF DestroyItem, MovedDown
    <3>2. \A j \in ItemsOf(m) : j = i
      BY <2>2, LoaderAssumption DEF ItemsOf
    <3> QED
      BY <3>1, <3>2, <1>1 DEF LoaderTypes
  <2>3. \/ UNCHANGED vars /\ (destroys => m \in given)
        \/ destroys /\ \E i \in ItemsOf(m) : DestroyItem(i)
    <3>1. m \notin given => o.opens > 0 /\ (ItemsOf(m) # {} => o.item = "item")
      BY <1>8 DEF ItemOK
    <3> QED
      BY <3>1, <1>4, <1>7 DEF Unloader
  <2> QED
    BY <2>1, <2>2, <2>3
<1>12. LoaderTypes'
  BY <1>1, <1>4, <1>5, <1>6, <1>10, <1>11 DEF LoaderTypes
<1>13. Exiting => Exiting'
  BY <1>1, <1>4, <1>5, StillExiting DEF UnloadPlaces
<1>14. \A x \in Modules \ {m} : \A r : FlagsOK(stack, x, r) => FlagsOK(stack', x, r)
  BY <1>1, <1>2, <1>5, TopUnmoved
<1>15. ASSUME m \notin given
       PROVE  /\ FlagsOK(stack', m, mod'[m]) /\ ItemOK(m, mod'[m])
              /\ mod'[m].item = "null" /\ (saves <=> mod'[m].saved # <<>>)
              /\ o.code /\ (ItemsOf(m) # {} => o.item = "item") /\ o.saved = <<>>
  <2>1. /\ o.code /\ o.saved = <<>> /\ o.opens <= o.opencalls
        /\ o.item = IF ItemsOf(m) = {} THEN "null" ELSE "item"
    BY <1>8, <1>15 DEF ItemOK
  <2>2. q.opens = 0 /\ q.item = "null" /\ q.saved = (IF saves THEN <<"item">> ELSE <<>>)
    <3>1. saves => o.item = "item" /\ <<"item">> \o <<>> = <<"item">>
      BY <2>1
    <3> HIDE DEF saves
    <3> QED
      BY <3>1, <2>1, <1>9
  <2>3. FlagsOK(t, m, mod'[m])
    BY <2>2, <1>3, <1>8, <1>9, <1>10, <1>15 DEF FlagsOK
  <2>4. mod'[m].saved \in Seq({"item"}) /\ (saves <=> mod'[m].saved # <<>>)
    <3> HIDE DEF saves
    <3>1. <<"item">> \in Seq({"item"}) /\ <<>> \in Seq({"item"}) /\ <<"item">> # <<>>
      OBVIOUS
    <3> QED
      BY <3>1, <2>2, <1>10
  <2>5. ItemOK(m, mod'[m])
    BY <2>2, <2>4, <1>9, <1>10 DEF ItemOK
  <2> QED
    BY <2>1, <2>2, <2>3, <2>4, <2>5, <1>5, <1>10
<1>16. \A i \in ItemsOf(m) :
         \/ m \in given \/ (Exiting' /\ m \notin ToSet(list))
         \/ i \in DOMAIN items' <=> mod'[m].item = "item" \/ mod'[m].saved # <<>>
  <2> SUFFICES ASSUME NEW i \in ItemsOf(m), m \notin given, ~(Exiting' /\ m \notin ToSet(list))
               PROVE  i \in DOMAIN items' <=> mod'[m].item = "item" \/ mod'[m].saved # <<>>
    OBVIOUS
  <2>1. i \in DOMAIN items <=> o.item = "item" \/ o.saved # <<>>
    BY <1>1, <1>7, <1>13 DEF DataOK, ItemKept, ItemsOf, Known
  <2>2. CASE saves
    BY <2>1, <2>2, <1>11, <1>15
  <2>3. CASE ~saves
    BY <2>3, <1>11, <1>15
  <2> QED
    BY <2>2, <2>3
<1>17. ModulesOK' /\ DataOK'
  BY <1>2, <1>4, <1>10, <1>11, <1>13, <1>14, <1>15, <1>16, OneMoved
<1> QED
  BY <1>3, <1>4, <1>5, <1>12, <1>17 DEF LInv, StackOK

-----------------------------------------------------------------------------
(* What calls them.                                                        *)

\* A call that says nothing of a module returns.
LEMMA ReturnKeeps ==
  ASSUME LInv, stack # <<>>, Top.at \in Callers, stack' = Tail(stack), ret' \in BOOLEAN,
         UNCHANGED <<list, mod, reloads, file, given, items>>,
         entry' \in [DOMAIN Tables -> {"none", "good", "stale"}],
         up' \in BOOLEAN, up' \/ ~up \/ list = <<>>, Exiting => Exiting'
  PROVE  LInv'
<1>1. LoaderTypes /\ Tail(stack) = <<>>
  BY Calling DEF LInv
<1>2. LoaderTypes'
  BY <1>1, Empty DEF LoaderTypes
<1>3. \A x \in Modules : \A r : FlagsOK(stack, x, r) => FlagsOK(stack', x, r)
  BY <1>1, TopUnmoved DEF Callers
<1>4. ModulesOK' /\ DataOK'
  BY <1>3, Kept DEF Known
<1> QED
  BY <1>1, <1>2, <1>4, Empty DEF LInv, StackOK

\* One of the main loop's calls goes on, or calls load_module or unload_module.
LEMMA CallerKeeps ==
  ASSUME LInv, stack # <<>>, Top.at \in Callers \ {"exit"}, ret' = ret,
         UNCHANGED <<list, mod, entry, reloads, file, up, given, items>>,
         NEW g \in Frames, g.at \in Callers \ {"exit"}, g.at = "again" => g.todo # <<>>,
         \/ stack' = <<g>> \o Tail(stack)
         \/ \E f \in Frames : f.at \in {"load", "unload"} /\ stack' = <<f, g>> \o Tail(stack)
  PROVE  LInv'
<1>1. LoaderTypes /\ Tail(stack) = <<>> /\ up
  BY Calling DEF LInv
<1> DEFINE t == Tail(stack)
<1>2. /\ t \in Seq(Frames) /\ <<g>> \o t \in Seq(Frames)
      /\ Loads(<<g>> \o t) /\ Unloads(<<g>> \o t) /\ Goes(<<g>> \o t)
  <2>1. t \in Seq(Frames) /\ Loads(t) /\ Unloads(t) /\ Goes(t)
    BY <1>1, Empty
  <2>2. <<g>> \o t \in Seq(Frames)
    BY <2>1, Two
  <2> QED
    BY <2>1, <2>2, <1>1, PushedShape DEF Callers
<1>3. \A x \in Modules : \A r : FlagsOK(stack, x, r) => FlagsOK(<<g>> \o t, x, r)
  BY <1>1, <1>2, TopUnmoved, Unmoved DEF Callers
<1>4. /\ stack' \in Seq(Frames) /\ StackOK(stack')
      /\ \A x \in Modules : \A r : FlagsOK(stack, x, r) => FlagsOK(stack', x, r)
      /\ Exiting => Exiting'
  <2>1. ~Exiting
    <3>1. stack \in Seq(Frames) /\ ~Some(Tail(stack), Exits)
      BY <1>1, Empty DEF LoaderTypes
    <3>2. ~Some(stack, Exits)
      BY <3>1, TopCalls DEF Exits, Callers
    <3> QED
      BY <3>2, <1>1 DEF Exiting
  <2>2. CASE stack' = <<g>> \o Tail(stack)
    BY <2>1, <2>2, <1>1, <1>2, <1>3 DEF StackOK
  <2>3. ASSUME NEW f \in Frames, f.at \in {"load", "unload"}, stack' = <<f, g>> \o Tail(stack)
        PROVE  /\ stack' \in Seq(Frames) /\ StackOK(stack')
               /\ \A x \in Modules : \A r : FlagsOK(stack, x, r) => FlagsOK(stack', x, r)
    <3>1. /\ stack' = <<f>> \o (<<g>> \o t) /\ stack' \in Seq(Frames)
          /\ <<g>> \o t \in Seq(Frames)
      BY <2>3, <1>2, Two
    <3>2. (Loads(stack') \/ Unloads(stack')) /\ Goes(stack')
      <4>1. PICK s \in Seq(Frames) : s = <<g>> \o t
        BY <1>2
      <4>2. Loads(s) /\ Unloads(s) /\ Goes(s) /\ stack' = <<f>> \o s
        BY <4>1, <1>2, <3>1
      <4>3. /\ f.at = "load" => Loads(<<f>> \o s)
            /\ f.at = "unload" => Unloads(<<f>> \o s)
            /\ Goes(<<f>> \o s)
        BY <2>3, <4>2, PushedShape DEF LoadPlaces, UnloadPlaces
      <4> QED
        BY <2>3, <4>2, <4>3
    <3>3. \A x \in Modules : \A r : FlagsOK(<<f>> \o (<<g>> \o t), x, r) <=> FlagsOK(<<g>> \o t, x, r)
      BY <2>3, <3>1, Unmoved
    <3> QED
      BY <3>1, <3>2, <3>3, <1>3 DEF StackOK
  <2> QED
    BY <2>1, <2>2, <2>3
<1>5. LoaderTypes'
  BY <1>1, <1>4 DEF LoaderTypes
<1>6. ModulesOK' /\ DataOK'
  BY <1>4, Kept DEF Known
<1> QED
  BY <1>1, <1>4, <1>5, <1>6 DEF LInv

\* The modules of the configuration are loaded, one after another.
LEMMA ConfNextLInv ==
  ASSUME LInv, ConfNext
  PROVE  LInv'
<1> DEFINE m == Head(Top.todo)
           f == Frame("load", m, mod[m].flags, <<>>)
<1>1. LoaderTypes /\ stack # <<>> /\ Top.at = "conf" /\ Top.todo \in Seq(Modules)
      /\ UNCHANGED <<list, mod, entry, reloads, file, up, given, items>>
  BY Tops DEF LInv, ConfNext, At, LoaderTypes, vars
<1>2. CASE Top.todo = <<>>
  <2>1. stack' = Tail(stack) /\ ret' \in BOOLEAN
    BY <1>1, <1>2, Returned DEF ConfNext
  <2>2. up /\ (Exiting => Exiting')
    <3>1. stack \in Seq(Frames) /\ Tail(stack) = <<>> /\ up
      BY <1>1, Calling DEF Callers, LoaderTypes
    <3>2. ~Some(stack, Exits)
      BY <1>1, <3>1, TopCalls, Empty DEF Exits
    <3> QED
      BY <3>1, <3>2 DEF Exiting
  <2> QED
    BY <1>1, <2>1, <2>2, ReturnKeeps DEF Callers, LoaderTypes
<1>3. CASE Top.todo # <<>>
  <2>1. m \in Modules /\ Tail(Top.todo) \in Seq(Modules) /\ "conf" \in Places
    BY <1>1, <1>3, HeadTail DEF Places
  <2>2. f \in Frames /\ f.at = "load"
    BY <1>1, <2>1, ModFields DEF Frame, Frames, Places
  <2>3. PICK g \in Frames : /\ g = [Top EXCEPT !.at = "conf", !.todo = Tail(Top.todo)]
                            /\ g.at = "conf" /\ g.todo = Tail(Top.todo) /\ g.of = Top.of
    BY <1>1, <2>1, GoesOn, ZenonT(60)
  <2>4. stack' = <<g>> \o Tail(stack) \/ stack' = <<f, g>> \o Tail(stack)
    BY <1>3, <2>3 DEF ConfNext, Goto, Call
  <2>5. ret' = ret
    BY <1>3 DEF ConfNext, Goto, Call
  <2> HIDE DEF f
  <2>6. g.at = "conf"
    BY <2>3
  <2> QED
    BY <1>1, <2>2, <2>4, <2>5, <2>6, CallerKeeps DEF Callers
<1> QED
  BY <1>2, <1>3

\* The pointers of a protocol are fetched from a library that is open.
LEMMA ProtocolLInv ==
  ASSUME LInv, Protocol
  PROVE  LInv'
<1>1. /\ LoaderTypes /\ stack # <<>> /\ Top.at = "protocol"
      /\ UNCHANGED <<list, mod, reloads, file, up, given, items>>
  BY DEF LInv, Protocol, At, vars
<1>2. ret \in BOOLEAN /\ entry' \in [DOMAIN Tables -> {"none", "good", "stale"}]
  BY <1>1 DEF Protocol, LoaderTypes
<1>3. stack' = Tail(stack) /\ ret' \in BOOLEAN
  BY <1>1, <1>2, Returned DEF Protocol
<1>4. up /\ (Exiting => Exiting')
  <2>1. stack \in Seq(Frames) /\ Tail(stack) = <<>> /\ up
    BY <1>1, Calling DEF Callers, LoaderTypes
  <2>2. ~Some(stack, Exits)
    BY <1>1, <2>1, TopCalls, Empty DEF Exits
  <2> QED
    BY <2>1, <2>2 DEF Exiting
<1> QED
  BY <1>1, <1>2, <1>3, <1>4, ReturnKeeps DEF Callers, LoaderTypes

\* The modules that are to be reloaded are unloaded, those that can be, and loaded again.
LEMMA ReloadNextLInv ==
  ASSUME LInv, ReloadNext
  PROVE  LInv'
<1> DEFINE m == Head(Top.todo)
           f == Frame("unload", m, {}, <<>>)
<1>1. LoaderTypes /\ stack # <<>> /\ Top.at = "walk" /\ Top.todo \in Seq(Modules)
      /\ UNCHANGED <<list, mod, entry, reloads, file, up, given, items>>
  BY Tops DEF LInv, ReloadNext, At, LoaderTypes, vars
<1>2. CASE Top.todo = <<>>
  <2>1. stack' = Tail(stack) /\ ret' \in BOOLEAN
    BY <1>1, <1>2, Returned DEF ReloadNext
  <2>2. up /\ (Exiting => Exiting')
    <3>1. stack \in Seq(Frames) /\ Tail(stack) = <<>> /\ up
      BY <1>1, Calling DEF Callers, LoaderTypes
    <3>2. ~Some(stack, Exits)
      BY <1>1, <3>1, TopCalls, Empty DEF Exits
    <3> QED
      BY <3>1, <3>2 DEF Exiting
  <2> QED
    BY <1>1, <2>1, <2>2, ReturnKeeps DEF Callers, LoaderTypes
<1>3. CASE Top.todo # <<>>
  <2>1. m \in Modules /\ Tail(Top.todo) \in Seq(Modules) /\ "walk" \in Places /\ "again" \in Places
    <3>1. m \in Modules /\ Tail(Top.todo) \in Seq(Modules)
      BY <1>1, <1>3, HeadTail
    <3> QED
      BY <3>1 DEF Places
  <2>2. f \in Frames /\ f.at = "unload"
    BY <2>1 DEF Frame, Frames, Places
  <2>3. PICK g \in Frames : /\ g = [Top EXCEPT !.at = "walk", !.todo = Tail(Top.todo)]
                            /\ g.at = "walk" /\ g.todo = Tail(Top.todo) /\ g.of = Top.of
    BY <1>1, <2>1, GoesOn, ZenonT(60)
  <2>4. PICK h \in Frames : /\ h = [Top EXCEPT !.at = "again", !.todo = Top.todo]
                            /\ h.at = "again" /\ h.todo = Top.todo /\ h.of = Top.of
    BY <1>1, <2>1, GoesOn, ZenonT(60)
  <2>5. \/ stack' = <<g>> \o Tail(stack)
        \/ stack' = <<h>> \o Tail(stack) \/ stack' = <<f, h>> \o Tail(stack)
    BY <1>3, <2>3, <2>4 DEF ReloadNext, Goto, Call
  <2>6. ret' = ret
    BY <1>3 DEF ReloadNext, Goto, Call
  <2> HIDE DEF f
  <2>7. g.at = "walk" /\ h.at = "again" /\ h.todo # <<>>
    BY <1>3, <2>3, <2>4
  <2>8. CASE stack' = <<g>> \o Tail(stack)
    BY <2>8, <1>1, <2>6, <2>7, CallerKeeps DEF Callers
  <2>9. CASE stack' = <<h>> \o Tail(stack) \/ stack' = <<f, h>> \o Tail(stack)
    BY <2>9, <1>1, <2>2, <2>6, <2>7, CallerKeeps DEF Callers
  <2> QED
    BY <2>5, <2>8, <2>9
<1> QED
  BY <1>2, <1>3

\* A module that was unloaded for its reload is loaded again.
LEMMA LoadAgainLInv ==
  ASSUME LInv, LoadAgain
  PROVE  LInv'
<1> DEFINE m == Head(Top.todo)
           f == Frame("load", m, mod[m].flags, <<>>)
<1>1. LoaderTypes /\ stack # <<>> /\ Top.at = "again" /\ Top.todo \in Seq(Modules)
      /\ UNCHANGED <<list, mod, entry, reloads, file, up, given, items>>
  BY Tops DEF LInv, LoadAgain, At, LoaderTypes, vars
<1>2. Top.todo # <<>>
  BY <1>1, TopCalls DEF LInv, StackOK, LoaderTypes
<1>3. m \in Modules /\ Tail(Top.todo) \in Seq(Modules) /\ "walk" \in Places
  <2>1. m \in Modules /\ Tail(Top.todo) \in Seq(Modules)
    BY <1>1, <1>2, HeadTail
  <2> QED
    BY <2>1 DEF Places
<1>4. f \in Frames /\ f.at = "load"
  <2>1. mod[m].flags \in SUBSET Flags
    BY <1>1, <1>3, ModFields
  <2> QED
    BY <1>3, <2>1 DEF Frame, Frames, Places
<1>5. PICK g \in Frames : /\ g = [Top EXCEPT !.at = "walk", !.todo = Tail(Top.todo)]
                          /\ g.at = "walk" /\ g.todo = Tail(Top.todo) /\ g.of = Top.of
  BY <1>1, <1>3, GoesOn, ZenonT(60)
<1>6. stack' = <<f, g>> \o Tail(stack) /\ ret' = ret
  BY <1>5 DEF LoadAgain, Call
<1> HIDE DEF f
<1>7. g.at = "walk"
  BY <1>5
<1> QED
  BY <1>1, <1>4, <1>6, <1>7, CallerKeeps DEF Callers

\* The exit unloads the first module and then destroys its structure.
LEMMA ExitNextLInv ==
  ASSUME LInv, ExitNext
  PROVE  LInv'
<1>1. LoaderTypes /\ stack # <<>> /\ Top.at = "exit" /\ stack \in Seq(Frames)
      /\ UNCHANGED <<list, mod, entry, reloads, file, given, items>>
  BY DEF LInv, ExitNext, At, LoaderTypes, vars
<1>2. Tail(stack) = <<>> /\ Len(stack) = 1 /\ stack[1] = Top /\ up /\ Top \in Frames
  BY <1>1, Calling, Tops DEF Callers
<1>3. Exiting /\ Some(stack, Exits)
  BY <1>1, <1>2 DEF Exiting, Some, Exits
<1>4. CASE list = <<>>
  <2>1. ~up' /\ up' \in BOOLEAN
    BY <1>4 DEF ExitNext
  <2>2. stack' = Tail(stack) /\ ret' \in BOOLEAN
    BY <1>1, <1>4, Returned DEF ExitNext
  <2> QED
    BY <1>1, <1>4, <2>1, <2>2, ReturnKeeps DEF Callers, LoaderTypes, Exiting
<1>5. CASE list # <<>>
  <2>1. PICK f, g : f = Frame("unload", Head(list), {}, <<>>) /\ g = Frame("destroy", Head(list), {}, <<>>)
    OBVIOUS
  <2>2. f \in Frames /\ g \in Frames /\ f.at = "unload" /\ g.at = "destroy"
    <3>1. Head(list) \in Modules
      BY <1>1, <1>5 DEF LoaderTypes
    <3> QED
      BY <2>1, <3>1 DEF Frame, Frames, Places
  <2>3. stack' = <<f, g>> \o stack /\ ret' = ret /\ up'
    BY <1>5, <2>1 DEF ExitNext
  <2>4. /\ stack' = <<f>> \o (<<g>> \o stack) /\ stack' \in Seq(Frames) /\ <<g>> \o stack \in Seq(Frames)
    BY <1>1, <2>2, <2>3, Two
  <2>5. Unloads(stack) /\ Goes(stack)
    BY <1>1, <1>2, TopCalls, Empty DEF Callers
  <2>6. Unloads(<<g>> \o stack) /\ Goes(<<g>> \o stack)
    BY <1>1, <1>2, <2>2, <2>5, PushedShape
  <2>7. Unloads(stack') /\ Goes(stack')
    BY <2>2, <2>4, <2>6, PushedShape DEF UnloadPlaces
  <2>8. \A x \in Modules : \A r : FlagsOK(stack, x, r) => FlagsOK(stack', x, r)
    BY <1>1, <2>2, <2>4, Unmoved
  <2>9. Some(<<g>> \o stack, Exits) /\ Some(<<f>> \o (<<g>> \o stack), Exits)
    BY <1>1, <1>3, <2>2, <2>4, PushedCalls
  <2>10. Exiting'
    BY <2>4, <2>9 DEF Exiting
  <2>11. LoaderTypes'
    BY <1>1, <2>3, <2>4 DEF LoaderTypes
  <2>12. ModulesOK' /\ DataOK'
    BY <1>1, <2>8, <2>10, Kept DEF Known
  <2> QED
    BY <2>3, <2>7, <2>11, <2>12 DEF LInv, StackOK
<1> QED
  BY <1>4, <1>5

\* Of a module that is destroyed nothing is left.
LEMMA DestroyModuleLInv ==
  ASSUME LInv, DestroyModule
  PROVE  LInv'
<1> DEFINE t == Tail(stack)
           m == Top.of
<1>1. /\ LoaderTypes /\ ModulesOK /\ DataOK /\ stack # <<>> /\ Top.at = "destroy"
      /\ stack \in Seq(Frames)
  BY DEF LInv, DestroyModule, At, LoaderTypes
<1>2. Top \in Frames /\ t \in Seq(Frames) /\ m \in Modules
  BY <1>1, Tops
<1>3. Unloads(t) /\ Goes(t) /\ Len(t) = 1 /\ t[1].at = "exit" /\ up
  BY <1>1, TopCalls DEF LInv, StackOK, LoadPlaces, UnloadPlaces, Callers
<1>4. /\ UNCHANGED <<entry, reloads, file, up, given, items>> /\ Return(TRUE)
      /\ list' = Without(list, {m}) /\ mod' = [mod EXCEPT ![m] = Fresh]
  BY DEF DestroyModule, vars
<1>5. stack' = t /\ stack' \in Seq(Frames) /\ ret' \in BOOLEAN
  BY <1>1, <1>4, Returned
<1>6. list' \in Seq(Modules) /\ \A x : Known(x)' <=> Known(x) /\ x # m
  BY <1>1, <1>4, WithoutProperties DEF LoaderTypes, Known
<1>7. /\ Fresh \in Structures /\ "loaded" \notin Fresh.flags /\ Fresh.opens = 0
      /\ Fresh.opencalls = 0 /\ Fresh.saved = <<>> /\ Fresh.item = "null" /\ ~Fresh.running
  BY DEF Fresh, Structures, Flags
<1>8. mod' \in [Modules -> Structures] /\ mod'[m] = Fresh /\ \A x \in Modules \ {m} : mod'[x] = mod[x]
  <2>1. PICK q : q = Fresh
    OBVIOUS
  <2> QED
    BY <2>1, <1>1, <1>2, <1>4, <1>7 DEF LoaderTypes
<1>9. LoaderTypes'
  BY <1>1, <1>4, <1>5, <1>6, <1>8 DEF LoaderTypes
<1>10. t[1] \in Frames /\ DOMAIN t = {1}
  <2>1. PICK s \in Seq(Frames) : s = t
    BY <1>2
  <2>2. Len(s) = 1
    BY <2>1, <1>3
  <2>3. s[1] \in Frames
    BY <2>2
  <2>4. DOMAIN s = 1..1
    BY <2>2
  <2> QED
    BY <2>1, <2>3, <2>4
<1>11. Exiting'
  BY <1>3, <1>5, <1>10 DEF Exiting, Some, Exits
<1>12. ASSUME NEW x \in Modules \ given'
       PROVE  FlagsOK(stack', x, mod'[x]) /\ ItemOK(x, mod'[x])
  <2>1. CASE x = m
    <3>1. ~Some(t, NeedsOf(m)) /\ ~Some(t, OpenOf(m)) /\ ~Some(t, DropOf(m))
      BY <1>3, <1>10 DEF Some, NeedsOf, OpenOf, DropOf
    <3>2. Once(t, NeedsOf(m)) /\ Once(t, DropOf(m))
      BY <1>10 DEF Once
    <3>3. FlagsOK(t, m, Fresh)
      BY <3>1, <3>2, <1>7 DEF FlagsOK
    <3>4. ItemOK(m, Fresh)
      BY <1>7 DEF ItemOK
    <3> QED
      BY <2>1, <3>3, <3>4, <1>5, <1>8
  <2>2. CASE x # m
    <3>1. FlagsOK(stack, x, mod[x]) /\ ItemOK(x, mod[x])
      BY <1>1, <1>4, <1>12 DEF ModulesOK
    <3>2. FlagsOK(t, x, mod[x])
      BY <1>1, <3>1, TopUnmoved
    <3> QED
      BY <2>2, <3>1, <3>2, <1>5, <1>8, <1>12
  <2> QED
    BY <2>1, <2>2
<1>13. ASSUME NEW i \in Items
       PROVE  ItemKept(i)'
  <2>1. Owner[i] \in Modules /\ ItemKept(i)
    BY <1>1, <1>13, LoaderAssumption DEF DataOK
  <2>2. CASE Owner[i] = m
    BY <2>2, <1>6, <1>11 DEF ItemKept
  <2>3. CASE Owner[i] # m
    BY <2>1, <2>3, <1>4, <1>6, <1>8, <1>11 DEF ItemKept
  <2> QED
    BY <2>2, <2>3
<1> QED
  BY <1>3, <1>4, <1>5, <1>9, <1>12, <1>13 DEF LInv, ModulesOK, DataOK, StackOK

\* The first call of the main loop, and two at once.
LEMMA Begun ==
  ASSUME NEW f \in Frames
  PROVE  /\ f.at \in {"load", "unload", "conf", "walk", "exit"} =>
              /\ <<f>> \in Seq(Frames) /\ StackOK(<<f>>)
              /\ \A x, r : FlagsOK(<<>>, x, r) => FlagsOK(<<f>>, x, r)
         /\ \A g \in Frames : f.at = "load" /\ g.at = "protocol" =>
              /\ <<f, g>> \in Seq(Frames) /\ StackOK(<<f, g>>)
              /\ \A x, r : FlagsOK(<<>>, x, r) => FlagsOK(<<f, g>>, x, r)
<1>1. PICK t : t = <<>>
  OBVIOUS
<1>2. t \in Seq(Frames) /\ Loads(t) /\ Unloads(t) /\ Goes(t)
  BY <1>1, Empty
<1>3. \A h \in Frames : <<h>> \o t = <<h>> /\ <<h>> \in Seq(Frames)
  BY <1>1
<1>4. ASSUME f.at \in {"load", "unload", "conf", "walk", "exit"}
      PROVE  /\ <<f>> \in Seq(Frames) /\ StackOK(<<f>>)
             /\ \A x, r : FlagsOK(<<>>, x, r) => FlagsOK(<<f>>, x, r)
  <2>1. StackOK(<<f>> \o t)
    <3>1. Goes(<<f>> \o t)
      BY <1>2, <1>4, PushedShape
    <3>2. CASE f.at \in {"load", "conf", "walk"}
      BY <3>1, <3>2, <1>1, <1>2, PushedShape DEF StackOK, LoadPlaces, Callers
    <3>3. CASE f.at \in {"unload", "exit"}
      BY <3>1, <3>3, <1>1, <1>2, PushedShape DEF StackOK, UnloadPlaces, Callers
    <3> QED
      BY <3>2, <3>3, <1>4
  <2>2. \A x, r : FlagsOK(<<f>> \o t, x, r) <=> FlagsOK(t, x, r)
    BY <1>2, <1>4, Unmoved
  <2> QED
    BY <2>1, <2>2, <1>1, <1>3
<1>5. ASSUME NEW g \in Frames, f.at = "load", g.at = "protocol"
      PROVE  /\ <<f, g>> \in Seq(Frames) /\ StackOK(<<f, g>>)
             /\ \A x, r : FlagsOK(<<>>, x, r) => FlagsOK(<<f, g>>, x, r)
  <2>1. /\ <<f, g>> \o t = <<f>> \o (<<g>> \o t)
        /\ <<f, g>> \o t \in Seq(Frames) /\ <<g>> \o t \in Seq(Frames)
    BY <1>2, Two
  <2>2. <<f, g>> \o t = <<f, g>>
    BY <1>1
  <2>3. PICK s \in Seq(Frames) : s = <<g>> \o t
    BY <2>1
  <2>4. Loads(s) /\ Goes(s)
    BY <2>3, <1>1, <1>2, <1>5, PushedShape DEF Callers
  <2>5. Loads(<<f>> \o s) /\ Goes(<<f>> \o s)
    BY <2>4, <1>5, PushedShape DEF LoadPlaces
  <2>6. \A x, r : FlagsOK(s, x, r) <=> FlagsOK(t, x, r)
    BY <2>3, <1>2, <1>5, Unmoved
  <2>7. \A x, r : FlagsOK(<<f>> \o s, x, r) <=> FlagsOK(s, x, r)
    BY <1>5, Unmoved
  <2>8. <<f, g>> = <<f>> \o s
    BY <2>1, <2>2, <2>3
  <2>9. <<f, g>> \in Seq(Frames)
    BY <2>1, <2>2
  <2> QED
    BY <2>5, <2>6, <2>7, <2>8, <2>9, <1>1 DEF StackOK
<1> QED
  BY <1>4, <1>5

\* What the main loop does when nothing is in progress.
LEMMA IdleKeeps ==
  ASSUME LInv, Idle, UNCHANGED <<entry, up, given>>, DOMAIN items' = DOMAIN items,
         list' \in Seq(Modules), mod' \in [Modules -> Structures], ret' = ret,
         reloads' \in BOOLEAN, file' \in [Modules -> {"good", "missing", "broken", "refuses"}],
         \A x \in Modules :
           /\ mod'[x].opens = mod[x].opens /\ mod'[x].opencalls = mod[x].opencalls
           /\ mod'[x].saved = mod[x].saved /\ mod'[x].item = mod[x].item
           /\ mod'[x].code = mod[x].code /\ mod'[x].running = mod[x].running
           /\ "loaded" \in mod'[x].flags <=> "loaded" \in mod[x].flags,
         \/ stack' = <<>>
         \/ \E f \in Frames : stack' = <<f>> /\ f.at \in {"load", "unload", "conf", "walk", "exit"}
         \/ \E f, g \in Frames : stack' = <<f, g>> /\ f.at = "load" /\ g.at = "protocol"
  PROVE  LInv'
<1>1. LoaderTypes /\ stack = <<>> /\ up
  BY DEF LInv, Idle
<1>2. stack' \in Seq(Frames) /\ StackOK(stack') /\ \A x, r : FlagsOK(<<>>, x, r) => FlagsOK(stack', x, r)
  <2>1. CASE stack' = <<>>
    BY <2>1, Empty DEF StackOK
  <2>2. ASSUME NEW f \in Frames, stack' = <<f>>, f.at \in {"load", "unload", "conf", "walk", "exit"}
        PROVE  /\ stack' \in Seq(Frames) /\ StackOK(stack')
               /\ \A x, r : FlagsOK(<<>>, x, r) => FlagsOK(stack', x, r)
    BY <2>2, Begun
  <2>3. ASSUME NEW f \in Frames, NEW g \in Frames, stack' = <<f, g>>, f.at = "load", g.at = "protocol"
        PROVE  /\ stack' \in Seq(Frames) /\ StackOK(stack')
               /\ \A x, r : FlagsOK(<<>>, x, r) => FlagsOK(stack', x, r)
    BY <2>3, Begun
  <2> QED
    BY <2>1, <2>2, <2>3
<1>3. LoaderTypes'
  BY <1>1, <1>2 DEF LoaderTypes
<1>4. ~Exiting
  BY <1>1, Empty DEF Exiting
<1>5. \A x \in Modules : \A r : FlagsOK(stack, x, r) => FlagsOK(stack', x, r)
  BY <1>1, <1>2
<1>6. ModulesOK' /\ DataOK'
  BY <1>4, <1>5, Kept
<1> QED
  BY <1>1, <1>2, <1>3, <1>6 DEF LInv

\* The modules of the configuration that are there are listed.
LEMMA ConfigureLInv ==
  ASSUME LInv, Configure
  PROVE  LInv'
<1> DEFINE gone == ToSet(list) \cup {m \in Modules : file[m] = "missing"}
           new == Without(Conf, gone)
           here == ToSet(new) \cup ToSet(list)
<1>1. /\ LoaderTypes /\ Idle /\ UNCHANGED <<entry, reloads, file, up, given, items>>
      /\ list' = new \o list
      /\ mod' = [m \in Modules |->
           IF m \notin ToSet(Conf) \cap here THEN mod[m]
           ELSE [mod[m] EXCEPT !.flags = @ \cup {"autoload"} \cup
                                 (IF m \in Exported THEN {"depend"} ELSE {})]]
      /\ stack' = <<Frame("conf", Core, {}, new \o list)>> /\ ret' = ret
  BY DEF LInv, Configure, Begin, vars
<1>2. new \in Seq(Modules) /\ list \in Seq(Modules)
  BY <1>1, LoaderAssumption, WithoutProperties DEF LoaderTypes
<1>3. list' \in Seq(Modules)
  BY <1>1, <1>2
<1>4. Frame("conf", Core, {}, new \o list) \in Frames /\ Frame("conf", Core, {}, new \o list).at = "conf"
  <2> HIDE DEF new
  <2>1. PICK s \in Seq(Modules) : s = list'
    BY <1>3
  <2>2. Frame("conf", Core, {}, s) \in Frames /\ Frame("conf", Core, {}, s).at = "conf"
    BY LoaderAssumption DEF Frame, Frames, Places
  <2>3. s = new \o list
    BY <2>1, <1>1
  <2> QED
    BY <2>2, <2>3
<1>5. ASSUME NEW m \in Modules
      PROVE  /\ mod'[m] \in Structures
             /\ mod'[m].opens = mod[m].opens /\ mod'[m].opencalls = mod[m].opencalls
             /\ mod'[m].saved = mod[m].saved /\ mod'[m].item = mod[m].item
             /\ mod'[m].code = mod[m].code /\ mod'[m].running = mod[m].running
             /\ "loaded" \in mod'[m].flags <=> "loaded" \in mod[m].flags
  <2>1. PICK fl : fl = mod[m].flags \cup {"autoload"} \cup (IF m \in Exported THEN {"depend"} ELSE {})
    OBVIOUS
  <2>2. fl \in SUBSET Flags /\ ("loaded" \in fl <=> "loaded" \in mod[m].flags)
    BY <2>1, <1>1, ModFields DEF Flags
  <2>3. PICK q \in Structures :
          /\ q = [mod[m] EXCEPT !.flags = fl] /\ q.flags = fl
          /\ q.opens = mod[m].opens /\ q.opencalls = mod[m].opencalls /\ q.saved = mod[m].saved
          /\ q.item = mod[m].item /\ q.code = mod[m].code /\ q.running = mod[m].running
    BY <2>2, <1>1, Flagged
  <2>4. mod'[m] = mod[m] \/ mod'[m] = q
    <3> HIDE DEF here
    <3> QED
      BY <1>1, <1>5, <2>1, <2>3
  <2>5. mod[m] \in Structures
    BY <1>1 DEF LoaderTypes
  <2> QED
    BY <2>2, <2>3, <2>4, <2>5
<1>6. mod' \in [Modules -> Structures]
  <2>1. DOMAIN mod' = Modules /\ mod' = [m \in Modules |-> mod'[m]]
    BY <1>1
  <2> QED
    BY <2>1, <1>5
<1>7. reloads \in BOOLEAN /\ file \in [Modules -> {"good", "missing", "broken", "refuses"}]
  BY <1>1 DEF LoaderTypes
<1> HIDE DEF new
<1> QED
  BY <1>1, <1>3, <1>4, <1>5, <1>6, <1>7, IdleKeeps

\* The other beginnings: what an operator, the configuration or the main loop asks for.
LEMMA BeginningsLInv ==
  ASSUME LInv,
         \/ DoReloads \/ Exit \/ \E m \in Modules : Wanted(m) \/ OperUnload(m)
         \/ \E m \in DOMAIN Tables : AddProtocol(m)
  PROVE  LInv'
<1>1. LoaderTypes
  BY DEF LInv
<1>2. /\ mod \in [Modules -> Structures] /\ reloads \in BOOLEAN /\ list \in Seq(Modules)
      /\ file \in [Modules -> {"good", "missing", "broken", "refuses"}]
  BY <1>1 DEF LoaderTypes
<1>3. ASSUME Idle, UNCHANGED <<list, mod, entry, up, given, file, items, ret>>, reloads' \in BOOLEAN,
             \/ \E f \in Frames : stack' = <<f>> /\ f.at \in {"load", "unload", "conf", "walk", "exit"}
             \/ \E f, g \in Frames : stack' = <<f, g>> /\ f.at = "load" /\ g.at = "protocol"
      PROVE  LInv'
  BY <1>2, <1>3, IdleKeeps
<1>4. ASSUME NEW at \in {"load", "unload", "walk", "exit"}, NEW m \in Modules,
             NEW fl \in SUBSET Flags, NEW s \in Seq(Modules)
      PROVE  /\ Frame(at, m, fl, s) \in Frames /\ Frame(at, m, fl, s).at = at
             /\ Frame(at, m, {}, <<>>) \in Frames /\ Frame(at, m, {}, <<>>).at = at
             /\ Frame(at, m, fl, <<>>) \in Frames /\ Frame(at, m, fl, <<>>).at = at
  BY <1>4 DEF Frame, Frames, Places
<1>5. CASE DoReloads
  <2>1. /\ Idle /\ UNCHANGED <<list, mod, entry, up, given, file, items, ret>> /\ reloads' = FALSE
        /\ stack' = <<Frame("walk", Core, {}, list)>>
    BY <1>5 DEF DoReloads, Begin, vars
  <2>2. Frame("walk", Core, {}, list) \in Frames /\ Frame("walk", Core, {}, list).at = "walk"
    BY <1>2, LoaderAssumption DEF Frame, Frames, Places
  <2> QED
    BY <1>3, <2>1, <2>2
<1>6. CASE Exit
  <2>1. /\ Idle /\ UNCHANGED <<list, mod, entry, up, given, file, items, ret, reloads>>
        /\ stack' = <<Frame("exit", Core, {}, <<>>)>>
    BY <1>6 DEF Exit, Begin, vars
  <2>2. Frame("exit", Core, {}, <<>>) \in Frames /\ Frame("exit", Core, {}, <<>>).at = "exit"
    BY <1>2, <1>4, LoaderAssumption
  <2> QED
    BY <1>2, <1>3, <2>1, <2>2
<1>7. ASSUME NEW m \in Modules, Wanted(m)
      PROVE  LInv'
  <2>1. PICK fl \in SUBSET Flags :
          /\ Idle /\ UNCHANGED <<list, mod, entry, up, given, file, items, ret, reloads>>
          /\ stack' = <<Frame("load", m, fl, <<>>)>>
    <3>1. PICK fl \in {{"create"}} \cup (IF m \in DOMAIN Tables THEN {} ELSE {{"create", "depend"}}) :
            Begin(Frame("load", m, fl, <<>>))
      BY <1>7 DEF Wanted
    <3>2. fl \in SUBSET Flags
      BY <3>1 DEF Flags
    <3> QED
      BY <1>7, <3>1, <3>2 DEF Wanted, Begin, vars
  <2>2. Frame("load", m, fl, <<>>) \in Frames /\ Frame("load", m, fl, <<>>).at = "load"
    BY <1>2, <1>4
  <2> QED
    BY <1>2, <1>3, <2>1, <2>2
<1>8. ASSUME NEW m \in Modules, OperUnload(m)
      PROVE  LInv'
  <2>1. /\ Idle /\ UNCHANGED <<list, mod, entry, up, given, file, items, ret, reloads>>
        /\ stack' = <<Frame("unload", m, {}, <<>>)>>
    BY <1>8 DEF OperUnload, Begin, vars
  <2>2. Frame("unload", m, {}, <<>>) \in Frames /\ Frame("unload", m, {}, <<>>).at = "unload"
    BY <1>2, <1>4
  <2> QED
    BY <1>2, <1>3, <2>1, <2>2
<1>9. ASSUME NEW m \in DOMAIN Tables, AddProtocol(m)
      PROVE  LInv'
  <2>1. m \in Modules
    BY LoaderAssumption
  <2>2. /\ Idle /\ UNCHANGED <<list, mod, entry, up, given, file, items, ret, reloads>>
        /\ stack' = <<Frame("load", m, {"create"}, <<>>), Frame("protocol", m, {}, <<>>)>>
    BY <1>9 DEF AddProtocol, vars
  <2>3. /\ Frame("load", m, {"create"}, <<>>) \in Frames /\ Frame("load", m, {"create"}, <<>>).at = "load"
        /\ Frame("protocol", m, {}, <<>>) \in Frames /\ Frame("protocol", m, {}, <<>>).at = "protocol"
    BY <2>1 DEF Frame, Frames, Places, Flags
  <2> QED
    BY <1>2, <1>3, <2>2, <2>3
<1> QED
  BY <1>5, <1>6, <1>7, <1>8, <1>9

\* A note that a module is to be reloaded, a library that is replaced, and data.
LEMMA NotesLInv ==
  ASSUME LInv,
         \/ Data \/ \E m \in Modules : Reload(m)
         \/ \E m \in Modules, f \in {"good", "missing", "broken", "refuses"} : Replace(m, f)
  PROVE  LInv'
<1>1. LoaderTypes
  BY DEF LInv
<1>2. /\ mod \in [Modules -> Structures] /\ reloads \in BOOLEAN /\ list \in Seq(Modules)
      /\ file \in [Modules -> {"good", "missing", "broken", "refuses"}]
  BY <1>1 DEF LoaderTypes
<1>3. CASE Data
  <2>1. Idle /\ UNCHANGED loader /\ DOMAIN items' = DOMAIN items
    BY <1>3 DEF Data, CreateObject, DestroyObject, Write
  <2>2. UNCHANGED <<list, mod, entry, up, given, file, ret, reloads, stack>> /\ stack = <<>>
    BY <2>1 DEF loader, Idle
  <2> QED
    BY <1>2, <2>1, <2>2, IdleKeeps
<1>4. ASSUME NEW m \in Modules, Reload(m)
      PROVE  LInv'
  <2>1. /\ Idle /\ UNCHANGED <<list, entry, up, given, file, items, ret, stack>> /\ reloads' = TRUE
        /\ mod' = Marked(m) /\ stack = <<>>
    BY <1>4 DEF Reload, Marked, Idle, vars
  <2>2. /\ mod' \in [Modules -> Structures]
        /\ \A x \in Modules :
             /\ mod'[x].opens = mod[x].opens /\ mod'[x].opencalls = mod[x].opencalls
             /\ mod'[x].saved = mod[x].saved /\ mod'[x].item = mod[x].item
             /\ mod'[x].code = mod[x].code /\ mod'[x].running = mod[x].running
             /\ "loaded" \in mod'[x].flags <=> "loaded" \in mod[x].flags
    <3>1. <<>> \in Seq(Modules)
      OBVIOUS
    <3> QED
      BY <3>1, <1>1, <2>1, DependantKeeps
  <2> QED
    BY <1>2, <2>1, <2>2, IdleKeeps
<1>5. ASSUME NEW m \in Modules, NEW f \in {"good", "missing", "broken", "refuses"}, Replace(m, f)
      PROVE  LInv'
  <2>1. /\ Idle /\ UNCHANGED <<list, mod, entry, up, given, items, ret, reloads, stack>>
        /\ file' = [file EXCEPT ![m] = f] /\ stack = <<>>
    BY <1>5 DEF Replace, Idle, vars
  <2>2. file' \in [Modules -> {"good", "missing", "broken", "refuses"}]
    BY <1>2, <2>1
  <2> QED
    BY <1>2, <2>1, <2>2, IdleKeeps
<1> QED
  BY <1>3, <1>4, <1>5

\* At first no module is known.
LEMMA InitLInv ==
  ASSUME LoaderInit
  PROVE  LInv
<1>1. /\ list = <<>> /\ mod = [m \in Modules |-> Fresh] /\ entry = [m \in DOMAIN Tables |-> "none"]
      /\ stack = <<>> /\ ret = TRUE /\ reloads = FALSE /\ up = TRUE
      /\ file = [m \in Modules |-> "good"] /\ given = {} /\ DOMAIN items = {}
  BY DEF LoaderInit, Init
<1>2. /\ Fresh \in Structures /\ "loaded" \notin Fresh.flags /\ Fresh.opens = 0
      /\ Fresh.opencalls = 0 /\ Fresh.saved = <<>> /\ Fresh.item = "null" /\ ~Fresh.running
  BY DEF Fresh, Structures, Flags
<1>3. LoaderTypes
  <2>1. mod \in [Modules -> Structures]
    BY <1>1, <1>2
  <2>2. list \in Seq(Modules) /\ stack \in Seq(Frames)
    BY <1>1, Empty
  <2>3. entry \in [DOMAIN Tables -> {"none", "good", "stale"}]
    BY <1>1
  <2>4. file \in [Modules -> {"good", "missing", "broken", "refuses"}]
    BY <1>1
  <2> QED
    BY <1>1, <2>1, <2>2, <2>3, <2>4 DEF LoaderTypes
<1>4. \A m \in Modules : mod[m] = Fresh
  BY <1>1
<1>5. ASSUME NEW m \in Modules
      PROVE  FlagsOK(stack, m, mod[m]) /\ ItemOK(m, mod[m])
  <2>1. Once(<<>>, NeedsOf(m)) /\ Once(<<>>, DropOf(m))
    BY DEF Once
  <2>2. FlagsOK(<<>>, m, Fresh)
    BY <2>1, <1>2, Empty DEF FlagsOK
  <2>3. ItemOK(m, Fresh)
    BY <1>2 DEF ItemOK
  <2> QED
    BY <2>2, <2>3, <1>1, <1>4
<1>6. ASSUME NEW i \in Items
      PROVE  ItemKept(i)
  <2>1. Owner[i] \in Modules
    BY LoaderAssumption
  <2> QED
    BY <2>1, <1>1, <1>2, <1>4 DEF ItemKept
<1> QED
  BY <1>1, <1>3, <1>5, <1>6, Empty DEF LInv, ModulesOK, DataOK, StackOK

\* Every step of the loader keeps the invariant.
LEMMA NextLInv ==
  ASSUME LInv, [LoaderNext]_lvars
  PROVE  LInv'
<1>1. CASE Calls
  BY <1>1, LoadLInv, LoadNeedsLInv, NeededLInv, OpenLInv, LoadDependantsLInv, UnloadLInv,
     UnloadDependantsLInv, CallUnloaderLInv, ConfNextLInv, ProtocolLInv, ReloadNextLInv,
     LoadAgainLInv, ExitNextLInv, DestroyModuleLInv DEF Calls
<1>2. CASE Configure \/ DoReloads \/ Exit \/ Data
  BY <1>2, ConfigureLInv, BeginningsLInv, NotesLInv
<1>3. CASE \/ \E m \in Modules : Wanted(m) \/ OperUnload(m)
           \/ \E m \in DOMAIN Tables : AddProtocol(m)
  BY <1>3, BeginningsLInv
<1>4. CASE \/ \E m \in Modules : Reload(m)
           \/ \E m \in Modules, f \in {"good", "missing", "broken", "refuses"} : Replace(m, f)
  BY <1>4, NotesLInv
<1>5. CASE UNCHANGED lvars
  BY <1>5 DEF lvars, loader, vars, LInv, LoaderTypes, ModulesOK, DataOK, ItemKept, Exiting, Known, StackOK
<1> QED
  BY <1>1, <1>2, <1>3, <1>4, <1>5 DEF LoaderNext

\* For any modules, whatever they need of each other: calls of load_module call only
\* load_module and calls of unload_module only unload_module; the flags of a module, its
\* library and its loader agree with the calls that are in progress; and its data with them.
THEOREM LoaderInvariant == LoaderSpec => []LInv
<1>1. LoaderInit => LInv
  BY InitLInv
<1>2. LInv /\ [LoaderNext]_lvars => LInv'
  BY NextLInv
<1> QED
  BY <1>1, <1>2, PTL DEF LoaderSpec

\* The loader keeps its types, for structures that are never without one.
THEOREM LoaderTypeCorrect ==
  ASSUME First # {}
  PROVE  LoaderSpec => []LoaderTypeOK
<1>1. Spec => []IInv
  BY InductiveInvariant
<1>2. LInv /\ IInv => LoaderTypeOK
  BY DEF LInv, LoaderTypes, IInv, LoaderTypeOK, Structures, Frames
<1> QED
  BY <1>1, <1>2, LoaderInvariant, LoaderImplements, PTL

\* Between two calls a module that was not given up is marked as loaded just when its
\* library is open and its loader has been called; and at any time its items exist just
\* as long as its code or its saved data knows them.
THEOREM LoaderStaysSound == LoaderSpec => []LoaderSound
<1>1. ASSUME LInv
      PROVE  LoaderSound
  <2>1. FlagsTell
    <3> SUFFICES ASSUME Idle, NEW m \in Modules, m \notin given
                 PROVE  /\ mod[m].running <=> Has(m, "loaded")
                        /\ mod[m].running <=> mod[m].opens > 0
      BY DEF FlagsTell
    <3>1. FlagsOK(<<>>, m, mod[m])
      BY <1>1 DEF LInv, ModulesOK, Idle
    <3>2. ~Some(<<>>, NeedsOf(m)) /\ ~Some(<<>>, OpenOf(m)) /\ ~Some(<<>>, DropOf(m))
      BY Empty
    <3>3. mod[m].running \in BOOLEAN
      BY <1>1, ModFields DEF LInv
    <3> QED
      BY <3>1, <3>2, <3>3 DEF FlagsOK, Has
  <2>2. DataSurvives
    BY <1>1, LoaderAssumption DEF LInv, DataOK, ItemKept, DataSurvives
  <2> QED
    BY <2>1, <2>2 DEF LoaderSound
<1> QED
  BY <1>1, LoaderInvariant, PTL
=============================================================================
