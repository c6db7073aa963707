---------------------------- MODULE EventsProofs ----------------------------
(***************************************************************************)
(* Proofs about Events for every value of its constants: however hooks add *)
(* and remove hooks and call events, a call of hook_event uses no hook     *)
(* that has been freed and no cell beyond hookreturns, calls exactly the   *)
(* hooks it should, and combines their values as event.h says.             *)
(***************************************************************************)
EXTENDS Events, ListLemmas, FiniteSetTheorems, FunctionTheorems, TLAPS

\* A call of an event that has been called again from inside is nested, so of
\* the calls of one event only the innermost is not.
InnermostOnly ==
  \A i, j \in DOMAIN stack : i < j /\ stack[i].ev = stack[j].ev => stack[i].nested

\* A call that is at its end has no other inside.
OnlyTopEnds == \A i \in DOMAIN stack : i < Len(stack) => stack[i].cur # None

\* numhooks counts at least the hooks that are not to be removed, and
\* hookreturns has room for them.
Counts(e) ==
  /\ IsFiniteSet(Kept(hooks[e])) /\ Cardinality(Kept(hooks[e])) <= numhooks[e]
  /\ numhooks[e] < maxhooks
HooksCounted == \A e \in Events : Counts(e)

\* Behind place p every hook without a mark is left to be called; and what is
\* left is behind p, or is to be removed.
Covers(left, list, p) ==
  /\ \A q \in DOMAIN list : q > p /\ ~Marked(list[q]) => list[q].id \in left
  /\ \A id \in left : \E q \in DOMAIN list :
       list[q].id = id /\ ~list[q].new /\ (q > p \/ list[q].deferred)

\* The same of a call: while it runs, and when it has come to the end.
OnList(fr, list) ==
  /\ ~fr.late
  /\ fr.cur # None => \E p \in DOMAIN list : list[p].id = fr.cur /\ Covers(fr.left, list, p)
  /\ fr.cur = None => \A id \in fr.left : \E q \in DOMAIN list : list[q].id = id /\ list[q].deferred

\* The values stored and those yet to come fit into hookreturns.
Fits(fr, cells) ==
  /\ IsFiniteSet(fr.left)
  /\ fr.i + Cardinality(fr.left) + (IF fr.cur = None THEN 0 ELSE 1) < cells

CallsWalk ==
  \A i \in DOMAIN stack : ~stack[i].nested =>
    OnList(stack[i], hooks[stack[i].ev]) /\ Fits(stack[i], maxhooks)

\* While a conditional event is being called, nobody has ended the call yet.
Judges(fr) ==
  fr.ev \in Cond =>
    /\ fr.returned = Verdict(fr.seen)
    /\ fr.econd # None <=> "text" \in fr.seen
    /\ fr.cur # None => fr.seen \cap {"alwaysok", "neverok", "notok"} = {}

CallsJudge == \A i \in DOMAIN stack : Judges(stack[i])

IInv ==
  TypeOK /\ InnermostOnly /\ OnlyTopEnds /\ HooksCounted /\ CallsWalk /\ CallsJudge

-----------------------------------------------------------------------------
(* What the operations on lists of hooks do to them.                       *)

\* The fields of hooks, and of the frames of calls.
LEMMA HookFields ==
  ASSUME NEW list \in Seq(Hook)
  PROVE  \A i \in 1..Len(list) :
           /\ list[i] \in Hook /\ list[i].id \in Structs /\ list[i].fn \in Funcs
           /\ list[i].deferred \in BOOLEAN /\ list[i].new \in BOOLEAN
<1>1. \A i \in 1..Len(list) : list[i] \in Hook
  OBVIOUS
<1> QED
  BY <1>1 DEF Hook

LEMMA FrameFields ==
  ASSUME NEW fr \in Frame
  PROVE  /\ fr.ev \in Events /\ fr.cur \in Structs \cup {None} /\ fr.left \subseteq Structs
         /\ fr.late \in BOOLEAN /\ fr.i \in Nat /\ fr.seen \subseteq Values
         /\ fr.returned \in {"pass", "fail", "spass"} /\ fr.econd \in {"text", None}
         /\ fr.need \in BOOLEAN /\ fr.nested \in BOOLEAN
BY DEF Frame

\* A set that another one has room for.
LEMMA NoMoreThan ==
  ASSUME NEW S, NEW T, IsFiniteSet(T), NEW f \in [S -> T],
         \A x, y \in S : f[x] = f[y] => x = y
  PROVE  IsFiniteSet(S) /\ Cardinality(S) <= Cardinality(T)
<1>1. f \in Injection(S, T)
  BY DEF Injection, IsInjective
<1> QED
  BY <1>1, FS_Injection

\* add_hook_after and add_hook_before find a place of the list, or its end.
LEMMA PlacesExist ==
  ASSUME NEW list \in Seq(Hook), NEW f \in Funcs \cup {None}
  PROVE  After(list, f) \in 0..Len(list) /\ Before(list, f) \in 0..Len(list)
<1>1. ASSUME NEW places \in SUBSET (1..Len(list))
      PROVE  FirstOf(places, list) \in 0..Len(list)
  <2>1. CASE places = {}
    BY <2>1 DEF FirstOf
  <2>2. CASE places # {}
    <3>1. \E i \in places : \A j \in places : i <= j
      BY <2>2, LeastNatural
    <3>2. FirstOf(places, list) \in places
      BY <2>2, <3>1 DEF FirstOf
    <3>3. \A x \in places : x \in 0..Len(list)
      OBVIOUS
    <3> QED
      BY <3>2, <3>3
  <2> QED
    BY <2>1, <2>2
<1>2. {i \in DOMAIN list : list[i].fn = f} \in SUBSET (1..Len(list))
  OBVIOUS
<1>3. {i \in 1..(Len(list) - 1) : list[i + 1].fn = f} \in SUBSET (1..Len(list))
  OBVIOUS
<1> QED
  BY <1>1, <1>2, <1>3 DEF After, Before

\* A hook that is inserted adds one to those that are kept ...
LEMMA InsertCounts ==
  ASSUME NEW list \in Seq(Hook), NEW h \in Hook, NEW k \in 1..(Len(list) + 1),
         IsFiniteSet(Kept(list))
  PROVE  LET new == InsertAt(list, k, h) IN
         IsFiniteSet(Kept(new)) /\ Cardinality(Kept(new)) <= Cardinality(Kept(list)) + 1
<1> DEFINE new == InsertAt(list, k, h)
           old == Kept(new) \ {k}
           f == [q \in old |-> IF q < k THEN q ELSE q - 1]
<1>1. /\ new \in Seq(Hook) /\ Len(new) = Len(list) + 1
      /\ \A j \in 1..(Len(list) + 1) :
           new[j] = IF j < k THEN list[j] ELSE IF j = k THEN h ELSE list[j - 1]
  <2>1. new \in Seq(Hook) /\ IsInsertion(list, k, h, new)
    BY InsertAtInserts
  <2> QED
    BY ONLY <2>1 DEF IsInsertion
<1> HIDE DEF new
<1>2. f \in [old -> Kept(list)]
  <2> SUFFICES ASSUME NEW q \in old PROVE (IF q < k THEN q ELSE q - 1) \in Kept(list)
    OBVIOUS
  <2>1. q \in 1..(Len(list) + 1) /\ q # k /\ ~new[q].deferred
    BY <1>1 DEF Kept
  <2> QED
    BY <2>1, <1>1 DEF Kept
<1>3. \A x, y \in old : f[x] = f[y] => x = y
  <2>1. \A x \in old : x \in Nat /\ x # k
    BY <1>1 DEF Kept
  <2> QED
    BY <2>1
<1>4. IsFiniteSet(old) /\ Cardinality(old) <= Cardinality(Kept(list))
  <2> HIDE DEF f, old
  <2> QED
    BY <1>2, <1>3, NoMoreThan
<1>5. /\ IsFiniteSet(old \cup {k})
      /\ Cardinality(old \cup {k}) <= Cardinality(old) + 1
  <2> HIDE DEF old
  <2>1. Cardinality(old) \in Nat
    BY <1>4, FS_CardinalityType
  <2>2. IsFiniteSet(old \cup {k})
    BY <1>4, FS_AddElement
  <2>3. Cardinality(old \cup {k}) = IF k \in old THEN Cardinality(old) ELSE Cardinality(old) + 1
    BY <1>4, FS_AddElement
  <2> QED
    BY <2>1, <2>2, <2>3
<1>6. Kept(new) \subseteq old \cup {k}
  OBVIOUS
<1>7. IsFiniteSet(Kept(new)) /\ Cardinality(Kept(new)) <= Cardinality(old \cup {k})
  <2> HIDE DEF old
  <2> QED
    BY <1>5, <1>6, FS_Subset
<1> HIDE DEF old
<1>8. Cardinality(old) \in Nat /\ Cardinality(Kept(list)) \in Nat /\ Cardinality(Kept(new)) \in Nat
      /\ Cardinality(old \cup {k}) \in Nat
  BY <1>4, <1>5, <1>7, FS_CardinalityType
<1> QED
  BY <1>4, <1>5, <1>7, <1>8 DEF new

\* ... and one that is taken off, or marked for it, takes one away.
LEMMA RemovalCounts ==
  ASSUME NEW list \in Seq(Hook), NEW i \in Kept(list), IsFiniteSet(Kept(list))
  PROVE  LET new == RemoveAt(list, i)
             marked == [list EXCEPT ![i].deferred = TRUE]
         IN  /\ IsFiniteSet(Kept(new)) /\ Cardinality(Kept(new)) <= Cardinality(Kept(list)) - 1
             /\ IsFiniteSet(Kept(marked)) /\ Cardinality(Kept(marked)) <= Cardinality(Kept(list)) - 1
<1> DEFINE new == RemoveAt(list, i)
           marked == [list EXCEPT ![i].deferred = TRUE]
           others == Kept(list) \ {i}
           f == [q \in Kept(new) |-> IF q < i THEN q ELSE q + 1]
<1>1. i \in 1..Len(list) /\ Len(list) \in Nat
  BY DEF Kept
<1>2. /\ new \in Seq(Hook) /\ Len(new) = Len(list) - 1
      /\ \A j \in 1..(Len(list) - 1) : new[j] = IF j < i THEN list[j] ELSE list[j + 1]
  BY <1>1, RemoveAtProperties
<1>3. /\ IsFiniteSet(others) /\ Cardinality(others) = Cardinality(Kept(list)) - 1
  BY FS_RemoveElement
<1>4. IsFiniteSet(Kept(new)) /\ Cardinality(Kept(new)) <= Cardinality(others)
  <2> HIDE DEF new
  <2>1. f \in [Kept(new) -> others]
    <3> SUFFICES ASSUME NEW q \in Kept(new) PROVE (IF q < i THEN q ELSE q + 1) \in others
      OBVIOUS
    <3>1. q \in 1..(Len(list) - 1) /\ ~new[q].deferred
      BY <1>1, <1>2 DEF Kept
    <3> QED
      BY <3>1, <1>1, <1>2 DEF Kept
  <2>2. \A x, y \in Kept(new) : f[x] = f[y] => x = y
    <3>1. \A x \in Kept(new) : x \in Nat
      BY <1>2 DEF Kept
    <3> QED
      BY <3>1, <1>1
  <2> HIDE DEF f, others
  <2> QED
    BY <2>1, <2>2, <1>3, NoMoreThan
<1>5. Kept(marked) \subseteq others
  <2>1. \A q \in DOMAIN list : marked[q].deferred = IF q = i THEN TRUE ELSE list[q].deferred
    BY HookFields DEF Hook
  <2>2. DOMAIN marked = DOMAIN list
    OBVIOUS
  <2> HIDE DEF marked
  <2> QED
    BY <2>1, <2>2 DEF Kept
<1>6. IsFiniteSet(Kept(marked)) /\ Cardinality(Kept(marked)) <= Cardinality(others)
  <2> HIDE DEF others, marked
  <2> QED
    BY <1>3, <1>5, FS_Subset
<1> HIDE DEF others
<1> QED
  BY <1>3, <1>4, <1>6

\* The places of hooks that are kept.
LEMMA KeptPlaces ==
  ASSUME NEW list \in Seq(Hook)
  PROVE  Kept(list) \in SUBSET (1..Len(list)) /\ IsFiniteSet(Kept(list))
         /\ Kept(list) \in SUBSET Nat /\ Cardinality(Kept(list)) \in Nat
<1>1. Kept(list) \in SUBSET (1..Len(list)) /\ Kept(list) \in SUBSET Nat
  BY DEF Kept
<1>2. IsFiniteSet(1..Len(list))
  BY FS_Interval
<1> QED
  BY <1>1, <1>2, FS_Subset, FS_CardinalityType

\* Sweeping keeps hooks of the list, each once, and not more than were kept.
LEMMA SweptHooks ==
  ASSUME NEW list \in Seq(Hook), Distinct(list)
  PROVE  /\ Swept(list) \in Seq(Hook) /\ Distinct(Swept(list))
         /\ IsFiniteSet(Kept(Swept(list)))
         /\ Cardinality(Kept(Swept(list))) <= Cardinality(Kept(list))
<1> DEFINE size == Cardinality(Kept(list))
           at(n) == Nth(Kept(list), n)
<1>1. /\ Kept(list) \in SUBSET (1..Len(list)) /\ IsFiniteSet(Kept(list))
      /\ Kept(list) \in SUBSET Nat /\ size \in Nat
  BY KeptPlaces
<1>2. \A n \in 1..size : /\ at(n) \in 1..Len(list)
                         /\ Cardinality({j \in Kept(list) : j <= at(n)}) = n
  BY <1>1, NthExists
<1>3. \A n, m \in 1..size : at(n) = at(m) => n = m
  BY <1>2
<1>4. Swept(list) = [n \in 1..size |-> [list[at(n)] EXCEPT !.new = FALSE]]
  BY DEF Swept
<1> HIDE DEF at, size
<1>5. \A n \in 1..size : /\ [list[at(n)] EXCEPT !.new = FALSE] \in Hook
                         /\ [list[at(n)] EXCEPT !.new = FALSE].id = list[at(n)].id
  <2> SUFFICES ASSUME NEW n \in 1..size
               PROVE  /\ [list[at(n)] EXCEPT !.new = FALSE] \in Hook
                      /\ [list[at(n)] EXCEPT !.new = FALSE].id = list[at(n)].id
    OBVIOUS
  <2>1. list[at(n)] \in Hook
    BY <1>2, HookFields
  <2> QED
    BY <2>1 DEF Hook
<1>6. Swept(list) \in Seq(Hook) /\ DOMAIN Swept(list) = 1..size
  BY <1>1, <1>4, <1>5
<1>7. \A n \in 1..size : Swept(list)[n].id = list[at(n)].id
  BY <1>4, <1>5
<1>8. Distinct(Swept(list))
  <2> SUFFICES ASSUME NEW n \in 1..size, NEW m \in 1..size,
                      Swept(list)[n].id = Swept(list)[m].id
               PROVE  n = m
    BY <1>6 DEF Distinct
  <2>1. at(n) \in DOMAIN list /\ at(m) \in DOMAIN list
    <3>1. \A x \in 1..size : at(x) \in 1..Len(list)
      BY <1>2
    <3> QED
      BY <3>1
  <2>2. list[at(n)].id = list[at(m)].id
    BY <1>7
  <2>3. at(n) = at(m)
    BY <2>1, <2>2 DEF Distinct
  <2> QED
    BY <1>3, <2>3
<1>9. Kept(Swept(list)) \in SUBSET (1..size)
  BY <1>6 DEF Kept
<1>10. IsFiniteSet(1..size) /\ Cardinality(1..size) = size
  <2>1. IsFiniteSet(1..size) /\ Cardinality(1..size) = IF 1 > size THEN 0 ELSE size - 1 + 1
    BY <1>1, FS_Interval
  <2> QED
    BY <1>1, <2>1
<1>11. IsFiniteSet(Kept(Swept(list))) /\ Cardinality(Kept(Swept(list))) <= size
  BY <1>9, <1>10, FS_Subset
<1> QED
  BY <1>6, <1>8, <1>11 DEF size

\* The hooks that a call begins with are not more than those that are kept.
Unmarked(list) == {j \in DOMAIN list : ~Marked(list[j])}
LEMMA LiveCounts ==
  ASSUME NEW list \in Seq(Hook)
  PROVE  LET live == {list[i].id : i \in Unmarked(list)} IN
         /\ live \subseteq Structs /\ IsFiniteSet(live)
         /\ Cardinality(live) <= Cardinality(Kept(list)) /\ Cardinality(live) \in Nat
<1> DEFINE live == {list[i].id : i \in Unmarked(list)}
           f == [i \in Unmarked(list) |-> list[i].id]
<1>1. IsFiniteSet(Kept(list)) /\ Cardinality(Kept(list)) \in Nat
  BY KeptPlaces
<1>2. Unmarked(list) \in SUBSET Kept(list)
  BY DEF Unmarked, Kept, Marked
<1>3. IsFiniteSet(Unmarked(list)) /\ Cardinality(Unmarked(list)) <= Cardinality(Kept(list))
  BY <1>1, <1>2, FS_Subset
<1>4. f \in Surjection(Unmarked(list), live)
  BY DEF Surjection
<1>5. live \subseteq Structs
  <2>1. Unmarked(list) \in SUBSET (1..Len(list))
    BY DEF Unmarked
  <2> QED
    BY <2>1, HookFields
<1> HIDE DEF f, live
<1>6. IsFiniteSet(live) /\ Cardinality(live) <= Cardinality(Unmarked(list))
  BY <1>3, <1>4, FS_Surjection
<1>7. Cardinality(live) \in Nat /\ Cardinality(Unmarked(list)) \in Nat
  BY <1>3, <1>6, FS_CardinalityType
<1>8. Cardinality(live) <= Cardinality(Kept(list))
  BY <1>1, <1>3, <1>6, <1>7
<1> QED
  BY <1>5, <1>6, <1>7, <1>8 DEF live

-----------------------------------------------------------------------------
(* The step of a call to the next hook.                                    *)

\* The loop stops behind the list, or at the first hook without a mark.
GoesOn(fr, mv, list, from) ==
  \/ /\ mv.cur = None /\ mv.left = fr.left /\ mv.late = fr.late
     /\ \A q \in from..Len(list) : Marked(list[q])
  \/ \E next \in from..Len(list) :
       /\ ~Marked(list[next]) /\ \A q \in from..(next - 1) : Marked(list[q])
       /\ mv.cur = list[next].id /\ mv.left = fr.left \ {list[next].id}
       /\ mv.late = (fr.late \/ list[next].id \notin fr.left)

\* All but the place of a call stays as it is.
Keeps(fr, mv) ==
  /\ mv.ev = fr.ev /\ mv.i = fr.i /\ mv.seen = fr.seen /\ mv.returned = fr.returned
  /\ mv.econd = fr.econd /\ mv.nested = fr.nested

\* A step of a call does both.
LEMMA MovedFrame ==
  ASSUME NEW fr \in Frame, NEW list \in Seq(Hook), NEW from \in 1..(Len(list) + 1)
  PROVE  /\ Moved(fr, list, from) \in Frame
         /\ Keeps(fr, Moved(fr, list, from))
         /\ GoesOn(fr, Moved(fr, list, from), list, from)
<1> DEFINE live == {i \in from..Len(list) : ~Marked(list[i])}
           mv == Moved(fr, list, from)
<1>1. Len(list) \in Nat /\ from \in Nat /\ 1 <= from
  OBVIOUS
<1>2. CASE live = {}
  <2>1. mv = [fr EXCEPT !.cur = None, !.need = @ \/ from..Len(list) # {}]
    BY <1>2 DEF Moved
  <2>2. \A q \in from..Len(list) : Marked(list[q])
    BY <1>2
  <2>3. mv \in Frame
    BY <2>1 DEF Frame
  <2>4. /\ mv.ev = fr.ev /\ mv.i = fr.i /\ mv.seen = fr.seen /\ mv.returned = fr.returned
        /\ mv.econd = fr.econd /\ mv.nested = fr.nested
        /\ mv.cur = None /\ mv.left = fr.left /\ mv.late = fr.late
    BY <2>1 DEF Frame
  <2> QED
    BY <2>2, <2>3, <2>4 DEF Keeps, GoesOn
<1>3. CASE live # {}
  <2>1. live \in SUBSET Nat
    BY <1>1
  <2>2. \E i \in live : \A j \in live : i <= j
    BY <1>3, <2>1, LeastNatural
  <2>3. PICK next \in live :
          /\ \A j \in live : next <= j
          /\ mv = [fr EXCEPT !.cur = list[next].id, !.need = @ \/ next > from,
                             !.left = @ \ {list[next].id},
                             !.late = @ \/ list[next].id \notin fr.left]
    BY <1>3, <2>2 DEF Moved
  <2>4. next \in from..Len(list) /\ next \in 1..Len(list) /\ ~Marked(list[next])
    BY <1>1
  <2>5. \A q \in from..(next - 1) : Marked(list[q])
    <3> SUFFICES ASSUME NEW q \in from..(next - 1), ~Marked(list[q]) PROVE FALSE
      OBVIOUS
    <3>1. q \in live /\ ~(next <= q)
      BY <1>1, <2>4
    <3> QED
      BY <2>3, <3>1
  <2>6. list[next].id \in Structs
    BY <2>4, HookFields
  <2> HIDE DEF live, mv
  <2>7. mv \in Frame
    BY <2>3, <2>6 DEF Frame
  <2>8. /\ mv.ev = fr.ev /\ mv.i = fr.i /\ mv.seen = fr.seen /\ mv.returned = fr.returned
        /\ mv.econd = fr.econd /\ mv.nested = fr.nested
        /\ mv.cur = list[next].id /\ mv.left = fr.left \ {list[next].id}
        /\ mv.late = (fr.late \/ list[next].id \notin fr.left)
    BY <2>3 DEF Frame
  <2> QED
    BY <2>4, <2>5, <2>7, <2>8 DEF mv, Keeps, GoesOn
<1> QED
  BY <1>2, <1>3

\* A call whose place covers what is left stays so when it goes on.
LEMMA MovedWalks ==
  ASSUME NEW fr \in Frame, NEW list \in Seq(Hook), NEW from \in 1..(Len(list) + 1),
         NEW cells \in Nat, Distinct(list), ~fr.late, Covers(fr.left, list, from - 1),
         IsFiniteSet(fr.left), fr.i + Cardinality(fr.left) < cells
  PROVE  OnList(Moved(fr, list, from), list) /\ Fits(Moved(fr, list, from), cells)
<1> DEFINE mv == Moved(fr, list, from)
<1>1. mv.i = fr.i /\ GoesOn(fr, mv, list, from)
  BY MovedFrame DEF Keeps
<1>2. Len(list) \in Nat /\ from \in Nat /\ 1 <= from /\ DOMAIN list = 1..Len(list)
  OBVIOUS
<1>3. Cardinality(fr.left) \in Nat /\ fr.i \in Nat
  BY FS_CardinalityType, FrameFields
<1> HIDE DEF mv
<1>4. CASE /\ mv.cur = None /\ mv.left = fr.left /\ mv.late = fr.late
           /\ \A q \in from..Len(list) : Marked(list[q])
  <2>1. ASSUME NEW id \in fr.left
        PROVE  \E q \in DOMAIN list : list[q].id = id /\ list[q].deferred
    <3>1. PICK q \in DOMAIN list : list[q].id = id /\ ~list[q].new /\ (q > from - 1 \/ list[q].deferred)
      BY DEF Covers
    <3>2. CASE q > from - 1
      BY <1>2, <1>4, <3>1, <3>2 DEF Marked
    <3> QED
      BY <3>1, <3>2
  <2>2. OnList(mv, list)
    BY <1>4, <2>1 DEF OnList
  <2>3. Fits(mv, cells)
    BY <1>1, <1>3, <1>4 DEF Fits
  <2> QED
    BY <2>2, <2>3 DEF mv
<1>5. ASSUME NEW next \in from..Len(list),
             /\ ~Marked(list[next]) /\ \A q \in from..(next - 1) : Marked(list[q])
             /\ mv.cur = list[next].id /\ mv.left = fr.left \ {list[next].id}
             /\ mv.late = (fr.late \/ list[next].id \notin fr.left)
      PROVE  OnList(mv, list) /\ Fits(mv, cells)
  <2>1. next \in DOMAIN list /\ next > from - 1 /\ next \in Nat
    BY <1>2
  <2>2. list[next].id \in fr.left
    BY <1>5, <2>1 DEF Covers
  <2>3. list[next].id # None
    BY <2>1, HookFields, EventsAssumption
  <2>4. ASSUME NEW q \in DOMAIN list, q > next, ~Marked(list[q])
        PROVE  list[q].id \in mv.left
    <3>1. q > from - 1 /\ q # next
      BY <1>2, <2>1, <2>4
    <3> QED
      BY <1>5, <2>1, <2>4, <3>1 DEF Covers, Distinct
  <2>5. ASSUME NEW id \in mv.left
        PROVE  \E q \in DOMAIN list :
                 list[q].id = id /\ ~list[q].new /\ (q > next \/ list[q].deferred)
    <3>1. id \in fr.left /\ id # list[next].id
      BY <1>5
    <3>2. PICK q \in DOMAIN list : list[q].id = id /\ ~list[q].new /\ (q > from - 1 \/ list[q].deferred)
      BY <3>1 DEF Covers
    <3>3. q # next
      BY <3>1, <3>2
    <3>4. CASE q > from - 1 /\ ~(q > next)
      <4>1. q \in from..(next - 1)
        BY <1>2, <2>1, <3>3, <3>4
      <4> QED
        BY <1>5, <3>2, <4>1 DEF Marked
    <3> QED
      BY <3>2, <3>4
  <2>6. OnList(mv, list)
    <3>1. Covers(mv.left, list, next)
      BY <2>4, <2>5 DEF Covers
    <3> QED
      BY <1>5, <2>1, <2>2, <2>3, <3>1 DEF OnList
  <2>7. IsFiniteSet(mv.left) /\ Cardinality(mv.left) = Cardinality(fr.left) - 1
    <3> DEFINE left == fr.left
               id == list[next].id
    <3>1. IsFiniteSet(left) /\ id \in left /\ mv.left = left \ {id}
      BY <1>5, <2>2
    <3> HIDE DEF left, id
    <3>2. IsFiniteSet(left \ {id}) /\ Cardinality(left \ {id}) = Cardinality(left) - 1
      BY ONLY <3>1, FS_RemoveElement
    <3> QED
      BY <3>1, <3>2 DEF left
  <2>8. Fits(mv, cells)
    BY <1>1, <1>3, <1>5, <2>3, <2>7 DEF Fits
  <2> QED
    BY <2>6, <2>8
<1> QED
  BY <1>1, <1>4, <1>5 DEF mv, GoesOn

\* An added hook is NEW while its event is being called, and so is not missed.
LEMMA InsertOnList ==
  ASSUME NEW fr \in Frame, NEW list \in Seq(Hook), NEW h \in Hook, h.new,
         NEW k \in 1..(Len(list) + 1), OnList(fr, list)
  PROVE  OnList(fr, InsertAt(list, k, h))
<1> DEFINE new == InsertAt(list, k, h)
           to(q) == IF q < k THEN q ELSE q + 1
<1>1. /\ new \in Seq(Hook) /\ Len(new) = Len(list) + 1
      /\ \A j \in 1..(Len(list) + 1) :
           new[j] = IF j < k THEN list[j] ELSE IF j = k THEN h ELSE list[j - 1]
  <2>1. new \in Seq(Hook) /\ IsInsertion(list, k, h, new)
    BY InsertAtInserts
  <2> QED
    BY ONLY <2>1 DEF IsInsertion
<1>2. /\ Len(list) \in Nat /\ DOMAIN list = 1..Len(list) /\ DOMAIN new = 1..(Len(list) + 1)
      /\ k \in Nat
  BY <1>1
<1> HIDE DEF new
<1>3. \A q \in DOMAIN list : to(q) \in DOMAIN new /\ new[to(q)] = list[q]
  <2> SUFFICES ASSUME NEW q \in DOMAIN list PROVE to(q) \in DOMAIN new /\ new[to(q)] = list[q]
    OBVIOUS
  <2>1. CASE q < k
    BY <1>1, <1>2, <2>1
  <2>2. CASE ~(q < k)
    <3>1. q + 1 \in 1..(Len(list) + 1) /\ ~(q + 1 < k) /\ q + 1 # k /\ (q + 1) - 1 = q
      BY <1>2, <2>2
    <3> QED
      BY <1>1, <1>2, <2>2, <3>1
  <2> QED
    BY <2>1, <2>2
<1>4. \A q, r \in DOMAIN list : q > r => to(q) > to(r)
  BY <1>2
<1>5. \A j \in DOMAIN new : Marked(new[j]) \/ \E q \in DOMAIN list : j = to(q)
  <2> SUFFICES ASSUME NEW j \in DOMAIN new, j # k PROVE \E q \in DOMAIN list : j = to(q)
    BY <1>1, <1>2 DEF Marked
  <2>1. CASE j < k
    BY <1>2, <2>1
  <2>2. CASE j > k
    <3>1. j - 1 \in DOMAIN list /\ ~(j - 1 < k) /\ j = (j - 1) + 1
      BY <1>2, <2>2
    <3> QED
      BY <3>1
  <2> QED
    BY <1>2, <2>1, <2>2
<1> HIDE DEF to
<1>6. ASSUME fr.cur # None
      PROVE  \E p \in DOMAIN new : new[p].id = fr.cur /\ Covers(fr.left, new, p)
  <2>1. PICK p \in DOMAIN list : list[p].id = fr.cur /\ Covers(fr.left, list, p)
    BY <1>6 DEF OnList
  <2>2. to(p) \in DOMAIN new /\ new[to(p)].id = fr.cur
    BY <1>3, <2>1
  <2>3. ASSUME NEW j \in DOMAIN new, j > to(p), ~Marked(new[j])
        PROVE  new[j].id \in fr.left
    <3>1. PICK q \in DOMAIN list : j = to(q)
      BY <1>5, <2>3
    <3>2. q > p
      <4>1. q = p \/ q > p \/ p > q
        BY <1>2
      <4>2. q # p
        BY <1>2, <1>3, <2>3, <3>1
      <4>3. ~(p > q)
        <5>1. p > q => to(p) > to(q)
          BY <1>4
        <5>2. to(p) \in Nat /\ to(q) \in Nat
          BY <1>2, <1>3
        <5> QED
          BY <2>3, <3>1, <5>1, <5>2
      <4> QED
        BY <4>1, <4>2, <4>3
    <3> QED
      BY <1>3, <2>1, <2>3, <3>1, <3>2 DEF Covers
  <2>4. ASSUME NEW id \in fr.left
        PROVE  \E j \in DOMAIN new : new[j].id = id /\ ~new[j].new /\ (j > to(p) \/ new[j].deferred)
    <3>1. PICK q \in DOMAIN list : list[q].id = id /\ ~list[q].new /\ (q > p \/ list[q].deferred)
      BY <2>1 DEF Covers
    <3> QED
      BY <1>3, <1>4, <3>1
  <2>5. Covers(fr.left, new, to(p))
    BY <2>3, <2>4 DEF Covers
  <2> QED
    BY <2>2, <2>5
<1>7. ASSUME fr.cur = None, NEW id \in fr.left
      PROVE  \E j \in DOMAIN new : new[j].id = id /\ new[j].deferred
  <2>1. PICK q \in DOMAIN list : list[q].id = id /\ list[q].deferred
    BY <1>7 DEF OnList
  <2> QED
    BY <1>3, <2>1
<1> QED
  BY <1>6, <1>7 DEF OnList, new

\* A hook that is removed while its event is being called is marked only.
LEMMA DeferOnList ==
  ASSUME NEW fr \in Frame, NEW list \in Seq(Hook), NEW i \in 1..Len(list), OnList(fr, list)
  PROVE  OnList(fr, [list EXCEPT ![i].deferred = TRUE])
<1> DEFINE new == [list EXCEPT ![i].deferred = TRUE]
<1>1. DOMAIN new = DOMAIN list
  OBVIOUS
<1>2. \A q \in DOMAIN list : /\ new[q].id = list[q].id /\ new[q].new = list[q].new
                             /\ new[q].deferred = IF q = i THEN TRUE ELSE list[q].deferred
  BY HookFields DEF Hook
<1> HIDE DEF new
<1>3. ASSUME NEW p \in DOMAIN list, Covers(fr.left, list, p)
      PROVE  Covers(fr.left, new, p)
  <2>1. \A q \in DOMAIN new : ~Marked(new[q]) => ~Marked(list[q])
    BY <1>1, <1>2 DEF Marked
  <2>2. \A q \in DOMAIN new : q > p /\ ~Marked(new[q]) => new[q].id \in fr.left
    BY <1>1, <1>2, <1>3, <2>1 DEF Covers
  <2>3. ASSUME NEW id \in fr.left
        PROVE  \E q \in DOMAIN new : new[q].id = id /\ ~new[q].new /\ (q > p \/ new[q].deferred)
    <3>1. PICK q \in DOMAIN list : list[q].id = id /\ ~list[q].new /\ (q > p \/ list[q].deferred)
      BY <1>3 DEF Covers
    <3> QED
      BY <1>1, <1>2, <3>1
  <2> QED
    BY <2>2, <2>3 DEF Covers
<1>4. ASSUME fr.cur # None
      PROVE  \E p \in DOMAIN new : new[p].id = fr.cur /\ Covers(fr.left, new, p)
  BY <1>1, <1>2, <1>3, <1>4 DEF OnList
<1>5. ASSUME fr.cur = None, NEW id \in fr.left
      PROVE  \E q \in DOMAIN new : new[q].id = id /\ new[q].deferred
  <2>1. PICK q \in DOMAIN list : list[q].id = id /\ list[q].deferred
    BY <1>5 DEF OnList
  <2> QED
    BY <1>1, <1>2, <2>1
<1> QED
  BY <1>4, <1>5 DEF OnList, new

-----------------------------------------------------------------------------
(* The steps outside hook_event.                                           *)

\* TypeOK, part by part.
LEMMA Types ==
  ASSUME TypeOK
  PROVE  /\ hooks \in [Events -> Seq(Hook)] /\ numhooks \in [Events -> Nat]
         /\ calling \in [Events -> BOOLEAN] /\ maxhooks \in Nat /\ stack \in Seq(Frame)
         /\ Len(stack) \in Nat /\ DOMAIN stack = 1..Len(stack)
         /\ \A i \in 1..Len(stack) : stack[i] \in Frame
         /\ \A e \in Events : hooks[e] \in Seq(Hook)
BY DEF TypeOK

\* The list of one event changes, and its count, and hookreturns may grow; the
\* calls in progress keep their place on the new list.
LEMMA HooksChange ==
  ASSUME IInv, NEW e \in Events, NEW list \in Seq(Hook), NEW count \in Nat,
         NEW cells \in Nat, Distinct(list), IsFiniteSet(Kept(list)),
         Cardinality(Kept(list)) <= count, count < cells, maxhooks <= cells,
         \A i \in DOMAIN stack :
           stack[i].ev = e /\ ~stack[i].nested => OnList(stack[i], list),
         hooks' = [hooks EXCEPT ![e] = list], numhooks' = [numhooks EXCEPT ![e] = count],
         maxhooks' = cells, UNCHANGED <<calling, stack>>
  PROVE  IInv'
<1> USE DEF IInv
<1>1. /\ \A d \in Events : hooks'[d] = IF d = e THEN list ELSE hooks[d]
      /\ \A d \in Events : numhooks'[d] = IF d = e THEN count ELSE numhooks[d]
      /\ hooks' \in [Events -> Seq(Hook)] /\ numhooks' \in [Events -> Nat]
      /\ stack' = stack /\ calling' = calling
  BY Types
<1>2. TypeOK'
  <2>1. \A d \in Events : Distinct(hooks'[d])
    BY <1>1 DEF TypeOK
  <2>2. \A d \in Events :
          /\ calling'[d] => InCall(d)'
          /\ (\E i \in DOMAIN stack' : stack'[i].ev = d /\ ~stack'[i].nested) => calling'[d]
    BY <1>1 DEF TypeOK, InCall
  <2>3. calling' \in [Events -> BOOLEAN] /\ maxhooks' \in Nat /\ stack' \in Seq(Frame)
    BY <1>1, Types
  <2> QED
    BY <1>1, <2>1, <2>2, <2>3 DEF TypeOK
<1>3. HooksCounted'
  <2> SUFFICES ASSUME NEW d \in Events PROVE Counts(d)'
    BY DEF HooksCounted
  <2>1. CASE d = e
    BY <1>1, <2>1 DEF Counts
  <2>2. CASE d # e
    <3>1. hooks'[d] = hooks[d] /\ numhooks'[d] = numhooks[d] /\ numhooks[d] \in Nat
      BY <1>1, <2>2, Types
    <3>2. maxhooks \in Nat /\ Counts(d)
      BY Types DEF HooksCounted
    <3> QED
      BY <3>1, <3>2 DEF Counts
  <2> QED
    BY <2>1, <2>2
<1>4. CallsWalk'
  <2> SUFFICES ASSUME NEW i \in DOMAIN stack, ~stack[i].nested
               PROVE  OnList(stack[i], hooks'[stack[i].ev]) /\ Fits(stack[i], maxhooks')
    BY <1>1 DEF CallsWalk
  <2>1. OnList(stack[i], hooks[stack[i].ev]) /\ Fits(stack[i], maxhooks)
    BY DEF CallsWalk
  <2>2. stack[i] \in Frame /\ stack[i].ev \in Events /\ stack[i].i \in Nat
    BY Types, FrameFields
  <2>3. OnList(stack[i], hooks'[stack[i].ev])
    BY <1>1, <2>1, <2>2
  <2>4. Fits(stack[i], maxhooks')
    <3>1. IsFiniteSet(stack[i].left) /\ Cardinality(stack[i].left) \in Nat
      BY <2>1, FS_CardinalityType DEF Fits
    <3>2. maxhooks \in Nat
      BY Types
    <3> QED
      BY <2>1, <2>2, <3>1, <3>2 DEF Fits
  <2> QED
    BY <2>3, <2>4
<1>5. InnermostOnly' /\ OnlyTopEnds' /\ CallsJudge'
  BY <1>1 DEF InnermostOnly, OnlyTopEnds, CallsJudge
<1> QED
  BY <1>2, <1>3, <1>4, <1>5

\* While nobody calls the event, a list of it is everybody's.
LEMMA NobodyCalls ==
  ASSUME IInv, NEW e \in Events, ~calling[e], NEW list
  PROVE  \A i \in DOMAIN stack : stack[i].ev = e /\ ~stack[i].nested => OnList(stack[i], list)
BY DEF IInv, TypeOK

\* add_hook_really: the memory is new to every list and call.
LEMMA AddHookStep ==
  ASSUME IInv, NEW e \in Events, NEW f \in Funcs, NEW at \in 0..Len(hooks[e]),
         AddHook(e, f, at)
  PROVE  IInv'
<1> DEFINE list == hooks[e]
           hook(id) == [id |-> id, fn |-> f, deferred |-> FALSE, new |-> Flags(e)]
<1>1. list \in Seq(Hook) /\ Distinct(list) /\ Counts(e) /\ numhooks[e] \in Nat /\ maxhooks \in Nat
      /\ calling[e] \in BOOLEAN /\ at + 1 \in 1..(Len(list) + 1)
  BY Types DEF IInv, TypeOK, HooksCounted
<1>2. PICK id \in Structs :
        /\ id \notin Ids(e)
        /\ hooks' = [hooks EXCEPT ![e] = InsertAt(list, at + 1, hook(id))]
  BY DEF AddHook
<1> DEFINE h == hook(id)
           k == at + 1
           new == InsertAt(list, k, h)
<1>3. h \in Hook /\ h.id = id /\ h.new = calling[e]
  BY <1>1 DEF Hook, Flags
<1> HIDE DEF h, list
<1>0. k \in 1..(Len(list) + 1) /\ k \in Nat /\ Len(list) \in Nat
  BY <1>1
<1> HIDE DEF k
<1>4. /\ new \in Seq(Hook) /\ Len(new) = Len(list) + 1
      /\ \A j \in 1..(Len(list) + 1) :
           new[j] = IF j < k THEN list[j] ELSE IF j = k THEN h ELSE list[j - 1]
  <2>1. new \in Seq(Hook) /\ IsInsertion(list, k, h, new)
    BY <1>0, <1>1, <1>3, InsertAtInserts
  <2> QED
    BY ONLY <2>1 DEF IsInsertion
<1>5. IsFiniteSet(Kept(new)) /\ Cardinality(Kept(new)) <= Cardinality(Kept(list)) + 1
  BY <1>0, <1>1, <1>3, InsertCounts DEF Counts, list
<1>6. ASSUME NEW i \in DOMAIN stack, stack[i].ev = e, ~stack[i].nested
      PROVE  OnList(stack[i], new)
  <2>1. calling[e] /\ stack[i] \in Frame
    BY <1>6, Types DEF IInv, TypeOK
  <2>2. OnList(stack[i], list)
    BY <1>6 DEF IInv, CallsWalk, list
  <2> QED
    BY <1>0, <1>1, <1>3, <2>1, <2>2, InsertOnList
<1>7. Distinct(new)
  <2>1. \A j \in DOMAIN list : list[j].id # id
    BY <1>2 DEF Ids, list
  <2>2. DOMAIN list = 1..Len(list) /\ DOMAIN new = 1..(Len(list) + 1) /\ Len(list) \in Nat /\ k \in Nat
    BY <1>0, <1>1, <1>4
  <2> HIDE DEF new
  <2> SUFFICES ASSUME NEW i \in DOMAIN new, NEW j \in DOMAIN new, new[i].id = new[j].id, i < j
               PROVE  FALSE
    BY <2>2 DEF Distinct
  <2>3. ASSUME NEW q \in DOMAIN new, q # k
        PROVE  \E p \in DOMAIN list : new[q] = list[p] /\ ((p = q /\ q < k) \/ (p = q - 1 /\ k < q))
    <3>1. q \in Nat /\ q \in 1..(Len(list) + 1)
      BY <2>2
    <3>2. CASE q < k
      <4>1. q \in DOMAIN list
        BY <1>0, <2>2, <3>1, <3>2
      <4> QED
        BY <1>4, <3>1, <3>2, <4>1
    <3>3. CASE k < q
      <4>1. q - 1 \in DOMAIN list /\ ~(q < k)
        BY <1>0, <2>2, <3>1, <3>3
      <4> QED
        BY <1>4, <2>3, <3>1, <3>3, <4>1
    <3> QED
      BY <1>0, <2>3, <3>1, <3>2, <3>3
  <2>4. new[k] = h
    BY <1>0, <1>4
  <2>5. i # k /\ j # k
    <3>1. \A q \in DOMAIN new : q # k => new[q].id # id
      BY <2>1, <2>3
    <3>2. new[k].id = id /\ i # j
      BY <1>3, <2>2, <2>4
    <3> QED
      BY <3>1, <3>2
  <2>6. PICK p \in DOMAIN list : new[i] = list[p] /\ ((p = i /\ i < k) \/ (p = i - 1 /\ k < i))
    BY <2>3, <2>5
  <2>7. PICK q \in DOMAIN list : new[j] = list[q] /\ ((q = j /\ j < k) \/ (q = j - 1 /\ k < j))
    BY <2>3, <2>5
  <2>8. p # q
    BY <1>0, <2>2, <2>6, <2>7
  <2> QED
    BY <1>1, <2>6, <2>7, <2>8 DEF Distinct
<1> DEFINE count == numhooks[e] + 1
           cells == Room(maxhooks, count)
<1>8. /\ count \in Nat /\ cells \in Nat /\ Cardinality(Kept(new)) <= count
      /\ count < cells /\ maxhooks <= cells
  <2>1. Cardinality(Kept(list)) \in Nat /\ Cardinality(Kept(new)) \in Nat
    BY <1>1, <1>4, KeptPlaces
  <2>2. Cardinality(Kept(list)) <= numhooks[e] /\ numhooks[e] < maxhooks
    BY <1>1 DEF Counts, list
  <2> QED
    BY <1>1, <1>5, <2>1, <2>2 DEF Room
<1>9. /\ hooks' = [hooks EXCEPT ![e] = new] /\ numhooks' = [numhooks EXCEPT ![e] = count]
      /\ maxhooks' = cells /\ UNCHANGED <<calling, stack>>
  BY <1>2 DEF AddHook, h, k, list
<1> HIDE DEF new, count, cells
<1> QED
  BY <1>4, <1>5, <1>6, <1>7, <1>8, <1>9, HooksChange

\* remove_hook: the hook is only marked while its event is being called.
LEMMA RemoveHookStep ==
  ASSUME IInv, NEW e \in Events, NEW f \in Funcs, RemoveHook(e, f)
  PROVE  IInv'
<1> DEFINE list == hooks[e]
<1>1. list \in Seq(Hook) /\ Distinct(list) /\ Counts(e) /\ numhooks[e] \in Nat /\ maxhooks \in Nat
  BY Types DEF IInv, TypeOK, HooksCounted
<1>2. PICK i \in DOMAIN list :
        /\ ~list[i].deferred
        /\ hooks' = [hooks EXCEPT ![e] = IF Defers(e) THEN [list EXCEPT ![i].deferred = TRUE]
                                         ELSE RemoveAt(list, i)]
  BY DEF RemoveHook
<1> HIDE DEF list
<1> DEFINE cut == RemoveAt(list, i)
           marked == [list EXCEPT ![i].deferred = TRUE]
           new == IF Defers(e) THEN marked ELSE cut
           count == numhooks[e] - 1
<1>3. i \in 1..Len(list) /\ i \in Kept(list) /\ Len(list) \in Nat
  BY <1>1, <1>2 DEF Kept
<1>4. /\ IsFiniteSet(Kept(cut)) /\ Cardinality(Kept(cut)) <= Cardinality(Kept(list)) - 1
      /\ IsFiniteSet(Kept(marked)) /\ Cardinality(Kept(marked)) <= Cardinality(Kept(list)) - 1
  BY <1>1, <1>3, RemovalCounts DEF Counts, list
<1>5. /\ cut \in Seq(Hook) /\ Len(cut) = Len(list) - 1
      /\ \A j \in 1..(Len(list) - 1) : cut[j] = IF j < i THEN list[j] ELSE list[j + 1]
  <2>1. list \in Seq(Hook) /\ i \in 1..Len(list)
    BY <1>1, <1>3
  <2> QED
    BY ONLY <2>1, RemoveAtProperties
<1>6. Distinct(cut)
  <2>1. DOMAIN list = 1..Len(list) /\ DOMAIN cut = 1..(Len(list) - 1)
    BY <1>1, <1>5
  <2> HIDE DEF cut
  <2> DEFINE from(q) == IF q < i THEN q ELSE q + 1
  <2>2. \A q \in DOMAIN cut : from(q) \in DOMAIN list /\ cut[q] = list[from(q)]
    BY <1>3, <1>5, <2>1
  <2>3. \A q, r \in DOMAIN cut : from(q) = from(r) => q = r
    BY <1>3, <2>1
  <2> HIDE DEF from
  <2> QED
    BY <1>1, <2>2, <2>3 DEF Distinct
<1>7. marked \in Seq(Hook) /\ Distinct(marked)
  <2>1. list[i] \in Hook
    BY <1>1, <1>3
  <2>2. [list[i] EXCEPT !.deferred = TRUE] \in Hook /\ [list[i] EXCEPT !.deferred = TRUE].id = list[i].id
    BY <2>1 DEF Hook
  <2>3. marked \in Seq(Hook)
    BY <1>1, <1>3, <2>2
  <2>4. DOMAIN marked = DOMAIN list /\ \A q \in DOMAIN list : marked[q].id = list[q].id
    BY <1>1, <1>3, <2>2
  <2> HIDE DEF marked
  <2> QED
    BY <1>1, <2>3, <2>4 DEF Distinct
<1> HIDE DEF cut, marked
<1>8. /\ new \in Seq(Hook) /\ Distinct(new) /\ IsFiniteSet(Kept(new))
      /\ Cardinality(Kept(new)) <= Cardinality(Kept(list)) - 1
  BY <1>4, <1>5, <1>6, <1>7
<1>9. ASSUME NEW j \in DOMAIN stack, stack[j].ev = e, ~stack[j].nested
      PROVE  OnList(stack[j], new)
  <2>1. calling[e] /\ stack[j] \in Frame
    BY <1>9, Types DEF IInv, TypeOK
  <2>2. OnList(stack[j], list)
    BY <1>9 DEF IInv, CallsWalk, list
  <2>3. OnList(stack[j], marked)
    BY <1>1, <1>3, <2>1, <2>2, DeferOnList DEF marked
  <2> QED
    BY <2>1, <2>3 DEF Defers
<1>10. count \in Nat /\ Cardinality(Kept(new)) <= count /\ count < maxhooks /\ maxhooks <= maxhooks
  <2>1. Cardinality(Kept(list)) \in Nat /\ Cardinality(Kept(new)) \in Nat
    BY <1>1, <1>8, KeptPlaces
  <2>2. Cardinality(Kept(list)) <= numhooks[e] /\ numhooks[e] < maxhooks
    BY <1>1 DEF Counts, list
  <2> QED
    BY <1>1, <1>8, <2>1, <2>2
<1>11. /\ hooks' = [hooks EXCEPT ![e] = new] /\ numhooks' = [numhooks EXCEPT ![e] = count]
       /\ maxhooks' = maxhooks /\ UNCHANGED <<calling, stack>>
  BY <1>2 DEF RemoveHook, cut, marked, list
<1> HIDE DEF new, count
<1> QED
  BY <1>1, <1>8, <1>9, <1>10, <1>11, HooksChange

\* destroy_event: nobody calls the event.
LEMMA DestroyEventStep ==
  ASSUME IInv, NEW e \in Events, DestroyEvent(e)
  PROVE  IInv'
<1>1. ~calling[e] /\ maxhooks \in Nat /\ numhooks[e] \in Nat /\ numhooks[e] < maxhooks
  BY Types DEF IInv, TypeOK, DestroyEvent, HooksCounted, Counts
<1>2. <<>> \in Seq(Hook) /\ Distinct(<<>>) /\ Kept(<<>>) = {}
  BY DEF Distinct, Kept
<1>3. IsFiniteSet(Kept(<<>>)) /\ Cardinality(Kept(<<>>)) <= 0
  BY <1>2, FS_EmptySet
<1>4. \A i \in DOMAIN stack : stack[i].ev = e /\ ~stack[i].nested => OnList(stack[i], <<>>)
  BY <1>1, NobodyCalls
<1>5. /\ hooks' = [hooks EXCEPT ![e] = <<>>] /\ numhooks' = [numhooks EXCEPT ![e] = 0]
      /\ maxhooks' = maxhooks /\ UNCHANGED <<calling, stack>>
  BY DEF DestroyEvent
<1>6. 0 \in Nat /\ 0 < maxhooks /\ maxhooks <= maxhooks
  BY <1>1
<1> QED
  BY <1>1, <1>2, <1>3, <1>4, <1>5, <1>6, HooksChange

-----------------------------------------------------------------------------
(* The steps of hook_event.                                                *)

\* hook_event begins: the calls of the event that are in progress are nested
\* from now on, and the new call has all that is not marked before it.
LEMMA CallStep ==
  ASSUME IInv, NEW e \in Events, Call(e)
  PROVE  IInv'
<1> DEFINE n == Len(stack)
           list == hooks[e]
           live == {list[i].id : i \in Unmarked(list)}
           fr == [ev |-> e, cur |-> None, left |-> live, late |-> FALSE, i |-> 0,
                  seen |-> {}, returned |-> "pass", econd |-> None,
                  need |-> FALSE, nested |-> FALSE]
           around == [i \in DOMAIN stack |-> [stack[i] EXCEPT !.nested = @ \/ stack[i].ev = e]]
           mv == Moved(fr, list, 1)
<1>1. /\ list \in Seq(Hook) /\ Distinct(list) /\ Counts(e) /\ maxhooks \in Nat
      /\ numhooks[e] \in Nat /\ n \in Nat /\ DOMAIN stack = 1..n
      /\ \A i \in 1..n : stack[i] \in Frame
  BY Types DEF IInv, TypeOK, HooksCounted
<1>2. calling' = [calling EXCEPT ![e] = TRUE] /\ UNCHANGED <<hooks, numhooks, maxhooks>>
      /\ stack' = Append(around, mv)
  BY DEF Call, Unmarked
<1> HIDE DEF live, list
<1>3. /\ live \subseteq Structs /\ IsFiniteSet(live)
      /\ Cardinality(live) <= Cardinality(Kept(list)) /\ Cardinality(live) \in Nat
  BY <1>1, LiveCounts DEF live
<1>4. /\ fr \in Frame /\ fr.ev = e /\ fr.left = live /\ ~fr.late /\ fr.i = 0 /\ fr.seen = {}
      /\ fr.returned = "pass" /\ fr.econd = None /\ ~fr.nested
  BY <1>3 DEF Frame
<1> HIDE DEF fr
<1>5. 1 \in 1..(Len(list) + 1) /\ Len(list) \in Nat /\ DOMAIN list = 1..Len(list)
  BY <1>1
<1>6. mv \in Frame /\ Keeps(fr, mv)
  BY <1>1, <1>4, <1>5, MovedFrame
<1>7. OnList(mv, list) /\ Fits(mv, maxhooks)
  <2>1. Covers(fr.left, list, 1 - 1)
    <3>1. ASSUME NEW q \in DOMAIN list, ~Marked(list[q])
          PROVE  list[q].id \in live
      BY <3>1 DEF live, Unmarked
    <3>2. ASSUME NEW id \in live
          PROVE  \E q \in DOMAIN list : list[q].id = id /\ ~list[q].new /\ q > 1 - 1
      <4>1. PICK q \in Unmarked(list) : list[q].id = id
        BY DEF live
      <4>2. q \in DOMAIN list /\ ~list[q].new /\ q > 1 - 1
        BY <1>5 DEF Unmarked, Marked
      <4> QED
        BY <4>1, <4>2
    <3> QED
      BY <1>4, <3>1, <3>2 DEF Covers
  <2>2. fr.i + Cardinality(fr.left) < maxhooks /\ IsFiniteSet(fr.left)
    <3>1. Cardinality(Kept(list)) \in Nat
      BY <1>1, KeptPlaces
    <3>2. Cardinality(Kept(list)) <= numhooks[e] /\ numhooks[e] < maxhooks
      BY <1>1 DEF Counts, list
    <3> QED
      BY <1>1, <1>3, <1>4, <3>1, <3>2
  <2> QED
    BY <1>1, <1>4, <1>5, <2>1, <2>2, MovedWalks
<1> HIDE DEF mv
<1>8. \A i \in 1..n :
        /\ around[i] \in Frame /\ around[i].nested = (stack[i].nested \/ stack[i].ev = e)
        /\ around[i].ev = stack[i].ev /\ around[i].cur = stack[i].cur
        /\ around[i].left = stack[i].left /\ around[i].late = stack[i].late
        /\ around[i].i = stack[i].i /\ around[i].seen = stack[i].seen
        /\ around[i].returned = stack[i].returned /\ around[i].econd = stack[i].econd
  BY <1>1 DEF Frame
<1>9. around \in Seq(Frame) /\ Len(around) = n
  <2>1. around = [i \in 1..n |-> around[i]]
    BY <1>1
  <2> HIDE DEF around
  <2> QED
    BY <1>1, <1>8, <2>1
<1> HIDE DEF around
<1>10. /\ stack' \in Seq(Frame) /\ Len(stack') = n + 1 /\ DOMAIN stack' = 1..(n + 1)
       /\ stack'[n + 1] = mv /\ \A i \in 1..n : stack'[i] = around[i]
  BY <1>1, <1>2, <1>6, <1>9
<1>11. mv.ev = e /\ ~mv.nested /\ mv.i = 0 /\ mv.seen = {} /\ mv.returned = "pass" /\ mv.econd = None
  BY <1>4, <1>6 DEF Keeps
<1>12. /\ calling' \in [Events -> BOOLEAN]
       /\ \A d \in Events : calling'[d] = (d = e \/ calling[d])
  <2>1. calling \in [Events -> BOOLEAN] /\ calling' = [calling EXCEPT ![e] = TRUE]
    BY <1>2, Types DEF IInv
  <2>2. \A d \in Events : calling'[d] = IF d = e THEN TRUE ELSE calling[d]
    BY <2>1
  <2>3. calling' \in [Events -> BOOLEAN]
    BY <2>1
  <2> QED
    BY <2>2, <2>3
<1>13. TypeOK'
  <2>1. ASSUME NEW d \in Events, calling'[d]
        PROVE  InCall(d)'
    <3>1. CASE d = e
      BY <1>1, <1>10, <1>11, <3>1 DEF InCall
    <3>2. CASE d # e
      <4>1. PICK i \in 1..n : stack[i].ev = d
        BY <1>1, <1>12, <2>1, <3>2 DEF IInv, TypeOK, InCall
      <4>2. i \in DOMAIN stack' /\ stack'[i].ev = d
        BY <1>1, <1>8, <1>10, <4>1
      <4> QED
        BY <4>2 DEF InCall
    <3> QED
      BY <3>1, <3>2
  <2>2. ASSUME NEW d \in Events, NEW i \in DOMAIN stack', stack'[i].ev = d, ~stack'[i].nested
        PROVE  calling'[d]
    <3>1. CASE i = n + 1
      BY <1>10, <1>11, <1>12, <2>2, <3>1
    <3>2. CASE i # n + 1
      <4>1. i \in 1..n
        BY <1>1, <1>10, <3>2
      <4>2. stack[i].ev = d /\ ~stack[i].nested
        BY <1>8, <1>10, <2>2, <4>1
      <4> QED
        BY <1>1, <1>12, <4>1, <4>2 DEF IInv, TypeOK
    <3> QED
      BY <3>1, <3>2
  <2> QED
    BY <1>2, <1>10, <1>12, <2>1, <2>2 DEF IInv, TypeOK
<1>14. InnermostOnly'
  <2> SUFFICES ASSUME NEW i \in 1..(n + 1), NEW j \in 1..(n + 1), i < j, stack'[i].ev = stack'[j].ev
               PROVE  stack'[i].nested
    BY <1>10 DEF InnermostOnly
  <2>1. i \in 1..n
    BY <1>1
  <2>2. CASE j = n + 1
    <3>1. stack'[j].ev = e /\ stack'[i] = around[i]
      BY <1>10, <1>11, <2>1, <2>2
    <3>2. around[i].ev = stack[i].ev
      BY <1>8, <2>1
    <3>3. around[i].nested = (stack[i].nested \/ stack[i].ev = e)
      BY <1>8, <2>1
    <3> QED
      BY <3>1, <3>2, <3>3
  <2>3. CASE j # n + 1
    <3>0. j \in 1..n
      BY <1>1, <2>3
    <3>1. j \in 1..n /\ stack[i].ev = stack[j].ev
      <4>1. stack'[i] = around[i] /\ stack'[j] = around[j]
        BY <1>10, <2>1, <3>0
      <4> QED
        BY <1>8, <2>1, <3>0, <4>1
    <3>2. stack[i].nested
      BY <1>1, <2>1, <3>1 DEF IInv, InnermostOnly
    <3> QED
      BY <1>8, <1>10, <2>1, <3>2
  <2> QED
    BY <2>2, <2>3
<1>15. OnlyTopEnds'
  <2> SUFFICES ASSUME NEW i \in 1..n PROVE stack'[i].cur # None
    BY <1>1, <1>10 DEF OnlyTopEnds
  <2>1. CASE i = n
    <3>1. stack # <<>> /\ Last(stack) = stack[n]
      BY <1>1, <2>1 DEF Last
    <3>2. stack[n].cur # None
      BY <3>1 DEF Call, Free, Top
    <3> QED
      BY <1>8, <1>10, <2>1, <3>2
  <2>2. CASE i # n
    <3>0. i \in DOMAIN stack
      BY <1>1
    <3>1. i < n
      <4>1. n \in Nat
        BY <1>1
      <4> HIDE DEF n
      <4> QED
        BY <2>2, <4>1
    <3>2. stack[i].cur # None
      BY <3>0, <3>1 DEF IInv, OnlyTopEnds
    <3> QED
      BY <1>8, <1>10, <3>2
  <2> QED
    BY <2>1, <2>2
<1>16. HooksCounted'
  BY <1>2 DEF IInv, HooksCounted, Counts
<1>17. CallsWalk'
  <2> SUFFICES ASSUME NEW i \in 1..(n + 1), ~stack'[i].nested
               PROVE  OnList(stack'[i], hooks[stack'[i].ev]) /\ Fits(stack'[i], maxhooks)
    BY <1>2, <1>10 DEF CallsWalk
  <2>1. CASE i = n + 1
    BY <1>7, <1>10, <1>11, <2>1 DEF list
  <2>2. CASE i # n + 1
    <3>1. i \in 1..n
      BY <1>1, <2>2
    <3>2. ~stack[i].nested
      BY <1>8, <1>10, <3>1
    <3>3. OnList(stack[i], hooks[stack[i].ev]) /\ Fits(stack[i], maxhooks)
      BY <1>1, <3>1, <3>2 DEF IInv, CallsWalk
    <3>4. OnList(around[i], hooks[stack[i].ev])
      BY <1>8, <3>1, <3>3 DEF OnList
    <3>5. Fits(around[i], maxhooks)
      BY <1>8, <3>1, <3>3 DEF Fits
    <3> QED
      BY <1>8, <1>10, <3>1, <3>4, <3>5
  <2> QED
    BY <2>1, <2>2
<1>18. CallsJudge'
  <2> SUFFICES ASSUME NEW i \in 1..(n + 1) PROVE Judges(stack'[i])
    BY <1>10 DEF CallsJudge
  <2>1. CASE i = n + 1
    BY <1>10, <1>11, <2>1 DEF Judges, Verdict
  <2>2. CASE i # n + 1
    <3>1. i \in 1..n
      BY <1>1, <2>2
    <3>2. Judges(stack[i])
      BY <1>1, <3>1 DEF IInv, CallsJudge
    <3>3. Judges(around[i])
      BY <1>8, <3>1, <3>2 DEF Judges
    <3> QED
      BY <1>10, <3>1, <3>3
  <2> QED
    BY <2>1, <2>2
<1> QED
  BY <1>13, <1>14, <1>15, <1>16, <1>17, <1>18 DEF IInv

\* The innermost call changes, and marks on its list; the others of the same
\* event are nested.
LEMMA TopChanges ==
  ASSUME IInv, stack # <<>>, NEW fr \in Frame, NEW list \in Seq(Hook),
         fr.ev = Top.ev, fr.nested = Top.nested, Distinct(list),
         Kept(list) \subseteq Kept(hooks[fr.ev]),
         ~fr.nested => OnList(fr, list) /\ Fits(fr, maxhooks), Judges(fr),
         hooks' = [hooks EXCEPT ![fr.ev] = list], stack' = Append(Front(stack), fr),
         UNCHANGED <<numhooks, calling, maxhooks>>
  PROVE  IInv'
<1> DEFINE n == Len(stack)
           e == fr.ev
<1>1. /\ n \in Nat \ {0} /\ DOMAIN stack = 1..n /\ Top = stack[n]
      /\ stack' \in Seq(Frame) /\ DOMAIN stack' = 1..n /\ Len(stack') = n
      /\ \A i \in 1..n : stack'[i] = IF i < n THEN stack[i] ELSE fr
  <2>1. stack \in Seq(Frame)
    BY Types DEF IInv
  <2> DEFINE new == Append(Front(stack), fr)
  <2>2. /\ Len(stack) \in Nat \ {0} /\ Last(stack) = stack[Len(stack)]
        /\ new \in Seq(Frame) /\ Len(new) = Len(stack)
        /\ \A i \in 1..Len(stack) : new[i] = IF i < Len(stack) THEN stack[i] ELSE fr
    <3>1. stack # <<>> /\ fr \in Frame
      OBVIOUS
    <3> QED
      BY ONLY <2>1, <3>1, StackProperties
  <2>3. stack' = new
    OBVIOUS
  <2> HIDE DEF new
  <2>4. DOMAIN stack = 1..n /\ DOMAIN new = 1..n
    BY <2>1, <2>2
  <2> QED
    BY <2>2, <2>3, <2>4 DEF Top
<1> HIDE DEF n
<1>2. /\ e \in Events /\ hooks' \in [Events -> Seq(Hook)]
      /\ \A d \in Events : hooks'[d] = IF d = e THEN list ELSE hooks[d]
  BY FrameFields, Types DEF IInv
<1>3. \A i \in 1..n : stack'[i].ev = stack[i].ev /\ stack'[i].nested = stack[i].nested
  <2> SUFFICES ASSUME NEW i \in 1..n
               PROVE  stack'[i].ev = stack[i].ev /\ stack'[i].nested = stack[i].nested
    OBVIOUS
  <2>1. CASE i = n
    BY <1>1, <2>1
  <2>2. CASE i < n
    BY <1>1, <2>2
  <2> QED
    BY <1>1, <2>1, <2>2
<1>4. TypeOK'
  <2>1. \A d \in Events : Distinct(hooks'[d])
    BY <1>2 DEF IInv, TypeOK
  <2>2. ASSUME NEW d \in Events
        PROVE  /\ calling'[d] => InCall(d)'
               /\ (\E i \in DOMAIN stack' : stack'[i].ev = d /\ ~stack'[i].nested) => calling'[d]
    <3>1. InCall(d)' <=> InCall(d)
      BY <1>1, <1>3 DEF InCall
    <3>2. (\E i \in DOMAIN stack' : stack'[i].ev = d /\ ~stack'[i].nested)
          <=> (\E i \in DOMAIN stack : stack[i].ev = d /\ ~stack[i].nested)
      <4>1. DOMAIN stack' = DOMAIN stack /\ DOMAIN stack = 1..n
        BY <1>1
      <4> QED
        BY ONLY <1>3, <4>1
    <3>3. /\ calling[d] => InCall(d)
          /\ (\E i \in DOMAIN stack : stack[i].ev = d /\ ~stack[i].nested) => calling[d]
      BY DEF IInv, TypeOK
    <3> QED
      BY <3>1, <3>2, <3>3
  <2>3. numhooks' \in [Events -> Nat] /\ calling' \in [Events -> BOOLEAN] /\ maxhooks' \in Nat
    BY Types DEF IInv
  <2> QED
    BY <1>1, <1>2, <2>1, <2>2, <2>3 DEF TypeOK
<1>5. InnermostOnly'
  BY <1>1, <1>3 DEF IInv, InnermostOnly
<1>6. OnlyTopEnds'
  <2> SUFFICES ASSUME NEW i \in 1..n, i < n PROVE stack'[i].cur # None
    BY <1>1 DEF OnlyTopEnds
  <2>1. stack[i].cur # None
    BY <1>1 DEF IInv, OnlyTopEnds, n
  <2> QED
    BY <1>1, <2>1
<1>7. HooksCounted'
  <2> SUFFICES ASSUME NEW d \in Events PROVE Counts(d)'
    BY DEF HooksCounted
  <2>1. Counts(d) /\ numhooks[d] \in Nat
    BY Types DEF IInv, HooksCounted
  <2>2. CASE d = e
    <3>1. IsFiniteSet(Kept(list)) /\ Cardinality(Kept(list)) <= Cardinality(Kept(hooks[e]))
      BY <2>1, <2>2, FS_Subset DEF Counts
    <3>2. Cardinality(Kept(list)) \in Nat /\ Cardinality(Kept(hooks[e])) \in Nat
      BY <2>1, <2>2, <3>1, FS_CardinalityType DEF Counts
    <3>3. Cardinality(Kept(list)) <= numhooks[e]
      BY <2>1, <2>2, <3>1, <3>2 DEF Counts
    <3> QED
      BY <1>2, <2>1, <2>2, <3>1, <3>3 DEF Counts
  <2>3. CASE d # e
    BY <1>2, <2>1, <2>3 DEF Counts
  <2> QED
    BY <2>2, <2>3
<1>8. CallsWalk'
  <2> SUFFICES ASSUME NEW i \in 1..n, ~stack'[i].nested
               PROVE  OnList(stack'[i], hooks'[stack'[i].ev]) /\ Fits(stack'[i], maxhooks)
    BY <1>1 DEF CallsWalk
  <2>1. CASE i = n
    <3>1. stack'[i] = fr
      BY <1>1, <2>1
    <3> QED
      BY <1>2, <3>1
  <2>2. CASE i < n
    <3>1. stack'[i] = stack[i] /\ ~stack[i].nested /\ stack[i] \in Frame
      BY <1>1, <2>2, Types DEF IInv
    <3>2. stack[i].ev # e
      <4>1. i \in DOMAIN stack /\ n \in DOMAIN stack /\ i < n /\ stack[n].ev = e
        BY <1>1, <2>2
      <4> QED
        BY <3>1, <4>1 DEF IInv, InnermostOnly
    <3>3. OnList(stack[i], hooks[stack[i].ev]) /\ Fits(stack[i], maxhooks)
      BY <1>1, <3>1 DEF IInv, CallsWalk
    <3> QED
      BY <1>2, <3>1, <3>2, <3>3, FrameFields
  <2> QED
    BY <1>1, <2>1, <2>2
<1>9. CallsJudge'
  <2> SUFFICES ASSUME NEW i \in 1..n PROVE Judges(stack'[i])
    BY <1>1 DEF CallsJudge
  <2>1. CASE i = n
    BY <1>1, <2>1
  <2>2. CASE i < n
    BY <1>1, <2>2 DEF IInv, CallsJudge
  <2> QED
    BY <1>1, <2>1, <2>2
<1> QED
  BY <1>4, <1>5, <1>6, <1>7, <1>8, <1>9 DEF IInv

\* A value is stored: only the result of a conditional event depends on it,
\* and it stays what the values make it.
LEMMA StoredJudges ==
  ASSUME NEW fr \in Frame, NEW v \in Values, Judges(fr), fr.cur # None
  PROVE  /\ Stored(fr, v) \in Frame
         /\ Stored(fr, v).ev = fr.ev /\ Stored(fr, v).cur = fr.cur /\ Stored(fr, v).left = fr.left
         /\ Stored(fr, v).late = fr.late /\ Stored(fr, v).i = fr.i + 1
         /\ Stored(fr, v).nested = fr.nested
         /\ Judges([Stored(fr, v) EXCEPT !.cur = None, !.left = {}])
         /\ ~Stops(fr.ev, v) => Judges(Stored(fr, v))
<1> DEFINE st == Stored(fr, v)
           jd == Judged(fr, v)
<1>1. v \in {"alwaysok", "ok", "neverok", "notok", "neutral", "text"}
  BY EventsAssumption
<1>2. /\ jd \in Frame
      /\ jd.ev = fr.ev /\ jd.cur = fr.cur /\ jd.left = fr.left /\ jd.late = fr.late /\ jd.i = fr.i
      /\ jd.nested = fr.nested /\ jd.seen = fr.seen
      /\ jd.returned = CASE v = "alwaysok" -> "spass" [] v \in {"neverok", "notok", "text"} -> "fail"
                         [] OTHER -> fr.returned
      /\ jd.econd = IF v = "text" THEN v ELSE fr.econd
  <2>1. jd = CASE v = "alwaysok" -> [fr EXCEPT !.returned = "spass"]
               [] v \in {"neverok", "notok"} -> [fr EXCEPT !.returned = "fail"]
               [] v \in {"ok", "neutral"} -> fr
               [] OTHER -> [fr EXCEPT !.returned = "fail", !.econd = v]
    <3>1. CASE v = "alwaysok"
      BY <3>1 DEF Judged, Number
    <3>2. CASE v \in {"neverok", "notok"}
      BY <3>2 DEF Judged, Number
    <3>3. CASE v \in {"ok", "neutral"}
      BY <3>3 DEF Judged, Number
    <3>4. CASE v = "text"
      <4>1. Number(v) = 1 /\ Number("alwaysok") = -4 /\ Number("neverok") = -2
            /\ Number("ok") = -3 /\ Number("neutral") = 0
        BY <3>4 DEF Number
      <4> QED
        BY <3>4, <4>1 DEF Judged
    <3> QED
      BY <1>1, <3>1, <3>2, <3>3, <3>4
  <2> HIDE DEF jd
  <2>2. CASE v = "alwaysok"
    BY <2>1, <2>2 DEF Frame
  <2>3. CASE v \in {"neverok", "notok"}
    BY <2>1, <2>3 DEF Frame
  <2>4. CASE v \in {"ok", "neutral"}
    BY <2>1, <2>4 DEF Frame
  <2>5. CASE v = "text"
    <3>1. jd = [fr EXCEPT !.returned = "fail", !.econd = "text"]
      BY <2>1, <2>5
    <3> QED
      BY <2>5, <3>1 DEF Frame
  <2> QED
    BY <1>1, <2>2, <2>3, <2>4, <2>5
<1> HIDE DEF jd
<1>3. CASE fr.ev \notin Cond
  <2>1. st = [fr EXCEPT !.i = @ + 1]
    BY <1>3 DEF Stored
  <2> HIDE DEF st
  <2>2. /\ st \in Frame /\ st.ev = fr.ev /\ st.cur = fr.cur /\ st.left = fr.left
        /\ st.late = fr.late /\ st.i = fr.i + 1 /\ st.nested = fr.nested
        /\ [st EXCEPT !.cur = None, !.left = {}].ev = fr.ev
    BY <2>1 DEF Frame
  <2> QED
    BY <1>3, <2>2 DEF Judges, st
<1>4. CASE fr.ev \in Cond
  <2>1. st = [jd EXCEPT !.i = @ + 1, !.seen = @ \cup {v}]
    BY <1>4 DEF Stored, jd
  <2> HIDE DEF st
  <2>2. /\ st \in Frame /\ st.ev = fr.ev /\ st.cur = fr.cur /\ st.left = fr.left
        /\ st.late = fr.late /\ st.i = fr.i + 1 /\ st.nested = fr.nested
        /\ st.seen = fr.seen \cup {v} /\ st.returned = jd.returned /\ st.econd = jd.econd
    <3>1. jd \in Frame /\ jd.seen \cup {v} \in SUBSET Values /\ jd.i + 1 \in Nat
      <4>1. jd \in Frame
        BY <1>2
      <4> QED
        BY <4>1, FrameFields
    <3>2. /\ st \in Frame /\ st.ev = jd.ev /\ st.cur = jd.cur /\ st.left = jd.left
          /\ st.late = jd.late /\ st.i = jd.i + 1 /\ st.nested = jd.nested
          /\ st.seen = jd.seen \cup {v} /\ st.returned = jd.returned /\ st.econd = jd.econd
      BY <2>1, <3>1 DEF Frame
    <3> QED
      BY <1>2, <3>2
  <2> DEFINE end == [st EXCEPT !.cur = None, !.left = {}]
  <2>3. /\ end.ev = st.ev /\ end.seen = st.seen /\ end.returned = st.returned
        /\ end.econd = st.econd /\ end.cur = None
    BY <2>2 DEF Frame
  <2> HIDE DEF end
  <2>4. /\ fr.returned = Verdict(fr.seen)
        /\ fr.econd # None <=> "text" \in fr.seen
        /\ fr.seen \cap {"alwaysok", "neverok", "notok"} = {}
    BY <1>4 DEF Judges
  <2>5. /\ jd.returned = Verdict(st.seen)
        /\ jd.econd # None <=> "text" \in st.seen
    <3>1. st.seen = fr.seen \cup {v} /\ jd.econd = IF v = "text" THEN v ELSE fr.econd
      BY <1>2, <2>2
    <3>2. jd.econd # None <=> "text" \in st.seen
      BY <2>4, <3>1 DEF None
    <3>3. jd.returned = CASE v = "alwaysok" -> "spass" [] v \in {"neverok", "notok", "text"} -> "fail"
                          [] OTHER -> fr.returned
      BY <1>2
    <3>4. CASE v = "alwaysok"
      BY <3>1, <3>2, <3>3, <3>4 DEF Verdict
    <3>5. CASE v \in {"neverok", "notok", "text"}
      <4>1. "alwaysok" \notin st.seen /\ st.seen \cap {"neverok", "notok", "text"} # {}
        BY <2>4, <3>1, <3>5
      <4>2. jd.returned = "fail"
        BY <3>3, <3>5
      <4> QED
        BY <3>2, <4>1, <4>2 DEF Verdict
    <3>6. CASE v \in {"ok", "neutral"}
      <4>1. /\ "alwaysok" \in st.seen <=> "alwaysok" \in fr.seen
            /\ st.seen \cap {"neverok", "notok", "text"} = fr.seen \cap {"neverok", "notok", "text"}
        BY <3>1, <3>6
      <4>2. jd.returned = fr.returned
        BY <3>3, <3>6
      <4> QED
        BY <2>4, <3>2, <4>1, <4>2 DEF Verdict
    <3> QED
      BY <1>1, <3>2, <3>4, <3>5, <3>6
  <2>6. Judges(end)
    BY <2>2, <2>3, <2>5 DEF Judges
  <2>7. ASSUME ~Stops(fr.ev, v)
        PROVE  Judges(st)
    <3>1. v \notin {"alwaysok", "neverok", "notok"}
      BY <1>4, <2>7 DEF Stops, Number
    <3>2. st.seen \cap {"alwaysok", "neverok", "notok"} = {}
      BY <2>2, <2>4, <3>1
    <3> QED
      BY <2>2, <2>5, <3>2 DEF Judges
  <2> QED
    BY <2>2, <2>6, <2>7 DEF st, end
<1> QED
  BY <1>3, <1>4

\* The function of a hook returns: the value stops the call, or the call goes
\* on behind the hook, which HOOKONCE marks first.
LEMMA ReturnStep ==
  ASSUME IInv, NEW v \in Values, Return(v)
  PROVE  IInv'
<1> DEFINE n == Len(stack)
           e == Top.ev
           st == Stored(Top, v)
           at == CHOOSE i \in DOMAIN hooks[e] : hooks[e][i].id = Top.cur
           old == hooks[e]
           list == IF e \in Once THEN [old EXCEPT ![at].deferred = TRUE] ELSE old
           ended == [st EXCEPT !.cur = None, !.left = {}]
           going == [st EXCEPT !.need = @ \/ e \in Once]
           moved == Moved(going, list, at + 1)
<1>1. /\ stack # <<>> /\ Top.cur # None /\ Sound(Top)
      /\ UNCHANGED <<numhooks, calling, maxhooks>>
      /\ \/ /\ Stops(e, v)
            /\ stack' = Append(Front(stack), ended)
            /\ hooks' = hooks
         \/ /\ ~Stops(e, v)
            /\ hooks' = [hooks EXCEPT ![e] = list]
            /\ stack' = Append(Front(stack), moved)
  BY DEF Return
<1> HIDE DEF st, at
<1>2. n \in Nat \ {0} /\ Top = stack[n] /\ Top \in Frame /\ n \in DOMAIN stack
  <2>1. stack \in Seq(Frame)
    BY Types DEF IInv
  <2> QED
    BY <1>1, <2>1 DEF Top, Last
<1>3. /\ e \in Events /\ old \in Seq(Hook) /\ Distinct(old) /\ maxhooks \in Nat /\ Top.i \in Nat
      /\ ~Top.nested => OnList(Top, old) /\ Fits(Top, maxhooks)
      /\ Judges(Top)
  BY <1>2, FrameFields, Types DEF IInv, TypeOK, CallsWalk, CallsJudge
<1>4. /\ st \in Frame
      /\ st.ev = e /\ st.cur = Top.cur /\ st.left = Top.left
      /\ st.late = Top.late /\ st.i = Top.i + 1 /\ st.nested = Top.nested
      /\ Judges(ended) /\ (~Stops(e, v) => Judges(st))
  BY <1>1, <1>2, <1>3, StoredJudges DEF st
<1>5. at \in DOMAIN old /\ old[at].id = Top.cur
  <2>1. \E i \in DOMAIN old : old[i].id = Top.cur
    BY <1>1 DEF Sound, Ids
  <2> QED
    BY <2>1 DEF at
<1> HIDE DEF old, e
<1>6. DOMAIN old = 1..Len(old) /\ Len(old) \in Nat /\ at \in 1..Len(old)
  BY <1>3, <1>5
<1>7. /\ list \in Seq(Hook) /\ DOMAIN list = DOMAIN old /\ Len(list) = Len(old)
      /\ \A q \in DOMAIN old : /\ list[q].id = old[q].id /\ list[q].new = old[q].new
                               /\ old[q].deferred => list[q].deferred
                               /\ q # at => list[q] = old[q]
  <2>1. old[at] \in Hook
    BY <1>3, <1>6
  <2>2. /\ [old[at] EXCEPT !.deferred = TRUE] \in Hook
        /\ [old[at] EXCEPT !.deferred = TRUE].id = old[at].id
        /\ [old[at] EXCEPT !.deferred = TRUE].new = old[at].new
        /\ [old[at] EXCEPT !.deferred = TRUE].deferred
    BY <2>1 DEF Hook
  <2>3. CASE e \in Once
    <3>1. list = [old EXCEPT ![at] = [old[at] EXCEPT !.deferred = TRUE]]
      BY <2>3
    <3> QED
      BY <1>3, <1>6, <2>2, <3>1
  <2>4. CASE e \notin Once
    BY <1>3, <2>4
  <2> QED
    BY <2>3, <2>4
<1> HIDE DEF list
<1>8. Distinct(list) /\ Kept(list) \subseteq Kept(old)
  BY <1>3, <1>7 DEF Distinct, Kept
<1>9. CASE /\ Stops(e, v) /\ stack' = Append(Front(stack), ended) /\ hooks' = hooks
  <2>1. /\ ended \in Frame /\ ended.ev = e /\ ended.nested = Top.nested /\ ended.cur = None
        /\ ended.left = {} /\ ended.late = Top.late /\ ended.i = Top.i + 1
    BY <1>4 DEF Frame
  <2> HIDE DEF ended
  <2>2. ASSUME ~Top.nested
        PROVE  OnList(ended, old) /\ Fits(ended, maxhooks)
    <3>1. OnList(ended, old)
      BY <1>3, <2>1, <2>2 DEF OnList
    <3>2. IsFiniteSet(Top.left) /\ Cardinality(Top.left) \in Nat
      BY <1>3, <2>2, FS_CardinalityType DEF Fits
    <3>3. Top.i + Cardinality(Top.left) + 1 < maxhooks
      BY <1>1, <1>3, <2>2 DEF Fits
    <3>4. IsFiniteSet({}) /\ Cardinality({}) = 0
      BY FS_EmptySet
    <3>5. Top.i + 1 + 0 + 0 < maxhooks
      BY <1>3, <3>2, <3>3
    <3>6. Fits(ended, maxhooks)
      BY <2>1, <3>4, <3>5 DEF Fits
    <3> QED
      BY <3>1, <3>6
  <2>3. hooks' = [hooks EXCEPT ![e] = old]
    BY <1>3, <1>9, Types DEF IInv, old
  <2> QED
    BY <1>1, <1>3, <1>4, <1>9, <2>1, <2>2, <2>3, TopChanges DEF old, e
<1>10. CASE /\ ~Stops(e, v) /\ hooks' = [hooks EXCEPT ![e] = list]
            /\ stack' = Append(Front(stack), moved)
  <2>1. /\ going \in Frame /\ going.ev = e /\ going.nested = Top.nested /\ going.cur = Top.cur
        /\ going.left = Top.left /\ going.late = Top.late /\ going.i = Top.i + 1
        /\ going.seen = st.seen /\ going.returned = st.returned /\ going.econd = st.econd
    BY <1>4 DEF Frame
  <2> HIDE DEF going
  <2>2. at + 1 \in 1..(Len(list) + 1) /\ (at + 1) - 1 = at
    BY <1>6, <1>7
  <2>3. moved \in Frame /\ Keeps(going, moved)
    BY <1>7, <2>1, <2>2, MovedFrame
  <2>4. Judges(moved)
    <3>1. Judges(st)
      BY <1>4, <1>10
    <3>2. /\ moved.ev = st.ev /\ moved.seen = st.seen /\ moved.returned = st.returned
          /\ moved.econd = st.econd
      BY <1>4, <2>1, <2>3 DEF Keeps
    <3> QED
      BY <1>1, <1>4, <3>1, <3>2 DEF Judges
  <2>5. ASSUME ~Top.nested
        PROVE  OnList(moved, list) /\ Fits(moved, maxhooks)
    <3>1. Covers(Top.left, old, at) /\ ~Top.late
      <4>1. PICK p \in DOMAIN old : old[p].id = Top.cur /\ Covers(Top.left, old, p)
        BY <1>1, <1>3, <2>5 DEF OnList
      <4>2. p = at
        BY <1>3, <1>5, <4>1 DEF Distinct
      <4> QED
        BY <1>3, <2>5, <4>1, <4>2 DEF OnList
    <3>2. Covers(Top.left, list, at)
      <4>1. ASSUME NEW q \in DOMAIN list, q > at, ~Marked(list[q])
            PROVE  list[q].id \in Top.left
        <5>1. q \in DOMAIN old /\ list[q] = old[q]
          BY <1>6, <1>7, <4>1
        <5> QED
          BY <3>1, <4>1, <5>1 DEF Covers
      <4>2. ASSUME NEW id \in Top.left
            PROVE  \E q \in DOMAIN list :
                     list[q].id = id /\ ~list[q].new /\ (q > at \/ list[q].deferred)
        <5>1. PICK q \in DOMAIN old : old[q].id = id /\ ~old[q].new /\ (q > at \/ old[q].deferred)
          BY <3>1 DEF Covers
        <5> QED
          BY <1>7, <5>1
      <4> QED
        BY <4>1, <4>2 DEF Covers
    <3>3. IsFiniteSet(Top.left) /\ Cardinality(Top.left) \in Nat
      BY <1>3, <2>5, FS_CardinalityType DEF Fits
    <3>4. Top.i + Cardinality(Top.left) + 1 < maxhooks
      BY <1>1, <1>3, <2>5 DEF Fits
    <3>5. going.i + Cardinality(going.left) < maxhooks
      BY <1>3, <2>1, <3>3, <3>4
    <3> QED
      BY <1>3, <1>7, <1>8, <2>1, <2>2, <3>1, <3>2, <3>3, <3>5, MovedWalks
  <2> HIDE DEF moved
  <2>6. moved.ev = e /\ moved.nested = Top.nested
    BY <2>1, <2>3 DEF Keeps
  <2> QED
    BY <1>1, <1>7, <1>8, <1>10, <2>3, <2>4, <2>5, <2>6, TopChanges DEF old, e
<1> QED
  BY <1>1, <1>9, <1>10

\* hook_event ends: what is left of the list is whole again, and the calls of
\* the event that are still in progress are nested ones.
LEMMA FinishStep ==
  ASSUME IInv, Finish
  PROVE  IInv'
<1> DEFINE n == Len(stack)
           e == Top.ev
           list == IF Top.need THEN Swept(hooks[e]) ELSE hooks[e]
<1>1. /\ n \in Nat \ {0} /\ Top = stack[n] /\ Top \in Frame /\ DOMAIN stack = 1..n
      /\ stack' \in Seq(Frame) /\ Len(stack') = n - 1 /\ DOMAIN stack' = 1..(n - 1)
      /\ \A i \in 1..(n - 1) : stack'[i] = stack[i]
  <2>1. stack \in Seq(Frame) /\ stack # <<>> /\ stack' = Front(stack)
    BY Types DEF IInv, Finish, Ends
  <2>2. stack[1] \in Frame
    BY <2>1
  <2>3. /\ Len(stack) \in Nat \ {0} /\ Last(stack) = stack[Len(stack)] /\ Last(stack) \in Frame
        /\ Front(stack) \in Seq(Frame) /\ Len(Front(stack)) = Len(stack) - 1
        /\ \A i \in 1..(Len(stack) - 1) : Front(stack)[i] = stack[i]
    BY ONLY <2>1, <2>2, StackProperties
  <2>4. DOMAIN stack = 1..n /\ DOMAIN Front(stack) = 1..(n - 1)
    BY <2>1, <2>3
  <2> QED
    BY <2>1, <2>3, <2>4 DEF Top
<1>2. /\ e \in Events /\ hooks[e] \in Seq(Hook) /\ Distinct(hooks[e])
      /\ calling' = [calling EXCEPT ![e] = FALSE] /\ hooks' = [hooks EXCEPT ![e] = list]
      /\ UNCHANGED <<numhooks, maxhooks>>
  <2>1. e \in Events
    BY <1>1, FrameFields
  <2>2. hooks[e] \in Seq(Hook) /\ Distinct(hooks[e]) /\ hooks \in [Events -> Seq(Hook)]
    BY <2>1, Types DEF IInv, TypeOK
  <2>3. hooks' = [hooks EXCEPT ![e] = list]
    BY <2>1, <2>2 DEF Finish
  <2> QED
    BY <2>1, <2>2, <2>3 DEF Finish, Ended
<1>3. /\ list \in Seq(Hook) /\ Distinct(list)
      /\ IsFiniteSet(Kept(list)) /\ Cardinality(Kept(list)) <= Cardinality(Kept(hooks[e]))
  <2>1. IsFiniteSet(Kept(hooks[e])) /\ Cardinality(Kept(hooks[e])) \in Nat
    BY <1>2, KeptPlaces
  <2> QED
    BY <1>2, <2>1, SweptHooks
<1> HIDE DEF n, list
<1>4. /\ hooks' \in [Events -> Seq(Hook)] /\ calling' \in [Events -> BOOLEAN]
      /\ \A d \in Events : hooks'[d] = IF d = e THEN list ELSE hooks[d]
      /\ \A d \in Events : calling'[d] = IF d = e THEN FALSE ELSE calling[d]
  BY <1>2, <1>3, Types DEF IInv
<1>5. \A i \in 1..(n - 1) : i \in DOMAIN stack /\ i < n /\ (stack[i].ev = e => stack[i].nested)
  <2>1. \A i \in 1..(n - 1) : i \in DOMAIN stack /\ i < n /\ n \in DOMAIN stack
    BY <1>1
  <2> QED
    BY <1>1, <2>1 DEF IInv, InnermostOnly
<1>6. TypeOK'
  <2>1. \A d \in Events : Distinct(hooks'[d])
    BY <1>3, <1>4 DEF IInv, TypeOK
  <2>2. ASSUME NEW d \in Events, calling'[d]
        PROVE  InCall(d)'
    <3>1. d # e /\ calling[d]
      BY <1>4, <2>2
    <3>2. PICK i \in 1..n : stack[i].ev = d
      BY <1>1, <3>1 DEF IInv, TypeOK, InCall
    <3>3. i \in 1..(n - 1)
      BY <1>1, <3>1, <3>2
    <3> QED
      BY <1>1, <3>2, <3>3 DEF InCall
  <2>3. ASSUME NEW d \in Events, NEW i \in DOMAIN stack', stack'[i].ev = d, ~stack'[i].nested
        PROVE  calling'[d]
    <3>1. i \in DOMAIN stack /\ stack[i].ev = d /\ ~stack[i].nested /\ d # e
      BY <1>1, <1>5, <2>3
    <3>2. calling[d]
      BY <3>1 DEF IInv, TypeOK
    <3> QED
      BY <1>4, <3>1, <3>2
  <2>4. numhooks' \in [Events -> Nat] /\ maxhooks' \in Nat
    BY <1>2, Types DEF IInv
  <2> QED
    BY <1>1, <1>4, <2>1, <2>2, <2>3, <2>4 DEF TypeOK
<1>7. InnermostOnly' /\ OnlyTopEnds' /\ CallsJudge'
  <2>1. InnermostOnly'
    BY <1>1, <1>5 DEF IInv, InnermostOnly
  <2>2. OnlyTopEnds'
    BY <1>1, <1>5 DEF IInv, OnlyTopEnds, n
  <2>3. CallsJudge'
    BY <1>1, <1>5 DEF IInv, CallsJudge
  <2> QED
    BY <2>1, <2>2, <2>3
<1>8. HooksCounted'
  <2> SUFFICES ASSUME NEW d \in Events PROVE Counts(d)'
    BY DEF HooksCounted
  <2>1. Counts(d) /\ numhooks[d] \in Nat
    BY Types DEF IInv, HooksCounted
  <2>2. CASE d = e
    <3>1. Cardinality(Kept(list)) \in Nat /\ Cardinality(Kept(hooks[e])) \in Nat
      BY <1>2, <1>3, KeptPlaces
    <3>2. Cardinality(Kept(list)) <= numhooks[e]
      BY <1>3, <2>1, <2>2, <3>1 DEF Counts
    <3> QED
      BY <1>2, <1>3, <1>4, <2>1, <2>2, <3>2 DEF Counts
  <2>3. CASE d # e
    BY <1>2, <1>4, <2>1, <2>3 DEF Counts
  <2> QED
    BY <2>2, <2>3
<1>9. CallsWalk'
  <2> SUFFICES ASSUME NEW i \in 1..(n - 1), ~stack[i].nested
               PROVE  OnList(stack[i], hooks'[stack[i].ev]) /\ Fits(stack[i], maxhooks)
    BY <1>1, <1>2 DEF CallsWalk
  <2>1. stack[i].ev # e /\ i \in DOMAIN stack
    BY <1>5
  <2>2. OnList(stack[i], hooks[stack[i].ev]) /\ Fits(stack[i], maxhooks)
    BY <2>1 DEF IInv, CallsWalk
  <2>3. stack[i].ev \in Events
    BY <1>1, <2>1, FrameFields, Types DEF IInv
  <2> QED
    BY <1>4, <2>1, <2>2, <2>3
<1> QED
  BY <1>6, <1>7, <1>8, <1>9 DEF IInv

-----------------------------------------------------------------------------
(* The invariant, and what it says of calls.                               *)

\* Nothing is hooked and nothing is called at first.
LEMMA InitInvariant == Init => IInv
<1> SUFFICES ASSUME Init PROVE IInv
  OBVIOUS
<1>1. /\ stack = <<>> /\ DOMAIN stack = {} /\ maxhooks = FirstMax /\ FirstMax \in Nat \ {0}
      /\ \A e \in Events : hooks[e] = <<>> /\ numhooks[e] = 0 /\ ~calling[e]
  BY EventsAssumption DEF Init
<1>2. <<>> \in Seq(Hook) /\ <<>> \in Seq(Frame) /\ Distinct(<<>>) /\ Kept(<<>>) = {}
  BY DEF Distinct, Kept
<1>3. TypeOK
  BY <1>1, <1>2 DEF Init, TypeOK
<1>4. HooksCounted
  <2>1. IsFiniteSet({}) /\ Cardinality({}) = 0
    BY FS_EmptySet
  <2>2. \A e \in Events : Kept(hooks[e]) = {} /\ numhooks[e] = 0 /\ 0 < maxhooks
    BY <1>1, <1>2
  <2> QED
    BY <2>1, <2>2 DEF HooksCounted, Counts
<1>5. InnermostOnly /\ OnlyTopEnds /\ CallsWalk /\ CallsJudge
  BY <1>1 DEF InnermostOnly, OnlyTopEnds, CallsWalk, CallsJudge
<1> QED
  BY <1>3, <1>4, <1>5 DEF IInv

\* Every step of the main program, of a hook and of hook_event preserves it.
LEMMA StepInvariant == IInv /\ [Next]_vars => IInv'
<1> SUFFICES ASSUME IInv, [Next]_vars PROVE IInv'
  OBVIOUS
<1>1. ASSUME NEW e \in Events, NEW f \in Funcs, NEW g \in Funcs \cup {None},
             AddHook(e, f, After(hooks[e], g)) \/ AddHook(e, f, Before(hooks[e], g))
      PROVE  IInv'
  <2>1. hooks[e] \in Seq(Hook)
    BY Types DEF IInv
  <2>2. After(hooks[e], g) \in 0..Len(hooks[e]) /\ Before(hooks[e], g) \in 0..Len(hooks[e])
    BY <2>1, PlacesExist
  <2> QED
    BY <1>1, <2>2, AddHookStep
<1>2. ASSUME NEW e \in Events, NEW f \in Funcs, RemoveHook(e, f)
      PROVE  IInv'
  BY <1>2, RemoveHookStep
<1>3. ASSUME NEW e \in Events, Call(e)
      PROVE  IInv'
  BY <1>3, CallStep
<1>4. ASSUME NEW e \in Events, DestroyEvent(e)
      PROVE  IInv'
  BY <1>4, DestroyEventStep
<1>5. ASSUME NEW v \in Values, Return(v)
      PROVE  IInv'
  BY <1>5, ReturnStep
<1>6. CASE Finish
  BY <1>6, FinishStep
<1>7. CASE UNCHANGED vars
  <2>1. /\ hooks' = hooks /\ numhooks' = numhooks /\ calling' = calling /\ maxhooks' = maxhooks
        /\ stack' = stack
    BY <1>7 DEF vars
  <2> QED
    BY <2>1 DEF IInv, TypeOK, InCall, InnermostOnly, OnlyTopEnds, HooksCounted, Counts,
                CallsWalk, CallsJudge
<1> QED
  BY <1>1, <1>2, <1>3, <1>4, <1>5, <1>6, <1>7 DEF Next

\* In every state the calls in progress have their place on their list, the
\* hooks left to call are still in front of them and fit into hookreturns, and
\* the results are what the values make them.
THEOREM InductiveInvariant == Spec => []IInv
<1>1. Init => IInv
  BY InitInvariant
<1>2. IInv /\ [Next]_vars => IInv'
  BY StepInvariant
<1> QED
  BY <1>1, <1>2, PTL DEF Spec

\* Lists of hooks have no memory twice, counts do not go below zero, and
\* EVENT_FL_CALLING is set while an event is being called, and not after.
THEOREM TypeCorrect == Spec => []TypeOK
<1>1. IInv => TypeOK
  BY DEF IInv
<1> QED
  BY <1>1, InductiveInvariant, PTL

\* What the invariant says of one call.
LEMMA InvariantSound == IInv => CallsSound
<1> SUFFICES ASSUME IInv, NEW i \in DOMAIN stack
             PROVE  /\ Sound(stack[i]) \/ stack[i].nested
                    /\ LET fr == stack[i]
                           removed == {h.id : h \in {g \in ToSet(hooks[fr.ev]) : g.deferred}}
                       IN ~fr.nested => ~fr.late /\ (fr.cur = None => fr.left \subseteq removed)
                    /\ LET fr == stack[i]
                       IN fr.ev \in Cond /\ fr.cur = None =>
                            fr.returned = Verdict(fr.seen) /\ (fr.econd # None <=> "text" \in fr.seen)
  BY DEF CallsSound, NoFault, CalledFromStart, ConditionalResult
<1> DEFINE fr == stack[i]
           list == hooks[fr.ev]
           removed == {h.id : h \in {g \in ToSet(list) : g.deferred}}
<1>1. /\ fr \in Frame /\ fr.i \in Nat /\ maxhooks \in Nat /\ Judges(fr)
      /\ ~fr.nested => OnList(fr, list) /\ Fits(fr, maxhooks)
  BY FrameFields, Types DEF IInv, CallsWalk, CallsJudge
<1>2. ASSUME ~fr.nested, fr.cur # None
      PROVE  fr.cur \in Ids(fr.ev) /\ fr.i < maxhooks
  <2>1. fr.cur \in Ids(fr.ev)
    BY <1>1, <1>2 DEF OnList, Ids
  <2>2. Cardinality(fr.left) \in Nat
    BY <1>1, <1>2, FS_CardinalityType DEF Fits
  <2>3. fr.i + Cardinality(fr.left) + 1 < maxhooks
    BY <1>1, <1>2 DEF Fits
  <2> QED
    BY <1>1, <2>1, <2>2, <2>3
<1>3. ASSUME ~fr.nested
      PROVE  ~fr.late /\ (fr.cur = None => fr.left \subseteq removed)
  <2>1. ASSUME fr.cur = None, NEW id \in fr.left
        PROVE  id \in removed
    <3>1. PICK q \in DOMAIN list : list[q].id = id /\ list[q].deferred
      BY <1>1, <1>3, <2>1 DEF OnList
    <3>2. list[q] \in {g \in ToSet(list) : g.deferred}
      BY <3>1 DEF ToSet
    <3> QED
      BY <3>1, <3>2
  <2> QED
    BY <1>1, <1>3, <2>1 DEF OnList
<1>4. fr.ev \in Cond => fr.returned = Verdict(fr.seen) /\ (fr.econd # None <=> "text" \in fr.seen)
  BY <1>1 DEF Judges
<1>5. Sound(fr) \/ fr.nested
  BY <1>2 DEF Sound
<1> QED
  BY <1>3, <1>4, <1>5

\* However hooks add and remove hooks and call events, hook_event never uses a
\* hook that has been freed and never writes past the end of hookreturns; a
\* call that is not stopped calls each hook that was there when it began, but
\* for those removed before their turn, and none added since; and the result
\* of a conditional event is the one event.h tells.
THEOREM CallsAreSound == Spec => []CallsSound
<1>1. IInv => CallsSound
  BY InvariantSound
<1> QED
  BY <1>1, InductiveInvariant, PTL
=============================================================================
