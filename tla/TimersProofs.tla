---------------------------- MODULE TimersProofs ----------------------------
(***************************************************************************)
(* Proofs about Timers for every value of its constants: the list stays    *)
(* ordered by execution time, no two live timers share a reference, and a  *)
(* timer runs as often as it was asked to.                                 *)
(***************************************************************************)
EXTENDS Timers, ListLemmas, TLAPS

\* Before the first rollover every live reference is below the count, which is
\* why create_timer need not search for a free one.
RefsBelowCount ==
  ~rollover => \A i \in DOMAIN timers : timers[i].ref < refcnt

\* A callback runs on a timer that is still in the list.
CurrentAlive == pc = "callback" => tep \in LiveRefs

IInv == TypeOK /\ Sorted /\ UniqueRefs /\ RefsBelowCount /\ CurrentAlive

-----------------------------------------------------------------------------
(* What insert_timer and the unlinking of a timer do to the list.          *)

Ordered(list) == \A i, j \in DOMAIN list : i < j => list[i].next <= list[j].next
Refs(list) == {list[i].ref : i \in DOMAIN list}
Distinct(list) == \A i, j \in DOMAIN list : list[i].ref = list[j].ref => i = j

\* The fields of the elements of a list of timers.
LEMMA TimerFields ==
  ASSUME NEW list \in Seq(Timer)
  PROVE  \A i \in 1..Len(list) :
           list[i] \in Timer /\ list[i].next \in Nat /\ list[i].ref \in Ref
<1>1. \A i \in 1..Len(list) : list[i] \in Timer
  OBVIOUS
<1>2. \A t \in Timer : t.next \in Nat /\ t.ref \in Ref
  BY DEF Timer
<1> QED
  BY <1>1, <1>2

\* InsertTimer puts t at some position k of the list, and keeps it ordered.
LEMMA InsertTimerPosition ==
  ASSUME NEW list \in Seq(Timer), NEW t \in Timer, Ordered(list)
  PROVE  /\ InsertTimer(list, t) \in Seq(Timer)
         /\ Len(InsertTimer(list, t)) = Len(list) + 1
         /\ Ordered(InsertTimer(list, t))
         /\ \E k \in 1..(Len(list) + 1) : \A j \in 1..(Len(list) + 1) :
              InsertTimer(list, t)[j] = IF j < k THEN list[j]
                                        ELSE IF j = k THEN t ELSE list[j - 1]
<1> DEFINE later == {i \in DOMAIN list : list[i].next > t.next}
<1>1. \A i \in 1..Len(list) : list[i] \in Timer /\ list[i].next \in Nat
  BY TimerFields
<1>2. t.next \in Nat
  BY DEF Timer
<1>3. Len(list) \in Nat /\ DOMAIN list = 1..Len(list)
  OBVIOUS
<1>4. CASE later = {}
  <2>1. InsertTimer(list, t) = Append(list, t)
    BY <1>4 DEF InsertTimer
  <2>2. /\ Append(list, t) \in Seq(Timer)
        /\ Len(Append(list, t)) = Len(list) + 1
        /\ \A j \in 1..(Len(list) + 1) :
             Append(list, t)[j] = IF j < Len(list) + 1 THEN list[j] ELSE t
    BY <1>3
  <2>3. \A i \in 1..Len(list) : list[i].next <= t.next
    BY <1>1, <1>2, <1>3, <1>4
  <2>4. Ordered(Append(list, t))
    BY <2>2, <2>3, <1>1, <1>2, <1>3 DEF Ordered
  <2>5. \E k \in 1..(Len(list) + 1) : \A j \in 1..(Len(list) + 1) :
          Append(list, t)[j] = IF j < k THEN list[j]
                               ELSE IF j = k THEN t ELSE list[j - 1]
    <3>1. Len(list) + 1 \in 1..(Len(list) + 1)
      BY <1>3
    <3>2. \A j \in 1..(Len(list) + 1) :
            Append(list, t)[j] = IF j < Len(list) + 1 THEN list[j]
                        ELSE IF j = Len(list) + 1 THEN t ELSE list[j - 1]
      BY <2>2, <1>3
    <3> QED
      BY <3>1, <3>2
  <2> QED
    BY <2>1, <2>2, <2>4, <2>5
<1>5. CASE later # {}
  <2>1. later \in SUBSET Nat
    BY <1>3
  <2>2. \E i \in later : \A j \in later : i <= j
    BY <1>5, <2>1, LeastNatural
  <2>3. PICK k \in later : /\ \A j \in later : k <= j
                           /\ InsertTimer(list, t) = InsertAt(list, k, t)
    BY <1>5, <2>2 DEF InsertTimer
  <2>4. k \in 1..Len(list) /\ list[k].next > t.next
    BY <1>3
  <2>5. \A j \in 1..Len(list) : j < k => list[j].next <= t.next
    BY <2>3, <1>1, <1>2, <1>3
  <2>6. \A j \in 1..Len(list) : k <= j => list[j].next > t.next
    BY <2>4, <1>1, <1>2, <1>3 DEF Ordered
  <2> DEFINE ins == InsertAt(list, k, t)
  <2> HIDE DEF later
  <2>7. /\ ins \in Seq(Timer)
        /\ Len(ins) = Len(list) + 1
        /\ \A j \in 1..(Len(list) + 1) :
              ins[j] = IF j < k THEN list[j]
                       ELSE IF j = k THEN t ELSE list[j - 1]
    <3>1. k \in 1..Len(list)
      BY <2>4
    <3> QED
      BY <3>1, InsertAtProperties
  <2> HIDE DEF ins
  <2>8. Ordered(ins)
    <3> SUFFICES ASSUME NEW i \in 1..(Len(list) + 1),
                        NEW j \in 1..(Len(list) + 1), i < j
                 PROVE  ins[i].next <= ins[j].next
      BY <2>7 DEF Ordered
    <3>1. CASE j < k
      <4>1. ins[i] = list[i] /\ ins[j] = list[j] /\ i \in 1..Len(list) /\ j \in 1..Len(list)
        BY <3>1, <2>4, <2>7, <1>3
      <4> QED
        BY <4>1 DEF Ordered
    <3>2. CASE j = k
      BY <3>2, <2>4, <2>5, <2>7, <1>3
    <3>3. CASE j > k /\ i < k
      <4>1. i \in 1..Len(list) /\ j - 1 \in 1..Len(list) /\ i < j - 1
        BY <3>3, <2>4, <1>3
      <4>2. ins[i] = list[i] /\ ins[j] = list[j - 1]
        BY <3>3, <2>4, <2>7, <1>3
      <4> QED
        BY <4>1, <4>2, <1>3 DEF Ordered
    <3>4. CASE j > k /\ i = k
      <4>1. j - 1 \in 1..Len(list) /\ k <= j - 1
        BY <3>4, <2>4, <1>3
      <4>2. ins[i] = t /\ ins[j] = list[j - 1]
        BY <3>4, <2>4, <2>7, <1>3
      <4> QED
        BY <4>1, <4>2, <2>6, <1>1, <1>2
    <3>5. CASE i > k
      <4>1. i - 1 \in 1..Len(list) /\ j - 1 \in 1..Len(list) /\ i - 1 < j - 1
        BY <3>5, <2>4, <1>3
      <4>2. ins[i] = list[i - 1] /\ ins[j] = list[j - 1]
        BY <3>5, <2>4, <2>7, <1>3
      <4> QED
        BY <4>1, <4>2, <1>3 DEF Ordered
    <3> QED
      BY <3>1, <3>2, <3>3, <3>4, <3>5, <2>4
  <2>9. k \in 1..(Len(list) + 1)
    BY <2>4, <1>3
  <2> QED
    BY <2>3, <2>7, <2>8, <2>9 DEF ins
<1> QED
  BY <1>4, <1>5

\* Taking a timer out keeps the list ordered and its references distinct.
LEMMA RemoveTimerProperties ==
  ASSUME NEW list \in Seq(Timer), NEW i \in DOMAIN list,
         Ordered(list), Distinct(list)
  PROVE  /\ RemoveAt(list, i) \in Seq(Timer)
         /\ Ordered(RemoveAt(list, i))
         /\ Distinct(RemoveAt(list, i))
         /\ \A j \in DOMAIN RemoveAt(list, i) :
              \E m \in DOMAIN list : m # i /\ RemoveAt(list, i)[j] = list[m]
         /\ \A m \in DOMAIN list : m # i =>
              \E j \in DOMAIN RemoveAt(list, i) : RemoveAt(list, i)[j] = list[m]
<1> DEFINE r == RemoveAt(list, i)
<1>1. Len(list) \in Nat /\ DOMAIN list = 1..Len(list) /\ i \in 1..Len(list)
  OBVIOUS
<1>2. /\ r \in Seq(Timer)
      /\ Len(r) = Len(list) - 1
      /\ \A j \in 1..(Len(list) - 1) :
           r[j] = IF j < i THEN list[j] ELSE list[j + 1]
  BY <1>1, RemoveAtProperties
<1>3. DOMAIN r = 1..(Len(list) - 1)
  BY <1>2
<1> HIDE DEF r
<1>4. \A m \in 1..Len(list) : list[m] \in Timer /\ list[m].next \in Nat
  BY TimerFields
<1> DEFINE old == [j \in 1..(Len(list) - 1) |-> IF j < i THEN j ELSE j + 1]
<1>9. \A j \in DOMAIN r :
        old[j] \in DOMAIN list /\ old[j] # i /\ r[j] = list[old[j]]
  BY <1>1, <1>2, <1>3
<1>10. \A j, m \in DOMAIN r : j < m => old[j] < old[m]
  BY <1>1, <1>2, <1>3
<1>11. \A j, m \in DOMAIN r : old[j] = old[m] => j = m
  BY <1>1, <1>2, <1>3
<1> HIDE DEF old
<1>5. Ordered(r)
  <2> SUFFICES ASSUME NEW j \in DOMAIN r, NEW m \in DOMAIN r, j < m
               PROVE  r[j].next <= r[m].next
    BY DEF Ordered
  <2>1. old[j] \in DOMAIN list /\ old[m] \in DOMAIN list /\ old[j] < old[m]
    BY <1>9, <1>10
  <2>2. list[old[j]].next <= list[old[m]].next
    BY <2>1 DEF Ordered
  <2> QED
    BY <2>2, <1>9
<1>6. Distinct(r)
  <2> SUFFICES ASSUME NEW j \in DOMAIN r, NEW m \in DOMAIN r, r[j].ref = r[m].ref
               PROVE  j = m
    BY DEF Distinct
  <2>1. old[j] \in DOMAIN list /\ old[m] \in DOMAIN list
    BY <1>9
  <2>2. list[old[j]].ref = list[old[m]].ref
    BY <1>9
  <2>3. old[j] = old[m]
    BY <2>1, <2>2 DEF Distinct
  <2> QED
    BY <2>3, <1>11
<1>7. \A j \in DOMAIN r : \E m \in DOMAIN list : m # i /\ r[j] = list[m]
  BY <1>9
<1>8. \A m \in DOMAIN list : m # i => \E j \in DOMAIN r : r[j] = list[m]
  <2> SUFFICES ASSUME NEW m \in DOMAIN list, m # i
               PROVE  \E j \in DOMAIN r : r[j] = list[m]
    OBVIOUS
  <2>1. CASE m < i
    <3>1. m \in DOMAIN r /\ r[m] = list[m]
      BY <1>1, <1>2, <1>3, <2>1
    <3> QED
      BY <3>1
  <2>2. CASE ~(m < i)
    <3>1. m - 1 \in DOMAIN r /\ r[m - 1] = list[m]
      BY <1>1, <1>2, <1>3, <2>2
    <3> QED
      BY <3>1
  <2> QED
    BY <2>1, <2>2
<1> QED
  BY <1>2, <1>5, <1>6, <1>7, <1>8 DEF r

\* The two lemmas above in terms of the sets of references.
LEMMA InsertTimerRefs ==
  ASSUME NEW list \in Seq(Timer), NEW t \in Timer,
         Ordered(list), Distinct(list), t.ref \notin Refs(list)
  PROVE  /\ InsertTimer(list, t) \in Seq(Timer)
         /\ Ordered(InsertTimer(list, t))
         /\ Distinct(InsertTimer(list, t))
         /\ Refs(InsertTimer(list, t)) = Refs(list) \cup {t.ref}
<1> DEFINE n == Len(list)
           ins == InsertTimer(list, t)
<1>1. n \in Nat /\ DOMAIN list = 1..n
  OBVIOUS
<1>2. PICK k \in 1..(n + 1) : \A j \in 1..(n + 1) :
        ins[j] = IF j < k THEN list[j] ELSE IF j = k THEN t ELSE list[j - 1]
  BY InsertTimerPosition
<1>3. ins \in Seq(Timer) /\ Len(ins) = n + 1 /\ Ordered(ins)
  BY InsertTimerPosition
<1>4. DOMAIN ins = 1..(n + 1)
  BY <1>3
<1> HIDE DEF ins
<1>5. \A j \in 1..(n + 1) : j # k =>
        \E m \in 1..n : /\ ins[j] = list[m]
                        /\ m = IF j < k THEN j ELSE j - 1
  BY <1>1, <1>2
<1>6. Distinct(ins)
  <2> SUFFICES ASSUME NEW i \in 1..(n + 1), NEW j \in 1..(n + 1),
                      ins[i].ref = ins[j].ref
               PROVE  i = j
    BY <1>4 DEF Distinct
  <2>1. CASE i = k /\ j = k
    BY <2>1
  <2>2. CASE i = k /\ j # k
    <3>1. PICK m \in 1..n : ins[j] = list[m]
      BY <1>5, <2>2
    <3>2. ins[i] = t
      BY <1>2, <2>2
    <3> QED
      BY <3>1, <3>2, <1>1 DEF Refs
  <2>3. CASE i # k /\ j = k
    <3>1. PICK m \in 1..n : ins[i] = list[m]
      BY <1>5, <2>3
    <3>2. ins[j] = t
      BY <1>2, <2>3
    <3> QED
      BY <3>1, <3>2, <1>1 DEF Refs
  <2>4. CASE i # k /\ j # k
    <3>1. PICK m \in 1..n : ins[i] = list[m] /\ m = IF i < k THEN i ELSE i - 1
      BY <1>5, <2>4
    <3>2. PICK l \in 1..n : ins[j] = list[l] /\ l = IF j < k THEN j ELSE j - 1
      BY <1>5, <2>4
    <3>3. m = l
      BY <3>1, <3>2, <1>1 DEF Distinct
    <3> QED
      BY <3>1, <3>2, <3>3, <2>4, <1>1
  <2> QED
    BY <2>1, <2>2, <2>3, <2>4
<1>7. Refs(ins) = Refs(list) \cup {t.ref}
  <2>1. ASSUME NEW r \in Refs(ins) PROVE r \in Refs(list) \cup {t.ref}
    <3>1. PICK j \in 1..(n + 1) : r = ins[j].ref
      BY <1>4 DEF Refs
    <3>2. CASE j = k
      BY <3>1, <3>2, <1>2
    <3>3. CASE j # k
      <4>1. PICK m \in 1..n : ins[j] = list[m]
        BY <3>3, <1>5
      <4> QED
        BY <4>1, <3>1, <1>1 DEF Refs
    <3> QED
      BY <3>2, <3>3
  <2>2. ASSUME NEW m \in 1..n PROVE list[m].ref \in Refs(ins)
    <3>1. CASE m < k
      <4>1. m \in 1..(n + 1) /\ ins[m] = list[m]
        BY <3>1, <1>1, <1>2
      <4> QED
        BY <4>1, <1>4 DEF Refs
    <3>2. CASE ~(m < k)
      <4>1. m + 1 \in 1..(n + 1) /\ ins[m + 1] = list[m]
        BY <3>2, <1>1, <1>2
      <4> QED
        BY <4>1, <1>4 DEF Refs
    <3> QED
      BY <3>1, <3>2
  <2>3. t.ref \in Refs(ins)
    <3>1. ins[k] = t
      BY <1>2
    <3> QED
      BY <3>1, <1>4 DEF Refs
  <2>4. Refs(list) \subseteq Refs(ins)
    BY <2>2, <1>1 DEF Refs
  <2> QED
    BY <2>1, <2>3, <2>4
<1> QED
  BY <1>3, <1>6, <1>7 DEF ins

\* Unlinking a timer takes its reference, and no other, from the live ones.
LEMMA RemoveTimerRefs ==
  ASSUME NEW list \in Seq(Timer), NEW i \in DOMAIN list,
         Ordered(list), Distinct(list)
  PROVE  Refs(RemoveAt(list, i)) = Refs(list) \ {list[i].ref}
<1> DEFINE r == RemoveAt(list, i)
<1>1. \A j \in DOMAIN r : \E m \in DOMAIN list : m # i /\ r[j] = list[m]
  BY RemoveTimerProperties
<1>2. \A m \in DOMAIN list : m # i => \E j \in DOMAIN r : r[j] = list[m]
  BY RemoveTimerProperties
<1> HIDE DEF r
<1>3. Refs(r) \subseteq Refs(list) \ {list[i].ref}
  BY <1>1 DEF Refs, Distinct
<1>4. Refs(list) \ {list[i].ref} \subseteq Refs(r)
  BY <1>2 DEF Refs
<1> QED
  BY <1>3, <1>4 DEF r

-----------------------------------------------------------------------------
(* The invariant: its initial states and its steps.                        *)

ListOK(list) == list \in Seq(Timer) /\ Ordered(list) /\ Distinct(list)

\* The variables other than the list have their types.
ScalarsOK ==
  /\ refcnt \in Ref
  /\ rollover \in BOOLEAN
  /\ now \in Nat /\ clock \in Nat /\ now <= clock
  /\ pc \in {"poll", "handlers", "exec", "callback", "after", "fault"}
  /\ tep \in Ref \cup {None, Dangling}
  /\ tep2 \in Ref \cup {None, Dangling}
  /\ next \in Int
  /\ wake \in Nat \cup {Forever}

\* What the invariant says of the list and of the references in it.
RefsOK ==
  /\ ListOK(timers)
  /\ ~rollover => \A r \in Refs(timers) : r < refcnt
  /\ pc = "callback" => tep \in Refs(timers)

\* The invariant in two parts, for the provers: numbers and references.
LEMMA IInvParts == IInv <=> ScalarsOK /\ RefsOK
BY DEF IInv, TypeOK, Sorted, UniqueRefs, RefsBelowCount, CurrentAlive, ScalarsOK,
       RefsOK, ListOK, Ordered, Distinct, Refs, LiveRefs

\* The same of the next state.
LEMMA IInvPartsNext == IInv' <=> ScalarsOK' /\ RefsOK'
BY DEF IInv, TypeOK, Sorted, UniqueRefs, RefsBelowCount, CurrentAlive, ScalarsOK,
       RefsOK, ListOK, Ordered, Distinct, Refs, LiveRefs

\* IndexOf finds the timer with a live reference.
LEMMA IndexOfLive ==
  ASSUME NEW r \in LiveRefs
  PROVE  IndexOf(r) \in DOMAIN timers /\ timers[IndexOf(r)].ref = r
BY DEF LiveRefs, IndexOf

\* Unlinking a live timer leaves a list of the same kind without its reference.
LEMMA UnlinkedOK ==
  ASSUME ListOK(timers), NEW r \in LiveRefs
  PROVE  /\ ListOK(Unlinked(r))
         /\ Refs(Unlinked(r)) = Refs(timers) \ {r}
         /\ TimerOf(r) \in Timer /\ TimerOf(r).ref = r
<1>1. IndexOf(r) \in DOMAIN timers /\ timers[IndexOf(r)].ref = r
  BY IndexOfLive
<1>2. timers \in Seq(Timer) /\ Ordered(timers) /\ Distinct(timers)
  BY DEF ListOK
<1>3. ListOK(RemoveAt(timers, IndexOf(r)))
  BY <1>1, <1>2, RemoveTimerProperties DEF ListOK
<1>4. Refs(RemoveAt(timers, IndexOf(r))) = Refs(timers) \ {r}
  BY <1>1, <1>2, RemoveTimerRefs
<1>5. timers[IndexOf(r)] \in Timer
  BY <1>1, <1>2
<1> QED
  BY <1>1, <1>3, <1>4, <1>5 DEF Unlinked, TimerOf

\* Putting a live timer back with new settings keeps the references.
LEMMA RelinkedOK ==
  ASSUME ListOK(timers), NEW r \in LiveRefs, NEW t \in Timer, t.ref = r
  PROVE  /\ ListOK(InsertTimer(Unlinked(r), t))
         /\ Refs(InsertTimer(Unlinked(r), t)) = Refs(timers)
<1>1. ListOK(Unlinked(r)) /\ Refs(Unlinked(r)) = Refs(timers) \ {r}
  BY UnlinkedOK
<1>2. /\ ListOK(InsertTimer(Unlinked(r), t))
      /\ Refs(InsertTimer(Unlinked(r), t)) = (Refs(timers) \ {r}) \cup {r}
  BY <1>1, InsertTimerRefs DEF ListOK
<1>3. r \in Refs(timers)
  BY DEF LiveRefs, Refs
<1> QED
  BY <1>2, <1>3

\* The reference of a list position is a reference, or None past the end.
LEMMA RefAtType ==
  ASSUME timers \in Seq(Timer), NEW i \in Int
  PROVE  RefAt(i) \in Ref \cup {None, Dangling}
<1>1. \A j \in 1..Len(timers) : timers[j].ref \in Ref
  BY TimerFields
<1> QED
  BY <1>1 DEF RefAt

\* The invariant holds when the program starts.
LEMMA InitIInv == Init => IInv
<1> SUFFICES ASSUME Init PROVE ScalarsOK /\ RefsOK
  BY IInvParts
<1>0. 0 \in Ref
  BY TimerAssumption DEF Ref
<1>1. ScalarsOK
  <2>1. now \in Nat /\ clock \in Nat /\ now <= clock /\ next \in Int
    BY DEF Init
  <2>2. rollover \in BOOLEAN /\ pc = "after"
    BY DEF Init
  <2> QED
    BY <1>0, <2>1, <2>2 DEF Init, ScalarsOK
<1>2. RefsOK
  BY DEF Init, RefsOK, ListOK, Ordered, Distinct, Refs
<1> QED
  BY <1>1, <1>2

\* What create_timer puts in the list.
Made(ref, rep, interval) ==
  [ref |-> ref, reps |-> Reps(rep), interval |-> interval,
   next |-> now + interval, asked |-> Reps(rep), ran |-> 0]

\* The reference that create_timer takes is free.
LEMMA NewTimer ==
  ASSUME IInv, NEW rep \in RepCounts, NEW interval \in Intervals,
         CreateTimer(rep, interval)
  PROVE  \E ref \in Ref :
           /\ ref \notin Refs(timers)
           /\ timers' = InsertTimer(timers, Made(ref, rep, interval))
           /\ Made(ref, rep, interval) \in Timer
           /\ refcnt' = (ref + 1) % RefMod
           /\ rollover' = (rollover \/ refcnt = TIMER_INVALID)
           /\ ~rollover' => ref = refcnt
<1>1. ScalarsOK /\ RefsOK
  BY IInvParts
<1> DEFINE searching == rollover \/ refcnt = TIMER_INVALID
           start == IF rollover THEN refcnt ELSE 0
<1>2. PICK k \in Ref :
        /\ IF searching THEN FreeFrom(start, k) ELSE k = refcnt
        /\ LET ref == IF searching THEN Candidate(start, k) ELSE k
           IN /\ refcnt' = (ref + 1) % RefMod
              /\ timers' = InsertTimer(timers, Made(ref, rep, interval))
        /\ rollover' = searching
  BY DEF CreateTimer, Made
<1> DEFINE ref == IF searching THEN Candidate(start, k) ELSE k
<1>3. RefMod \in Nat /\ RefMod > 1 /\ rep \in Int /\ interval \in Nat
  BY TimerAssumption
<1>4. start \in Ref /\ refcnt \in Ref /\ rollover \in BOOLEAN
  BY <1>1, <1>3 DEF ScalarsOK, Ref
<1>5. ref \in Ref
  BY <1>3, <1>4 DEF Ref, Candidate
<1>6. Reps(rep) \in Int /\ now + interval \in Nat
  BY <1>1, <1>3 DEF Reps, TIMER_REPEAT, ScalarsOK
<1>7. Made(ref, rep, interval) \in Timer
  BY <1>3, <1>5, <1>6 DEF Timer, Made
<1>8. ref \notin Refs(timers)
  <2>1. CASE searching
    BY <1>2, <2>1 DEF FreeFrom, LiveRefs, Refs
  <2>2. CASE ~searching
    <3>1. \A r \in Refs(timers) : r < refcnt
      BY <1>1, <1>4, <2>2 DEF RefsOK
    <3>2. ref = refcnt
      BY <1>2, <2>2
    <3> QED
      BY <3>1, <3>2, <1>4 DEF Ref
  <2> QED
    BY <2>1, <2>2
<1>9. timers' = InsertTimer(timers, Made(ref, rep, interval)) /\ refcnt' = (ref + 1) % RefMod
  BY <1>2
<1>10. rollover' = searching /\ (~rollover' => ref = refcnt)
  BY <1>2
<1> QED
  BY <1>5, <1>7, <1>8, <1>9, <1>10

\* create_timer preserves it.
LEMMA CreateTimerIInv ==
  ASSUME IInv, NEW rep \in RepCounts, NEW interval \in Intervals,
         CreateTimer(rep, interval)
  PROVE  IInv'
<1>1. ScalarsOK /\ RefsOK
  BY IInvParts
<1> DEFINE searching == rollover \/ refcnt = TIMER_INVALID
<1>2. PICK ref \in Ref :
        /\ ref \notin Refs(timers)
        /\ timers' = InsertTimer(timers, Made(ref, rep, interval))
        /\ Made(ref, rep, interval) \in Timer
        /\ refcnt' = (ref + 1) % RefMod
        /\ rollover' = searching
        /\ ~rollover' => ref = refcnt
  BY NewTimer
<1>3. RefMod \in Nat /\ RefMod > 1
  BY TimerAssumption
<1>4. refcnt \in Ref /\ rollover \in BOOLEAN
  BY <1>1 DEF ScalarsOK
<1>5. Made(ref, rep, interval).ref = ref
  BY DEF Made
<1>10. ListOK(timers') /\ Refs(timers') = Refs(timers) \cup {ref}
  BY <1>1, <1>2, <1>5, InsertTimerRefs DEF RefsOK, ListOK
<1>11. ~rollover' => \A r \in Refs(timers') : r < refcnt'
  <2> SUFFICES ASSUME ~rollover', NEW r \in Refs(timers)' PROVE r < refcnt'
    OBVIOUS
  <2>1. ~searching /\ ref = refcnt
    BY <1>2
  <2>2. refcnt < RefMod - 1
    BY <2>1, <1>3, <1>4 DEF Ref, TIMER_INVALID
  <2>3. refcnt' = refcnt + 1
    BY <2>1, <2>2, <1>3, <1>4, <1>2 DEF Ref
  <2>4. r = refcnt \/ r \in Refs(timers)
    BY <1>10, <2>1
  <2>5. \A q \in Refs(timers) : q \in Ref /\ q < refcnt
    <3>1. \A i \in 1..Len(timers) : timers[i].ref \in Ref
      BY <1>1, TimerFields DEF RefsOK, ListOK
    <3>2. \A q \in Refs(timers) : q < refcnt
      BY <1>1, <1>4, <2>1 DEF RefsOK
    <3> QED
      BY <3>1, <3>2, <1>1 DEF Refs, RefsOK, ListOK
  <2> QED
    BY <2>3, <2>4, <2>5, <1>4 DEF Ref
<1>12. refcnt' \in Ref /\ rollover' \in BOOLEAN
  BY <1>2, <1>3, <1>4 DEF Ref
<1>13. UNCHANGED <<now, clock, pc, tep, tep2, next, wake>>
  BY DEF CreateTimer
<1>14. ScalarsOK'
  BY <1>1, <1>12, <1>13 DEF ScalarsOK
<1>15. RefsOK'
  BY <1>1, <1>10, <1>11, <1>13 DEF RefsOK
<1> QED
  BY <1>14, <1>15, IInvPartsNext

\* destroy_timer preserves it.
LEMMA DestroyTimerIInv ==
  ASSUME IInv, NEW r \in Ref, DestroyTimer(r)
  PROVE  IInv'
<1>1. ScalarsOK /\ RefsOK
  BY IInvParts
<1>2. r \in LiveRefs /\ timers' = Unlinked(r)
  BY DEF DestroyTimer
<1>3. ListOK(timers') /\ Refs(timers') = Refs(timers) \ {r}
  BY <1>1, <1>2, UnlinkedOK DEF RefsOK
<1>4. ScalarsOK'
  BY <1>1 DEF ScalarsOK, DestroyTimer
<1>5. pc' = "callback" => tep' \in Refs(timers')
  BY <1>1, <1>3 DEF DestroyTimer, RefsOK
<1>6. RefsOK'
  BY <1>1, <1>3, <1>5 DEF RefsOK, DestroyTimer
<1> QED
  BY <1>4, <1>6, IInvPartsNext

\* adjust_timer preserves it: the timer is inserted again in its place.
LEMMA AdjustTimerIInv ==
  ASSUME IInv, NEW r \in Ref, NEW rep \in RepCounts, NEW interval \in Intervals,
         AdjustTimer(r, rep, interval)
  PROVE  IInv'
<1>1. ScalarsOK /\ RefsOK
  BY IInvParts
<1> DEFINE t == [TimerOf(r) EXCEPT !.reps = Reps(rep), !.interval = interval,
                                   !.next = now + interval,
                                   !.asked = Reps(rep), !.ran = 0]
<1>2. r \in LiveRefs /\ timers' = InsertTimer(Unlinked(r), t)
  BY DEF AdjustTimer
<1>3. TimerOf(r) \in Timer /\ TimerOf(r).ref = r
  BY <1>1, <1>2, UnlinkedOK DEF RefsOK
<1>4. Reps(rep) \in Int /\ interval \in Nat /\ now + interval \in Nat
  BY <1>1, TimerAssumption DEF Reps, TIMER_REPEAT, ScalarsOK
<1>5. t \in Timer /\ t.ref = r
  BY <1>3, <1>4 DEF Timer
<1> HIDE DEF t
<1>6. ListOK(timers') /\ Refs(timers') = Refs(timers)
  BY <1>1, <1>2, <1>5, RelinkedOK DEF RefsOK
<1>7. ScalarsOK'
  BY <1>1 DEF ScalarsOK, AdjustTimer
<1>8. RefsOK'
  BY <1>1, <1>6 DEF RefsOK, AdjustTimer
<1> QED
  BY <1>7, <1>8, IInvPartsNext

\* A callback that starts preserves it.
LEMMA RunCallbackIInv ==
  ASSUME IInv, RunCallback
  PROVE  IInv'
<1>1. ScalarsOK /\ RefsOK
  BY IInvParts
<1> DEFINE i == IndexOf(tep)
           n == IF TimerOf(tep).reps = TIMER_REPEAT THEN 0 ELSE timers[i].ran + 1
<1>2. tep \in LiveRefs /\ timers' = [timers EXCEPT ![i].ran = n]
  BY DEF RunCallback
<1>3. i \in DOMAIN timers /\ timers[i].ref = tep
  BY <1>2, IndexOfLive
<1>4. timers \in Seq(Timer) /\ Ordered(timers) /\ Distinct(timers)
  BY <1>1 DEF RefsOK, ListOK
<1>5. timers[i] \in Timer
  BY <1>3, <1>4
<1>6. n \in Nat
  <2>1. timers[i].ran \in Nat
    BY <1>5 DEF Timer
  <2> QED
    BY <2>1
<1> DEFINE t == [timers[i] EXCEPT !.ran = n]
<1>7. t \in Timer /\ t.ref = timers[i].ref /\ t.next = timers[i].next
  BY <1>5, <1>6 DEF Timer
<1>8. timers' = [timers EXCEPT ![i] = t]
  BY <1>2
<1> HIDE DEF t, n, i
<1>9. timers' \in Seq(Timer) /\ DOMAIN timers' = DOMAIN timers
  BY <1>3, <1>4, <1>7, <1>8
<1>10. \A j \in DOMAIN timers : /\ timers'[j].ref = timers[j].ref
                                /\ timers'[j].next = timers[j].next
  BY <1>3, <1>4, <1>7, <1>8
<1>11. ListOK(timers') /\ Refs(timers') = Refs(timers)
  BY <1>4, <1>9, <1>10 DEF ListOK, Ordered, Distinct, Refs
<1>12. tep2' \in Ref \cup {None, Dangling}
  <2>1. IndexOf(tep) + 1 \in Int
    BY <1>3, <1>4 DEF i
  <2> QED
    BY <2>1, <1>4, RefAtType DEF RunCallback
<1>13. ScalarsOK'
  BY <1>1, <1>12 DEF ScalarsOK, RunCallback
<1>14. tep' \in Refs(timers')
  BY <1>2, <1>11 DEF RunCallback, LiveRefs, Refs
<1>15. RefsOK'
  BY <1>1, <1>11, <1>14 DEF RefsOK, RunCallback
<1> QED
  BY <1>13, <1>15, IInvPartsNext

\* exec_timers preserves it when a callback has returned.
LEMMA CallbackReturnsIInv ==
  ASSUME IInv, CallbackReturns
  PROVE  IInv'
<1>1. ScalarsOK /\ RefsOK
  BY IInvParts
<1>2. tep \in LiveRefs
  BY DEF IInv, CurrentAlive, CallbackReturns
<1> DEFINE t == TimerOf(tep)
           repsLeft == IF t.reps = TIMER_REPEAT THEN t.reps ELSE t.reps - 1
           later == [t EXCEPT !.reps = repsLeft, !.next = NextRun(t)]
<1>3. t \in Timer /\ t.ref = tep
  BY <1>1, <1>2, UnlinkedOK DEF RefsOK
<1>4. ListOK(timers') /\ Refs(timers') \subseteq Refs(timers)
  <2>1. CASE Expires(t)
    <3>1. timers' = Unlinked(tep)
      BY <2>1 DEF CallbackReturns
    <3>2. ListOK(Unlinked(tep)) /\ Refs(Unlinked(tep)) = Refs(timers) \ {tep}
      BY <1>1, <1>2, UnlinkedOK DEF RefsOK
    <3> QED
      BY <3>1, <3>2
  <2>2. CASE ~Expires(t)
    <3>1. timers' = InsertTimer(Unlinked(tep), later)
      BY <2>2 DEF CallbackReturns
    <3>2. t.reps \in Int /\ t.next \in Nat /\ t.interval \in Nat
      BY <1>3 DEF Timer
    <3>3. repsLeft \in Int
      BY <3>2
    <3>4. NextRun(t) \in Nat
      BY <1>1, <3>2 DEF NextRun, ScalarsOK
    <3>5. later \in Timer /\ later.ref = tep
      BY <1>3, <3>3, <3>4 DEF Timer
    <3> HIDE DEF later
    <3>6. /\ ListOK(InsertTimer(Unlinked(tep), later))
          /\ Refs(InsertTimer(Unlinked(tep), later)) = Refs(timers)
      BY <1>1, <1>2, <3>5, RelinkedOK DEF RefsOK
    <3> QED
      BY <3>1, <3>6
  <2> QED
    BY <2>1, <2>2
<1>5. ScalarsOK'
  BY <1>1 DEF ScalarsOK, CallbackReturns
<1>6. RefsOK'
  BY <1>1, <1>4 DEF RefsOK, CallbackReturns
<1> QED
  BY <1>5, <1>6, IInvPartsNext

\* The steps that leave the list and the references alone.
LEMMA OtherStepsIInv ==
  ASSUME IInv,
         \/ ExecTimers \/ ExecDone \/ UseAfterFree \/ Poll \/ PollTimesOut
         \/ PollFindsData \/ PollInterrupted \/ Tick \/ UNCHANGED vars
  PROVE  IInv'
<1>1. ScalarsOK /\ RefsOK
  BY IInvParts
<1>2. UNCHANGED <<timers, refcnt, rollover>>
  BY DEF ExecTimers, ExecDone, UseAfterFree, Poll, PollTimesOut, PollFindsData, PollInterrupted,
         Tick, vars
<1>3. pc' = "callback" => pc = "callback" /\ tep' = tep
  BY DEF ExecTimers, ExecDone, UseAfterFree, Poll, PollTimesOut, PollFindsData, PollInterrupted,
         Tick, vars
<1>4. RefsOK'
  BY <1>1, <1>2, <1>3 DEF RefsOK
<1>5. CASE ExecTimers
  <2>1. RefAt(1) \in Ref \cup {None, Dangling}
    BY <1>1, RefAtType DEF RefsOK, ListOK
  <2> QED
    BY <1>1, <1>4, <1>5, <2>1, IInvPartsNext DEF ScalarsOK, ExecTimers
<1>6. CASE ExecDone
  <2>1. CASE timers = <<>>
    BY <1>1, <1>4, <1>6, <2>1, IInvPartsNext DEF ScalarsOK, ExecDone
  <2>2. CASE timers # <<>>
    <3>1. \A i \in 1..Len(timers) : timers[i].next \in Nat
      BY <1>1, TimerFields DEF RefsOK, ListOK
    <3>2. 1 \in 1..Len(timers)
      BY <1>1, <2>2 DEF RefsOK, ListOK
    <3>3. timers[1].next - now \in Int
      BY <1>1, <3>1, <3>2 DEF ScalarsOK
    <3> QED
      BY <1>1, <1>4, <1>6, <2>2, <3>3, IInvPartsNext DEF ScalarsOK, ExecDone
  <2> QED
    BY <2>1, <2>2
<1>7. CASE UseAfterFree \/ PollTimesOut \/ PollFindsData \/ PollInterrupted \/ Tick \/ UNCHANGED vars
  <2>1. ScalarsOK'
    BY <1>1, <1>7, TimerAssumption
       DEF ScalarsOK, UseAfterFree, PollTimesOut, PollFindsData, PollInterrupted, Tick, vars
  <2> QED
    BY <1>4, <2>1, IInvPartsNext
<1>8. CASE Poll
  <2>1. wake' \in Nat \cup {Forever}
    BY <1>1, <1>8 DEF Poll, ScalarsOK, LongSleep
  <2> QED
    BY <1>1, <1>4, <1>8, <2>1, IInvPartsNext DEF ScalarsOK, Poll
<1> QED
  BY <1>5, <1>6, <1>7, <1>8

\* The inductive invariant holds in every reachable state.
THEOREM InductiveInvariant == Spec => []IInv
<1>1. Init => IInv
  BY InitIInv
<1>2. IInv /\ [Next]_vars => IInv'
  BY CreateTimerIInv, DestroyTimerIInv, AdjustTimerIInv, RunCallbackIInv,
     CallbackReturnsIInv, OtherStepsIInv DEF Next, LoopStep
<1> QED
  BY <1>1, <1>2, PTL DEF Spec

\* Every variable keeps its type; in particular every reference handed out is
\* a timer_ref_t and the time last read is never ahead of the clock.
THEOREM TypeCorrect == Spec => []TypeOK
<1>1. IInv => TypeOK
  BY DEF IInv
<1> QED
  BY <1>1, InductiveInvariant, PTL

\* The list is ordered by execution time in every reachable state, whatever
\* the callbacks create, adjust and destroy: exec_timers may stop at the first
\* timer that is not due.
THEOREM StaysSorted == Spec => []Sorted
<1>1. IInv => Sorted
  BY DEF IInv
<1> QED
  BY <1>1, InductiveInvariant, PTL

\* No two live timers share a reference, before and after timer_refcnt rolls
\* over, for every width of timer_ref_t.
THEOREM ReferencesUnique == Spec => []UniqueRefs
<1>1. IInv => UniqueRefs
  BY DEF IInv
<1> QED
  BY <1>1, InductiveInvariant, PTL

\* The list of timers is sound in every reachable state.
THEOREM ListStaysSound == Spec => []ListSound
<1>1. Sorted /\ UniqueRefs => ListSound
  BY DEF ListSound
<1> QED
  BY <1>1, StaysSorted, ReferencesUnique, PTL

\* What a list holds after an insertion: what it held before, and t.
LEMMA InsertTimerMembers ==
  ASSUME NEW list \in Seq(Timer), NEW t \in Timer, Ordered(list)
  PROVE  \A u \in ToSet(InsertTimer(list, t)) : u = t \/ u \in ToSet(list)
<1> DEFINE n == Len(list)
           ins == InsertTimer(list, t)
<1>1. n \in Nat /\ DOMAIN list = 1..n
  OBVIOUS
<1>2. ins \in Seq(Timer) /\ Len(ins) = n + 1
  BY InsertTimerPosition
<1>3. PICK k \in 1..(n + 1) : \A j \in 1..(n + 1) :
        ins[j] = IF j < k THEN list[j] ELSE IF j = k THEN t ELSE list[j - 1]
  BY InsertTimerPosition
<1> HIDE DEF ins
<1>4. DOMAIN ins = 1..(n + 1)
  BY <1>1, <1>2
<1>5. ASSUME NEW j \in 1..(n + 1)
      PROVE  ins[j] = t \/ ins[j] \in ToSet(list)
  <2>1. CASE j < k
    BY <1>1, <1>3, <2>1 DEF ToSet
  <2>2. CASE j = k
    BY <1>3, <2>2
  <2>3. CASE j > k
    <3>1. j - 1 \in 1..n
      BY <1>1, <2>3
    <3>2. ins[j] = list[j - 1]
      BY <1>1, <1>3, <2>3
    <3> QED
      BY <1>1, <3>1, <3>2 DEF ToSet
  <2> QED
    BY <1>1, <2>1, <2>2, <2>3
<1> QED
  BY <1>4, <1>5 DEF ToSet, ins

\* The timer that has run is put back with a time that has not passed.
LEMMA LateRunsSkipped ==
  ASSUME IInv, CallbackReturns
  PROVE  \A u \in ToSet(timers') : u.ref = tep => u.next >= now
<1>1. ScalarsOK /\ RefsOK
  BY IInvParts
<1>2. tep \in LiveRefs
  BY DEF IInv, CurrentAlive, CallbackReturns
<1> DEFINE t == TimerOf(tep)
           repsLeft == IF t.reps = TIMER_REPEAT THEN t.reps ELSE t.reps - 1
           later == [t EXCEPT !.reps = repsLeft, !.next = NextRun(t)]
           rest == Unlinked(tep)
<1>3. ListOK(rest) /\ tep \notin Refs(rest) /\ t \in Timer
  BY <1>1, <1>2, UnlinkedOK DEF RefsOK
<1>4. CASE Expires(t)
  <2>1. timers' = rest
    BY <1>4 DEF CallbackReturns
  <2> QED
    BY <1>3, <2>1 DEF ToSet, Refs
<1>5. CASE ~Expires(t)
  <2>1. timers' = InsertTimer(rest, later)
    BY <1>5 DEF CallbackReturns
  <2>2. t.reps \in Int /\ t.next \in Nat /\ t.interval \in Nat /\ now \in Nat
    BY <1>1, <1>3 DEF Timer, ScalarsOK
  <2>3. NextRun(t) \in Nat /\ NextRun(t) >= now
    BY <2>2 DEF NextRun
  <2>4. repsLeft \in Int
    BY <2>2
  <2>5. later \in Timer /\ later.next >= now
    BY <1>3, <2>3, <2>4 DEF Timer
  <2> HIDE DEF later, rest
  <2>6. \A u \in ToSet(InsertTimer(rest, later)) : u = later \/ u \in ToSet(rest)
    BY <1>3, <2>5, InsertTimerMembers DEF ListOK
  <2>7. \A u \in ToSet(rest) : u.ref # tep
    BY <1>3 DEF ToSet, Refs
  <2> QED
    BY <2>1, <2>5, <2>6, <2>7
<1> QED
  BY <1>4, <1>5

\* A repeating timer that was late is never put back with a time that has
\* passed, whatever its callback did: no backlog of runs builds up.
THEOREM NoBacklogBuilds == Spec => NoBacklog
<1>1. IInv /\ [Next]_vars =>
        [pc = "callback" /\ pc' = "exec"
           => \A t \in ToSet(timers') : t.ref = tep => t.next >= now]_vars
  <2> SUFFICES ASSUME IInv, [Next]_vars, pc = "callback", pc' = "exec"
               PROVE  \A t \in ToSet(timers') : t.ref = tep => t.next >= now
    OBVIOUS
  <2>1. CallbackReturns
    BY DEF Next, vars, LoopStep, CreateTimer, DestroyTimer, AdjustTimer, ExecTimers,
           RunCallback, ExecDone, UseAfterFree, Poll, PollTimesOut, PollFindsData,
           PollInterrupted, Tick
  <2> QED
    BY <2>1, LateRunsSkipped
<1> QED
  BY <1>1, InductiveInvariant, PTL DEF Spec, NoBacklog

-----------------------------------------------------------------------------
(* Runs and repeat counts.                                                 *)

\* A timer with a repeat count has run as often as the count has gone down
\* since it was given, and once more while its callback runs.
Counts(t, running) ==
  t.reps # TIMER_REPEAT =>
    t.reps \in Nat /\ t.ran + t.reps = t.asked + (IF running THEN 1 ELSE 0)
CountsOK == \A t \in ToSet(timers) : Counts(t, pc = "callback" /\ t.ref = tep)

\* The timers that are left when one is unlinked were there, with other references.
LEMMA UnlinkedMembers ==
  ASSUME ListOK(timers), NEW r \in LiveRefs
  PROVE  \A u \in ToSet(Unlinked(r)) : u \in ToSet(timers) /\ u.ref # r
<1>1. IndexOf(r) \in DOMAIN timers /\ timers[IndexOf(r)].ref = r
  BY IndexOfLive
<1>2. \A j \in DOMAIN RemoveAt(timers, IndexOf(r)) :
        \E m \in DOMAIN timers : RemoveAt(timers, IndexOf(r))[j] = timers[m]
  BY <1>1, RemoveTimerProperties DEF ListOK
<1>3. \A u \in ToSet(Unlinked(r)) : u \in ToSet(timers)
  BY <1>2 DEF Unlinked, ToSet
<1>4. r \notin Refs(Unlinked(r))
  BY UnlinkedOK
<1>5. \A u \in ToSet(Unlinked(r)) : u.ref # r
  BY <1>4 DEF Refs, ToSet
<1> QED
  BY <1>3, <1>5

\* The timer with a live reference is in the list.
LEMMA TimerOfLive ==
  ASSUME ListOK(timers), NEW r \in LiveRefs
  PROVE  TimerOf(r) \in ToSet(timers) /\ TimerOf(r) \in Timer /\ TimerOf(r).ref = r
<1>1. IndexOf(r) \in DOMAIN timers
  BY IndexOfLive
<1> QED
  BY <1>1, UnlinkedOK DEF TimerOf, ToSet

\* A count that is asked for is one, or for ever.
LEMMA RepsCounts ==
  ASSUME NEW rep \in RepCounts
  PROVE  /\ Reps(rep) \in Int
         /\ Reps(rep) # TIMER_REPEAT => Reps(rep) \in Nat
         /\ rep < 0 => Reps(rep) = TIMER_REPEAT
BY TimerAssumption DEF Reps, TIMER_REPEAT

\* A new timer has not run; what runs is another one.
LEMMA CreateTimerCounts ==
  ASSUME IInv, CountsOK, NEW rep \in RepCounts, NEW interval \in Intervals,
         CreateTimer(rep, interval)
  PROVE  CountsOK'
<1>1. PICK ref \in Ref : /\ ref \notin Refs(timers)
                         /\ timers' = InsertTimer(timers, Made(ref, rep, interval))
  BY NewTimer
<1> DEFINE t == Made(ref, rep, interval)
<1>2. ScalarsOK /\ RefsOK
  BY IInvParts
<1>3. t \in Timer /\ t.reps = Reps(rep) /\ t.asked = t.reps /\ t.ran = 0 /\ t.ref = ref
  BY <1>2, RepsCounts, TimerAssumption DEF Made, Timer, ScalarsOK
<1> HIDE DEF t
<1>4. \A u \in ToSet(timers') : u = t \/ u \in ToSet(timers)
  <2>1. timers' = InsertTimer(timers, t)
    BY <1>1 DEF t
  <2> QED
    BY <2>1, <1>2, <1>3, InsertTimerMembers DEF RefsOK, ListOK
<1>5. UNCHANGED <<pc, tep>>
  BY DEF CreateTimer
<1>6. Counts(t, FALSE)
  BY <1>3, RepsCounts DEF Counts
<1>7. pc = "callback" => ref # tep
  BY <1>1, <1>2 DEF RefsOK
<1> QED
  BY <1>3, <1>4, <1>5, <1>6, <1>7 DEF CountsOK

\* destroy_timer leaves the others as they are.
LEMMA DestroyTimerCounts ==
  ASSUME IInv, CountsOK, NEW r \in Ref, DestroyTimer(r)
  PROVE  CountsOK'
<1>1. r \in LiveRefs /\ timers' = Unlinked(r) /\ UNCHANGED <<pc, tep>>
  BY DEF DestroyTimer
<1>2. \A u \in ToSet(timers') : u \in ToSet(timers)
  BY <1>1, UnlinkedMembers, IInvParts DEF RefsOK
<1> QED
  BY <1>1, <1>2 DEF CountsOK

\* adjust_timer starts the count again; a callback sets its own timer only to repeat for ever.
LEMMA AdjustTimerCounts ==
  ASSUME IInv, CountsOK, NEW r \in Ref, NEW rep \in RepCounts, NEW interval \in Intervals,
         AdjustTimer(r, rep, interval)
  PROVE  CountsOK'
<1>1. ScalarsOK /\ ListOK(timers) /\ r \in LiveRefs /\ UNCHANGED <<pc, tep>>
  BY IInvParts DEF AdjustTimer, RefsOK
<1> DEFINE t == [TimerOf(r) EXCEPT !.reps = Reps(rep), !.interval = interval,
                                   !.next = now + interval,
                                   !.asked = Reps(rep), !.ran = 0]
<1>2. timers' = InsertTimer(Unlinked(r), t)
  BY DEF AdjustTimer
<1>3. TimerOf(r) \in Timer /\ TimerOf(r).ref = r
  BY <1>1, TimerOfLive
<1>4. Reps(rep) \in Int /\ interval \in Nat /\ now + interval \in Nat
  BY <1>1, RepsCounts, TimerAssumption DEF ScalarsOK
<1>5. t \in Timer /\ t.reps = Reps(rep) /\ t.asked = t.reps /\ t.ran = 0 /\ t.ref = r
  BY <1>3, <1>4 DEF Timer
<1> HIDE DEF t
<1>6. ListOK(Unlinked(r)) /\ \A u \in ToSet(Unlinked(r)) : u \in ToSet(timers)
  BY <1>1, UnlinkedOK, UnlinkedMembers
<1>7. \A u \in ToSet(timers') : u = t \/ u \in ToSet(timers)
  BY <1>2, <1>5, <1>6, InsertTimerMembers DEF ListOK
<1>8. Counts(t, pc = "callback" /\ t.ref = tep)
  <2>1. CASE pc = "callback" /\ r = tep
    <3>1. t.reps = TIMER_REPEAT
      BY <2>1, <1>5, RepsCounts DEF AdjustTimer
    <3> QED
      BY <3>1 DEF Counts
  <2>2. CASE ~(pc = "callback" /\ r = tep)
    BY <2>2, <1>5, RepsCounts DEF Counts
  <2> QED
    BY <2>1, <2>2
<1> QED
  BY <1>1, <1>7, <1>8 DEF CountsOK

\* A run counts for the timer that is looked at.
LEMMA RunCallbackCounts ==
  ASSUME IInv, CountsOK, RunCallback
  PROVE  CountsOK'
<1> DEFINE i == IndexOf(tep)
           n == IF TimerOf(tep).reps = TIMER_REPEAT THEN 0 ELSE timers[i].ran + 1
           t == [timers[i] EXCEPT !.ran = n]
<1>1. ListOK(timers) /\ tep \in LiveRefs /\ tep' = tep /\ pc = "exec" /\ pc' = "callback"
  BY IInvParts DEF RunCallback, RefsOK
<1>2. timers' = [timers EXCEPT ![i] = t]
  BY DEF RunCallback
<1>3. i \in DOMAIN timers /\ timers[i].ref = tep /\ timers[i] = TimerOf(tep)
  BY <1>1, IndexOfLive DEF TimerOf
<1>4. timers[i] \in ToSet(timers) /\ timers[i] \in Timer
  BY <1>1, <1>3, TimerOfLive
<1>5. n \in Nat
  <2>1. timers[i].ran \in Nat
    BY <1>4 DEF Timer
  <2> QED
    BY <2>1
<1>6. t \in Timer /\ t.ref = tep /\ t.ran = n /\ t.reps = timers[i].reps /\ t.asked = timers[i].asked
  BY <1>3, <1>4, <1>5 DEF Timer
<1>7. Counts(t, TRUE)
  <2> SUFFICES ASSUME t.reps # TIMER_REPEAT
               PROVE  t.reps \in Nat /\ t.ran + t.reps = t.asked + 1
    BY DEF Counts
  <2>1. Counts(timers[i], FALSE)
    BY <1>1, <1>4 DEF CountsOK
  <2>2. timers[i].reps \in Nat /\ timers[i].ran + timers[i].reps = timers[i].asked
    BY <2>1, <1>4, <1>6 DEF Counts, Timer
  <2>3. n = timers[i].ran + 1
    BY <1>3, <1>6
  <2>4. timers[i].ran \in Nat /\ timers[i].asked \in Int
    BY <1>4 DEF Timer
  <2> QED
    BY <2>2, <2>3, <2>4, <1>6
<1> HIDE DEF t, n, i
<1>8. \A j \in DOMAIN timers : timers'[j] = IF j = i THEN t ELSE timers[j]
  BY <1>1, <1>2 DEF ListOK
<1>9. DOMAIN timers' = DOMAIN timers
  BY <1>2
<1>10. ASSUME NEW j \in DOMAIN timers'
       PROVE  Counts(timers'[j], timers'[j].ref = tep)
  <2>1. CASE j = i
    BY <2>1, <1>3, <1>6, <1>7, <1>8
  <2>2. CASE j # i
    <3>1. timers'[j] = timers[j] /\ timers[j] \in ToSet(timers)
      BY <2>2, <1>8, <1>9 DEF ToSet
    <3>2. timers[j].ref # tep
      BY <2>2, <1>1, <1>3, <1>9 DEF ListOK, Distinct
    <3>3. Counts(timers[j], FALSE)
      BY <3>1, <1>1 DEF CountsOK
    <3> QED
      BY <3>1, <3>2, <3>3
  <2> QED
    BY <2>1, <2>2
<1> QED
  BY <1>1, <1>10 DEF CountsOK, ToSet

\* What is known of the timer whose callback returns.
LEMMA RunningCounts ==
  ASSUME IInv, CountsOK, CallbackReturns
  PROVE  /\ TimerOf(tep) \in Timer /\ TimerOf(tep).ref = tep
         /\ TimerOf(tep).reps # TIMER_REPEAT =>
              /\ TimerOf(tep).reps \in Nat
              /\ TimerOf(tep).ran + TimerOf(tep).reps = TimerOf(tep).asked + 1
<1>1. ListOK(timers) /\ tep \in LiveRefs /\ pc = "callback"
  BY IInvParts DEF CallbackReturns, RefsOK, IInv, CurrentAlive
<1>2. TimerOf(tep) \in ToSet(timers) /\ TimerOf(tep) \in Timer /\ TimerOf(tep).ref = tep
  BY <1>1, TimerOfLive
<1>3. Counts(TimerOf(tep), TRUE)
  BY <1>1, <1>2 DEF CountsOK
<1> QED
  BY <1>2, <1>3 DEF Counts

\* The count goes down when the callback returns.
LEMMA CallbackReturnsCounts ==
  ASSUME IInv, CountsOK, CallbackReturns
  PROVE  CountsOK'
<1> DEFINE t == TimerOf(tep)
           repsLeft == IF t.reps = TIMER_REPEAT THEN t.reps ELSE t.reps - 1
           later == [t EXCEPT !.reps = repsLeft, !.next = NextRun(t)]
<1>1. ScalarsOK /\ ListOK(timers) /\ tep \in LiveRefs /\ pc = "callback" /\ pc' = "exec"
  BY IInvParts DEF CallbackReturns, RefsOK, IInv, CurrentAlive
<1>2. ListOK(Unlinked(tep))
  BY <1>1, UnlinkedOK
<1>3. \A u \in ToSet(Unlinked(tep)) : Counts(u, FALSE)
  <2> SUFFICES ASSUME NEW u \in ToSet(Unlinked(tep)) PROVE Counts(u, FALSE)
    OBVIOUS
  <2>1. u \in ToSet(timers) /\ u.ref # tep
    BY <1>1, UnlinkedMembers
  <2>2. Counts(u, pc = "callback" /\ u.ref = tep)
    BY <2>1 DEF CountsOK
  <2> QED
    BY <2>1, <2>2 DEF Counts
<1>4. \A u \in ToSet(timers') : Counts(u, FALSE)
  <2>1. CASE Expires(t)
    <3>1. timers' = Unlinked(tep)
      BY <2>1 DEF CallbackReturns
    <3> QED
      BY <3>1, <1>3
  <2>2. CASE ~Expires(t)
    <3>1. timers' = InsertTimer(Unlinked(tep), later)
      BY <2>2 DEF CallbackReturns
    <3>2. t \in Timer /\ t.reps \in Int /\ t.next \in Nat /\ t.interval \in Nat
          /\ t.asked \in Int /\ t.ran \in Nat
      BY RunningCounts DEF Timer
    <3>3. t.reps # TIMER_REPEAT => t.reps - 1 \in Nat /\ t.ran + (t.reps - 1) = t.asked
      BY <3>2, <2>2, RunningCounts DEF Expires, TIMER_DEAD
    <3>4. NextRun(t) \in Nat /\ repsLeft \in Int
      BY <1>1, <3>2 DEF NextRun, ScalarsOK
    <3>5. /\ later \in Timer /\ later.reps = repsLeft /\ later.ran = t.ran
          /\ later.asked = t.asked
      BY <3>2, <3>4 DEF Timer
    <3>6. Counts(later, FALSE)
      <4> SUFFICES ASSUME later.reps # TIMER_REPEAT
                   PROVE  later.reps \in Nat /\ later.ran + later.reps = later.asked
        BY <3>2, <3>5 DEF Counts
      <4>1. t.reps # TIMER_REPEAT /\ later.reps = t.reps - 1
        BY <3>5
      <4> QED
        BY <4>1, <3>3, <3>5
    <3> HIDE DEF later
    <3>7. \A u \in ToSet(timers') : u = later \/ u \in ToSet(Unlinked(tep))
      BY <3>1, <3>5, <1>2, InsertTimerMembers DEF ListOK
    <3> QED
      BY <3>6, <3>7, <1>3
  <2> QED
    BY <2>1, <2>2
<1> QED
  BY <1>1, <1>4 DEF CountsOK

\* The steps that leave the list alone start or end no callback.
LEMMA OtherStepsCounts ==
  ASSUME CountsOK,
         \/ ExecTimers \/ ExecDone \/ UseAfterFree \/ Poll \/ PollTimesOut
         \/ PollFindsData \/ PollInterrupted \/ Tick \/ UNCHANGED vars
  PROVE  CountsOK'
<1>1. timers' = timers
  BY DEF ExecTimers, ExecDone, UseAfterFree, Poll, PollTimesOut, PollFindsData, PollInterrupted,
         Tick, vars
<1>2. (pc # "callback" /\ pc' # "callback") \/ (pc' = pc /\ tep' = tep)
  BY DEF ExecTimers, ExecDone, UseAfterFree, Poll, PollTimesOut, PollFindsData, PollInterrupted,
         Tick, vars
<1>3. ASSUME NEW u
      PROVE  (pc = "callback" /\ u.ref = tep) <=> (pc' = "callback" /\ u.ref = tep')
  BY <1>2
<1>4. ASSUME NEW u \in ToSet(timers)
      PROVE  Counts(u, pc' = "callback" /\ u.ref = tep')
  <2>1. Counts(u, pc = "callback" /\ u.ref = tep)
    BY <1>4 DEF CountsOK
  <2> QED
    BY <2>1, <1>3 DEF Counts
<1> QED
  BY <1>1, <1>4 DEF CountsOK

\* A timer whose count has not run out stays in the list.
LEMMA KeptTimersLive ==
  ASSUME IInv, CallbackReturns, tep \notin LiveRefs'
  PROVE  Expires(TimerOf(tep))
<1> DEFINE t == TimerOf(tep)
           repsLeft == IF t.reps = TIMER_REPEAT THEN t.reps ELSE t.reps - 1
           later == [t EXCEPT !.reps = repsLeft, !.next = NextRun(t)]
<1> SUFFICES ASSUME ~Expires(t) PROVE FALSE
  OBVIOUS
<1>1. ScalarsOK /\ ListOK(timers) /\ tep \in LiveRefs
  BY IInvParts DEF CallbackReturns, RefsOK, IInv, CurrentAlive
<1>2. t \in Timer /\ t.ref = tep
  BY <1>1, TimerOfLive
<1>3. t.reps \in Int /\ t.next \in Nat /\ t.interval \in Nat
  BY <1>2 DEF Timer
<1>4. NextRun(t) \in Nat /\ repsLeft \in Int
  BY <1>1, <1>3 DEF NextRun, ScalarsOK
<1>5. later \in Timer /\ later.ref = tep
  BY <1>2, <1>4 DEF Timer
<1>6. timers' = InsertTimer(Unlinked(tep), later)
  BY DEF CallbackReturns
<1> HIDE DEF later
<1>7. Refs(timers') = Refs(timers)
  BY <1>1, <1>5, <1>6, RelinkedOK
<1> QED
  BY <1>1, <1>7 DEF LiveRefs, Refs

\* A timer that exec_timers retires has run one time more than the repeat count it was
\* last given (a count of 0 is one run), whatever its callbacks and those of others did.
THEOREM RunsComplete == Spec => CompletesItsRuns
<1>1. Init => CountsOK
  BY DEF Init, CountsOK, ToSet
<1>2. IInv /\ CountsOK /\ [Next]_vars => CountsOK'
  BY CreateTimerCounts, DestroyTimerCounts, AdjustTimerCounts, RunCallbackCounts,
     CallbackReturnsCounts, OtherStepsCounts DEF Next, LoopStep
<1>3. IInv /\ CountsOK /\ [Next]_vars =>
        [pc = "callback" /\ pc' = "exec" /\ tep \notin LiveRefs'
           => TimerOf(tep).ran = TimerOf(tep).asked + 1]_vars
  <2> SUFFICES ASSUME IInv, CountsOK, [Next]_vars, pc = "callback", pc' = "exec",
                      tep \notin LiveRefs'
               PROVE  TimerOf(tep).ran = TimerOf(tep).asked + 1
    OBVIOUS
  <2>1. CallbackReturns
    BY DEF Next, vars, LoopStep, CreateTimer, DestroyTimer, AdjustTimer, ExecTimers,
           RunCallback, ExecDone, UseAfterFree, Poll, PollTimesOut, PollFindsData,
           PollInterrupted, Tick
  <2>2. Expires(TimerOf(tep))
    BY <2>1, KeptTimersLive
  <2>3. TimerOf(tep).reps \in Int /\ TimerOf(tep).ran \in Nat /\ TimerOf(tep).asked \in Int
    BY <2>1, RunningCounts DEF Timer
  <2> QED
    BY <2>1, <2>2, <2>3, RunningCounts DEF Expires, TIMER_DEAD
<1> QED
  BY <1>1, <1>2, <1>3, InductiveInvariant, PTL DEF Spec, CompletesItsRuns
=============================================================================
