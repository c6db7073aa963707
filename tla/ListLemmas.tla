----------------------------- MODULE ListLemmas -----------------------------
(***************************************************************************)
(* Facts about the list operations the models share, cited by the proof    *)
(* modules: what removing and inserting at a position do to a sequence,    *)
(* element by element, and the least element of a set of naturals.         *)
(***************************************************************************)
EXTENDS Integers, Sequences, FiniteSets, SequencesExt, Queues, SequenceTheorems,
        FiniteSetTheorems, WellFoundedInduction, TLAPS

\* A nonempty set of natural numbers has a least element.
LEMMA LeastNatural ==
  ASSUME NEW T \in SUBSET Nat, T # {}
  PROVE  \E x \in T : \A y \in T : x <= y
<1> DEFINE R == OpToRel(<, Nat)
<1>1. R = {ss \in Nat \X Nat : ss[1] < ss[2]}
  BY DEF OpToRel
<1>2. PICK x \in T : \A y \in T : ~ (<<y, x>> \in R)
  BY NatLessThanWellFounded, WFMin
<1> HIDE DEF R
<1>3. ASSUME NEW y \in T
      PROVE  x <= y
  <2>1. ~ (<<y, x>> \in R)
    BY <1>2
  <2>2. ~ (y < x)
    BY <2>1, <1>1
  <2> QED
    BY <2>2
<1> QED
  BY <1>3

\* Induction up to n, for a set that holds the numbers it is about.
LEMMA InductionUpto ==
  ASSUME NEW n \in Nat, NEW T, 0 \in T, \A i \in 1..n : i - 1 \in T => i \in T
  PROVE  \A i \in 0..n : i \in T
<1> DEFINE lost == {i \in 0..n : i \notin T}
<1> SUFFICES ASSUME lost # {}
             PROVE  FALSE
  OBVIOUS
<1>1. PICK m \in lost : \A i \in lost : m <= i
  <2>1. lost \in SUBSET Nat
    OBVIOUS
  <2> HIDE DEF lost
  <2> QED
    BY <2>1, LeastNatural
<1>2. m \in 1..n /\ m - 1 \in 0..n /\ ~(m <= m - 1) /\ m \notin T
  BY <1>1
<1>3. m - 1 \in T
  BY <1>1, <1>2
<1> QED
  BY <1>2, <1>3

\* The results of a step that is taken n times, each time on what the one before has left.
Results(f, X, n, x, step) ==
  /\ f \in [0..n -> X] /\ f[0] = x
  /\ \A i \in 1..n : f[i] = step[i][f[i - 1]]
\* There are such results.
LEMMA Iterated ==
  ASSUME NEW X, NEW n \in Nat, NEW x \in X, NEW step \in [1..n -> [X -> X]]
  PROVE  \E f : Results(f, X, n, x, step)
<1> DEFINE upto(f, m) == f[0] = x /\ \A i \in 1..n : i <= m => f[i] = step[i][f[i - 1]]
           T == {m \in 0..n : \E f \in [0..n -> X] : upto(f, m)}
<1>1. 0 \in T
  <2>1. [i \in 0..n |-> x] \in [0..n -> X] /\ upto([i \in 0..n |-> x], 0)
    OBVIOUS
  <2> HIDE DEF upto
  <2> QED
    BY <2>1
<1>2. ASSUME NEW m \in 1..n, m - 1 \in T
      PROVE  m \in T
  <2>1. PICK f \in [0..n -> X] : upto(f, m - 1)
    BY <1>2
  <2> DEFINE v == step[m][f[m - 1]]
             g == [i \in 0..n |-> IF i = m THEN v ELSE f[i]]
  <2>2. m \in 0..n /\ m - 1 \in 0..n /\ m # 0
    OBVIOUS
  <2>3. v \in X
    <3>1. f[m - 1] \in X
      BY <2>2
    <3> QED
      BY <3>1
  <2>4. g \in [0..n -> X] /\ g[0] = x
    <3> HIDE DEF v
    <3> QED
      BY <2>1, <2>2, <2>3
  <2>5. ASSUME NEW i \in 1..n, i <= m
        PROVE  g[i] = step[i][g[i - 1]]
    <3>1. i \in 0..n /\ i - 1 \in 0..n /\ i - 1 # m
      BY <2>5
    <3>2. g[i - 1] = f[i - 1]
      BY <3>1
    <3>3. CASE i = m
      BY <3>1, <3>2, <3>3
    <3>4. CASE i # m
      <4>1. g[i] = f[i] /\ i <= m - 1
        BY <2>5, <3>1, <3>4
      <4>2. f[i] = step[i][f[i - 1]]
        BY <2>1, <4>1
      <4> QED
        BY <3>2, <4>1, <4>2
    <3> QED
      BY <3>3, <3>4
  <2> HIDE DEF g, v
  <2>6. upto(g, m)
    BY <2>4, <2>5
  <2> HIDE DEF upto
  <2> QED
    BY <2>2, <2>4, <2>6
<1>3. n \in T
  <2> HIDE DEF T
  <2>1. \A m \in 1..n : m - 1 \in T => m \in T
    BY <1>2
  <2>2. \A m \in 0..n : m \in T
    BY ONLY n \in Nat, <1>1, <2>1, InductionUpto
  <2> QED
    BY <2>2
<1>4. PICK f \in [0..n -> X] : upto(f, n)
  BY <1>3
<1>5. Results(f, X, n, x, step)
  BY <1>4 DEF Results
<1> QED
  BY <1>5

\* RemoveAt shifts the elements after position i down by one (LIST_REMOVE).
LEMMA RemoveAtProperties ==
  ASSUME NEW S, NEW s \in Seq(S), NEW i \in 1..Len(s)
  PROVE  /\ RemoveAt(s, i) \in Seq(S)
         /\ Len(RemoveAt(s, i)) = Len(s) - 1
         /\ \A j \in 1..(Len(s) - 1) :
              RemoveAt(s, i)[j] = IF j < i THEN s[j] ELSE s[j + 1]
<1> DEFINE a == SubSeq(s, 1, i - 1)
           b == SubSeq(s, i + 1, Len(s))
           n == Len(s)
<1>1. i \in Nat /\ n \in Nat /\ 1 <= i /\ i <= n
  OBVIOUS
<1>2. \A j \in 1..n : s[j] \in S
  OBVIOUS
<1>3. a \in Seq(S) /\ Len(a) = i - 1 /\ \A j \in 1..(i - 1) : a[j] = s[j]
  BY <1>1, <1>2, SubSeqProperties
<1>4. b \in Seq(S) /\ Len(b) = n - i /\ \A j \in 1..(n - i) : b[j] = s[i + j]
  <2>1. \A j \in (i + 1)..n : s[j] \in S
    BY <1>1, <1>2
  <2> QED
    BY <1>1, <2>1, SubSeqProperties
<1>5. RemoveAt(s, i) = a \o b
  BY DEF RemoveAt
<1> HIDE DEF a, b, n
<1>6. /\ a \o b \in Seq(S)
      /\ Len(a \o b) = Len(a) + Len(b)
      /\ \A j \in 1..(Len(a) + Len(b)) :
           (a \o b)[j] = IF j <= Len(a) THEN a[j] ELSE b[j - Len(a)]
  BY <1>3, <1>4, ConcatProperties
<1>7. Len(a \o b) = n - 1
  BY <1>1, <1>3, <1>4, <1>6
<1>8. ASSUME NEW j \in 1..(n - 1)
      PROVE  (a \o b)[j] = IF j < i THEN s[j] ELSE s[j + 1]
  <2>1. j \in 1..(Len(a) + Len(b))
    BY <1>1, <1>3, <1>4
  <2>2. CASE j < i
    BY <1>1, <1>3, <1>4, <1>6, <2>1, <2>2
  <2>3. CASE ~(j < i)
    <3>1. (a \o b)[j] = b[j - (i - 1)]
      BY <1>1, <1>3, <1>4, <1>6, <2>1, <2>3
    <3>2. j - (i - 1) \in 1..(n - i)
      BY <1>1, <1>3, <1>4, <2>1, <2>3
    <3> QED
      BY <1>1, <1>3, <1>4, <2>3, <3>1, <3>2
  <2> QED
    BY <2>2, <2>3
<1>9. \A j \in 1..(n - 1) : (a \o b)[j] = IF j < i THEN s[j] ELSE s[j + 1]
  BY <1>8
<1> QED
  BY <1>5, <1>6, <1>7, <1>9 DEF n

\* t is s with e put at position i, which may be behind the last, and the rest
\* shifted up (LIST_INSERT_BEFORE, SLIST_INSERT_AFTER).
IsInsertion(s, i, e, t) ==
  /\ Len(t) = Len(s) + 1
  /\ \A j \in 1..(Len(s) + 1) :
       t[j] = IF j < i THEN s[j] ELSE IF j = i THEN e ELSE s[j - 1]

LEMMA InsertAtInserts ==
  ASSUME NEW S, NEW s \in Seq(S), NEW i \in 1..(Len(s) + 1), NEW e \in S
  PROVE  InsertAt(s, i, e) \in Seq(S) /\ IsInsertion(s, i, e, InsertAt(s, i, e))
<1> DEFINE n == Len(s)
           a == SubSeq(s, 1, i - 1)
           b == SubSeq(s, i, n)
           c == a \o <<e>>
<1>1. n \in Nat /\ i \in Nat /\ 1 <= i /\ i <= n + 1
  OBVIOUS
<1>2. \A j \in 1..n : s[j] \in S
  OBVIOUS
<1>3. a \in Seq(S) /\ Len(a) = i - 1 /\ \A j \in 1..(i - 1) : a[j] = s[j]
  BY <1>1, <1>2, SubSeqProperties
<1>4. b \in Seq(S) /\ Len(b) = n + 1 - i /\ \A j \in 1..(n + 1 - i) : b[j] = s[i + j - 1]
  <2>1. \A j \in i..n : s[j] \in S
    BY <1>1, <1>2
  <2> QED
    BY <1>1, <2>1, SubSeqProperties
<1>5. InsertAt(s, i, e) = c \o b
  BY DEF InsertAt
<1> HIDE DEF a, b, n
<1>6. c \in Seq(S) /\ Len(c) = i /\ c[i] = e /\ \A j \in 1..(i - 1) : c[j] = s[j]
  BY <1>1, <1>3
<1> HIDE DEF c
<1>7. /\ c \o b \in Seq(S)
      /\ Len(c \o b) = Len(c) + Len(b)
      /\ \A j \in 1..(Len(c) + Len(b)) : (c \o b)[j] = IF j <= Len(c) THEN c[j] ELSE b[j - Len(c)]
  BY <1>4, <1>6, ConcatProperties
<1>8. ASSUME NEW j \in 1..(n + 1)
      PROVE  (c \o b)[j] = IF j < i THEN s[j] ELSE IF j = i THEN e ELSE s[j - 1]
  <2>1. j \in 1..(Len(c) + Len(b))
    BY <1>1, <1>4, <1>6
  <2>2. CASE j <= i
    <3>1. (c \o b)[j] = c[j]
      BY <1>1, <1>6, <1>7, <2>1, <2>2
    <3>2. j \in 1..(i - 1) \/ j = i
      BY <1>1, <2>2
    <3> QED
      BY <1>1, <1>6, <3>1, <3>2
  <2>3. CASE j > i
    <3>1. (c \o b)[j] = b[j - i]
      BY <1>1, <1>6, <1>7, <2>1, <2>3
    <3>2. j - i \in 1..(n + 1 - i) /\ i + (j - i) - 1 = j - 1
      BY <1>1, <2>3
    <3>3. b[j - i] = s[i + (j - i) - 1]
      BY <1>4, <3>2
    <3>4. ~(j < i) /\ j # i
      BY <1>1, <2>3
    <3> QED
      BY ONLY <3>1, <3>2, <3>3, <3>4
  <2>4. j <= i \/ j > i
    BY <1>1
  <2> QED
    BY <2>2, <2>3, <2>4
<1>9. Len(c \o b) = n + 1
  BY <1>1, <1>4, <1>6, <1>7
<1>10. \A j \in 1..(n + 1) : (c \o b)[j] = IF j < i THEN s[j] ELSE IF j = i THEN e ELSE s[j - 1]
  BY <1>8
<1> QED
  BY <1>5, <1>7, <1>9, <1>10 DEF n, IsInsertion

\* The same, in full.
LEMMA InsertAtProperties ==
  ASSUME NEW S, NEW s \in Seq(S), NEW i \in 1..(Len(s) + 1), NEW e \in S
  PROVE  /\ InsertAt(s, i, e) \in Seq(S)
         /\ Len(InsertAt(s, i, e)) = Len(s) + 1
         /\ \A j \in 1..(Len(s) + 1) :
              InsertAt(s, i, e)[j] = IF j < i THEN s[j]
                                     ELSE IF j = i THEN e ELSE s[j - 1]
<1>1. InsertAt(s, i, e) \in Seq(S) /\ IsInsertion(s, i, e, InsertAt(s, i, e))
  BY InsertAtInserts
<1> QED
  BY ONLY <1>1 DEF IsInsertion

\* A stack: its top, what is below, and another top on what is below.
LEMMA StackProperties ==
  ASSUME NEW S, NEW s \in Seq(S), s # <<>>, NEW e \in S
  PROVE  /\ Len(s) \in Nat \ {0} /\ Last(s) = s[Len(s)] /\ Last(s) \in S
         /\ Front(s) \in Seq(S) /\ Len(Front(s)) = Len(s) - 1
         /\ \A i \in 1..(Len(s) - 1) : Front(s)[i] = s[i]
         /\ Append(Front(s), e) \in Seq(S) /\ Len(Append(Front(s), e)) = Len(s)
         /\ \A i \in 1..Len(s) :
              Append(Front(s), e)[i] = IF i < Len(s) THEN s[i] ELSE e
<1> DEFINE n == Len(s)
           a == SubSeq(s, 1, n - 1)
<1>1. n \in Nat \ {0} /\ s[n] \in S
  OBVIOUS
<1>2. \A j \in 1..n : s[j] \in S
  OBVIOUS
<1>3. a \in Seq(S) /\ Len(a) = n - 1 /\ \A i \in 1..(n - 1) : a[i] = s[i]
  <2>1. \A j \in 1..(n - 1) : s[j] \in S
    BY <1>1, <1>2
  <2>2. n - 1 \in Int /\ 1 \in Int /\ n - 1 \in Nat
    BY <1>1
  <2> DEFINE m == n - 1
  <2> HIDE DEF m
  <2>3. /\ SubSeq(s, 1, m) \in Seq(S) /\ Len(SubSeq(s, 1, m)) = IF 1 <= m THEN m - 1 + 1 ELSE 0
        /\ \A i \in 1..(m - 1 + 1) : SubSeq(s, 1, m)[i] = s[1 + i - 1]
    BY <2>1, <2>2, SubSeqProperties DEF m
  <2>4. m \in Nat
    BY <2>2 DEF m
  <2>5. /\ SubSeq(s, 1, m) \in Seq(S) /\ Len(SubSeq(s, 1, m)) = m
        /\ \A i \in 1..m : SubSeq(s, 1, m)[i] = s[i]
    BY <2>3, <2>4
  <2> QED
    BY <2>5 DEF m
<1>4. Front(s) = a /\ Last(s) = s[n]
  BY DEF Front, Last
<1> HIDE DEF a, n
<1>5. /\ Append(a, e) \in Seq(S) /\ Len(Append(a, e)) = n
      /\ \A i \in 1..n : Append(a, e)[i] = IF i < n THEN s[i] ELSE e
  BY <1>1, <1>3
<1> QED
  BY <1>1, <1>3, <1>4, <1>5 DEF n

\* Places of a finite set have numbers, from the lowest place up.
LEMMA PlaceNumbers ==
  ASSUME NEW places \in SUBSET Nat, IsFiniteSet(places)
  PROVE  /\ Cardinality(places) \in Nat
         /\ \A i \in places : Cardinality({j \in places : j <= i}) \in 1..Cardinality(places)
         /\ \A i, k \in places :
              Cardinality({j \in places : j <= i}) = Cardinality({j \in places : j <= k}) => i = k
<1> DEFINE size == Cardinality(places)
           upto(i) == {j \in places : j <= i}
<1>1. size \in Nat
  BY FS_CardinalityType
<1>2. \A i \in places : /\ IsFiniteSet(upto(i)) /\ Cardinality(upto(i)) \in Nat
                        /\ Cardinality(upto(i)) <= size /\ Cardinality(upto(i)) # 0
  <2> SUFFICES ASSUME NEW i \in places
               PROVE  /\ IsFiniteSet(upto(i)) /\ Cardinality(upto(i)) \in Nat
                      /\ Cardinality(upto(i)) <= size /\ Cardinality(upto(i)) # 0
    OBVIOUS
  <2>1. upto(i) \in SUBSET places /\ i \in upto(i)
    OBVIOUS
  <2> HIDE DEF upto
  <2>2. IsFiniteSet(upto(i)) /\ Cardinality(upto(i)) <= size
    BY <2>1, FS_Subset
  <2>3. Cardinality(upto(i)) \in Nat
    BY <2>2, FS_CardinalityType
  <2>4. Cardinality(upto(i)) # 0
    BY <2>1, <2>2, FS_EmptySet
  <2> QED
    BY <2>2, <2>3, <2>4
<1>3. \A i \in places : Cardinality(upto(i)) \in 1..size
  <2> HIDE DEF upto, size
  <2> QED
    BY <1>1, <1>2
<1>4. ASSUME NEW i \in places, NEW k \in places, i < k
      PROVE  Cardinality(upto(i)) # Cardinality(upto(k))
  <2>0. \A j \in places : j \in Int
    OBVIOUS
  <2>1. \A j \in places : j <= i => j <= k
    BY <2>0, <1>4
  <2>2. k <= k /\ ~(k <= i)
    BY <2>0, <1>4
  <2>3. upto(i) \in SUBSET upto(k) /\ k \in upto(k) /\ k \notin upto(i)
    BY <2>1, <2>2
  <2>4. IsFiniteSet(upto(k))
    BY <1>2
  <2> HIDE DEF upto
  <2> QED
    BY <2>3, <2>4, FS_Subset
<1>5. \A i, k \in places : Cardinality(upto(i)) = Cardinality(upto(k)) => i = k
  <2> HIDE DEF upto
  <2>1. \A i, k \in places : i < k \/ k < i \/ i = k
    OBVIOUS
  <2> QED
    BY <1>4, <2>1
<1> QED
  BY <1>1, <1>3, <1>5

\* So a finite set of places has a first, a second, and so on.
LEMMA NthExists ==
  ASSUME NEW places \in SUBSET Nat, IsFiniteSet(places), NEW n \in 1..Cardinality(places)
  PROVE  /\ Nth(places, n) \in places
         /\ Cardinality({j \in places : j <= Nth(places, n)}) = n
<1> DEFINE size == Cardinality(places)
           upto(i) == {j \in places : j <= i}
           rank == [i \in places |-> Cardinality(upto(i))]
<1>1. /\ size \in Nat /\ \A i \in places : Cardinality(upto(i)) \in 1..size
      /\ \A i, k \in places : Cardinality(upto(i)) = Cardinality(upto(k)) => i = k
  BY PlaceNumbers
<1>2. rank \in [places -> 1..size] /\ \A i, k \in places : rank[i] = rank[k] => i = k
  <2> HIDE DEF upto, size
  <2> QED
    BY <1>1
<1> HIDE DEF rank, size
<1>3. IsFiniteSet(1..size) /\ Cardinality(1..size) = size
  <2>1. IsFiniteSet(1..size) /\ Cardinality(1..size) = IF 1 > size THEN 0 ELSE size - 1 + 1
    BY <1>1, FS_Interval
  <2> QED
    BY <1>1, <2>1
<1>4. rank \in Injection(places, 1..size)
  BY <1>2 DEF Injection, IsInjective
<1>5. rank \in Surjection(places, 1..size)
  BY <1>3, <1>4, FS_Injection DEF size
<1>6. \E i \in places : rank[i] = n
  BY <1>5 DEF Surjection, size
<1>7. \E i \in places : Cardinality(upto(i)) = n
  BY <1>6 DEF rank
<1> QED
  BY <1>7 DEF Nth

\* Each place is the n-th for some n.
LEMMA NthReaches ==
  ASSUME NEW places \in SUBSET Nat, IsFiniteSet(places), NEW i \in places
  PROVE  \E n \in 1..Cardinality(places) : Nth(places, n) = i
<1> DEFINE num(j) == Cardinality({k \in places : k <= j})
<1>1. num(i) \in 1..Cardinality(places) /\ \A j \in places : num(j) = num(i) => j = i
  BY PlaceNumbers
<1>2. Nth(places, num(i)) \in places /\ num(Nth(places, num(i))) = num(i)
  BY <1>1, NthExists
<1> HIDE DEF num
<1> QED
  BY <1>1, <1>2

\* What is left of a list: the elements that are not gone, each as often as
\* before.
LEMMA WithoutProperties ==
  ASSUME NEW S, NEW s \in Seq(S), NEW gone
  PROVE  /\ Without(s, gone) \in Seq(S)
         /\ ToSet(Without(s, gone)) = ToSet(s) \ gone
         /\ IsInjective(s) => IsInjective(Without(s, gone))
         /\ Len(Without(s, gone)) <= Len(s)
         /\ ToSet(s) \cap gone # {} => Len(Without(s, gone)) < Len(s)
<1> DEFINE stay == Staying(s, gone)
           size == Cardinality(stay)
           t == Without(s, gone)
<1>1. /\ stay \in SUBSET (1..Len(s)) /\ stay \in SUBSET Nat /\ Len(s) \in Nat
      /\ DOMAIN s = 1..Len(s) /\ \A i \in 1..Len(s) : s[i] \in S
  BY DEF Staying
<1>2. IsFiniteSet(1..Len(s)) /\ Cardinality(1..Len(s)) = Len(s)
  <2> DEFINE m == Len(s)
  <2>1. m \in Nat
    BY <1>1
  <2> HIDE DEF m
  <2>2. IsFiniteSet(1..m) /\ Cardinality(1..m) = IF 1 > m THEN 0 ELSE m - 1 + 1
    BY <2>1, FS_Interval
  <2>3. IsFiniteSet(1..m) /\ Cardinality(1..m) = m
    BY <2>1, <2>2
  <2> QED
    BY <2>3 DEF m
<1>3. IsFiniteSet(stay) /\ size \in Nat /\ size <= Len(s) /\ (stay # 1..Len(s) => size < Len(s))
  <2> DEFINE all == 1..Len(s)
  <2>0. stay \in SUBSET all /\ IsFiniteSet(all) /\ Cardinality(all) = Len(s)
    BY <1>1, <1>2
  <2> HIDE DEF stay, all
  <2>1. IsFiniteSet(stay) /\ size <= Len(s) /\ (stay # all => size # Len(s))
    BY <2>0, FS_Subset
  <2>2. size \in Nat
    BY <2>1, FS_CardinalityType
  <2>3. Len(s) \in Nat
    BY <1>1
  <2> HIDE DEF size
  <2>4. stay # all => size < Len(s)
    BY <2>1, <2>2, <2>3
  <2> QED
    BY <2>1, <2>2, <2>4 DEF all
<1>4. size \in Nat
  BY <1>3
<1>5. t = [n \in 1..size |-> s[Nth(stay, n)]]
  BY DEF Without
<1>6. \A n \in 1..size : /\ Nth(stay, n) \in stay
                         /\ Cardinality({j \in stay : j <= Nth(stay, n)}) = n
  BY <1>1, <1>3, NthExists
<1>7. \A i \in stay : \E n \in 1..size : Nth(stay, n) = i
  BY <1>1, <1>3, NthReaches
<1>8. \A i \in DOMAIN s : i \in stay <=> s[i] \notin gone
  BY DEF Staying
<1> HIDE DEF stay, size, t
<1>9. t \in Seq(S) /\ Len(t) = size /\ DOMAIN t = 1..size
  <2>1. t \in [1..size -> S]
    BY <1>1, <1>5, <1>6
  <2> QED
    BY <1>4, <2>1
<1>10. ToSet(t) = ToSet(s) \ gone
  <2>1. ASSUME NEW x \in ToSet(t) PROVE x \in ToSet(s) \ gone
    <3>1. PICK n \in 1..size : x = t[n]
      BY <1>9 DEF ToSet
    <3> QED
      BY <1>1, <1>5, <1>6, <1>8, <3>1 DEF ToSet
  <2>2. ASSUME NEW x \in ToSet(s) \ gone PROVE x \in ToSet(t)
    <3>1. PICK i \in DOMAIN s : x = s[i]
      BY DEF ToSet
    <3>2. i \in stay
      BY <1>8, <3>1
    <3>3. PICK n \in 1..size : Nth(stay, n) = i
      BY <1>7, <3>2
    <3> QED
      BY <1>5, <1>9, <3>1, <3>3 DEF ToSet
  <2> QED
    BY <2>1, <2>2
<1>11. IsInjective(s) => IsInjective(t)
  <2> SUFFICES ASSUME IsInjective(s), NEW n \in 1..size, NEW m \in 1..size, t[n] = t[m]
               PROVE  n = m
    BY <1>9 DEF IsInjective
  <2>1. Nth(stay, n) = Nth(stay, m)
    BY <1>1, <1>5, <1>6 DEF IsInjective
  <2> QED
    BY <1>6, <2>1
<1>12. ToSet(s) \cap gone # {} => stay # 1..Len(s)
  BY <1>1, <1>8 DEF ToSet
<1> QED
  BY <1>3, <1>9, <1>10, <1>11, <1>12 DEF t

\* An element put in front of the rest of a list, or behind it.
LEMMA Joined ==
  ASSUME NEW S, NEW s \in Seq(S), NEW k \in S, IsInjective(s), k \notin ToSet(s),
         NEW t, t = Cons(k, s) \/ t = Append(s, k)
  PROVE  /\ t \in Seq(S) /\ Len(t) = Len(s) + 1
         /\ ToSet(t) = ToSet(s) \cup {k} /\ IsInjective(t)
<1>1. Len(s) \in Nat /\ \A i \in 1..Len(s) : s[i] \in S /\ s[i] # k
  BY DEF ToSet
<1>2. CASE t = Append(s, k)
  <2>1. /\ t \in Seq(S) /\ Len(t) = Len(s) + 1 /\ DOMAIN t = 1..(Len(s) + 1)
        /\ \A i \in 1..(Len(s) + 1) : t[i] = IF i = Len(s) + 1 THEN k ELSE s[i]
    BY <1>2
  <2>2. ToSet(t) = ToSet(s) \cup {k}
    <3>1. \A i \in DOMAIN s : i \in DOMAIN t /\ t[i] = s[i]
      BY <1>1, <2>1
    <3>2. Len(s) + 1 \in DOMAIN t /\ t[Len(s) + 1] = k
      BY <1>1, <2>1
    <3>3. \A i \in DOMAIN t : (i \in DOMAIN s /\ t[i] = s[i]) \/ t[i] = k
      BY <1>1, <2>1
    <3> QED
      BY <3>1, <3>2, <3>3 DEF ToSet
  <2>3. IsInjective(t)
    BY <1>1, <2>1 DEF IsInjective
  <2> QED
    BY <2>1, <2>2, <2>3
<1>3. CASE t = Cons(k, s)
  <2>1. /\ t \in Seq(S) /\ Len(t) = Len(s) + 1 /\ DOMAIN t = 1..(Len(s) + 1)
        /\ \A i \in 1..(Len(s) + 1) : t[i] = IF i = 1 THEN k ELSE s[i - 1]
    BY <1>3 DEF Cons
  <2>2. ToSet(t) = ToSet(s) \cup {k}
    <3>1. \A i \in DOMAIN s : i + 1 \in DOMAIN t /\ t[i + 1] = s[i]
      BY <1>1, <2>1
    <3>2. 1 \in DOMAIN t /\ t[1] = k
      BY <1>1, <2>1
    <3>3. \A i \in DOMAIN t : (i - 1 \in DOMAIN s /\ t[i] = s[i - 1]) \/ t[i] = k
      BY <1>1, <2>1
    <3> QED
      BY <3>1, <3>2, <3>3 DEF ToSet
  <2>3. IsInjective(t)
    <3> SUFFICES ASSUME NEW i \in DOMAIN t, NEW j \in DOMAIN t, t[i] = t[j]
                 PROVE  i = j
      BY DEF IsInjective
    <3>1. i = 1 \/ (i - 1 \in DOMAIN s /\ t[i] = s[i - 1])
      BY <1>1, <2>1
    <3>2. j = 1 \/ (j - 1 \in DOMAIN s /\ t[j] = s[j - 1])
      BY <1>1, <2>1
    <3>3. i = 1 <=> j = 1
      BY <1>1, <2>1, <3>1, <3>2
    <3>4. i # 1 => i - 1 = j - 1
      BY <3>1, <3>2, <3>3 DEF IsInjective
    <3> QED
      BY <2>1, <3>3, <3>4
  <2> QED
    BY <2>1, <2>2, <2>3
<1> QED
  BY <1>2, <1>3

\* x is in front of y on a list, or is y.
Precedes(s, x, y) == \E i, j \in DOMAIN s : i <= j /\ s[i] = x /\ s[j] = y

\* Those that stay on a list keep their order.
LEMMA WithoutKeepsOrder ==
  ASSUME NEW S, NEW s \in Seq(S), NEW gone, NEW x, NEW y,
         x \notin gone, y \notin gone, Precedes(s, x, y)
  PROVE  Precedes(Without(s, gone), x, y)
<1> DEFINE stay == Staying(s, gone)
           size == Cardinality(stay)
           upto(i) == {j \in stay : j <= i}
           t == Without(s, gone)
<1>1. PICK i \in DOMAIN s, j \in DOMAIN s : i <= j /\ s[i] = x /\ s[j] = y
  BY DEF Precedes
<1>2. stay \in SUBSET (1..Len(s)) /\ stay \in SUBSET Nat /\ i \in stay /\ j \in stay
  BY <1>1 DEF Staying
<1>3. IsFiniteSet(stay)
  <2> DEFINE m == Len(s)
  <2>1. m \in Nat
    OBVIOUS
  <2> HIDE DEF m, stay
  <2>2. IsFiniteSet(1..m)
    BY <2>1, FS_Interval
  <2> QED
    BY <1>2, <2>2, FS_Subset DEF m
<1>4. DOMAIN t = 1..size /\ \A n \in 1..size : t[n] = s[Nth(stay, n)]
  BY DEF Without
<1> HIDE DEF stay, t, size
<1>5. PICK n \in 1..size : Nth(stay, n) = i
  BY <1>2, <1>3, NthReaches DEF size
<1>6. PICK m \in 1..size : Nth(stay, m) = j
  BY <1>2, <1>3, NthReaches DEF size
<1>7. Cardinality(upto(i)) = n /\ Cardinality(upto(j)) = m
  BY <1>2, <1>3, <1>5, <1>6, NthExists DEF size
<1>8. n <= m
  <2>0. i \in Int /\ j \in Int /\ i <= j /\ \A k \in stay : k \in Int
    BY <1>1, <1>2
  <2>1. \A k \in stay : k <= i => k <= j
    BY ONLY <2>0
  <2>2. upto(j) \in SUBSET stay /\ upto(i) \in SUBSET upto(j)
    BY <2>1
  <2> HIDE DEF upto
  <2>3. IsFiniteSet(upto(j))
    BY <1>3, <2>2, FS_Subset
  <2>4. Cardinality(upto(i)) <= Cardinality(upto(j))
    BY <2>2, <2>3, FS_Subset
  <2> QED
    BY <1>7, <2>4
<1>9. t[n] = x /\ t[m] = y
  BY <1>1, <1>4, <1>5, <1>6
<1> QED
  BY <1>4, <1>8, <1>9 DEF Precedes, t
=============================================================================
