---------------------------- MODULE NetworkProofs ----------------------------
(***************************************************************************)
(* TreeSound holds in every state of Network, whatever the servers, their  *)
(* links and the number of connections.                                    *)
(*                                                                         *)
(* A handler at s works on a record of what s owns, so the invariant is    *)
(* about one server's list and ends, seen with everyone's ends, and about  *)
(* the wires.  SERVER and SQUIT about others are taken as they come: the   *)
(* list stays a tree because of what the handlers look at.  That an        *)
(* operator's SQUIT does not reach its target rests on the wires also: the *)
(* first message over a connection gives the name of the server at its     *)
(* other end, so a server that is behind a connection is not at the end of *)
(* it.                                                                     *)
(***************************************************************************)
EXTENDS Network, ListLemmas

\* The server at the other end of c.
OtherEnd(en, s, c) == CHOOSE t \in Servers \ {s} : en[t][c] # "none"

\* A connection that is made has two ends.
Paired(en, n) ==
  \A s \in Servers, c \in Conns : en[s][c] # "none" =>
    /\ c <= n
    /\ \E t \in Servers \ {s} :
         en[t][c] # "none" /\ \A u \in Servers : en[u][c] # "none" => u \in {s, t}

\* A list is a tree whose root is s: no server twice, none after its parent.
Tree(s, l) ==
  \A i \in DOMAIN l :
    /\ l[i].name # s
    /\ \A j \in DOMAIN l : l[j].name = l[i].name => i = j
    /\ \/ l[i].parent = s /\ l[i].conn # 0
       \/ l[i].conn = 0 /\ \E j \in DOMAIN l : i < j /\ l[j].name = l[i].parent

\* The ends of s that are registered are those of servers on its list, each
\* with the server that is at the other end.
Matching(en, s, l, own) ==
  /\ \A c \in Conns : own[c] = "registered" <=> \E i \in DOMAIN l : l[i].conn = c
  /\ \A i \in DOMAIN l : l[i].conn # 0 => l[i].name = OtherEnd(en, s, l[i].conn)

\* What may be on its way to s over c: names of the sender, and no SQUIT of an
\* operator for s.
GoodFor(en, s, c, m) ==
  /\ m.cmd = "SERVER" /\ m.from = None => m.name = OtherEnd(en, s, c)
  /\ m.cmd = "OPERSQUIT" => m.name # s

Carried(en, s, c, q) ==
  /\ q # <<>> => en[s][c] \notin {"none", "closed"}
  /\ \A i \in DOMAIN q : GoodFor(en, s, c, q[i])

IInv ==
  /\ TypeOK
  /\ Paired(ends, made)
  /\ \A s \in Servers : Tree(s, list[s]) /\ Matching(ends, s, list[s], ends[s])
  /\ \A s \in Servers, c \in Conns : Carried(ends, s, c, wire[s][c])

-----------------------------------------------------------------------------
(* Reading a list that is a tree.                                          *)

LEMMA Entries ==
  ASSUME NEW l \in Seq(Entry)
  PROVE  /\ Len(l) \in Nat /\ DOMAIN l = 1..Len(l) /\ ToSet(l) \subseteq Entry
         /\ \A i \in DOMAIN l : l[i] \in Entry /\ l[i] \in ToSet(l) /\ l[i].name \in Names(l)
         /\ Names(l) \subseteq Servers
<1>1. Len(l) \in Nat /\ DOMAIN l = 1..Len(l) /\ \A i \in DOMAIN l : l[i] \in Entry
  OBVIOUS
<1>2. \A i \in DOMAIN l : l[i].name \in Servers
  BY <1>1 DEF Entry
<1> QED
  BY <1>1, <1>2 DEF ToSet, Names

\* A name on the list has one entry.
LEMMA EntryFound ==
  ASSUME NEW s \in Servers, NEW l \in Seq(Entry), Tree(s, l)
  PROVE  /\ \A i \in DOMAIN l : EntryOf(l, l[i].name) = l[i]
         /\ \A x \in Names(l) : \E i \in DOMAIN l : l[i].name = x /\ EntryOf(l, x) = l[i]
<1>1. ASSUME NEW i \in DOMAIN l
      PROVE  EntryOf(l, l[i].name) = l[i]
  BY <1>1 DEF EntryOf, Tree
<1> QED
  BY <1>1 DEF Names

\* The walk of Behind ends, since a parent is later on the list than its
\* child: what is behind x is x and whatever has its parent behind x.
LEMMA BehindIs ==
  ASSUME NEW s \in Servers, NEW l \in Seq(Entry), Tree(s, l), NEW x \in Names(l)
  PROVE  /\ Behind(s, l, x) \subseteq Names(l) /\ x \in Behind(s, l, x)
         /\ \A y \in Names(l) \ {x} :
              y \in Behind(s, l, x) <=>
                EntryOf(l, y).parent # s /\ EntryOf(l, y).parent \in Behind(s, l, x)
<1> DEFINE up(y) == EntryOf(l, y).parent
           Closed(U) == x \in U /\ \A y \in Names(l) : up(y) # s /\ up(y) \in U => y \in U
           least == {y \in Names(l) : \A U \in SUBSET Names(l) : Closed(U) => y \in U}
           f == [y \in Names(l) |-> y \in least]
           is(g) == g = [y \in Names(l) |-> y = x \/ (up(y) # s /\ g[up(y)])]
           below == CHOOSE g : is(g)
<1>1. \A y \in Names(l) : up(y) # s => up(y) \in Names(l)
  <2> SUFFICES ASSUME NEW y \in Names(l), up(y) # s
               PROVE  up(y) \in Names(l)
    OBVIOUS
  <2>1. PICK i \in DOMAIN l : l[i].name = y /\ EntryOf(l, y) = l[i]
    BY EntryFound
  <2>2. PICK j \in DOMAIN l : l[j].name = l[i].parent
    BY <2>1 DEF Tree
  <2> QED
    BY <2>1, <2>2, Entries
<1>2. least \subseteq Names(l) /\ Closed(least)
  OBVIOUS
<1>3. \A y \in least : y = x \/ (up(y) # s /\ up(y) \in least)
  <2> SUFFICES ASSUME NEW y \in least, y # x, ~(up(y) # s /\ up(y) \in least)
               PROVE  FALSE
    OBVIOUS
  <2>1. Closed(least \ {y})
    BY <1>2
  <2> QED
    BY <1>2, <2>1
<1>4. is(f)
  <2>1. ASSUME NEW y \in Names(l)
        PROVE  y \in least <=> y = x \/ (up(y) # s /\ f[up(y)])
    BY <1>1, <1>2, <1>3
  <2> HIDE DEF least, up
  <2>2. [y \in Names(l) |-> y \in least] = [y \in Names(l) |-> y = x \/ (up(y) # s /\ f[up(y)])]
    BY <2>1
  <2> QED
    BY <2>2
<1>5. is(below)
  BY <1>4
<1>6. Behind(s, l, x) = {y \in Names(l) : below[y]}
  BY Zenon DEF Behind
<1> HIDE DEF below
<1>7. \A y \in Names(l) : below[y] <=> y = x \/ (up(y) # s /\ below[up(y)])
  BY <1>5, Zenon
<1> QED
  BY <1>1, <1>6, <1>7

\* The walk of srv_uplink ends with a server that is linked to s.
LEMMA UplinkIs ==
  ASSUME NEW s \in Servers, NEW l \in Seq(Entry), Tree(s, l), NEW x \in Names(l)
  PROVE  \E i \in DOMAIN l : l[i].conn # 0 /\ l[i].conn = Uplink(s, l, x)
<1> DEFINE up(y) == EntryOf(l, y).parent
           conn(y) == EntryOf(l, y).conn
           Pairs == Names(l) \X {l[i].conn : i \in DOMAIN l}
           Closed(R) ==
             \A y \in Names(l) :
               IF up(y) = s THEN <<y, conn(y)>> \in R
               ELSE \A r \in R : r[1] = up(y) => <<y, r[2]>> \in R
           least == {r \in Pairs : \A R \in SUBSET Pairs : Closed(R) => r \in R}
           of(y) == {c \in {l[i].conn : i \in DOMAIN l} : <<y, c>> \in least}
           val(y) == CHOOSE c : c \in of(y)
           f == [y \in Names(l) |-> val(y)]
           is(g) == g = [y \in Names(l) |-> IF up(y) = s THEN conn(y) ELSE g[up(y)]]
           walk == CHOOSE g : is(g)
<1>1. \A y \in Names(l) : up(y) # s => up(y) \in Names(l)
  <2> SUFFICES ASSUME NEW y \in Names(l), up(y) # s
               PROVE  up(y) \in Names(l)
    OBVIOUS
  <2>1. PICK i \in DOMAIN l : l[i].name = y /\ EntryOf(l, y) = l[i]
    BY EntryFound
  <2>2. PICK j \in DOMAIN l : l[j].name = l[i].parent
    BY <2>1 DEF Tree
  <2> QED
    BY <2>1, <2>2, Entries
<1>2. \A y \in Names(l) : conn(y) \in {l[i].conn : i \in DOMAIN l}
  BY EntryFound
<1>3. least \subseteq Pairs /\ Closed(least)
  <2>1. ASSUME NEW y \in Names(l), up(y) = s
        PROVE  <<y, conn(y)>> \in least
    BY <1>2, <2>1
  <2>2. ASSUME NEW y \in Names(l), up(y) # s, NEW r \in least, r[1] = up(y)
        PROVE  <<y, r[2]>> \in least
    BY <2>2
  <2> QED
    BY <2>1, <2>2
<1>4. ASSUME NEW y \in Names(l), NEW c, <<y, c>> \in least
      PROVE  IF up(y) = s THEN c = conn(y) ELSE <<up(y), c>> \in least
  <2> SUFFICES ASSUME ~(IF up(y) = s THEN c = conn(y) ELSE <<up(y), c>> \in least)
               PROVE  FALSE
    OBVIOUS
  <2> DEFINE less == least \ {<<y, c>>}
  <2>1. ASSUME NEW z \in Names(l), up(z) = s
        PROVE  <<z, conn(z)>> \in less
    BY <1>3, <2>1
  <2>2. ASSUME NEW z \in Names(l), up(z) # s, NEW r \in less, r[1] = up(z)
        PROVE  <<z, r[2]>> \in less
    <3>1. <<z, r[2]>> \in least
      BY <1>3, <2>2
    <3>2. r = <<up(z), r[2]>>
      BY <1>3, <2>2
    <3>3. <<z, r[2]>> # <<y, c>>
      BY <2>2, <3>2
    <3> QED
      BY <3>1, <3>3
  <2>3. Closed(less) /\ less \in SUBSET Pairs
    BY <1>3, <2>1, <2>2
  <2> QED
    BY <1>4, <2>3
<1>5. is(f)
  <2>1. ASSUME NEW y \in Names(l), up(y) = s
        PROVE  val(y) = conn(y)
    <3>1. <<y, conn(y)>> \in least /\ \A c : <<y, c>> \in least => c = conn(y)
      BY <1>3, <1>4, <2>1
    <3>2. of(y) = {conn(y)}
      <4> HIDE DEF least, conn
      <4> QED
        BY <1>2, <3>1
    <3> HIDE DEF of
    <3> QED
      BY <3>2
  <2>2. ASSUME NEW y \in Names(l), up(y) # s
        PROVE  val(y) = f[up(y)]
    <3>1. of(y) = of(up(y))
      <4>1. ASSUME NEW c, <<up(y), c>> \in least
            PROVE  <<y, c>> \in least
        <5> DEFINE r == <<up(y), c>>
        <5>1. r \in least /\ r[1] = up(y) /\ r[2] = c
          BY <4>1
        <5> HIDE DEF r, least
        <5> QED
          BY <1>3, <2>2, <5>1
      <4> QED
        BY <1>4, <2>2, <4>1
    <3>2. f[up(y)] = val(up(y))
      BY <1>1, <2>2
    <3> HIDE DEF of, f
    <3> QED
      BY <3>1, <3>2
  <2> HIDE DEF val, up, conn
  <2>3. f = [y \in Names(l) |-> IF up(y) = s THEN conn(y) ELSE f[up(y)]]
    BY <2>1, <2>2
  <2> QED
    BY <2>3
<1>6. is(walk)
  BY <1>5
<1>7. Uplink(s, l, x) = walk[x]
  BY Zenon DEF Uplink
<1> HIDE DEF walk
<1> DEFINE linked == {l[i].conn : i \in {j \in DOMAIN l : l[j].conn # 0}}
           lost == {n \in Nat : \E i \in DOMAIN l : n = Len(l) - i /\ walk[l[i].name] \notin linked}
<1>8. lost = {}
  <2> SUFFICES ASSUME lost # {}
               PROVE  FALSE
    OBVIOUS
  <2>1. PICK n \in lost : \A m \in lost : n <= m
    BY LeastNatural
  <2>2. PICK i \in DOMAIN l : n = Len(l) - i /\ walk[l[i].name] \notin linked
    OBVIOUS
  <2>3. i \in 1..Len(l) /\ l[i].name \in Names(l) /\ EntryOf(l, l[i].name) = l[i]
    BY Entries, EntryFound
  <2>4. l[i].parent # s
    BY <1>6, <2>2, <2>3 DEF Tree
  <2>5. walk[l[i].name] = walk[l[i].parent]
    BY <1>6, <2>3, <2>4
  <2>6. PICK j \in DOMAIN l : i < j /\ l[j].name = l[i].parent
    BY <2>4 DEF Tree
  <2>7. j \in 1..Len(l) /\ Len(l) \in Nat
    BY Entries
  <2>8. Len(l) - j \in lost
    <3>1. walk[l[j].name] \notin linked
      BY <2>2, <2>5, <2>6
    <3>2. Len(l) - j \in Nat
      BY <2>7
    <3> HIDE DEF linked
    <3> QED
      BY <3>1, <3>2
  <2>9. Len(l) - i <= Len(l) - j
    BY <2>1, <2>2, <2>8
  <2> QED
    BY <2>3, <2>6, <2>7, <2>9
<1>9. PICK i \in DOMAIN l : l[i].name = x
  BY DEF Names
<1>10. Len(l) - i \in Nat
  BY Entries
<1> QED
  BY <1>7, <1>8, <1>9, <1>10

\* FlattenSeq joins sequences over S to one.
LEMMA Flattened ==
  ASSUME NEW S, NEW q \in Seq(Seq(S))
  PROVE  FlattenSeq(q) \in Seq(S)
<1> DEFINE is(g, n) == g = [i \in 1..n |-> IF i = 1 THEN q[i] ELSE g[i - 1] \o q[i]]
           lost == {n \in Nat : n <= Len(q) /\ ~\E g : is(g, n)}
           join == CHOOSE g : is(g, Len(q))
           bad == {n \in Nat : n \in 1..Len(q) /\ join[n] \notin Seq(S)}
<1>1. Len(q) \in Nat /\ \A i \in 1..Len(q) : q[i] \in Seq(S)
  OBVIOUS
<1>2. lost = {}
  <2> SUFFICES ASSUME lost # {}
               PROVE  FALSE
    OBVIOUS
  <2>1. PICK n \in lost : \A m \in lost : n <= m
    BY LeastNatural
  <2>2. n # 0
    <3>1. is(<<>>, 0)
      OBVIOUS
    <3>2. ~\E g : is(g, n)
      BY <2>1
    <3> HIDE DEF is
    <3> QED
      BY <3>1, <3>2
  <2>3. PICK g : is(g, n - 1)
    <3>1. n \in Nat /\ n <= Len(q)
      BY <2>1
    <3>2. n - 1 \in Nat /\ n - 1 <= Len(q) /\ ~(n <= n - 1)
      BY <1>1, <2>2, <3>1
    <3>3. n - 1 \notin lost
      BY <2>1, <3>2
    <3> QED
      BY <3>2, <3>3
  <2> DEFINE h == [i \in 1..n |-> IF i = n THEN IF n = 1 THEN q[1] ELSE g[n - 1] \o q[n] ELSE g[i]]
  <2>4. ASSUME NEW i \in 1..n
        PROVE  h[i] = IF i = 1 THEN q[i] ELSE h[i - 1] \o q[i]
    <3>1. CASE i = n
      BY <2>1, <2>2, <3>1
    <3>2. CASE i # n
      <4>1. i \in 1..(n - 1) /\ h[i] = g[i] /\ (i # 1 => h[i - 1] = g[i - 1])
        BY <2>1, <2>2, <3>2
      <4>2. g[i] = IF i = 1 THEN q[i] ELSE g[i - 1] \o q[i]
        BY <2>3, <4>1
      <4> QED
        BY <4>1, <4>2
    <3> QED
      BY <3>1, <3>2
  <2>5. is(h, n)
    BY <2>4
  <2> QED
    BY <2>1, <2>5
<1>3. is(join, Len(q))
  <2>1. \E g : is(g, Len(q))
    <3>1. Len(q) \in Nat /\ Len(q) <= Len(q) /\ Len(q) \notin lost
      <4> HIDE DEF lost
      <4> QED
        BY <1>1, <1>2
    <3> HIDE DEF is
    <3> QED
      BY <3>1
  <2> QED
    BY <2>1
<1> HIDE DEF join
<1>4. bad = {}
  <2> SUFFICES ASSUME bad # {}
               PROVE  FALSE
    OBVIOUS
  <2>1. PICK n \in bad : \A m \in bad : n <= m
    BY LeastNatural
  <2>2. n \in 1..Len(q) /\ join[n] = IF n = 1 THEN q[n] ELSE join[n - 1] \o q[n]
    BY <1>3, <2>1
  <2>3. n # 1
    BY <1>1, <2>1, <2>2
  <2>4. n - 1 \in 1..Len(q) /\ n - 1 \in Nat /\ n - 1 \notin bad
    BY <1>1, <2>1, <2>2, <2>3
  <2>5. join[n - 1] \in Seq(S) /\ q[n] \in Seq(S)
    BY <1>1, <2>2, <2>4
  <2>6. join[n] \in Seq(S)
    BY <2>2, <2>3, <2>5
  <2> QED
    BY <2>1, <2>6
<1>5. CASE Len(q) = 0
  BY <1>5 DEF FlattenSeq
<1>6. CASE Len(q) # 0
  <2>1. FlattenSeq(q) = join[Len(q)]
    BY <1>6, Zenon DEF FlattenSeq, join
  <2>2. Len(q) \in 1..Len(q)
    BY <1>1, <1>6
  <2> QED
    BY <1>1, <1>4, <2>1, <2>2
<1> QED
  BY <1>5, <1>6

\* The servers that Burst finds are those on the list.
LEMMA BurstIs ==
  ASSUME NEW s \in Servers, NEW l \in Seq(Entry), Tree(s, l)
  PROVE  Burst(s, l) \in Seq(ToSet(l))
<1> DEFINE all == Names(l) \cup {s}
           below(g, x) ==
             [i \in DOMAIN l |-> IF l[i].parent = x THEN <<l[i]>> \o g[l[i].name] ELSE <<>>]
           joined(g, x) == FlattenSeq(below(g, x))
           is(g) == g = [x \in all |-> joined(g, x)]
           upto(g, n) == \A i \in DOMAIN l : i <= n => g[l[i].name] = joined(g, l[i].name)
           lost == {n \in Nat : n <= Len(l) /\ ~\E g : DOMAIN g = all /\ upto(g, n)}
           after == CHOOSE g : is(g)
           bad == {n \in Nat : n \in DOMAIN l /\ after[l[n].name] \notin Seq(ToSet(l))}
<1>1. /\ Len(l) \in Nat /\ DOMAIN l = 1..Len(l)
      /\ \A i \in DOMAIN l : l[i] \in ToSet(l) /\ l[i].name \in Names(l) /\ l[i].name # s
  BY Entries DEF Tree
\* A child is in front of its parent.
<1>2. \A i, j \in DOMAIN l : l[i].parent = l[j].name => i < j
  <2> SUFFICES ASSUME NEW i \in DOMAIN l, NEW j \in DOMAIN l, l[i].parent = l[j].name
               PROVE  i < j
    OBVIOUS
  <2>1. l[i].parent # s
    BY <1>1
  <2>2. PICK k \in DOMAIN l : i < k /\ l[k].name = l[i].parent
    BY <2>1 DEF Tree
  <2> QED
    BY <2>2 DEF Tree
<1>3. \A i, j \in DOMAIN l : l[i].name = l[j].name => i = j
  BY DEF Tree
<1>4. lost = {}
  <2> SUFFICES ASSUME lost # {}
               PROVE  FALSE
    OBVIOUS
  <2>1. PICK n \in lost : \A m \in lost : n <= m
    BY LeastNatural
  <2>2. n \in Nat /\ n <= Len(l) /\ ~\E g : DOMAIN g = all /\ upto(g, n)
    BY <2>1
  <2>3. n # 0
    <3> DEFINE g == [x \in all |-> <<>>]
    <3>1. \A i \in DOMAIN l : ~(i <= 0)
      BY <1>1
    <3>2. DOMAIN g = all /\ upto(g, 0)
      <4> HIDE DEF joined
      <4> QED
        BY <3>1
    <3> HIDE DEF upto, g
    <3> QED
      BY <2>2, <3>2
  <2>4. PICK g : DOMAIN g = all /\ upto(g, n - 1)
    <3>1. n - 1 \in Nat /\ n - 1 <= Len(l) /\ ~(n <= n - 1)
      BY <1>1, <2>2, <2>3
    <3>2. n - 1 \notin lost
      <4> HIDE DEF lost
      <4> QED
        BY <2>1, <3>1
    <3> HIDE DEF upto
    <3> QED
      BY <3>1, <3>2
  <2> DEFINE new == l[n].name
             h == [x \in all |-> IF x = new THEN joined(g, x) ELSE g[x]]
  <2>5. n \in DOMAIN l
    BY <1>1, <2>2, <2>3
  <2>6. ASSUME NEW i \in DOMAIN l, i <= n
        PROVE  joined(h, l[i].name) = joined(g, l[i].name)
    <3>1. ASSUME NEW k \in DOMAIN l, l[k].parent = l[i].name
          PROVE  h[l[k].name] = g[l[k].name]
      <4>1. k < i
        BY <1>2, <3>1
      <4>2. l[k].name # new
        BY <1>1, <1>3, <2>2, <2>5, <2>6, <4>1
      <4> QED
        BY <1>1, <4>2
    <3>2. below(h, l[i].name) = below(g, l[i].name)
      <4> HIDE DEF h
      <4> QED
        BY <3>1
    <3> QED
      BY ONLY <3>2
  <2>7. ASSUME NEW i \in DOMAIN l, i <= n
        PROVE  h[l[i].name] = joined(h, l[i].name)
    <3>1. joined(h, l[i].name) = joined(g, l[i].name)
      BY <2>6, <2>7
    <3>2. CASE i = n
      <4>1. h[l[i].name] = joined(g, l[i].name)
        <5> HIDE DEF joined
        <5> QED
          BY <1>1, <3>2
      <4> QED
        BY ONLY <3>1, <4>1
    <3>3. CASE i # n
      <4>1. h[l[i].name] = g[l[i].name] /\ i <= n - 1
        <5> HIDE DEF joined
        <5> QED
          BY <1>1, <1>3, <2>2, <2>5, <2>7, <3>3
      <4>2. g[l[i].name] = joined(g, l[i].name)
        <5> HIDE DEF joined
        <5> QED
          BY <2>4, <4>1
      <4> QED
        BY ONLY <3>1, <4>1, <4>2
    <3> QED
      BY <3>2, <3>3
  <2>8. DOMAIN h = all /\ upto(h, n)
    <3> HIDE DEF joined, h
    <3>1. DOMAIN h = all
      BY DEF h
    <3> QED
      BY <2>7, <3>1
  <2> HIDE DEF upto, h
  <2> QED
    BY <2>2, <2>8
<1>5. PICK g : DOMAIN g = all /\ upto(g, Len(l))
  <2>1. Len(l) \in Nat /\ Len(l) <= Len(l) /\ Len(l) \notin lost
    <3> HIDE DEF lost
    <3> QED
      BY <1>1, <1>4
  <2> HIDE DEF upto
  <2> QED
    BY <2>1
<1>6. is([x \in all |-> joined(g, x)])
  <2> DEFINE f == [x \in all |-> joined(g, x)]
  <2>1. ASSUME NEW i \in DOMAIN l
        PROVE  f[l[i].name] = g[l[i].name]
    <3>1. l[i].name \in all /\ i <= Len(l)
      BY <1>1
    <3>2. g[l[i].name] = joined(g, l[i].name)
      <4> HIDE DEF joined
      <4> QED
        BY <1>5, <3>1
    <3>3. f[l[i].name] = joined(g, l[i].name)
      <4> HIDE DEF joined
      <4> QED
        BY <3>1
    <3> QED
      BY ONLY <3>2, <3>3
  <2>2. ASSUME NEW x \in all
        PROVE  joined(f, x) = joined(g, x)
    <3>1. below(f, x) = below(g, x)
      <4> HIDE DEF f
      <4> QED
        BY <2>1
    <3> QED
      BY ONLY <3>1
  <2>3. f = [x \in all |-> joined(f, x)]
    <3> HIDE DEF joined
    <3>1. \A x \in all : joined(g, x) = joined(f, x)
      BY <2>2
    <3>2. [x \in all |-> joined(g, x)] = [x \in all |-> joined(f, x)]
      <4> HIDE DEF f
      <4> QED
        BY ONLY <3>1
    <3> QED
      BY ONLY <3>2
  <2> QED
    BY ONLY <2>3
<1>7. is(after)
  <2> HIDE DEF is
  <2> QED
    BY <1>6
<1>8. Burst(s, l) = after[s]
  BY Zenon DEF Burst
<1> HIDE DEF after
<1>9. ASSUME NEW x \in all,
             \A i \in DOMAIN l : l[i].parent = x => after[l[i].name] \in Seq(ToSet(l))
      PROVE  after[x] \in Seq(ToSet(l))
  <2>1. ASSUME NEW i \in DOMAIN l
        PROVE  below(after, x)[i] \in Seq(ToSet(l))
    <3>1. <<l[i]>> \in Seq(ToSet(l)) /\ <<>> \in Seq(ToSet(l))
      BY <1>1
    <3>2. l[i].parent = x => <<l[i]>> \o after[l[i].name] \in Seq(ToSet(l))
      BY <1>9, <3>1
    <3> QED
      BY <3>1, <3>2
  <2>2. below(after, x) \in Seq(Seq(ToSet(l)))
    <3> HIDE DEF below
    <3>1. /\ DOMAIN below(after, x) = 1..Len(l)
          /\ below(after, x) = [i \in 1..Len(l) |-> below(after, x)[i]]
      BY <1>1 DEF below
    <3> QED
      BY <1>1, <2>1, <3>1
  <2>3. joined(after, x) \in Seq(ToSet(l))
    <3> HIDE DEF below
    <3> QED
      BY <2>2, Flattened
  <2>4. after[x] = joined(after, x)
    <3> HIDE DEF joined
    <3> QED
      BY <1>7
  <2> QED
    BY ONLY <2>3, <2>4
<1>10. bad = {}
  <2> SUFFICES ASSUME bad # {}
               PROVE  FALSE
    OBVIOUS
  <2>1. PICK n \in bad : \A m \in bad : n <= m
    BY LeastNatural
  <2>2. n \in DOMAIN l /\ after[l[n].name] \notin Seq(ToSet(l))
    BY <2>1
  <2>3. ASSUME NEW i \in DOMAIN l, l[i].parent = l[n].name
        PROVE  after[l[i].name] \in Seq(ToSet(l))
    <3>1. i < n /\ i \in Nat /\ n \in Nat
      BY <1>1, <1>2, <2>2, <2>3
    <3>2. i \notin bad
      <4> HIDE DEF bad
      <4> QED
        BY <2>1, <3>1
    <3> QED
      BY <3>1, <3>2
  <2> QED
    BY <1>1, <1>9, <2>2, <2>3
<1>11. \A i \in DOMAIN l : after[l[i].name] \in Seq(ToSet(l))
  BY <1>1, <1>10
<1> QED
  BY <1>8, <1>9, <1>11

-----------------------------------------------------------------------------
(* What a handler does to the part of the state that s owns.               *)

\* The other end of a connection that is made.
LEMMA OtherEndIs ==
  ASSUME NEW en, NEW n, Paired(en, n), NEW s \in Servers, NEW c \in Conns, en[s][c] # "none"
  PROVE  /\ OtherEnd(en, s, c) \in Servers \ {s} /\ en[OtherEnd(en, s, c)][c] # "none"
         /\ \A u \in Servers : en[u][c] # "none" => u \in {s, OtherEnd(en, s, c)}
         /\ OtherEnd(en, OtherEnd(en, s, c), c) = s
<1>1. PICK t \in Servers \ {s} :
        en[t][c] # "none" /\ \A u \in Servers : en[u][c] # "none" => u \in {s, t}
  BY DEF Paired
<1>2. OtherEnd(en, s, c) = t
  BY <1>1 DEF OtherEnd
<1>3. OtherEnd(en, t, c) = s
  BY <1>1 DEF OtherEnd
<1> QED
  BY <1>1, <1>2, <1>3

\* A message that s may send over c.
Sendable(s, c, m) ==
  m \in Message /\ ends[s][c] # "none" /\ GoodFor(ends, OtherEnd(ends, s, c), c, m)

\* What a handler has done so far keeps what the invariant says of s.
Formed(s, h) ==
  /\ h \in [list : Seq(Entry), ends : [Conns -> EndStates], out : [Conns -> Seq(Message)]]
  /\ \A c \in Conns : h.ends[c] = "none" <=> ends[s][c] = "none"
  /\ \A c \in Conns : \A i \in DOMAIN h.out[c] : Sendable(s, c, h.out[c][i])

Sound(s, h) == Formed(s, h) /\ Tree(s, h.list) /\ Matching(ends, s, h.list, h.ends)

LEMMA HereIsSound ==
  ASSUME IInv, NEW s \in Servers
  PROVE  Sound(s, Here(s))
<1>1. Here(s) \in [list : Seq(Entry), ends : [Conns -> EndStates], out : [Conns -> Seq(Message)]]
  BY DEF Here, IInv, TypeOK
<1> QED
  BY <1>1 DEF Here, IInv, Sound, Formed

\* Messages are sent, and nothing else is changed.
LEMMA SendKeeps ==
  ASSUME NEW s \in Servers, NEW h, Formed(s, h), NEW cs, NEW m,
         \A c \in cs \cap Conns : Sendable(s, c, m), cs \cap Conns # {} => m \in Message
  PROVE  /\ Formed(s, SendTo(h, cs, m))
         /\ Sound(s, h) => Sound(s, SendTo(h, cs, m))
         /\ SendTo(h, cs, m).list = h.list /\ SendTo(h, cs, m).ends = h.ends
<1> DEFINE g == SendTo(h, cs, m)
<1>1. /\ g.list = h.list /\ g.ends = h.ends
      /\ g.out = [c \in Conns |-> IF c \in cs THEN Append(h.out[c], m) ELSE h.out[c]]
      /\ g = [list |-> h.list, ends |-> h.ends, out |-> g.out]
  <2> DEFINE f == [c \in Conns |-> IF c \in cs THEN Append(h.out[c], m) ELSE h.out[c]]
  <2>1. g = [h EXCEPT !.out = f]
    BY DEF SendTo
  <2> HIDE DEF f, g
  <2>2. g = [list |-> h.list, ends |-> h.ends, out |-> f]
    BY <2>1 DEF Formed
  <2>3. g.list = h.list /\ g.ends = h.ends /\ g.out = f
    BY <2>2
  <2> QED
    BY <2>2, <2>3 DEF f
<1>2. ASSUME NEW c \in Conns
      PROVE  /\ g.out[c] \in Seq(Message)
             /\ \A i \in DOMAIN g.out[c] : Sendable(s, c, g.out[c][i])
  <2>1. h.out[c] \in Seq(Message) /\ \A i \in DOMAIN h.out[c] : Sendable(s, c, h.out[c][i])
    BY DEF Formed
  <2>2. CASE c \notin cs
    BY <1>1, <2>1, <2>2
  <2>3. CASE c \in cs
    <3>1. g.out[c] = Append(h.out[c], m) /\ Sendable(s, c, m) /\ m \in Message
      BY <1>1, <2>3
    <3> HIDE DEF g
    <3> QED
      BY <2>1, <3>1
  <2> QED
    BY <2>2, <2>3
<1>3. g.out \in [Conns -> Seq(Message)]
  <2>1. g.out = [c \in Conns |-> g.out[c]]
    BY <1>1
  <2> HIDE DEF g
  <2> QED
    BY <1>2, <2>1
<1> HIDE DEF g
<1>4. Formed(s, g)
  BY <1>1, <1>2, <1>3 DEF Formed
<1> QED
  BY <1>1, <1>4 DEF g, Sound

\* SQUITs are for anyone.
LEMMA SquitSendable ==
  ASSUME NEW s \in Servers, NEW from \in Servers \cup {None}, NEW e \in Entry,
         NEW c \in Conns, ends[s][c] # "none"
  PROVE  Sendable(s, c, SquitMsg(from, e))
  BY DEF Sendable, SquitMsg, Message, Entry, GoodFor

LEMMA EOFSendable ==
  ASSUME NEW s \in Servers, NEW c \in Conns, ends[s][c] # "none"
  PROVE  Sendable(s, c, EOF)
  BY DEF Sendable, EOF, Message, GoodFor

\* So are SERVERs about others.
LEMMA ServerSendable ==
  ASSUME NEW s \in Servers, NEW e \in Entry, NEW c \in Conns, ends[s][c] # "none"
  PROVE  Sendable(s, c, ServerMsg(e.parent, e))
  BY NetworkAssumption DEF Sendable, ServerMsg, Message, Entry, GoodFor

\* Registered ends are made.
LEMMA RegisteredAreMade ==
  ASSUME NEW s \in Servers, NEW h, Sound(s, h), NEW c \in Registered(h)
  PROVE  c \in Conns /\ ends[s][c] # "none" /\ h.ends[c] = "registered"
  BY DEF Registered, Sound, Formed

\* A connection is closed, of which the list may have to learn.
LEMMA CloseForms ==
  ASSUME NEW s \in Servers, NEW h, Formed(s, h), NEW c \in Conns, ends[s][c] # "none"
  PROVE  /\ Formed(s, Close(h, c))
         /\ Close(h, c).list = h.list
         /\ Close(h, c).ends = [h.ends EXCEPT ![c] = "closed"]
<1> DEFINE g == SendTo(h, {c}, EOF)
           f == [h.ends EXCEPT ![c] = "closed"]
<1>1. Formed(s, g) /\ g.list = h.list /\ g.ends = h.ends
  <2>1. Sendable(s, c, EOF) /\ EOF \in Message
    BY EOFSendable DEF Message, EOF
  <2> QED
    BY <2>1, SendKeeps
<1>2. Close(h, c) = [g EXCEPT !.ends = f]
  <2>1. Close(h, c) = [g EXCEPT !.ends[c] = "closed"]
    BY DEF Close
  <2> HIDE DEF g
  <2> QED
    BY <1>1, <2>1 DEF Formed
<1> HIDE DEF g, f
<1>3. Close(h, c) = [list |-> h.list, ends |-> f, out |-> g.out]
  BY <1>1, <1>2 DEF Formed
<1>4. Close(h, c).list = h.list /\ Close(h, c).ends = f /\ Close(h, c).out = g.out
  BY <1>3
<1>5. f \in [Conns -> EndStates] /\ \A d \in Conns : f[d] = "none" <=> ends[s][d] = "none"
  BY DEF Formed, f, EndStates
<1>6. Formed(s, Close(h, c))
  BY <1>1, <1>3, <1>4, <1>5 DEF Formed
<1> QED
  BY <1>4, <1>6 DEF f

\* The end of a connection that has not registered.
LEMMA CloseKeeps ==
  ASSUME NEW s \in Servers, NEW h, Sound(s, h), NEW c \in Conns, ends[s][c] # "none",
         h.ends[c] # "registered"
  PROVE  Sound(s, Close(h, c))
<1>1. /\ Formed(s, Close(h, c)) /\ Close(h, c).list = h.list
      /\ Close(h, c).ends = [h.ends EXCEPT ![c] = "closed"]
  BY CloseForms DEF Sound
<1>2. h.ends \in [Conns -> EndStates]
  BY DEF Sound, Formed
<1>3. Matching(ends, s, h.list, [h.ends EXCEPT ![c] = "closed"])
  BY <1>2 DEF Matching, Sound
<1> QED
  BY <1>1, <1>3 DEF Sound

\* destroy_server takes off the list what is behind x: the rest is a tree, and
\* of those taken off x alone may have a connection.
LEMMA Emptied ==
  ASSUME NEW s \in Servers, NEW l \in Seq(Entry), Tree(s, l), NEW x \in Names(l),
         NEW gone, gone = {e \in ToSet(l) : e.name \in Behind(s, l, x)}
  PROVE  /\ Without(l, gone) \in Seq(Entry) /\ ToSet(Without(l, gone)) = ToSet(l) \ gone
         /\ Tree(s, Without(l, gone))
         /\ EntryOf(l, x) \in gone
         /\ \A e \in gone : e.conn # 0 => e = EntryOf(l, x)
<1> DEFINE rest == Without(l, gone)
<1>1. IsInjective(l)
  BY DEF Tree, IsInjective
<1>2. rest \in Seq(Entry) /\ ToSet(rest) = ToSet(l) \ gone /\ IsInjective(rest)
  BY <1>1, WithoutProperties
<1>3. \A e \in ToSet(l) : \E i \in DOMAIN l :
        l[i] = e /\ EntryOf(l, e.name) = e /\ e.name \in Names(l)
  <2> SUFFICES ASSUME NEW i \in DOMAIN l
               PROVE  EntryOf(l, l[i].name) = l[i] /\ l[i].name \in Names(l)
    BY DEF ToSet
  <2> QED
    BY EntryFound, Entries
<1>4. EntryOf(l, x) \in gone
  <2>1. PICK i \in DOMAIN l : l[i].name = x /\ EntryOf(l, x) = l[i]
    BY EntryFound
  <2> QED
    BY <2>1, BehindIs, Entries
<1>5. ASSUME NEW e \in gone, e.conn # 0
      PROVE  e = EntryOf(l, x)
  <2>1. PICK i \in DOMAIN l : l[i] = e /\ EntryOf(l, e.name) = e /\ e.name \in Names(l)
    BY <1>3
  <2>2. e.parent = s
    BY <1>5, <2>1 DEF Tree
  <2>3. e.name = x
    BY <2>1, <2>2, BehindIs
  <2> QED
    BY <2>1, <2>3
<1>6. ASSUME NEW i \in DOMAIN rest
      PROVE  /\ rest[i].name # s
             /\ \A j \in DOMAIN rest : rest[j].name = rest[i].name => i = j
             /\ \/ rest[i].parent = s /\ rest[i].conn # 0
                \/ rest[i].conn = 0 /\ \E j \in DOMAIN rest : i < j /\ rest[j].name = rest[i].parent
  <2>1. rest[i] \in ToSet(l) \ gone /\ \A j \in DOMAIN rest : rest[j] \in ToSet(l)
    BY <1>2 DEF ToSet
  <2>2. PICK k \in DOMAIN l :
          l[k] = rest[i] /\ EntryOf(l, rest[i].name) = rest[i] /\ rest[i].name \in Names(l)
    BY <1>3, <2>1
  <2>3. rest[i].name # s
    BY <2>2 DEF Tree
  <2>4. ASSUME NEW j \in DOMAIN rest, rest[j].name = rest[i].name
        PROVE  i = j
    <3>1. rest[j] = rest[i]
      BY <1>3, <2>1, <2>4
    <3> QED
      BY <1>2, <3>1 DEF IsInjective
  <2>5. ASSUME ~(rest[i].parent = s /\ rest[i].conn # 0)
        PROVE  rest[i].conn = 0 /\ \E j \in DOMAIN rest : i < j /\ rest[j].name = rest[i].parent
    <3>1. PICK m \in DOMAIN l : k < m /\ l[m].name = l[k].parent /\ l[k].conn = 0
      BY <2>2, <2>5 DEF Tree
    <3>2. l[m].name # s /\ l[m] \in ToSet(l)
      BY Entries DEF Tree
    <3>3. l[m] \notin gone
      <4>1. rest[i].name \notin Behind(s, l, x)
        BY <2>1
      <4>2. rest[i].name # x
        BY <4>1, BehindIs
      <4> QED
        BY <2>2, <3>1, <3>2, <4>1, <4>2, BehindIs
    <3>4. Precedes(rest, l[k], l[m])
      <4>1. k \in Nat /\ m \in Nat
        BY Entries
      <4>2. Precedes(l, l[k], l[m])
        BY <3>1, <4>1 DEF Precedes
      <4> QED
        BY <2>1, <2>2, <3>3, <4>2, WithoutKeepsOrder
    <3>5. PICK a \in DOMAIN rest, b \in DOMAIN rest : a <= b /\ rest[a] = l[k] /\ rest[b] = l[m]
      BY <3>4 DEF Precedes
    <3>6. a = i
      BY <1>2, <2>2, <3>5 DEF IsInjective
    <3>7. b # i
      BY <1>1, <2>2, <3>1, <3>5, Entries DEF IsInjective
    <3>8. a \in Nat /\ b \in Nat /\ i \in Nat
      BY <1>2
    <3>9. i < b
      BY <3>5, <3>6, <3>7, <3>8
    <3>10. rest[b].name = rest[i].parent /\ rest[i].conn = 0
      <4>1. rest[b].name = l[m].name
        BY <3>5
      <4>2. l[k].parent = rest[i].parent /\ l[k].conn = rest[i].conn
        BY <2>2
      <4> QED
        BY <3>1, <4>1, <4>2
    <3> HIDE DEF rest
    <3> QED
      BY <3>5, <3>9, <3>10
  <2> QED
    BY <2>3, <2>4, <2>5
<1>7. Tree(s, rest)
  BY <1>6 DEF Tree
<1> QED
  BY <1>2, <1>4, <1>5, <1>7

\* destroy_server.
LEMMA DestroyKeeps ==
  ASSUME NEW s \in Servers, NEW h, Sound(s, h), NEW x \in Names(h.list)
  PROVE  Sound(s, Destroy(s, h, x))
<1> DEFINE e == EntryOf(h.list, x)
           gone == {y \in ToSet(h.list) : y.name \in Behind(s, h.list, x)}
           f == Without(h.list, gone)
           told == SendTo(h, Registered(h) \ {Uplink(s, h.list, x)}, SquitMsg(None, e))
           left == [told EXCEPT !.list = f]
<1>1. h.list \in Seq(Entry) /\ Tree(s, h.list) /\ Matching(ends, s, h.list, h.ends)
  BY DEF Sound, Formed
<1>2. e \in Entry /\ e \in ToSet(h.list)
  BY <1>1, EntryFound, Entries
<1>3. Sound(s, told) /\ told.list = h.list /\ told.ends = h.ends
  <2>1. \A c \in Registered(h) : Sendable(s, c, SquitMsg(None, e))
    BY <1>2, RegisteredAreMade, SquitSendable
  <2>2. SquitMsg(None, e) \in Message
    BY <1>2 DEF SquitMsg, Message, Entry
  <2> HIDE DEF e
  <2> QED
    BY <2>1, <2>2, SendKeeps DEF Sound
<1>4. f \in Seq(Entry) /\ Tree(s, f) /\ ToSet(f) = ToSet(h.list) \ gone
      /\ e \in gone /\ \A y \in gone : y.conn # 0 => y = e
  BY <1>1, Emptied
<1>5. Destroy(s, h, x) = Dropped(left, e)
  BY <1>3 DEF Destroy
<1> HIDE DEF told, gone, e, f
<1>6. left = [list |-> f, ends |-> h.ends, out |-> told.out]
  BY <1>3 DEF Sound, Formed
<1> HIDE DEF left
<1>7. left.list = f /\ left.ends = h.ends /\ left.out = told.out
  BY <1>6
<1>8. Formed(s, left)
  BY <1>3, <1>4, <1>6, <1>7 DEF Sound, Formed
<1>9. \A i \in DOMAIN f : \E j \in DOMAIN h.list : h.list[j] = f[i]
  BY <1>4 DEF ToSet
<1>10. \A j \in DOMAIN h.list : h.list[j] \notin gone => \E i \in DOMAIN f : h.list[j] = f[i]
  BY <1>4 DEF ToSet
<1>11. \A i \in DOMAIN f : f[i].conn # 0 => f[i].name = OtherEnd(ends, s, f[i].conn)
  BY <1>1, <1>9 DEF Matching
\* A connection has one server on the list.
<1>12. \A i \in DOMAIN f : f[i].conn # 0 => f[i].conn # e.conn
  <2> SUFFICES ASSUME NEW i \in DOMAIN f, f[i].conn # 0, f[i].conn = e.conn
               PROVE  FALSE
    OBVIOUS
  <2>1. PICK j \in DOMAIN h.list : h.list[j] = f[i]
    BY <1>9
  <2>2. PICK k \in DOMAIN h.list : h.list[k] = e
    BY <1>2 DEF ToSet
  <2>3. h.list[j].name = h.list[k].name
    BY <1>1, <2>1, <2>2 DEF Matching
  <2>4. j = k
    BY <1>1, <2>3 DEF Tree
  <2>5. f[i] \in ToSet(f)
    BY DEF ToSet
  <2> QED
    BY <1>4, <2>1, <2>2, <2>4, <2>5
<1>13. CASE e.conn = 0
  <2>1. \A c \in Conns :
          (\E i \in DOMAIN f : f[i].conn = c) <=> \E j \in DOMAIN h.list : h.list[j].conn = c
    <3> SUFFICES ASSUME NEW c \in Conns, NEW j \in DOMAIN h.list, h.list[j].conn = c
                 PROVE  \E i \in DOMAIN f : f[i].conn = c
      BY <1>9
    <3>1. c # 0
      BY NetworkAssumption DEF Conns
    <3> QED
      BY <1>4, <1>10, <1>13, <3>1
  <2>2. Matching(ends, s, f, h.ends)
    BY <1>1, <1>11, <2>1 DEF Matching
  <2> QED
    BY <1>4, <1>5, <1>7, <1>8, <1>13, <2>2 DEF Dropped, Sound
<1>14. CASE e.conn # 0
  <2>1. e.conn \in Conns /\ ends[s][e.conn] # "none"
    <3>1. e.conn \in Conns
      BY <1>2, <1>14 DEF Entry, Conns
    <3>2. h.ends[e.conn] = "registered"
      BY <1>1, <1>2, <3>1 DEF Matching, ToSet
    <3> QED
      BY <3>1, <3>2 DEF Sound, Formed
  <2> DEFINE own == [h.ends EXCEPT ![e.conn] = "closed"]
  <2>2. /\ Formed(s, Close(left, e.conn))
        /\ Close(left, e.conn).list = f /\ Close(left, e.conn).ends = own
    BY <1>7, <1>8, <2>1, CloseForms
  <2>3. \A c \in Conns : own[c] = "registered" <=> c # e.conn /\ h.ends[c] = "registered"
    BY <1>3 DEF Sound, Formed
  <2>4. \A c \in Conns \ {e.conn} :
          (\E i \in DOMAIN f : f[i].conn = c) <=> \E j \in DOMAIN h.list : h.list[j].conn = c
    <3> SUFFICES ASSUME NEW c \in Conns \ {e.conn}, NEW j \in DOMAIN h.list, h.list[j].conn = c
                 PROVE  \E i \in DOMAIN f : f[i].conn = c
      BY <1>9
    <3>1. c # 0
      BY NetworkAssumption DEF Conns
    <3> QED
      BY <1>4, <1>10, <3>1
  <2>5. \A i \in DOMAIN f : f[i].conn # e.conn
    BY <1>12, <1>14
  <2> HIDE DEF own
  <2>6. Matching(ends, s, f, own)
    BY <1>1, <1>11, <2>3, <2>4, <2>5 DEF Matching
  <2> QED
    BY <1>4, <1>5, <1>14, <2>2, <2>6 DEF Dropped, Sound
<1> QED
  BY <1>13, <1>14

\* A server joins at the head of the list: one that is linked to us, or one
\* whose parent is on the list.
LEMMA ListedKeeps ==
  ASSUME NEW s \in Servers, NEW l \in Seq(Entry), NEW e \in Entry, Tree(s, l),
         ~Finds(s, l, e.name),
         \/ e.parent = s /\ e.conn # 0
         \/ e.conn = 0 /\ e.parent \in Names(l)
  PROVE  /\ Listed(l, e) \in Seq(Entry) /\ Tree(s, Listed(l, e))
         /\ \A y : (\E i \in DOMAIN Listed(l, e) : Listed(l, e)[i] = y)
                     <=> y = e \/ \E i \in DOMAIN l : l[i] = y
<1> DEFINE k == Listed(l, e)
<1>1. k \in Seq(Entry) /\ Len(k) = Len(l) + 1 /\ Len(l) \in Nat
  BY DEF Listed
<1>2. DOMAIN k = 1..(Len(l) + 1) /\ DOMAIN l = 1..Len(l)
  BY <1>1
<1>3. k[1] = e /\ \A i \in DOMAIN l : i + 1 \in DOMAIN k /\ k[i + 1] = l[i]
  BY <1>1 DEF Listed
<1> HIDE DEF k
<1>4. \A i \in DOMAIN k : i = 1 \/ (i - 1 \in DOMAIN l /\ k[i] = l[i - 1])
  <2> SUFFICES ASSUME NEW i \in DOMAIN k, i # 1
               PROVE  i - 1 \in DOMAIN l /\ k[i] = l[i - 1]
    OBVIOUS
  <2>1. i - 1 \in DOMAIN l /\ (i - 1) + 1 = i
    BY <1>1, <1>2
  <2> QED
    BY <1>3, <2>1
<1>5. \A i \in DOMAIN l : l[i].name # e.name
  BY DEF Finds, Names
<1>6. ASSUME NEW i \in DOMAIN k
      PROVE  /\ k[i].name # s
             /\ \A j \in DOMAIN k : k[j].name = k[i].name => i = j
             /\ \/ k[i].parent = s /\ k[i].conn # 0
                \/ k[i].conn = 0 /\ \E j \in DOMAIN k : i < j /\ k[j].name = k[i].parent
  <2>1. CASE i = 1
    <3>1. \A j \in DOMAIN k : j # 1 => k[j].name # e.name
      BY <1>4, <1>5
    <3>2. e.parent \in Names(l) => \E j \in DOMAIN k : 1 < j /\ k[j].name = e.parent
      <4> SUFFICES ASSUME NEW m \in DOMAIN l, l[m].name = e.parent
                   PROVE  \E j \in DOMAIN k : 1 < j /\ k[j].name = e.parent
        BY DEF Names
      <4>1. 1 < m + 1
        BY <1>2
      <4> QED
        BY <1>3, <4>1
    <3> QED
      BY <1>3, <2>1, <3>1, <3>2 DEF Finds
  <2>2. CASE i # 1
    <3>1. i - 1 \in DOMAIN l /\ k[i] = l[i - 1]
      BY <1>4, <2>2
    <3>2. ASSUME NEW j \in DOMAIN k, k[j].name = k[i].name
          PROVE  i = j
      <4>1. j # 1
        BY <1>3, <1>5, <3>1, <3>2
      <4>2. j - 1 \in DOMAIN l /\ k[j] = l[j - 1]
        BY <1>4, <4>1
      <4>3. j - 1 = i - 1
        BY <3>1, <3>2, <4>2 DEF Tree
      <4> QED
        BY <1>2, <4>3
    <3>3. ASSUME NEW m \in DOMAIN l, i - 1 < m, l[m].name = l[i - 1].parent
          PROVE  \E j \in DOMAIN k : i < j /\ k[j].name = k[i].parent
      <4>1. i < m + 1
        BY <1>2, <3>3
      <4> QED
        BY <1>3, <3>1, <3>3, <4>1
    <3> QED
      BY <3>1, <3>2, <3>3 DEF Tree
  <2> QED
    BY <2>1, <2>2
<1>7. Tree(s, k)
  BY <1>6 DEF Tree
<1>8. \A y : (\E i \in DOMAIN k : k[i] = y) <=> y = e \/ \E i \in DOMAIN l : l[i] = y
  <2>1. 1 \in DOMAIN k
    BY <1>1, <1>2
  <2> QED
    BY <1>3, <1>4, <2>1
<1> QED
  BY <1>1, <1>7, <1>8 DEF k

\* server_register.
LEMMA RegisterKeeps ==
  ASSUME NEW s \in Servers, NEW h, Sound(s, h), NEW e \in Entry, NEW c \in Conns,
         ends[s][c] # "none", ~Finds(s, h.list, e.name),
         \/ e.parent = s /\ e.conn = c /\ e.name = OtherEnd(ends, s, c)
         \/ e.conn = 0 /\ e.parent \in Names(h.list) /\ h.ends[c] = "registered"
  PROVE  Sound(s, Register(s, h, e, c))
<1> DEFINE told == SendTo(h, Registered(h) \ {c}, ServerMsg(e.parent, e))
           f == Listed(h.list, e)
           own == [h.ends EXCEPT ![c] = "registered"]
           new == Register(s, h, e, c)
<1>1. c # 0 /\ h.list \in Seq(Entry) /\ h.ends \in [Conns -> EndStates]
  BY NetworkAssumption DEF Conns, Sound, Formed
<1>2. Sound(s, told) /\ told.list = h.list /\ told.ends = h.ends
  <2>1. \A d \in Registered(h) : Sendable(s, d, ServerMsg(e.parent, e))
    BY RegisteredAreMade, ServerSendable
  <2>2. ServerMsg(e.parent, e) \in Message
    BY DEF ServerMsg, Message, Entry
  <2> QED
    BY <2>1, <2>2, SendKeeps DEF Sound
<1>3. f \in Seq(Entry) /\ Tree(s, f)
      /\ \A y : (\E i \in DOMAIN f : f[i] = y) <=> y = e \/ \E i \in DOMAIN h.list : h.list[i] = y
  BY <1>1, ListedKeeps DEF Sound
<1>4. new = [told EXCEPT !.list = f, !.ends = own]
  <2>1. new = [told EXCEPT !.list = Listed(h.list, e), !.ends[c] = "registered"]
    BY <1>2 DEF Register
  <2> HIDE DEF told
  <2> QED
    BY <1>2, <2>1 DEF Sound, Formed
<1>5. own \in [Conns -> EndStates] /\ (\A d \in Conns : own[d] = "none" <=> ends[s][d] = "none")
      /\ \A d \in Conns : own[d] = "registered" <=> d = c \/ h.ends[d] = "registered"
  BY <1>1 DEF EndStates, Sound, Formed
<1>6. Matching(ends, s, f, own)
  <2>1. \A d \in Conns : own[d] = "registered" <=> \E i \in DOMAIN f : f[i].conn = d
    <3> SUFFICES ASSUME NEW d \in Conns
                 PROVE  own[d] = "registered" <=> \E i \in DOMAIN f : f[i].conn = d
      OBVIOUS
    <3> HIDE DEF f, own
    <3>1. d # 0
      BY NetworkAssumption DEF Conns
    <3>2. (\E i \in DOMAIN f : f[i].conn = d)
            <=> e.conn = d \/ \E i \in DOMAIN h.list : h.list[i].conn = d
      <4>1. ASSUME NEW i \in DOMAIN f, f[i].conn = d
            PROVE  e.conn = d \/ \E j \in DOMAIN h.list : h.list[j].conn = d
        BY <1>3, <4>1
      <4>2. \E i \in DOMAIN f : f[i] = e
        BY <1>3
      <4>3. \A j \in DOMAIN h.list : \E i \in DOMAIN f : f[i] = h.list[j]
        BY <1>3
      <4> QED
        BY <4>1, <4>2, <4>3
    <3> QED
      BY <1>5, <3>1, <3>2 DEF Matching, Sound
  <2>2. \A i \in DOMAIN f : f[i].conn # 0 => f[i].name = OtherEnd(ends, s, f[i].conn)
    <3> SUFFICES ASSUME NEW i \in DOMAIN f, f[i].conn # 0
                 PROVE  f[i].name = OtherEnd(ends, s, f[i].conn)
      OBVIOUS
    <3>1. CASE f[i] = e
      BY <3>1
    <3>2. CASE f[i] # e
      <4> HIDE DEF f
      <4>1. PICK j \in DOMAIN h.list : h.list[j] = f[i]
        BY <1>3, <3>2
      <4> QED
        BY <4>1 DEF Matching, Sound
    <3> QED
      BY <3>1, <3>2
  <2> QED
    BY <2>1, <2>2 DEF Matching
<1> HIDE DEF told, f, own, new
<1>7. new = [list |-> f, ends |-> own, out |-> told.out]
  BY <1>2, <1>4 DEF Sound, Formed
<1>8. new.list = f /\ new.ends = own /\ new.out = told.out
  BY <1>7
<1> QED
  BY <1>2, <1>3, <1>5, <1>6, <1>7, <1>8 DEF Sound, Formed, new

\* server_introduce.
LEMMA IntroduceKeeps ==
  ASSUME NEW s \in Servers, NEW h, Sound(s, h), NEW c \in Conns, ends[s][c] # "none",
         Paired(ends, made)
  PROVE  /\ Sound(s, Introduce(s, h, c))
         /\ Introduce(s, h, c).list = h.list /\ Introduce(s, h, c).ends = h.ends
<1> DEFINE m == [cmd |-> "SERVER", from |-> None, name |-> s, via |-> c]
<1>1. m \in Message
  BY DEF Message
<1>2. OtherEnd(ends, OtherEnd(ends, s, c), c) = s
  BY OtherEndIs
<1>3. Sendable(s, c, m)
  BY <1>1, <1>2 DEF Sendable, GoodFor
<1> HIDE DEF m
<1>4. Introduce(s, h, c) = SendTo(h, {c}, m)
  BY DEF Introduce, m
<1> QED
  BY <1>1, <1>3, <1>4, SendKeeps DEF Sound

\* server_establish: every server that is known is announced.
LEMMA EstablishKeeps ==
  ASSUME NEW s \in Servers, NEW h, Sound(s, h), NEW c \in Conns, ends[s][c] # "none"
  PROVE  /\ Sound(s, Establish(s, h, c))
         /\ Establish(s, h, c).list = h.list /\ Establish(s, h, c).ends = h.ends
<1> DEFINE b == Burst(s, h.list)
           burst == [i \in DOMAIN b |-> ServerMsg(b[i].parent, b[i])]
           sent == [h.out EXCEPT ![c] = @ \o burst]
           new == Establish(s, h, c)
<1>1. b \in Seq(Entry)
  <2>1. h.list \in Seq(Entry) /\ Tree(s, h.list)
    BY DEF Sound, Formed
  <2>2. b \in Seq(ToSet(h.list)) /\ ToSet(h.list) \subseteq Entry
    BY <2>1, BurstIs, Entries
  <2> QED
    BY <2>2
<1>2. /\ h.out \in [Conns -> Seq(Message)]
      /\ \A d \in Conns : \A i \in DOMAIN h.out[d] : Sendable(s, d, h.out[d][i])
  BY DEF Sound, Formed
<1>3. new = [h EXCEPT !.out = sent]
  BY DEF Establish, Sound, Formed
<1> HIDE DEF b
<1>4. /\ burst \in Seq(Message) /\ DOMAIN burst = DOMAIN b
      /\ \A i \in DOMAIN burst : Sendable(s, c, burst[i])
  <2>1. \A i \in DOMAIN b : b[i] \in Entry
    BY <1>1
  <2>2. \A i \in DOMAIN b : Sendable(s, c, burst[i])
    BY <2>1, ServerSendable
  <2>3. burst \in Seq(Message)
    BY <1>1, <2>2 DEF Sendable
  <2> QED
    BY <2>2, <2>3
<1> HIDE DEF burst
<1>5. /\ sent \in [Conns -> Seq(Message)]
      /\ \A d \in Conns : \A i \in DOMAIN sent[d] : Sendable(s, d, sent[d][i])
  <2>1. \A d \in Conns \ {c} : sent[d] = h.out[d]
    BY <1>2
  <2>2. sent[c] = h.out[c] \o burst /\ sent[c] \in Seq(Message)
    BY <1>2, <1>4
  <2>3. sent \in [Conns -> Seq(Message)]
    BY <1>2, <2>1, <2>2
  <2>4. \A i \in DOMAIN sent[c] : Sendable(s, c, sent[c][i])
    <3> SUFFICES ASSUME NEW i \in DOMAIN sent[c]
                 PROVE  Sendable(s, c, sent[c][i])
      OBVIOUS
    <3> HIDE DEF sent
    <3>1. h.out[c] \in Seq(Message)
      BY <1>2
    <3>2. \/ i \in DOMAIN h.out[c] /\ sent[c][i] = h.out[c][i]
          \/ \E j \in DOMAIN burst : sent[c][i] = burst[j]
      BY <1>4, <2>2, <3>1
    <3> QED
      BY <1>2, <1>4, <3>2
  <2> QED
    BY <1>2, <2>1, <2>3, <2>4
<1> HIDE DEF sent, new
<1>6. new = [list |-> h.list, ends |-> h.ends, out |-> sent]
  BY <1>3 DEF Sound, Formed
<1>7. new.list = h.list /\ new.ends = h.ends /\ new.out = sent
  BY <1>6
<1> QED
  BY <1>5, <1>6, <1>7 DEF Sound, Formed, new

-----------------------------------------------------------------------------
(* The commands.                                                           *)

\* The connection on the way to x is one of ours, and leads to x itself only
\* if x is linked to us.
LEMMA UplinkReaches ==
  ASSUME NEW s \in Servers, NEW h, Sound(s, h), NEW x \in Names(h.list)
  PROVE  LET u == Uplink(s, h.list, x) IN
         /\ u \in Conns /\ ends[s][u] # "none"
         /\ EntryOf(h.list, x).conn = 0 => x # OtherEnd(ends, s, u)
<1> DEFINE u == Uplink(s, h.list, x)
<1>1. h.list \in Seq(Entry) /\ Tree(s, h.list) /\ Matching(ends, s, h.list, h.ends)
  BY DEF Sound, Formed
<1>2. PICK i \in DOMAIN h.list : h.list[i].conn # 0 /\ h.list[i].conn = u
  BY <1>1, UplinkIs
<1> HIDE DEF u
<1>3. u \in Conns
  <2>1. h.list[i] \in Entry
    BY <1>1
  <2> QED
    BY <1>2, <2>1, NetworkAssumption DEF Entry, Conns
<1>4. h.ends[u] = "registered" /\ h.list[i].name = OtherEnd(ends, s, u)
  BY <1>1, <1>2, <1>3 DEF Matching
<1>5. ends[s][u] # "none"
  BY <1>3, <1>4 DEF Sound, Formed
<1>6. EntryOf(h.list, h.list[i].name) = h.list[i]
  BY <1>1, EntryFound
<1> QED
  BY <1>2, <1>3, <1>4, <1>5, <1>6 DEF u

\* The server at the other end of a registered connection is on the list.
LEMMA LinkListed ==
  ASSUME NEW s \in Servers, NEW h, Sound(s, h), NEW c \in Conns, h.ends[c] = "registered"
  PROVE  /\ \E i \in DOMAIN h.list : h.list[i].conn = c
         /\ \A i \in DOMAIN h.list : h.list[i].conn = c => h.list[i].name = Other(s, c)
         /\ Other(s, c) \in Names(h.list)
<1>1. c # 0 /\ Matching(ends, s, h.list, h.ends)
  BY NetworkAssumption DEF Conns, Sound
<1>2. Other(s, c) = OtherEnd(ends, s, c)
  BY DEF Other, OtherEnd
<1>3. PICK i \in DOMAIN h.list : h.list[i].conn = c
  BY <1>1 DEF Matching
<1> QED
  BY <1>1, <1>2, <1>3 DEF Matching, Names

\* A SQUIT is passed on to where its target is, but not to the target.
LEMMA TowardsKeeps ==
  ASSUME NEW s \in Servers, NEW h, Sound(s, h), NEW x \in Names(h.list), NEW m \in Message,
         m.cmd = "SQUIT" \/ (m.cmd = "OPERSQUIT" /\ m.name = x)
  PROVE  /\ Sound(s, Towards(s, h, EntryOf(h.list, x), m))
         /\ Towards(s, h, EntryOf(h.list, x), m).list = h.list
<1> DEFINE e == EntryOf(h.list, x)
           u == Uplink(s, h.list, x)
<1>1. e.name = x
  BY EntryFound DEF Sound, Formed
<1>2. u \in Conns /\ ends[s][u] # "none" /\ (e.conn = 0 => x # OtherEnd(ends, s, u))
  BY UplinkReaches
<1> HIDE DEF e, u
<1>3. CASE e.conn # 0
  BY <1>3 DEF Towards, e
<1>4. CASE e.conn = 0
  <2>1. Sendable(s, u, m)
    BY <1>2, <1>4 DEF Sendable, GoodFor
  <2>2. Towards(s, h, e, m) = SendTo(h, {u}, m)
    BY <1>1, <1>4 DEF Towards, u
  <2> QED
    BY <2>1, <2>2, SendKeeps DEF Sound, e
<1> QED
  BY <1>3, <1>4

LEMMA OperSquitKeeps ==
  ASSUME NEW s \in Servers, NEW h, Sound(s, h), NEW home \in Servers, NEW x \in Names(h.list)
  PROVE  Sound(s, OperSquit(s, h, home, x))
<1> DEFINE m == [cmd |-> "OPERSQUIT", from |-> home, name |-> x]
           g == Towards(s, h, EntryOf(h.list, x), m)
<1>1. x \in Servers
  BY Entries DEF Sound, Formed
<1>2. m \in Message /\ m.cmd = "OPERSQUIT" /\ m.name = x
  BY <1>1 DEF Message
<1> HIDE DEF m
<1>3. Sound(s, g) /\ x \in Names(g.list)
  BY <1>2, TowardsKeeps
<1> HIDE DEF g
<1>4. OperSquit(s, h, home, x) = Destroy(s, g, x)
  BY DEF OperSquit, g, m
<1> QED
  BY <1>3, <1>4, DestroyKeeps

LEMMA SquitKeeps ==
  ASSUME NEW s \in Servers, NEW h, Sound(s, h), NEW c, NEW m, Sender(s, c, m) \in Servers
  PROVE  Sound(s, Squit(s, h, c, m))
<1>1. CASE m.name \notin Names(h.list)
  BY <1>1 DEF Squit
<1>2. CASE m.name \in Names(h.list)
  <2> DEFINE e == EntryOf(h.list, m.name)
             g == Towards(s, h, e, SquitMsg(Sender(s, c, m), e))
  <2>1. e \in Entry
    BY <1>2, EntryFound, Entries DEF Sound, Formed
  <2>2. SquitMsg(Sender(s, c, m), e) \in Message /\ SquitMsg(Sender(s, c, m), e).cmd = "SQUIT"
    BY <2>1 DEF SquitMsg, Message, Entry
  <2>3. Sound(s, g) /\ m.name \in Names(g.list)
    BY <1>2, <2>2, TowardsKeeps
  <2>4. Squit(s, h, c, m) = Destroy(s, g, m.name)
    BY <1>2 DEF Squit
  <2> HIDE DEF g
  <2> QED
    BY <2>3, <2>4, DestroyKeeps
<1> QED
  BY <1>1, <1>2

\* destroy_connection.
LEMMA EndedKeeps ==
  ASSUME NEW s \in Servers, NEW h, Sound(s, h), NEW c \in Conns, ends[s][c] # "none"
  PROVE  Sound(s, Ended(s, h, c))
<1>1. CASE h.ends[c] # "registered"
  BY <1>1, CloseKeeps DEF Ended
<1>2. CASE h.ends[c] = "registered"
  <2> DEFINE i == CHOOSE i \in DOMAIN h.list : h.list[i].conn = c
  <2>1. i \in DOMAIN h.list
    BY <1>2, LinkListed
  <2>2. Ended(s, h, c) = Destroy(s, h, h.list[i].name)
    BY <1>2 DEF Ended
  <2> HIDE DEF i
  <2>3. h.list[i].name \in Names(h.list)
    BY <2>1 DEF Names
  <2> QED
    BY <2>2, <2>3, DestroyKeeps
<1> QED
  BY <1>1, <1>2

\* SERVER over a connection that has not registered: the name is that of the
\* server at its other end.
LEMMA ServerNewKeeps ==
  ASSUME Paired(ends, made), NEW s \in Servers, NEW h, Sound(s, h), NEW c \in Conns,
         ends[s][c] # "none", h.ends[c] # "registered",
         NEW m, m.name = OtherEnd(ends, s, c)
  PROVE  Sound(s, ServerNew(s, h, c, m))
<1> DEFINE refused == Finds(s, h.list, m.name) \/ (Cardinality(Registered(h)) > 1 /\ s \notin Hubs)
           hello == IF h.ends[c] = "accepted" THEN Introduce(s, h, c) ELSE h
           g == Establish(s, hello, c)
           e == NewLink(s, m, c)
<1>1. CASE refused
  BY <1>1, CloseKeeps DEF ServerNew
<1>2. CASE ~refused
  <2>1. Sound(s, hello) /\ hello.list = h.list
    BY IntroduceKeeps
  <2> HIDE DEF hello
  <2>2. Sound(s, g) /\ g.list = h.list
    BY <2>1, EstablishKeeps
  <2> HIDE DEF g
  <2>3. m.name \in Servers
    BY OtherEndIs
  <2>4. e \in Entry /\ e.parent = s /\ e.conn = c /\ e.name = m.name
    BY <2>3, NetworkAssumption DEF NewLink, Entry, Conns
  <2> HIDE DEF e
  <2>5. ~Finds(s, g.list, e.name)
    BY <1>2, <2>2, <2>4
  <2>6. Sound(s, Register(s, g, e, c))
    BY <2>2, <2>4, <2>5, RegisterKeeps
  <2>7. ServerNew(s, h, c, m) = Register(s, g, e, c)
    BY <1>2 DEF ServerNew, hello, g, e
  <2> QED
    BY <2>6, <2>7
<1> QED
  BY <1>1, <1>2

\* SERVER about one further away.
LEMMA ServerBehindKeeps ==
  ASSUME NEW s \in Servers, NEW h, Sound(s, h), NEW c \in Conns, h.ends[c] = "registered",
         NEW m, m.name \in Servers, m.via \in Conns, Sender(s, c, m) \in Names(h.list)
  PROVE  Sound(s, ServerBehind(s, h, c, m))
<1> DEFINE o == Sender(s, c, m)
           e == [name |-> m.name, parent |-> o, conn |-> 0, via |-> m.via]
<1>1. CASE o = Other(s, c) /\ o \notin hubbed
  BY <1>1, DestroyKeeps DEF ServerBehind
<1>2. CASE ~(o = Other(s, c) /\ o \notin hubbed) /\ Finds(s, h.list, m.name)
  <2>1. ServerBehind(s, h, c, m) = Destroy(s, h, Other(s, c))
    BY <1>2 DEF ServerBehind, AlreadyThere
  <2> QED
    BY <2>1, LinkListed, DestroyKeeps
<1>3. CASE ~(o = Other(s, c) /\ o \notin hubbed) /\ ~Finds(s, h.list, m.name)
  <2>1. ServerBehind(s, h, c, m) = Register(s, h, e, c)
    BY <1>3 DEF ServerBehind
  <2>2. o \in Servers
    BY Entries DEF Sound, Formed
  <2> HIDE DEF o
  <2>3. e \in Entry /\ e.conn = 0 /\ e.parent = o /\ e.name = m.name
    BY <2>2, NetworkAssumption DEF Entry
  <2>4. ends[s][c] # "none" /\ o \in Names(h.list)
    BY DEF Sound, Formed, o
  <2> HIDE DEF e
  <2> QED
    BY <1>3, <2>1, <2>3, <2>4, RegisterKeeps
<1> QED
  BY <1>1, <1>2, <1>3

\* The fields that the messages have.
LEMMA MessageFields ==
  ASSUME NEW m \in Message
  PROVE  /\ m.cmd \in {"SERVER", "SQUIT", "OPERSQUIT", "EOF"}
         /\ m.cmd \in {"SERVER", "SQUIT"} =>
              m.from \in Servers \cup {None} /\ m.name \in Servers /\ m.via \in Conns
         /\ m.cmd = "OPERSQUIT" => m.from \in Servers /\ m.name \in Servers
  BY DEF Message

\* A message is read by a server at whose end of the connection it is.
LEMMA HandleKeeps ==
  ASSUME Paired(ends, made), NEW s \in Servers, NEW h, Sound(s, h), NEW c \in Conns,
         ends[s][c] # "none", NEW m \in Message, GoodFor(ends, s, c, m)
  PROVE  Sound(s, Handle(s, h, c, m))
<1> DEFINE o == Sender(s, c, m)
<1>1. CASE m.cmd = "EOF"
  BY <1>1, EndedKeeps DEF Handle
<1>2. CASE m.cmd # "EOF" /\ h.ends[c] # "registered"
  <2>1. CASE m.cmd = "SERVER" /\ m.from = None
    <3>1. Handle(s, h, c, m) = ServerNew(s, h, c, m)
      BY <1>2, <2>1 DEF Handle
    <3>2. m.name = OtherEnd(ends, s, c)
      BY <2>1 DEF GoodFor
    <3> QED
      BY <1>2, <3>1, <3>2, ServerNewKeeps
  <2>2. CASE ~(m.cmd = "SERVER" /\ m.from = None)
    BY <1>2, <2>2 DEF Handle
  <2> QED
    BY <2>1, <2>2
<1>3. CASE m.cmd # "EOF" /\ h.ends[c] = "registered"
  <2>1. CASE ~RightDirection(s, h, c, m)
    BY <1>3, <2>1 DEF Handle
  <2>2. CASE RightDirection(s, h, c, m)
    <3>1. o \in Names(h.list) /\ o \in Servers
      BY <2>2, Entries DEF RightDirection, Sound, Formed
    <3>2. CASE m.cmd = "SERVER"
      <4>1. Handle(s, h, c, m) = ServerBehind(s, h, c, m)
        BY <1>3, <2>2, <3>2 DEF Handle
      <4> QED
        BY <1>3, <3>1, <3>2, <4>1, MessageFields, ServerBehindKeeps
    <3>3. CASE m.cmd = "SQUIT"
      <4>1. Handle(s, h, c, m) = Squit(s, h, c, m)
        BY <1>3, <2>2, <3>3 DEF Handle
      <4> QED
        BY <3>1, <4>1, SquitKeeps
    <3>4. CASE m.cmd = "OPERSQUIT"
      <4>1. Handle(s, h, c, m) =
              IF m.name \in Names(h.list) THEN OperSquit(s, h, m.from, m.name) ELSE h
        BY <1>3, <2>2, <3>4 DEF Handle
      <4> QED
        BY <3>4, <4>1, MessageFields, OperSquitKeeps
    <3> QED
      BY <1>3, <3>2, <3>3, <3>4, MessageFields
  <2> QED
    BY <2>1, <2>2
<1> QED
  BY <1>1, <1>2, <1>3

-----------------------------------------------------------------------------
(* The steps.                                                              *)

\* The other end of a connection that was made stays the same.
LEMMA OtherEndStays ==
  ASSUME NEW en, NEW n, Paired(en, n), NEW new, NEW k, Paired(new, k),
         NEW s \in Servers, NEW c \in Conns, en[s][c] # "none",
         \A u \in Servers : new[u][c] = "none" <=> en[u][c] = "none"
  PROVE  OtherEnd(new, s, c) = OtherEnd(en, s, c)
<1>1. \A u \in Servers : en[u][c] # "none" => u \in {s, OtherEnd(en, s, c)}
  BY OtherEndIs
<1>2. OtherEnd(new, s, c) \in Servers \ {s} /\ new[OtherEnd(new, s, c)][c] # "none"
  BY OtherEndIs
<1> QED
  BY <1>1, <1>2

\* A handler's result becomes the state of s, what it sent is on the wires.
LEMMA BecomeKeeps ==
  ASSUME IInv, NEW s \in Servers, NEW h, Sound(s, h), NEW read,
         read \in Conns => wire[s][read] # <<>>,
         Become(s, h, read), UNCHANGED <<made, hubbed>>, opered' \subseteq Conns
  PROVE  IInv'
<1>1. /\ list' = [list EXCEPT ![s] = h.list] /\ ends' = [ends EXCEPT ![s] = h.ends]
      /\ \A t \in Servers, c \in Conns : wire'[t][c] =
            IF t = s
            THEN IF h.ends[c] = "closed" THEN <<>>
                 ELSE IF c = read THEN Tail(wire[s][c]) ELSE wire[s][c]
            ELSE IF ends[t][c] \in {"none", "closed"} THEN wire[t][c] ELSE wire[t][c] \o h.out[c]
      /\ wire' = [t \in Servers |-> [c \in Conns |-> wire'[t][c]]]
  BY DEF Become
<1>2. /\ h.list \in Seq(Entry) /\ h.ends \in [Conns -> EndStates]
      /\ h.out \in [Conns -> Seq(Message)]
      /\ \A c \in Conns : \A i \in DOMAIN h.out[c] : Sendable(s, c, h.out[c][i])
  BY DEF Sound, Formed
<1>3. \A t \in Servers, c \in Conns : ends'[t][c] = "none" <=> ends[t][c] = "none"
  BY <1>1, <1>2 DEF IInv, TypeOK, Sound, Formed
<1>4. \A t \in Servers \ {s}, c \in Conns : ends'[t][c] = ends[t][c]
  BY <1>1 DEF IInv, TypeOK
<1>5. \A c \in Conns : ends'[s][c] = h.ends[c]
  BY <1>1 DEF IInv, TypeOK
<1>6. \A t \in Servers, c \in Conns : wire[t][c] \in Seq(Message)
  BY DEF IInv, TypeOK
<1>7. ASSUME NEW t \in Servers, NEW c \in Conns
      PROVE  wire'[t][c] \in Seq(Message)
  <2>1. CASE t = s
    <3>1. <<>> \in Seq(Message)
      OBVIOUS
    <3>2. c = read => Tail(wire[s][c]) \in Seq(Message)
      BY <1>6
    <3> QED
      BY <1>1, <1>6, <2>1, <3>1, <3>2
  <2>2. CASE t # s
    <3>1. wire[t][c] \o h.out[c] \in Seq(Message)
      BY <1>2, <1>6
    <3> QED
      BY <1>1, <1>6, <2>2, <3>1
  <2> QED
    BY <2>1, <2>2
<1>8. TypeOK'
  <2>1. wire' \in [Servers -> [Conns -> Seq(Message)]]
    BY <1>1, <1>7
  <2> QED
    BY <1>1, <1>2, <2>1 DEF IInv, TypeOK
<1>9. Paired(ends', made')
  BY <1>3 DEF IInv, Paired
<1>10. \A t \in Servers, c \in Conns :
         ends[t][c] # "none" => OtherEnd(ends', t, c) = OtherEnd(ends, t, c)
  BY <1>3, <1>9, OtherEndStays DEF IInv
<1>11. ASSUME NEW t \in Servers
       PROVE  Tree(t, list'[t]) /\ Matching(ends', t, list'[t], ends'[t])
  <2>1. /\ list'[t] = (IF t = s THEN h.list ELSE list[t])
        /\ ends'[t] = (IF t = s THEN h.ends ELSE ends[t])
    BY <1>1 DEF IInv, TypeOK
  <2>2. Tree(t, list'[t]) /\ Matching(ends, t, list'[t], ends'[t]) /\ list'[t] \in Seq(Entry)
    BY <1>2, <2>1 DEF IInv, TypeOK, Sound
  <2>3. ASSUME NEW i \in DOMAIN list'[t], list'[t][i].conn # 0
        PROVE  list'[t][i].name = OtherEnd(ends', t, list'[t][i].conn)
    <3>1. list'[t][i].conn \in Conns
      <4>1. list'[t][i] \in Entry
        BY <2>2
      <4> QED
        BY <2>3, <4>1, NetworkAssumption DEF Entry, Conns
    <3>2. ends'[t][list'[t][i].conn] = "registered"
      BY <2>2, <3>1 DEF Matching
    <3> QED
      BY <1>3, <1>10, <2>2, <2>3, <3>1, <3>2 DEF Matching
  <2> QED
    BY <2>2, <2>3 DEF Matching
<1>12. ASSUME NEW t \in Servers, NEW c \in Conns
       PROVE  Carried(ends', t, c, wire'[t][c])
  <2>1. /\ wire[t][c] # <<>> => ends[t][c] \notin {"none", "closed"}
        /\ \A i \in DOMAIN wire[t][c] : GoodFor(ends, t, c, wire[t][c][i])
    BY DEF IInv, Carried
  <2>2. CASE ends[t][c] = "none"
    <3>1. wire[t][c] = <<>> /\ (t = s => c # read)
      BY <2>1, <2>2
    <3>2. wire'[t][c] = <<>>
      BY <1>1, <2>2, <3>1
    <3> QED
      BY <3>2 DEF Carried
  <2>3. CASE ends[t][c] # "none"
    <3>1. \A m : GoodFor(ends, t, c, m) => GoodFor(ends', t, c, m)
      BY <1>10, <2>3 DEF GoodFor
    <3>2. CASE t = s
      <4>1. wire'[t][c] # <<>> => ends'[t][c] \notin {"none", "closed"}
        BY <1>1, <1>3, <1>5, <2>3, <3>2
      <4>2. \A i \in DOMAIN wire'[t][c] : \E j \in DOMAIN wire[t][c] :
              wire'[t][c][i] = wire[t][c][j]
        <5>1. CASE wire'[t][c] = <<>>
          BY <5>1
        <5>2. CASE wire'[t][c] = wire[t][c]
          BY <5>2
        <5>3. CASE wire'[t][c] = Tail(wire[t][c]) /\ wire[t][c] # <<>>
          <6> DEFINE q == wire[t][c]
          <6>1. q \in Seq(Message) /\ q # <<>> /\ wire'[t][c] = Tail(q)
            BY <1>6, <5>3
          <6> HIDE DEF q
          <6>2. \A i \in DOMAIN Tail(q) : i + 1 \in DOMAIN q /\ Tail(q)[i] = q[i + 1]
            BY <6>1
          <6> QED
            BY <6>1, <6>2 DEF q
        <5> QED
          BY <1>1, <3>2, <5>1, <5>2, <5>3
      <4> QED
        BY <2>1, <3>1, <4>1, <4>2 DEF Carried
    <3>3. CASE t # s
      <4>1. CASE ends[t][c] = "closed"
        <5>1. wire'[t][c] = <<>>
          BY <1>1, <2>1, <3>3, <4>1
        <5> QED
          BY <5>1 DEF Carried
      <4>2. CASE ends[t][c] # "closed"
        <5>1. wire'[t][c] = wire[t][c] \o h.out[c]
          BY <1>1, <2>3, <3>3, <4>2
        <5>2. \A i \in DOMAIN h.out[c] : GoodFor(ends, t, c, h.out[c][i])
          <6> SUFFICES ASSUME NEW i \in DOMAIN h.out[c]
                       PROVE  GoodFor(ends, t, c, h.out[c][i])
            OBVIOUS
          <6>1. ends[s][c] # "none" /\ GoodFor(ends, OtherEnd(ends, s, c), c, h.out[c][i])
            BY <1>2 DEF Sendable
          <6>2. t = OtherEnd(ends, s, c)
            BY <2>3, <3>3, <6>1, OtherEndIs DEF IInv
          <6> QED
            BY <6>1, <6>2
        <5> DEFINE q == wire[t][c]
                   out == h.out[c]
        <5>3. q \in Seq(Message) /\ out \in Seq(Message) /\ wire'[t][c] = q \o out
          BY <1>2, <1>6, <5>1
        <5>4. ASSUME NEW i \in DOMAIN (q \o out)
              PROVE  \/ i \in DOMAIN q /\ (q \o out)[i] = q[i]
                     \/ \E j \in DOMAIN out : (q \o out)[i] = out[j]
          <6> HIDE DEF q, out
          <6> QED
            BY <5>3
        <5>5. \A i \in DOMAIN wire'[t][c] : GoodFor(ends', t, c, wire'[t][c][i])
          BY <2>1, <3>1, <5>2, <5>3, <5>4
        <5>6. ends'[t][c] \notin {"none", "closed"}
          BY <1>4, <2>3, <3>3, <4>2
        <5> QED
          BY <5>5, <5>6 DEF Carried
      <4> QED
        BY <4>1, <4>2
    <3> QED
      BY <3>2, <3>3
  <2> QED
    BY <2>2, <2>3
<1> QED
  BY <1>8, <1>9, <1>11, <1>12 DEF IInv

LEMMA ConnectKeeps ==
  ASSUME IInv, NEW s \in Servers, NEW t \in Servers, Connect(s, t)
  PROVE  IInv'
<1> DEFINE c == made + 1
           m == [cmd |-> "SERVER", from |-> None, name |-> s, via |-> c]
<1>1. made \in Nat /\ c \in Conns /\ t # s /\ m \in Message
  BY NetworkAssumption DEF Connect, IInv, TypeOK, Conns, Message
<1>2. \A u \in Servers : ends[u][c] = "none" /\ wire[u][c] = <<>>
  <2>1. \A u \in Servers : ends[u][c] = "none"
    BY <1>1 DEF IInv, Paired
  <2> QED
    BY <1>1, <2>1 DEF IInv, Carried
<1>3. /\ made' = c /\ list' = list /\ hubbed' = hubbed /\ opered' = opered
      /\ ends' = [ends EXCEPT ![s][c] = "introduced", ![t][c] = "accepted"]
      /\ wire' = [wire EXCEPT ![t][c] = <<m>>]
  <2>1. Introduce(s, Here(s), c).out[c] = <<m>>
    <3>1. Here(s).out[c] = <<>>
      BY <1>1 DEF Here
    <3>2. Introduce(s, Here(s), c).out[c] = Append(Here(s).out[c], m)
      BY <1>1 DEF Introduce, SendTo, Here
    <3> QED
      BY <3>1, <3>2
  <2> QED
    BY <2>1 DEF Connect
<1>4. /\ \A u \in Servers, d \in Conns :
           d # c => ends'[u][d] = ends[u][d] /\ wire'[u][d] = wire[u][d]
      /\ ends'[s][c] = "introduced" /\ ends'[t][c] = "accepted"
      /\ \A u \in Servers \ {s, t} : ends'[u][c] = "none"
      /\ wire'[t][c] = <<m>> /\ \A u \in Servers \ {t} : wire'[u][c] = <<>>
  BY <1>1, <1>2, <1>3 DEF IInv, TypeOK
<1> HIDE DEF c
<1>5. TypeOK'
  <2>1. ends' \in [Servers -> [Conns -> EndStates]]
    BY <1>1, <1>3 DEF IInv, TypeOK, EndStates
  <2>2. <<m>> \in Seq(Message)
    BY <1>1
  <2> HIDE DEF m
  <2>3. wire' \in [Servers -> [Conns -> Seq(Message)]]
    BY <1>1, <1>3, <2>2 DEF IInv, TypeOK
  <2>4. made' \in 0..MaxConns
    BY <1>1, <1>3, NetworkAssumption DEF Conns
  <2> QED
    BY <1>3, <2>1, <2>3, <2>4 DEF IInv, TypeOK
<1>6. Paired(ends', made')
  <2> SUFFICES ASSUME NEW u \in Servers, NEW d \in Conns, ends'[u][d] # "none"
               PROVE  /\ d <= made'
                      /\ \E v \in Servers \ {u} :
                           /\ ends'[v][d] # "none"
                           /\ \A w \in Servers : ends'[w][d] # "none" => w \in {u, v}
    BY DEF Paired
  <2>1. CASE d = c
    <3>1. u \in {s, t}
      BY <1>4, <2>1
    <3>2. c \in Nat /\ d <= made'
      BY <1>1, <1>3, <2>1 DEF Conns
    <3>3. \A w \in Servers : ends'[w][d] # "none" => w \in {s, t}
      BY <1>4, <2>1
    <3>4. ends'[s][d] # "none" /\ ends'[t][d] # "none"
      BY <1>4, <2>1
    <3> QED
      BY <1>1, <3>1, <3>2, <3>3, <3>4
  <2>2. CASE d # c
    <3>1. ends[u][d] # "none" /\ \A v \in Servers : ends'[v][d] = ends[v][d]
      BY <1>4, <2>2
    <3>2. d <= made /\ d \in Nat
      BY <3>1 DEF IInv, Paired, Conns
    <3>3. d <= made'
      BY <1>1, <1>3, <3>2 DEF c
    <3> QED
      BY <3>1, <3>3 DEF IInv, Paired
  <2> QED
    BY <2>1, <2>2
<1>7. \A u \in Servers, d \in Conns : ends[u][d] # "none" =>
        d # c /\ OtherEnd(ends', u, d) = OtherEnd(ends, u, d)
  BY <1>2, <1>4, <1>6, OtherEndStays DEF IInv
<1>8. ASSUME NEW u \in Servers
      PROVE  Tree(u, list'[u]) /\ Matching(ends', u, list'[u], ends'[u])
  <2>1. Tree(u, list'[u]) /\ Matching(ends, u, list'[u], ends[u]) /\ list'[u] \in Seq(Entry)
    BY <1>3 DEF IInv, TypeOK
  <2>2. \A d \in Conns : ends'[u][d] = "registered" <=> ends[u][d] = "registered"
    BY <1>2, <1>4
  <2>3. ASSUME NEW i \in DOMAIN list'[u], list'[u][i].conn # 0
        PROVE  list'[u][i].name = OtherEnd(ends', u, list'[u][i].conn)
    <3>1. list'[u][i].conn \in Conns
      <4>1. list'[u][i] \in Entry
        BY <2>1
      <4> QED
        BY <2>3, <4>1, NetworkAssumption DEF Entry, Conns
    <3>2. ends[u][list'[u][i].conn] = "registered"
      BY <2>1, <3>1 DEF Matching
    <3> QED
      BY <1>7, <2>1, <2>3, <3>1, <3>2 DEF Matching
  <2> QED
    BY <2>1, <2>2, <2>3 DEF Matching
<1>9. ASSUME NEW u \in Servers, NEW d \in Conns
      PROVE  Carried(ends', u, d, wire'[u][d])
  <2>1. CASE d # c
    <3>1. Carried(ends, u, d, wire[u][d])
      BY DEF IInv
    <3>2. ends'[u][d] = ends[u][d] /\ wire'[u][d] = wire[u][d]
      BY <1>4, <2>1
    <3>3. CASE wire[u][d] = <<>>
      BY <3>2, <3>3 DEF Carried
    <3>4. CASE wire[u][d] # <<>>
      <4>1. ends[u][d] \notin {"none", "closed"}
        BY <3>1, <3>4 DEF Carried
      <4>2. \A x : GoodFor(ends, u, d, x) => GoodFor(ends', u, d, x)
        BY <1>7, <4>1 DEF GoodFor
      <4> QED
        BY <3>1, <3>2, <4>1, <4>2 DEF Carried
    <3> QED
      BY <3>3, <3>4
  <2>2. CASE d = c /\ u # t
    <3>1. wire'[u][d] = <<>>
      BY <1>4, <2>2
    <3> QED
      BY <3>1 DEF Carried
  <2>3. CASE d = c /\ u = t
    <3>1. OtherEnd(ends', t, c) = s
      BY <1>1, <1>4 DEF OtherEnd
    <3>2. GoodFor(ends', t, c, m)
      BY <3>1 DEF GoodFor
    <3> HIDE DEF m
    <3> QED
      BY <1>4, <2>3, <3>2 DEF Carried
  <2> QED
    BY <2>1, <2>2, <2>3
<1> QED
  BY <1>5, <1>6, <1>8, <1>9 DEF IInv

LEMMA ReceiveKeeps ==
  ASSUME IInv, NEW s \in Servers, NEW c \in Conns, Receive(s, c)
  PROVE  IInv'
<1> DEFINE q == wire[s][c]
           m == Head(q)
<1>1. q \in Seq(Message) /\ q # <<>> /\ Carried(ends, s, c, q)
  BY DEF Receive, IInv, TypeOK
<1>2. m \in Message /\ 1 \in DOMAIN q /\ m = q[1]
  <2> HIDE DEF q
  <2> QED
    BY <1>1
<1>3. ends[s][c] # "none" /\ GoodFor(ends, s, c, m)
  BY <1>1, <1>2 DEF Carried
<1> HIDE DEF q
<1>4. Become(s, Handle(s, Here(s), c, m), c) /\ UNCHANGED <<made, hubbed>> /\ opered' = opered
  BY DEF Receive, q
<1> HIDE DEF m
<1>5. Sound(s, Handle(s, Here(s), c, m))
  BY <1>2, <1>3, HereIsSound, HandleKeeps DEF IInv
<1>6. opered' \subseteq Conns
  BY <1>4 DEF IInv, TypeOK
<1> QED
  BY <1>1, <1>4, <1>5, <1>6, BecomeKeeps DEF q

LEMMA LinkFailsKeeps ==
  ASSUME IInv, NEW s \in Servers, NEW c \in Conns, LinkFails(s, c)
  PROVE  IInv'
<1>1. ends[s][c] # "none" /\ Become(s, Ended(s, Here(s), c), 0)
      /\ UNCHANGED <<made, hubbed>> /\ opered' \subseteq Conns
  BY DEF LinkFails, IInv, TypeOK
<1>2. Sound(s, Ended(s, Here(s), c))
  BY <1>1, HereIsSound, EndedKeeps
<1>3. 0 \notin Conns
  BY DEF Conns
<1> QED
  BY <1>1, <1>2, <1>3, BecomeKeeps

LEMMA RemoteSquitKeeps ==
  ASSUME IInv, NEW s \in Servers, NEW x \in Servers, RemoteSquit(s, x)
  PROVE  IInv'
<1>1. x \in Names(list[s]) /\ Become(s, OperSquit(s, Here(s), s, x), 0)
      /\ UNCHANGED <<made, hubbed>> /\ opered' = opered \cup {EntryOf(list[s], x).via}
  BY DEF RemoteSquit
<1>2. Sound(s, OperSquit(s, Here(s), s, x))
  <2>1. Here(s).list = list[s]
    BY DEF Here
  <2> QED
    BY <1>1, <2>1, HereIsSound, OperSquitKeeps
<1>3. 0 \notin Conns
  BY DEF Conns
<1>4. EntryOf(list[s], x).via \in Conns
  <2>1. list[s] \in Seq(Entry) /\ x \in Names(list[s])
    BY <1>1 DEF IInv, TypeOK
  <2>2. EntryOf(list[s], x) \in Entry
    BY <2>1 DEF EntryOf, Names
  <2> QED
    BY <2>2 DEF Entry
<1>5. opered' \subseteq Conns
  BY <1>1, <1>4 DEF IInv, TypeOK
<1> QED
  BY <1>1, <1>2, <1>3, <1>5, BecomeKeeps

LEMMA LoseKeeps ==
  ASSUME IInv, NEW s \in Servers, NEW c \in Conns, Lose(s, c)
  PROVE  IInv'
<1> DEFINE q == wire[s][c]
           n == Len(q)
           kept == SubSeq(q, 1, n - 2)
           r == kept \o <<EOF>>
<1>1. q \in Seq(Message) /\ n \in Nat /\ n > 1 /\ Carried(ends, s, c, q)
  BY DEF Lose, IInv, TypeOK
<1>2. wire' = [wire EXCEPT ![s][c] = r] /\ UNCHANGED <<made, ends, list, hubbed, opered>>
  BY DEF Lose
<1> HIDE DEF q
<1>3. /\ kept \in Seq(Message) /\ DOMAIN kept = 1..(n - 2)
      /\ \A i \in 1..(n - 2) : i \in DOMAIN q /\ kept[i] = q[i]
  <2> HIDE DEF n
  <2>1. n - 2 \in Nat /\ n = Len(q) /\ n - 2 <= n
    BY <1>1 DEF n
  <2>2. \A i \in 1..(n - 2) : i \in 1..n
    BY <2>1
  <2>3. kept = [i \in 1..(n - 2) |-> q[i]]
    BY <1>1, <2>1
  <2>4. \A i \in 1..n : i \in DOMAIN q /\ q[i] \in Message
    BY <1>1, <2>1
  <2> QED
    BY <2>1, <2>2, <2>3, <2>4
<1> HIDE DEF n, kept
<1>4. r \in Seq(Message) /\ \A i \in DOMAIN r : (i \in DOMAIN kept /\ r[i] = kept[i]) \/ r[i] = EOF
  <2>1. EOF \in Message
    BY DEF EOF, Message
  <2> HIDE DEF EOF
  <2>2. kept \in Seq(Message) /\ <<EOF>> \in Seq(Message)
    BY <1>3, <2>1
  <2> HIDE DEF kept
  <2>3. Len(r) = Len(kept) + 1 /\ r \in Seq(Message) /\ Len(kept) \in Nat
    BY <2>2
  <2>4. \A i \in 1..(Len(kept) + 1) : (i \in 1..Len(kept) /\ r[i] = kept[i]) \/ r[i] = EOF
    BY <2>2
  <2> QED
    BY <2>2, <2>3, <2>4
<1>5. Carried(ends, s, c, r)
  <2>1. q # <<>>
    BY <1>1 DEF n
  <2>2. \A i \in DOMAIN q : GoodFor(ends, s, c, q[i])
    BY <1>1 DEF Carried
  <2>3. GoodFor(ends, s, c, EOF)
    BY DEF GoodFor, EOF
  <2> HIDE DEF r
  <2> QED
    BY <1>1, <1>3, <1>4, <2>1, <2>2, <2>3 DEF Carried
<1> HIDE DEF r
<1>6. \A t \in Servers, d \in Conns : Carried(ends, t, d, wire'[t][d])
  BY <1>2, <1>5 DEF IInv, TypeOK
<1>7. wire' \in [Servers -> [Conns -> Seq(Message)]]
  BY <1>2, <1>4 DEF IInv, TypeOK
<1> QED
  BY <1>2, <1>6, <1>7 DEF IInv, TypeOK

-----------------------------------------------------------------------------
(* The theorems.                                                           *)

LEMMA InitHolds == Init => IInv
<1> SUFFICES ASSUME Init
             PROVE  IInv
  OBVIOUS
<1>1. TypeOK
  <2>1. <<>> \in Seq(Entry) /\ <<>> \in Seq(Message) /\ 0 \in 0..MaxConns
    BY NetworkAssumption
  <2>2. ends \in [Servers -> [Conns -> EndStates]]
    BY DEF Init, EndStates
  <2>3. wire \in [Servers -> [Conns -> Seq(Message)]]
    BY <2>1 DEF Init
  <2> QED
    BY <2>1, <2>2, <2>3 DEF Init, TypeOK
<1>2. \A s \in Servers, c \in Conns : ends[s][c] = "none" /\ wire[s][c] = <<>>
  BY DEF Init
<1>3. \A s \in Servers : list[s] = <<>>
  BY DEF Init
<1>4. Paired(ends, made)
  BY <1>2 DEF Paired
<1>5. \A s \in Servers : Tree(s, list[s]) /\ Matching(ends, s, list[s], ends[s])
  BY <1>2, <1>3 DEF Tree, Matching
<1>6. \A s \in Servers, c \in Conns : Carried(ends, s, c, wire[s][c])
  BY <1>2 DEF Carried
<1> QED
  BY <1>1, <1>4, <1>5, <1>6 DEF IInv

LEMMA StepKeeps == IInv /\ [Next]_vars => IInv'
<1> SUFFICES ASSUME IInv, [Next]_vars
             PROVE  IInv'
  OBVIOUS
<1>1. ASSUME NEW s \in Servers, NEW t \in Servers, Connect(s, t)
      PROVE  IInv'
  BY <1>1, ConnectKeeps
<1>2. ASSUME NEW s \in Servers, NEW t \in Servers, RemoteSquit(s, t)
      PROVE  IInv'
  BY <1>2, RemoteSquitKeeps
<1>3. ASSUME NEW s \in Servers, NEW c \in Conns, Receive(s, c)
      PROVE  IInv'
  BY <1>3, ReceiveKeeps
<1>4. ASSUME NEW s \in Servers, NEW c \in Conns, LinkFails(s, c)
      PROVE  IInv'
  BY <1>4, LinkFailsKeeps
<1>5. ASSUME NEW s \in Servers, NEW c \in Conns, Lose(s, c)
      PROVE  IInv'
  BY <1>5, LoseKeeps
<1>6. CASE UNCHANGED vars
  BY <1>6 DEF vars, IInv, TypeOK
<1> QED
  BY <1>1, <1>2, <1>3, <1>4, <1>5, <1>6 DEF Next

\* Every list is a tree that goes with the connections of its keeper, and what
\* is on the wires keeps it so.
THEOREM InductiveInvariant == Spec => []IInv
  BY InitHolds, StepKeeps, PTL DEF Spec

\* Servers, connections and messages are of their kinds.
THEOREM TypeCorrect == Spec => []TypeOK
<1>1. IInv => TypeOK
  BY DEF IInv
<1> QED
  BY <1>1, InductiveInvariant, PTL

\* What the code takes a list of servers for, it is: a tree with the parents
\* later on the list (server.c destroy_server), one listed server for each
\* registered connection, and an operator's SQUIT does not come to its target.
THEOREM TreeStaysSound == Spec => []TreeSound
<1>1. IInv => TreeSound
  <2> SUFFICES ASSUME IInv
               PROVE  TreeSound
    OBVIOUS
  <2>1. \A s \in Servers : list[s] \in Seq(Entry) /\ Tree(s, list[s])
    BY DEF IInv, TypeOK
  <2>2. ParentsLaterInList
    <3> SUFFICES ASSUME NEW s \in Servers, NEW i \in DOMAIN list[s]
                 PROVE  LET e == list[s][i] IN
                        /\ e.name # s
                        /\ \A j \in DOMAIN list[s] : list[s][j].name = e.name => i = j
                        /\ \/ e.parent = s /\ e.conn # 0
                           \/ /\ e.conn = 0
                              /\ \E j \in i + 1 .. Len(list[s]) : list[s][j].name = e.parent
      BY DEF ParentsLaterInList
    <3> DEFINE l == list[s]
    <3>1. l \in Seq(Entry) /\ Tree(s, l)
      BY <2>1
    <3> HIDE DEF l
    <3>2. \A j \in DOMAIN l : i \in DOMAIN l /\ i < j => j \in i + 1 .. Len(l)
      BY <3>1
    <3> QED
      BY <3>1, <3>2 DEF Tree, l
  <2>3. LinksAreListed
    BY DEF IInv, Matching, LinksAreListed
  <2>4. NeverSplitsItself
    <3> SUFFICES ASSUME NEW s \in Servers, NEW c \in Conns, wire[s][c] # <<>>
                 PROVE  LET m == Head(wire[s][c]) IN
                        ~(Accepted(s, c, m) /\ m.cmd = "OPERSQUIT" /\ m.name = s)
      BY DEF NeverSplitsItself
    <3> DEFINE q == wire[s][c]
    <3>1. q \in Seq(Message) /\ q # <<>> /\ Carried(ends, s, c, q)
      BY DEF IInv, TypeOK
    <3> HIDE DEF q
    <3>2. 1 \in DOMAIN q /\ Head(q) = q[1]
      BY <3>1
    <3>3. GoodFor(ends, s, c, Head(q))
      BY <3>1, <3>2 DEF Carried
    <3> QED
      BY <3>3 DEF GoodFor, q
  <2> QED
    BY <2>2, <2>3, <2>4 DEF TreeSound
<1> QED
  BY <1>1, InductiveInvariant, PTL
=============================================================================
