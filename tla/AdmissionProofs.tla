-------------------------- MODULE AdmissionProofs --------------------------
(***************************************************************************)
(* Theorems about admission, for any number of connections, addresses,     *)
(* classes and entries, and whatever the throttle is set to.               *)
(*                                                                         *)
(* The handlers work on a record of classes, connections and lists, so the *)
(* part of the invariant that is about them is stated of such a record.    *)
(* The rest is about the entries and the records of the throttle.          *)
(***************************************************************************)
EXTENDS Admission, ListLemmas

\* A record of what a handler has done so far.
States == [class : [Classes -> Class], conn : [Slots -> Connection], list : [Lists -> Seq(Slots)]]

\* The clients of a class are its members, but for the n connections made by
\* server_connect, also of a class that is not there; and those that are there have
\* members or are alive.
CountsOf(h, n) ==
    /\ \A k \in Others :
        /\ h.class[k].clients = Cardinality(Members(h.conn, k))
        /\ Members(h.conn, k) # {} => h.class[k].here
        /\ h.class[k].here /\ h.class[k].dead => Members(h.conn, k) # {}
    /\ h.class[Default].here
    /\ h.class[Default].clients = Cardinality(Members(h.conn, Default)) - n

\* No connection is twice in a list, or in two.
ListedOnce(h) ==
    /\ \A l \in Lists : IsInjective(h.list[l])
    /\ \A l, m \in Lists : ToSet(h.list[l]) \cap ToSet(h.list[m]) # {} => l = m
IsListed(h, c) == \E l \in Lists : c \in ToSet(h.list[l])

\* Between two steps those in the lists are those with a class.
Placement(h) == \A c \in Slots : IsListed(h, c) <=> h.conn[c].cls # NoClass

Sound(h, n) == h \in States /\ CountsOf(h, n) /\ ListedOnce(h) /\ Placement(h)

\* The entries are of classes that stay, and those that a reload keeps of the default one.
EntryOK(cl, a) ==
    /\ a.cls \in Others => cl[a.cls].here /\ ~cl[a.cls].dead
    /\ a.conf = "none" => a.cls = Default
EntriesOK(cl, ac) ==
    /\ ac \in [Stages -> Seq(Acl)]
    /\ \A s \in Stages : \A a \in ToSet(ac[s]) : EntryOK(cl, a)

\* The connections of an address at a time from a to b.
Within(ts, a, b) == {i \in DOMAIN ts : ts[i] \in a .. b}
KeptOut(l, host, until) ==
    \E a \in ToSet(l) : a.type = "throttle" /\ a.mask = {host} /\ a.expire >= until

\* A record of the throttle counts connections since its first, which are within the
\* time looked at if the record is; the entry of a ban lasts at least as long.
CountOK(t, ts, time) == t.first <= time /\ t.count <= Cardinality(Within(ts, t.first, time))
BanOK(t, ts, time) ==
    t.banned # 0 =>
        /\ t.stage >= 1 /\ t.banned <= time
        /\ TriggerCount <= Cardinality(Within(ts, t.banned - TriggerTime, t.banned))
EntryLasts(t, l, host, time) ==
    t.banned # 0 /\ time < t.banned + Lengths[t.stage] => KeptOut(l, host, t.banned + Lengths[t.stage])
CauseOK(t, ts, l, host, time) == CountOK(t, ts, time) /\ BanOK(t, ts, time) /\ EntryLasts(t, l, host, time)

ThrottleOK ==
    /\ throttle \in [Hosts -> Seq(Throttle)] /\ \A host \in Hosts : Len(throttle[host]) <= 1
    /\ DOMAIN tries = Hosts /\ \A host \in Hosts : tries[host] \in Seq(Start .. now)
    /\ \A host \in Hosts : \A i \in DOMAIN throttle[host] :
        CauseOK(throttle[host][i], tries[host], acls[1], host, now)

\* The inductive invariant.
IInv ==
    /\ now \in Start .. Start + LastTime /\ links \in Nat /\ work \in 0 .. MaxWork
    /\ Sound(Here, links)
    /\ EntriesOK(class, acls)
    /\ ThrottleOK

-----------------------------------------------------------------------------
(* Classes                                                                 *)

\* A connection that changes its class leaves one set of members for another.
LEMMA MembersMove ==
  ASSUME NEW co \in [Slots -> Connection], NEW c \in Slots, NEW co2 \in [Slots -> Connection],
         \A d \in Slots \ {c} : co2[d].cls = co[d].cls,
         NEW k
  PROVE  /\ Members(co2, k) \ {c} = Members(co, k) \ {c}
         /\ c \in Members(co2, k) <=> co2[c].cls = k
         /\ c \in Members(co, k) <=> co[c].cls = k
         /\ Cardinality(Members(co, k)) \in Nat
         /\ Members(co2, k) = {} <=> Cardinality(Members(co2, k)) = 0
         /\ (co[c].cls = k <=> co2[c].cls = k) =>
              Cardinality(Members(co2, k)) = Cardinality(Members(co, k))
         /\ co[c].cls # k /\ co2[c].cls = k =>
              Cardinality(Members(co2, k)) = Cardinality(Members(co, k)) + 1
         /\ co[c].cls = k /\ co2[c].cls # k =>
              Cardinality(Members(co2, k)) = Cardinality(Members(co, k)) - 1
<1> DEFINE X == Members(co, k)
           Y == Members(co2, k)
<1>1. IsFiniteSet(X) /\ IsFiniteSet(Y)
  BY AdmissionAssumption, FS_Subset DEF Members
<1>2. Cardinality(X) \in Nat /\ (Y = {} <=> Cardinality(Y) = 0)
  BY <1>1, FS_CardinalityType, FS_EmptySet
<1>3. Y \ {c} = X \ {c} /\ (c \in Y <=> co2[c].cls = k) /\ (c \in X <=> co[c].cls = k)
  BY DEF Members
<1> HIDE DEF X, Y
<1>4. (co[c].cls = k <=> co2[c].cls = k) => Cardinality(Y) = Cardinality(X)
  <2>1. (c \in X <=> c \in Y) => X = Y
    BY <1>3
  <2> QED
    BY <2>1, <1>3
<1>5. co[c].cls # k /\ co2[c].cls = k => Cardinality(Y) = Cardinality(X) + 1
  <2>1. c \notin X /\ c \in Y => Y = X \cup {c}
    BY <1>3
  <2> QED
    BY <2>1, <1>1, <1>3, FS_AddElement
<1>6. co[c].cls = k /\ co2[c].cls # k => Cardinality(Y) = Cardinality(X) - 1
  <2>1. c \in X /\ c \notin Y => Y = X \ {c}
    BY <1>3
  <2> QED
    BY <2>1, <1>1, <1>3, FS_RemoveElement
<1> QED
  BY <1>2, <1>3, <1>4, <1>5, <1>6 DEF X, Y

\* What the handlers of class.c keep: a limit stays, and so does a class that is alive.
Grows(h, g) ==
    /\ \A k \in Classes : g.class[k].max = h.class[k].max
    /\ \A k \in Others : h.class[k].here /\ ~h.class[k].dead => g.class[k].here /\ ~g.class[k].dead

\* del_from_class: the counts stay right, nobody gets a class, and no class gets fuller.
LEMMA DelSound ==
  ASSUME NEW h \in States, NEW n \in Nat, CountsOf(h, n), NEW c \in Slots,
         h.conn[c].cls # NoClass
  PROVE  /\ DelFromClass(h, c) \in States /\ CountsOf(DelFromClass(h, c), n)
         /\ DelFromClass(h, c).list = h.list
         /\ DelFromClass(h, c).conn = [h.conn EXCEPT ![c].cls = NoClass]
         /\ Grows(h, DelFromClass(h, c))
         /\ \A k \in Classes : DelFromClass(h, c).class[k].clients <= h.class[k].clients
         /\ \A k \in Classes \ {h.conn[c].cls} : DelFromClass(h, c).class[k] = h.class[k]
<1> DEFINE k == h.conn[c].cls
           cl == [h.class EXCEPT ![k].clients = @ - 1]
           x == [h.class[k] EXCEPT !.clients = @ - 1]
           new == IF cl[k].clients = 0 /\ cl[k].dead THEN DestroyClass(cl, k) ELSE cl
           co == [h.conn EXCEPT ![c].cls = NoClass]
           g == DelFromClass(h, c)
<1>1. /\ h.class \in [Classes -> Class] /\ h.conn \in [Slots -> Connection]
      /\ h.list \in [Lists -> Seq(Slots)] /\ k \in Classes
  BY DEF States, Connection
<1>2. cl \in [Classes -> Class] /\ cl[k] = x /\ \A j \in Classes \ {k} : cl[j] = h.class[j]
  <2>1. h.class[k] \in Class
    BY <1>1
  <2>2. x \in Class
    BY <2>1 DEF Class
  <2>3. cl = [h.class EXCEPT ![k] = x]
    BY <1>1
  <2> HIDE DEF x, cl, k
  <2> QED
    BY <1>1, <2>2, <2>3
<1>3. /\ x.here = h.class[k].here /\ x.dead = h.class[k].dead /\ x.max = h.class[k].max
      /\ x.clients = h.class[k].clients - 1 /\ h.class[k].clients \in Int
  BY <1>1 DEF Class
<1>4. /\ new \in [Classes -> Class] /\ \A j \in Classes \ {k} : new[j] = h.class[j]
      /\ new[k].max = x.max /\ new[k].clients = x.clients /\ new[k].dead = x.dead
      /\ new[k].here = IF x.clients = 0 /\ x.dead /\ k # Default THEN FALSE ELSE x.here
  <2>1. CASE x.clients = 0 /\ x.dead /\ k # Default
    <3>1. new = [cl EXCEPT ![k].dead = TRUE, ![k].here = FALSE]
      BY <2>1, <1>1, <1>2 DEF DestroyClass
    <3>2. /\ new = [j \in Classes |-> IF j = k THEN [[x EXCEPT !.dead = TRUE] EXCEPT !.here = FALSE]
                                     ELSE cl[j]]
          /\ x \in Class
      BY <3>1, <1>1, <1>2
    <3>3. /\ new \in [Classes -> Class] /\ new[k] = [[x EXCEPT !.dead = TRUE] EXCEPT !.here = FALSE]
          /\ \A j \in Classes \ {k} : new[j] = cl[j]
      <4> DEFINE y == [[x EXCEPT !.dead = TRUE] EXCEPT !.here = FALSE]
      <4>1. y \in Class
        BY <3>2 DEF Class
      <4>2. new = [j \in Classes |-> IF j = k THEN y ELSE cl[j]]
        BY <3>2
      <4>3. y = [[x EXCEPT !.dead = TRUE] EXCEPT !.here = FALSE]
        OBVIOUS
      <4> HIDE DEF y, new, cl
      <4> QED
        BY <4>1, <4>2, <4>3, <1>1, <1>2
    <3> HIDE DEF new, cl
    <3> QED
      BY <2>1, <3>2, <3>3, <1>1, <1>2, <1>3 DEF Class
  <2>2. CASE ~(x.clients = 0 /\ x.dead /\ k # Default)
    <3>1. new = cl
      BY <2>2, <1>2 DEF DestroyClass
    <3> QED
      BY <2>2, <3>1, <1>2, <1>3
  <2> QED
    BY <2>1, <2>2
<1>5. co \in [Slots -> Connection] /\ co[c].cls = NoClass
      /\ \A d \in Slots \ {c} : co[d].cls = h.conn[d].cls
  BY <1>1 DEF Connection
<1>6. g = [h EXCEPT !.class = new, !.conn[c].cls = NoClass]
  BY DEF DelFromClass
<1> HIDE DEF new
<1>7. g.class = new /\ g.conn = co /\ g.list = h.list /\ g \in States
  BY <1>1, <1>4, <1>5, <1>6 DEF States
<1>8. ASSUME NEW j \in Classes
      PROVE  /\ Cardinality(Members(co, j)) =
                  IF j = k THEN Cardinality(Members(h.conn, j)) - 1
                  ELSE Cardinality(Members(h.conn, j))
             /\ Members(co, j) = Members(h.conn, j) \ {c}
             /\ Cardinality(Members(h.conn, j)) \in Nat
             /\ j # k => Members(co, j) = Members(h.conn, j)
             /\ Members(co, j) = {} <=> Cardinality(Members(co, j)) = 0
  <2>1. NoClass # j
    BY AdmissionAssumption DEF Classes
  <2> DEFINE old == h.conn
  <2>2. /\ old \in [Slots -> Connection] /\ old[c].cls = k
        /\ \A d \in Slots \ {c} : co[d].cls = old[d].cls
    BY <1>1, <1>5
  <2> HIDE DEF co, k, old
  <2>3. /\ Members(co, j) \ {c} = Members(old, j) \ {c}
        /\ c \notin Members(co, j)
        /\ c \in Members(old, j) <=> j = k
        /\ Cardinality(Members(old, j)) \in Nat
        /\ Members(co, j) = {} <=> Cardinality(Members(co, j)) = 0
        /\ j # k => Cardinality(Members(co, j)) = Cardinality(Members(old, j))
        /\ j = k => Cardinality(Members(co, j)) = Cardinality(Members(old, j)) - 1
    BY <2>1, <2>2, <1>5, MembersMove
  <2> QED
    BY <2>3 DEF old
<1> HIDE DEF k, co, g, x
<1>9. CountsOf(g, n)
  <2>1. ASSUME NEW j \in Others
        PROVE  /\ new[j].clients = Cardinality(Members(co, j))
               /\ Members(co, j) # {} => new[j].here
               /\ new[j].here /\ new[j].dead => Members(co, j) # {}
    <3>1. j \in Classes /\ j # Default
      BY AdmissionAssumption DEF Classes
    <3>2. /\ h.class[j].clients = Cardinality(Members(h.conn, j))
          /\ Members(h.conn, j) # {} => h.class[j].here
          /\ h.class[j].here /\ h.class[j].dead => Members(h.conn, j) # {}
      BY DEF CountsOf
    <3> QED
      BY <3>1, <3>2, <1>3, <1>4, <1>8
  <2>2. /\ new[Default].here
        /\ new[Default].clients = Cardinality(Members(co, Default)) - n
    <3>1. /\ h.class[Default].here /\ Default \in Classes
          /\ h.class[Default].clients = Cardinality(Members(h.conn, Default)) - n
      BY DEF CountsOf, Classes
    <3>2. CASE k = Default
      BY <3>1, <3>2, <1>3, <1>4, <1>8
    <3>3. CASE k # Default
      BY <3>1, <3>3, <1>4, <1>8
    <3> QED
      BY <3>2, <3>3
  <2> QED
    BY <1>7, <2>1, <2>2 DEF CountsOf
<1>10. Grows(h, g)
  <2>1. \A j \in Classes : g.class[j].max = h.class[j].max
    BY <1>3, <1>4, <1>7
  <2>2. ASSUME NEW j \in Others, h.class[j].here /\ ~h.class[j].dead
        PROVE  g.class[j].here /\ ~g.class[j].dead
    BY <2>2, <1>3, <1>4, <1>7 DEF Classes
  <2> QED
    BY <2>1, <2>2 DEF Grows
<1>11. ASSUME NEW j \in Classes
       PROVE  g.class[j].clients <= h.class[j].clients
  <2>1. h.class[j].clients \in Int
    BY <1>1 DEF Class
  <2>2. CASE j = k
    BY <2>1, <2>2, <1>3, <1>4, <1>7
  <2>3. CASE j # k
    BY <2>1, <2>3, <1>4, <1>7
  <2> QED
    BY <2>2, <2>3
<1>12. co = [h.conn EXCEPT ![c].cls = NoClass] /\ g = DelFromClass(h, c) /\ k = h.conn[c].cls
  BY DEF co, g, k
<1> QED
  BY <1>4, <1>7, <1>9, <1>10, <1>11, <1>12

\* Nobody changes class: the counts are as they were.
LEMMA SameClasses ==
  ASSUME NEW h, NEW g, NEW n, CountsOf(h, n), g.class = h.class,
         \A d \in Slots : g.conn[d].cls = h.conn[d].cls
  PROVE  CountsOf(g, n)
<1>1. \A k : Members(g.conn, k) = Members(h.conn, k)
  BY DEF Members
<1> QED
  BY <1>1 DEF CountsOf

\* add_to_class, of a connection that has no class.
Join(h, k, c) == [h EXCEPT !.conn[c].cls = k, !.class[k].clients = @ + 1]

\* It is counted in the class that it joins.
LEMMA JoinSound ==
  ASSUME NEW h \in States, NEW n \in Nat, CountsOf(h, n), NEW c \in Slots, NEW k \in Classes,
         h.conn[c].cls = NoClass, h.class[k].here
  PROVE  /\ Join(h, k, c) \in States /\ CountsOf(Join(h, k, c), n) /\ Join(h, k, c).list = h.list
         /\ Join(h, k, c).conn = [h.conn EXCEPT ![c].cls = k]
         /\ Grows(h, Join(h, k, c))
<1> DEFINE g == Join(h, k, c)
           new == [h.class EXCEPT ![k].clients = @ + 1]
           co == [h.conn EXCEPT ![c].cls = k]
           x == [h.class[k] EXCEPT !.clients = @ + 1]
           old == h.conn
<1>1. /\ h.class \in [Classes -> Class] /\ h.conn \in [Slots -> Connection]
      /\ h.list \in [Lists -> Seq(Slots)] /\ k # NoClass
  BY AdmissionAssumption DEF States, Classes
<1>2. new \in [Classes -> Class] /\ new[k] = x /\ \A j \in Classes \ {k} : new[j] = h.class[j]
  <2>1. x \in Class
    BY <1>1 DEF Class
  <2>2. new = [j \in Classes |-> IF j = k THEN x ELSE h.class[j]]
    BY <1>1
  <2> HIDE DEF new, x
  <2> QED
    BY <2>1, <2>2, <1>1
<1>3. /\ x.here = h.class[k].here /\ x.dead = h.class[k].dead /\ x.max = h.class[k].max
      /\ x.clients = h.class[k].clients + 1 /\ h.class[k].clients \in Int
  BY <1>1 DEF Class
<1>4. co \in [Slots -> Connection] /\ co[c].cls = k /\ \A d \in Slots \ {c} : co[d].cls = old[d].cls
  BY <1>1 DEF Connection
<1>5. g.class = new /\ g.conn = co /\ g.list = h.list /\ g \in States
  BY <1>1, <1>2, <1>4 DEF States, Join
<1>6. old \in [Slots -> Connection] /\ old[c].cls = NoClass /\ old = h.conn
  BY <1>1
<1> HIDE DEF g, new, co, x, old
<1>7. ASSUME NEW j \in Classes
      PROVE  /\ Cardinality(Members(old, j)) \in Nat
             /\ j = k => Members(co, j) # {} /\ Cardinality(Members(co, j)) =
                           Cardinality(Members(old, j)) + 1
             /\ j # k => /\ Cardinality(Members(co, j)) = Cardinality(Members(old, j))
                         /\ Members(co, j) = Members(old, j)
  <2>1. j # NoClass
    BY AdmissionAssumption DEF Classes
  <2>2. /\ Members(co, j) \ {c} = Members(old, j) \ {c}
        /\ c \in Members(co, j) <=> j = k
        /\ c \notin Members(old, j)
        /\ Cardinality(Members(old, j)) \in Nat
        /\ j # k => Cardinality(Members(co, j)) = Cardinality(Members(old, j))
        /\ j = k => Cardinality(Members(co, j)) = Cardinality(Members(old, j)) + 1
    BY <2>1, <1>4, <1>6, MembersMove
  <2> QED
    BY <2>2
<1>8. CountsOf(g, n)
  <2>1. ASSUME NEW j \in Others
        PROVE  /\ new[j].clients = Cardinality(Members(co, j))
               /\ Members(co, j) # {} => new[j].here
               /\ new[j].here /\ new[j].dead => Members(co, j) # {}
    <3>1. j \in Classes
      BY DEF Classes
    <3>2. /\ h.class[j].clients = Cardinality(Members(old, j))
          /\ Members(old, j) # {} => h.class[j].here
          /\ h.class[j].here /\ h.class[j].dead => Members(old, j) # {}
      BY <1>6 DEF CountsOf
    <3>3. CASE j = k
      BY <3>1, <3>2, <3>3, <1>2, <1>3, <1>7
    <3>4. CASE j # k
      BY <3>1, <3>2, <3>4, <1>2, <1>7
    <3> QED
      BY <3>3, <3>4
  <2>2. /\ new[Default].here
        /\ new[Default].clients = Cardinality(Members(co, Default)) - n
    <3>1. /\ h.class[Default].here /\ Default \in Classes
          /\ h.class[Default].clients = Cardinality(Members(old, Default)) - n
      BY <1>6 DEF CountsOf, Classes
    <3>2. CASE Default = k
      BY <3>1, <3>2, <1>2, <1>3, <1>7
    <3>3. CASE Default # k
      BY <3>1, <3>3, <1>2, <1>7
    <3> QED
      BY <3>2, <3>3
  <2> QED
    BY <1>5, <2>1, <2>2 DEF CountsOf
<1>9. Grows(h, g)
  <2>1. \A j \in Classes : g.class[j].max = h.class[j].max
    BY <1>2, <1>3, <1>5
  <2>2. ASSUME NEW j \in Others, h.class[j].here /\ ~h.class[j].dead
        PROVE  g.class[j].here /\ ~g.class[j].dead
    BY <2>2, <1>2, <1>3, <1>5 DEF Classes
  <2> QED
    BY <2>1, <2>2 DEF Grows
<1> QED
  BY <1>5, <1>8, <1>9 DEF co, g

\* add_to_class: out of the class that it is in, into the other.
LEMMA AddSound ==
  ASSUME NEW h \in States, NEW n \in Nat, CountsOf(h, n), NEW c \in Slots, NEW k \in Classes,
         h.class[k].here
  PROVE  /\ AddToClass(h, k, c) \in States /\ CountsOf(AddToClass(h, k, c), n)
         /\ AddToClass(h, k, c).list = h.list
         /\ AddToClass(h, k, c).conn = [h.conn EXCEPT ![c].cls = k]
         /\ Grows(h, AddToClass(h, k, c))
<1> DEFINE d == IF h.conn[c].cls = NoClass THEN h ELSE DelFromClass(h, c)
           g == Join(d, k, c)
<1>1. /\ h.conn \in [Slots -> Connection] /\ k # NoClass
      /\ h.conn[c] \in [cls : Classes \cup {NoClass}, host : Hosts,
                        kind : {"client", "connecting", "introduced"}]
  BY AdmissionAssumption DEF States, Classes, Connection
<1>2. CASE h.conn[c].cls = k
  <2>1. AddToClass(h, k, c) = h
    BY <1>2 DEF AddToClass
  <2>2. [h.conn EXCEPT ![c].cls = k] = h.conn
    BY <1>1, <1>2
  <2> QED
    BY <2>1, <2>2 DEF Grows
<1>3. CASE h.conn[c].cls # k
  <2>1. AddToClass(h, k, c) = g
    BY <1>3 DEF AddToClass, Join
  <2>2. /\ d \in States /\ CountsOf(d, n) /\ d.list = h.list /\ d.class[k] = h.class[k]
        /\ d.conn = [h.conn EXCEPT ![c].cls = NoClass] /\ Grows(h, d)
    <3>1. CASE h.conn[c].cls = NoClass
      <4>1. [h.conn EXCEPT ![c].cls = NoClass] = h.conn
        BY <1>1, <3>1
      <4> QED
        BY <3>1, <4>1 DEF Grows
    <3>2. CASE h.conn[c].cls # NoClass
      BY <1>3, <3>2, DelSound
    <3> QED
      BY <3>1, <3>2
  <2>3. /\ d.conn[c].cls = NoClass
        /\ [d.conn EXCEPT ![c].cls = k] = [h.conn EXCEPT ![c].cls = k]
    BY <1>1, <2>2
  <2> HIDE DEF d
  <2>4. /\ g \in States /\ CountsOf(g, n) /\ g.list = d.list
        /\ g.conn = [d.conn EXCEPT ![c].cls = k] /\ Grows(d, g)
    BY <2>2, <2>3, JoinSound
  <2>5. Grows(h, g)
    BY <2>2, <2>4 DEF Grows
  <2> QED
    BY <2>1, <2>2, <2>3, <2>4, <2>5
<1> QED
  BY <1>2, <1>3

-----------------------------------------------------------------------------
(* Lists                                                                   *)

\* Those other than c that are in the lists are those with a class.
PlacementBut(h, c) == \A d \in Slots \ {c} : IsListed(h, d) <=> h.conn[d].cls # NoClass

\* LIST_REMOVE takes the connection out of the lists, and no other.
LEMMA UnlistedSound ==
  ASSUME NEW h \in States, ListedOnce(h), NEW c \in Slots
  PROVE  /\ Unlisted(h, c) \in States /\ Unlisted(h, c).class = h.class
         /\ Unlisted(h, c).conn = h.conn /\ ListedOnce(Unlisted(h, c))
         /\ \A l \in Lists : ToSet(Unlisted(h, c).list[l]) = ToSet(h.list[l]) \ {c}
         /\ ~IsListed(Unlisted(h, c), c)
         /\ \A d \in Slots \ {c} : IsListed(Unlisted(h, c), d) <=> IsListed(h, d)
<1> DEFINE g == Unlisted(h, c)
           new == [l \in Lists |-> Without(h.list[l], {c})]
<1>1. h.list \in [Lists -> Seq(Slots)]
  BY DEF States
<1>2. ASSUME NEW l \in Lists
      PROVE  /\ new[l] \in Seq(Slots) /\ ToSet(new[l]) = ToSet(h.list[l]) \ {c}
             /\ IsInjective(new[l])
  <2> DEFINE q == h.list[l]
  <2>1. q \in Seq(Slots) /\ IsInjective(q)
    BY <1>1 DEF ListedOnce
  <2> HIDE DEF q
  <2>2. /\ Without(q, {c}) \in Seq(Slots) /\ ToSet(Without(q, {c})) = ToSet(q) \ {c}
        /\ IsInjective(Without(q, {c}))
    BY <2>1, WithoutProperties
  <2> QED
    BY <2>2 DEF q
<1> HIDE DEF new
<1>3. g = [h EXCEPT !.list = new]
  BY <1>1 DEF Unlisted, new
<1>4. new \in [Lists -> Seq(Slots)]
  BY <1>2 DEF new
<1>5. g \in States /\ g.class = h.class /\ g.conn = h.conn /\ g.list = new
  BY <1>3, <1>4 DEF States
<1> HIDE DEF g
<1>6. ListedOnce(g)
  <2>1. ASSUME NEW l \in Lists, NEW m \in Lists, ToSet(g.list[l]) \cap ToSet(g.list[m]) # {}
        PROVE  l = m
    <3>1. ToSet(h.list[l]) \cap ToSet(h.list[m]) # {}
      BY <2>1, <1>2, <1>5
    <3> QED
      BY <3>1 DEF ListedOnce
  <2> QED
    BY <2>1, <1>2, <1>5 DEF ListedOnce
<1>7. /\ \A l \in Lists : ToSet(g.list[l]) = ToSet(h.list[l]) \ {c}
      /\ ~IsListed(g, c)
      /\ \A d \in Slots \ {c} : IsListed(g, d) <=> IsListed(h, d)
  BY <1>2, <1>5 DEF IsListed
<1> QED
  BY <1>5, <1>6, <1>7 DEF g

\* LIST_INSERT_HEAD of a connection that is in no list.
LEMMA ListedSound ==
  ASSUME NEW h \in States, NEW n \in Nat, CountsOf(h, n), ListedOnce(h), NEW c \in Slots,
         PlacementBut(h, c), ~IsListed(h, c), h.conn[c].cls # NoClass, NEW l \in Lists
  PROVE  /\ Sound(Listed(h, l, c), n)
         /\ Listed(h, l, c).class = h.class /\ Listed(h, l, c).conn = h.conn
<1> DEFINE g == Listed(h, l, c)
           q == h.list[l]
           t == <<c>> \o q
           new == [h.list EXCEPT ![l] = t]
<1>1. h.list \in [Lists -> Seq(Slots)]
  BY DEF States
<1>2. q \in Seq(Slots) /\ IsInjective(q) /\ c \notin ToSet(q)
  BY <1>1 DEF ListedOnce, IsListed
<1>3. t = Cons(c, q)
  BY DEF Cons
<1> HIDE DEF q, t
<1>4. t \in Seq(Slots) /\ ToSet(t) = ToSet(q) \cup {c} /\ IsInjective(t)
  BY <1>2, <1>3, Joined
<1>5. /\ new \in [Lists -> Seq(Slots)] /\ new[l] = t
      /\ \A m \in Lists \ {l} : new[m] = h.list[m]
  BY <1>1, <1>4
<1>6. g = [h EXCEPT !.list = new]
  BY DEF Listed, q, t
<1> HIDE DEF new
<1>7. g \in States /\ g.class = h.class /\ g.conn = h.conn /\ g.list = new
  BY <1>5, <1>6 DEF States
<1> HIDE DEF g
<1>8. CountsOf(g, n)
  BY <1>7, SameClasses
<1>9. ListedOnce(g)
  <2>1. ASSUME NEW m \in Lists
        PROVE  IsInjective(g.list[m])
    BY <1>4, <1>5, <1>7 DEF ListedOnce
  <2>2. ASSUME NEW m \in Lists \ {l}
        PROVE  ToSet(g.list[m]) \cap ToSet(g.list[l]) = {}
    <3>1. ToSet(h.list[m]) \cap ToSet(q) = {}
      BY DEF ListedOnce, q
    <3>2. c \notin ToSet(h.list[m])
      BY DEF IsListed
    <3> QED
      BY <3>1, <3>2, <1>4, <1>5, <1>7
  <2>3. ASSUME NEW m \in Lists \ {l}, NEW m2 \in Lists \ {l},
               ToSet(g.list[m]) \cap ToSet(g.list[m2]) # {}
        PROVE  m = m2
    BY <2>3, <1>5, <1>7 DEF ListedOnce
  <2> QED
    BY <2>1, <2>2, <2>3 DEF ListedOnce
<1>10. \A d \in Slots \ {c} : IsListed(g, d) <=> IsListed(h, d)
  BY <1>4, <1>5, <1>7 DEF IsListed, q
<1>11. IsListed(g, c)
  BY <1>4, <1>5, <1>7 DEF IsListed
<1>12. Placement(g)
  BY <1>7, <1>10, <1>11 DEF Placement, PlacementBut
<1> QED
  BY <1>7, <1>8, <1>9, <1>12 DEF Sound, g

\* A slot that is not used, when there is an address.
LEMMA UnusedType ==
  ASSUME Hosts # {}
  PROVE  Unused \in Connection /\ Unused.cls = NoClass
  BY DEF Unused, Connection

\* destroy_connection: the connection is gone from its class and its list, the others
\* stay as they were, and there may be more room.
LEMMA DestroyedSound ==
  ASSUME NEW h \in States, NEW n \in Nat, CountsOf(h, n), ListedOnce(h), NEW c \in Slots,
         PlacementBut(h, c), h.conn[c].cls # NoClass
  PROVE  /\ Sound(Destroyed(h, c), n) /\ Grows(h, Destroyed(h, c))
         /\ \A k \in Classes : Destroyed(h, c).class[k].clients <= h.class[k].clients
         /\ Destroyed(h, c).conn[c] = Unused
         /\ \A d \in Slots \ {c} : Destroyed(h, c).conn[d] = h.conn[d]
         /\ \A l \in Lists : ToSet(Destroyed(h, c).list[l]) = ToSet(h.list[l]) \ {c}
<1> DEFINE d == DelFromClass(h, c)
           u == Unlisted(d, c)
           g == Destroyed(h, c)
           co == [u.conn EXCEPT ![c] = Unused]
<1>1. h.conn \in [Slots -> Connection] /\ h.list \in [Lists -> Seq(Slots)]
  BY DEF States
<1>2. /\ d \in States /\ CountsOf(d, n) /\ d.list = h.list
      /\ d.conn = [h.conn EXCEPT ![c].cls = NoClass] /\ Grows(h, d)
      /\ \A k \in Classes : d.class[k].clients <= h.class[k].clients
  BY DelSound
<1> HIDE DEF d
<1>3. ListedOnce(d)
  BY <1>2 DEF ListedOnce
<1>4. /\ u \in States /\ u.class = d.class /\ u.conn = d.conn /\ ListedOnce(u)
      /\ \A l \in Lists : ToSet(u.list[l]) = ToSet(d.list[l]) \ {c}
      /\ ~IsListed(u, c) /\ \A e \in Slots \ {c} : IsListed(u, e) <=> IsListed(d, e)
  BY <1>2, <1>3, UnlistedSound
<1> HIDE DEF u
<1>5. Unused \in Connection /\ Unused.cls = NoClass
  BY <1>1, UnusedType DEF Connection
<1>6. u.conn \in [Slots -> Connection]
  BY <1>4 DEF States
<1>7. /\ co \in [Slots -> Connection] /\ co[c] = Unused
      /\ \A e \in Slots \ {c} : co[e] = u.conn[e]
  BY <1>5, <1>6
<1>8. g = [u EXCEPT !.conn = co]
  BY DEF Destroyed, d, u
<1> HIDE DEF co
<1>9. g \in States /\ g.class = u.class /\ g.conn = co /\ g.list = u.list
  BY <1>4, <1>7, <1>8 DEF States
<1> HIDE DEF g
<1>10. \A e \in Slots \ {c} : g.conn[e] = h.conn[e]
  BY <1>1, <1>2, <1>4, <1>7, <1>9
<1>11. u.conn[c].cls = NoClass
  BY <1>1, <1>2, <1>4 DEF Connection
<1>12. CountsOf(g, n)
  <2>1. CountsOf(u, n)
    BY <1>2, <1>4, SameClasses
  <2>2. \A e \in Slots : g.conn[e].cls = u.conn[e].cls
    BY <1>5, <1>7, <1>9, <1>11
  <2> QED
    BY <2>1, <2>2, <1>9, SameClasses
<1>13. ListedOnce(g)
  BY <1>4, <1>9 DEF ListedOnce
<1>14. Placement(g)
  <2>1. ASSUME NEW e \in Slots \ {c}
        PROVE  IsListed(g, e) <=> g.conn[e].cls # NoClass
    <3>1. IsListed(h, e) <=> h.conn[e].cls # NoClass
      BY DEF PlacementBut
    <3>2. IsListed(g, e) <=> IsListed(h, e)
      BY <1>2, <1>4, <1>9 DEF IsListed
    <3> QED
      BY <3>1, <3>2, <1>10
  <2>2. ~IsListed(g, c) /\ g.conn[c].cls = NoClass
    BY <1>4, <1>5, <1>7, <1>9 DEF IsListed
  <2> QED
    BY <2>1, <2>2 DEF Placement
<1>15. Grows(h, g)
  BY <1>2, <1>4, <1>9 DEF Grows
<1>16. /\ \A k \in Classes : g.class[k].clients <= h.class[k].clients
       /\ g.conn[c] = Unused
       /\ \A l \in Lists : ToSet(g.list[l]) = ToSet(h.list[l]) \ {c}
  BY <1>2, <1>4, <1>7, <1>9
<1> QED
  BY <1>9, <1>10, <1>12, <1>13, <1>14, <1>15, <1>16 DEF Sound, g

-----------------------------------------------------------------------------
(* Entries                                                                 *)

\* The first of a set of places.
LEMMA MinOf ==
  ASSUME NEW T \in SUBSET Nat, T # {}
  PROVE  Min(T) \in T /\ \A i \in T : Min(T) <= i
BY LeastNatural DEF Min

\* What is left when one is removed, as a set.
LEMMA RemoveAtSet ==
  ASSUME NEW S, NEW s \in Seq(S), NEW i \in 1 .. Len(s)
  PROVE  /\ RemoveAt(s, i) \in Seq(S)
         /\ ToSet(RemoveAt(s, i)) \subseteq ToSet(s)
         /\ \A x \in ToSet(s) : x # s[i] => x \in ToSet(RemoveAt(s, i))
<1> DEFINE r == RemoveAt(s, i)
<1>0. Len(s) \in Nat
  OBVIOUS
<1>1. /\ r \in Seq(S) /\ Len(r) = Len(s) - 1
      /\ \A j \in 1 .. (Len(s) - 1) : r[j] = IF j < i THEN s[j] ELSE s[j + 1]
  BY RemoveAtProperties
<1> HIDE DEF r
<1>2. ToSet(r) = {r[j] : j \in 1 .. (Len(s) - 1)} /\ ToSet(s) = {s[j] : j \in 1 .. Len(s)}
  <2>1. DOMAIN r = 1 .. (Len(s) - 1) /\ DOMAIN s = 1 .. Len(s)
    BY <1>0, <1>1
  <2> QED
    BY <2>1 DEF ToSet
<1>3. ToSet(r) \subseteq ToSet(s)
  BY <1>0, <1>1, <1>2
<1>4. ASSUME NEW x \in ToSet(s), x # s[i]
      PROVE  x \in ToSet(r)
  <2>1. PICK j \in 1 .. Len(s) : x = s[j] /\ j # i
    BY <1>2, <1>4
  <2>2. CASE j < i
    <3>1. j \in 1 .. (Len(s) - 1) /\ r[j] = x
      BY <2>1, <2>2, <1>0, <1>1
    <3> QED
      BY <3>1, <1>2
  <2>3. CASE j > i
    <3>1. j - 1 \in 1 .. (Len(s) - 1) /\ r[j - 1] = x
      BY <2>1, <2>3, <1>0, <1>1
    <3> QED
      BY <3>1, <1>2
  <2> QED
    BY <2>1, <2>2, <2>3
<1> QED
  BY <1>1, <1>3, <1>4 DEF r

\* What is there when one is inserted, as a set.
LEMMA InsertAtSet ==
  ASSUME NEW S, NEW s \in Seq(S), NEW i \in 1 .. (Len(s) + 1), NEW e \in S
  PROVE  InsertAt(s, i, e) \in Seq(S) /\ ToSet(InsertAt(s, i, e)) = ToSet(s) \cup {e}
<1> DEFINE r == InsertAt(s, i, e)
<1>0. Len(s) \in Nat
  OBVIOUS
<1>1. /\ r \in Seq(S) /\ Len(r) = Len(s) + 1
      /\ \A j \in 1 .. (Len(s) + 1) :
           r[j] = IF j < i THEN s[j] ELSE IF j = i THEN e ELSE s[j - 1]
  BY InsertAtProperties
<1> HIDE DEF r
<1>2. ToSet(r) = {r[j] : j \in 1 .. (Len(s) + 1)} /\ ToSet(s) = {s[j] : j \in 1 .. Len(s)}
  <2>1. DOMAIN r = 1 .. (Len(s) + 1) /\ DOMAIN s = 1 .. Len(s)
    BY <1>0, <1>1
  <2> QED
    BY <2>1 DEF ToSet
<1>3. ASSUME NEW x \in ToSet(r)
      PROVE  x \in ToSet(s) \cup {e}
  <2>1. PICK j \in 1 .. (Len(s) + 1) : x = r[j]
    BY <1>2
  <2>2. CASE j < i
    BY <2>1, <2>2, <1>0, <1>1, <1>2
  <2>3. CASE j = i
    BY <2>1, <2>3, <1>0, <1>1
  <2>4. CASE j > i
    <3>1. j - 1 \in 1 .. Len(s) /\ x = s[j - 1]
      BY <2>1, <2>4, <1>0, <1>1
    <3> QED
      BY <3>1, <1>2
  <2> QED
    BY <2>2, <2>3, <2>4
<1>4. ASSUME NEW x \in ToSet(s)
      PROVE  x \in ToSet(r)
  <2>1. PICK j \in 1 .. Len(s) : x = s[j]
    BY <1>2
  <2>2. CASE j < i
    <3>1. j \in 1 .. (Len(s) + 1) /\ r[j] = x
      BY <2>1, <2>2, <1>0, <1>1
    <3> QED
      BY <3>1, <1>2
  <2>3. CASE j >= i
    <3>1. j + 1 \in 1 .. (Len(s) + 1) /\ r[j + 1] = x
      BY <2>1, <2>3, <1>0, <1>1
    <3> QED
      BY <3>1, <1>2
  <2> QED
    BY <2>2, <2>3
<1>5. e \in ToSet(r)
  BY <1>0, <1>1, <1>2
<1> QED
  BY <1>1, <1>3, <1>4, <1>5 DEF r

\* create_acl: the entry is in the list, others come from the list that it was, and of
\* those only one like it may be gone.
LEMMA CreateAclSet ==
  ASSUME NEW l \in Seq(Acl), NEW a \in Acl
  PROVE  /\ CreateAcl(l, a) \in Seq(Acl)
         /\ ToSet(CreateAcl(l, a)) \subseteq ToSet(l) \cup {a}
         /\ a \in ToSet(CreateAcl(l, a))
         /\ \A b \in ToSet(l) : ~Same(b, a) => b \in ToSet(CreateAcl(l, a))
<1> DEFINE old == FindAcl(l, a)
           kept == IF old = {} THEN l ELSE RemoveAt(l, Min(old))
           after == {i \in DOMAIN kept : kept[i].rule > a.rule}
           new == IF after = {} THEN Append(kept, a) ELSE InsertAt(kept, Min(after), a)
<1>1. old \in SUBSET (1 .. Len(l)) /\ \A i \in old : Same(l[i], a)
  BY DEF FindAcl
<1> HIDE DEF old
<1>2. /\ kept \in Seq(Acl) /\ ToSet(kept) \subseteq ToSet(l)
      /\ \A b \in ToSet(l) : ~Same(b, a) => b \in ToSet(kept)
  <2>1. CASE old = {}
    BY <2>1
  <2>2. CASE old # {}
    <3>1. old \in SUBSET Nat
      BY <1>1
    <3>2. Min(old) \in 1 .. Len(l) /\ Same(l[Min(old)], a)
      BY <1>1, <2>2, <3>1, MinOf
    <3>3. /\ RemoveAt(l, Min(old)) \in Seq(Acl)
          /\ ToSet(RemoveAt(l, Min(old))) \subseteq ToSet(l)
          /\ \A x \in ToSet(l) : x # l[Min(old)] => x \in ToSet(RemoveAt(l, Min(old)))
      BY <3>2, RemoveAtSet
    <3> QED
      BY <2>2, <3>2, <3>3
  <2> QED
    BY <2>1, <2>2
<1>3. CreateAcl(l, a) = new
  BY DEF CreateAcl, old
<1> HIDE DEF kept
<1>4. new \in Seq(Acl) /\ ToSet(new) = ToSet(kept) \cup {a}
  <2>1. CASE after = {}
    <3>1. /\ Append(kept, a) \in Seq(Acl) /\ Len(Append(kept, a)) = Len(kept) + 1
          /\ Len(kept) \in Nat /\ Append(kept, a)[Len(kept) + 1] = a
          /\ \A i \in 1 .. Len(kept) : Append(kept, a)[i] = kept[i]
      BY <1>2
    <3>2. ToSet(Append(kept, a)) = ToSet(kept) \cup {a}
      BY <1>2, <3>1 DEF ToSet
    <3> QED
      BY <2>1, <3>1, <3>2
  <2>2. CASE after # {}
    <3>1. after \in SUBSET (1 .. Len(kept)) /\ after \in SUBSET Nat /\ Len(kept) \in Nat
      BY <1>2
    <3> HIDE DEF after
    <3>2. Min(after) \in after
      BY <2>2, <3>1, MinOf
    <3>4. Min(after) \in 1 .. (Len(kept) + 1)
      <4>1. Min(after) \in 1 .. Len(kept)
        BY <3>1, <3>2
      <4> QED
        BY <3>1, <4>1
    <3>3. /\ InsertAt(kept, Min(after), a) \in Seq(Acl)
          /\ ToSet(InsertAt(kept, Min(after), a)) = ToSet(kept) \cup {a}
      BY <1>2, <3>4, InsertAtSet
    <3> QED
      BY <2>2, <3>3
  <2> QED
    BY <2>1, <2>2
<1> HIDE DEF new
<1> QED
  BY <1>2, <1>3, <1>4

\* The entry of the configuration with the class that it gets.
Placing(cl, a) == [a EXCEPT !.cls = ClassOf(cl, a.cls)]
LEMMA PlacingType ==
  ASSUME NEW cl \in [Classes -> Class], NEW a \in ConfAcl
  PROVE  /\ Placing(cl, a) \in ConfAcl /\ Placing(cl, a) \in Acl
         /\ EntryOK(cl, Placing(cl, a))
<1>1. ClassOf(cl, a.cls) \in Classes
  BY DEF ClassOf, ConfAcl, Acl, Classes
<1>2. Placing(cl, a) \in Acl
  BY <1>1 DEF Placing, ConfAcl, Acl
<1>3. /\ Placing(cl, a).cls = ClassOf(cl, a.cls) /\ Placing(cl, a).type = "acl"
      /\ Placing(cl, a).conf = "conf"
  BY <1>1 DEF Placing, ConfAcl, Acl
<1>4. ClassOf(cl, a.cls) \in Others =>
         cl[ClassOf(cl, a.cls)].here /\ ~cl[ClassOf(cl, a.cls)].dead
  BY AdmissionAssumption DEF ClassOf
<1> QED
  BY <1>2, <1>3, <1>4 DEF ConfAcl, EntryOK

\* acl_conf_hook: of the entries that were there those with a configuration are gone,
\* and the others that are there now are of the configuration.
LEMMA ConfiguredSet ==
  ASSUME NEW cl \in [Classes -> Class], NEW l \in Seq(Acl), NEW entries \in Seq(ConfAcl),
         \A a \in ToSet(l) : a.conf = "none" => a.cls = Default
  PROVE  /\ Configured(l, cl, entries) \in Seq(Acl)
         /\ \A a \in ToSet(Configured(l, cl, entries)) :
              EntryOK(cl, a) /\ (a \in ToSet(l) \/ a.type = "acl")
<1> DEFINE kept == Without(l, {a \in ToSet(l) : a.conf # "none"})
           n == Len(entries)
           put(i, m) == CreateAcl(m, Placing(cl, entries[i]))
           is(f) == f = [i \in 0 .. n |-> IF i = 0 THEN kept ELSE put(i, f[i - 1])]
           with == CHOOSE f : is(f)
           fine(m) ==
             /\ m \in Seq(Acl)
             /\ \A a \in ToSet(m) : EntryOK(cl, a) /\ (a \in ToSet(l) \/ a.type = "acl")
<1>1. Configured(l, cl, entries) = with[n]
  BY Zenon DEF Configured, Placing
<1>2. n \in Nat /\ \A i \in 1 .. n : entries[i] \in ConfAcl
  OBVIOUS
<1> HIDE DEF n
<1>3. fine(kept)
  <2>1. kept \in Seq(Acl) /\ ToSet(kept) = ToSet(l) \ {a \in ToSet(l) : a.conf # "none"}
    BY WithoutProperties
  <2> HIDE DEF kept
  <2>2. ASSUME NEW a \in ToSet(kept)
        PROVE  EntryOK(cl, a) /\ a \in ToSet(l)
    <3>1. a \in ToSet(l) /\ a.conf = "none" /\ a.cls = Default /\ Default \notin Others
      BY <2>1, AdmissionAssumption
    <3> QED
      BY <3>1 DEF EntryOK
  <2> QED
    BY <2>1, <2>2
<1>4. ASSUME NEW i \in 1 .. n, NEW m, fine(m)
      PROVE  fine(put(i, m))
  <2> DEFINE e == Placing(cl, entries[i])
  <2>1. e \in ConfAcl /\ e \in Acl /\ EntryOK(cl, e)
    BY <1>2, PlacingType
  <2> HIDE DEF e
  <2>2. m \in Seq(Acl)
    BY <1>4
  <2>3. CreateAcl(m, e) \in Seq(Acl) /\ ToSet(CreateAcl(m, e)) \subseteq ToSet(m) \cup {e}
    BY <2>1, <2>2, CreateAclSet
  <2>4. e.type = "acl"
    BY <2>1 DEF ConfAcl
  <2>5. ASSUME NEW a \in ToSet(CreateAcl(m, e))
        PROVE  EntryOK(cl, a) /\ (a \in ToSet(l) \/ a.type = "acl")
    BY <1>4, <2>1, <2>3, <2>4
  <2>6. fine(CreateAcl(m, e))
    BY <2>3, <2>5
  <2> QED
    BY <2>6 DEF e
<1>5. \E f : is(f)
  <2> DEFINE X == {m \in Seq(Acl) : fine(m)}
             step == [i \in 1 .. n |-> [m \in X |-> put(i, m)]]
  <2>1. kept \in X
    BY <1>3
  <2>2. \A i \in 1 .. n, m \in X : put(i, m) \in X
    <3> HIDE DEF put
    <3> QED
      BY <1>4
  <2> HIDE DEF X, put, kept
  <2>3. step \in [1 .. n -> [X -> X]]
    BY <2>2
  <2>4. \A i \in 1 .. n, m \in X : step[i][m] = put(i, m)
    OBVIOUS
  <2> HIDE DEF step
  <2>10. PICK f : Results(f, X, n, kept, step)
    BY <1>2, <2>1, <2>3, Iterated
  <2>5. f \in [0 .. n -> X] /\ f[0] = kept /\ \A i \in 1 .. n : f[i] = step[i][f[i - 1]]
    BY <2>10 DEF Results
  <2>6. ASSUME NEW i \in 0 .. n
        PROVE  f[i] = IF i = 0 THEN kept ELSE put(i, f[i - 1])
    <3>1. CASE i = 0
      BY <2>5, <3>1
    <3>2. CASE i # 0
      <4>1. i \in 1 .. n /\ i - 1 \in 0 .. n
        BY <1>2, <3>2
      <4>2. f[i - 1] \in X
        BY <2>5, <4>1
      <4> QED
        BY <2>4, <2>5, <3>2, <4>1, <4>2
    <3> QED
      BY <3>1, <3>2
  <2>7. f = [i \in 0 .. n |-> f[i]]
    BY <2>5
  <2>8. is(f)
    BY <2>6, <2>7
  <2> QED
    BY <2>8
<1>6. is(with)
  <2> HIDE DEF is
  <2> QED
    BY <1>5
<1> HIDE DEF with
<1>7. with[0] = kept /\ \A i \in 1 .. n : with[i] = put(i, with[i - 1])
  <2> HIDE DEF put, kept
  <2> QED
    BY <1>2, <1>6
<1> DEFINE T == {i \in 0 .. n : fine(with[i])}
<1>8. 0 \in T
  <2> HIDE DEF fine
  <2> QED
    BY <1>2, <1>3, <1>7
<1>9. ASSUME NEW i \in 1 .. n, i - 1 \in T
      PROVE  i \in T
  <2> HIDE DEF fine, put
  <2>1. fine(with[i - 1]) /\ i \in 0 .. n
    BY <1>2, <1>9
  <2>2. fine(put(i, with[i - 1]))
    BY <2>1, <1>4
  <2> QED
    BY <2>1, <2>2, <1>7
<1>10. n \in T
  <2> HIDE DEF T
  <2>1. n \in Nat /\ n \in 0 .. n
    BY <1>2
  <2>2. \A i \in 1 .. n : i - 1 \in T => i \in T
    BY <1>9
  <2>3. \A i \in 0 .. n : i \in T
    BY ONLY <2>1, <2>2, <1>8, InductionUpto
  <2> QED
    BY <2>1, <2>3
<1> QED
  BY <1>1, <1>10

-----------------------------------------------------------------------------
(* Checks                                                                  *)

\* Whoever is not refused is not refused either when there is more room: an entry that
\* comes to decide admits.
LEMMA StaysAdmitted ==
  ASSUME NEW h \in States, NEW g \in States, NEW l \in Seq(Acl), NEW s \in Stages, NEW c \in Slots,
         g.conn[c].host = h.conn[c].host,
         \A k \in Classes : g.class[k].max = h.class[k].max /\ g.class[k].clients <= h.class[k].clients,
         ~RefusedBy(h, l, s, c)
  PROVE  ~RefusedBy(g, l, s, c)
<1> DEFINE was == Deciding(h, l, s, c)
           is == Deciding(g, l, s, c)
<1>1. was \in SUBSET (1 .. Len(l)) /\ is \in SUBSET (1 .. Len(l))
  BY DEF Deciding
<1>2. was \subseteq is
  <2>1. ASSUME NEW k \in Classes, HasRoom(h, s, k)
        PROVE  HasRoom(g, s, k)
    <3>1. /\ h.class[k].max \in Nat /\ h.class[k].clients \in Int
          /\ g.class[k].max \in Nat /\ g.class[k].clients \in Int
      BY DEF States, Class
    <3> QED
      BY <2>1, <3>1 DEF HasRoom
  <2>2. ASSUME NEW i \in was
        PROVE  i \in is
    <3>1. i \in DOMAIN l
      BY DEF Deciding
    <3>2. l[i] \in Acl
      BY <3>1
    <3>3. l[i].cls \in Classes
      BY <3>2 DEF Acl
    <3> QED
      BY <2>1, <3>1, <3>3 DEF Deciding
  <2> QED
    BY <2>2
<1>3. \A i \in is : l[i].deny => i \in was
  BY DEF Deciding
<1>4. SUFFICES ASSUME RefusedBy(g, l, s, c)
               PROVE  RefusedBy(h, l, s, c)
  OBVIOUS
<1> HIDE DEF was, is
<1>5. CASE is = {}
  <2>1. was = {}
    BY <1>2, <1>5
  <2> QED
    BY <1>4, <1>5, <2>1 DEF RefusedBy, was, is
<1>6. CASE is # {}
  <2>1. l[Min(is)].deny
    BY <1>4, <1>6 DEF RefusedBy, is
  <2>2. Min(is) \in is /\ is \in SUBSET Nat /\ was \in SUBSET Nat
    BY <1>1, <1>6, MinOf
  <2>3. Min(is) \in was
    BY <1>3, <2>1, <2>2
  <2>4. Min(was) \in was /\ Min(was) <= Min(is)
    BY <2>2, <2>3, MinOf
  <2>5. Min(is) <= Min(was)
    BY <1>2, <1>6, <2>2, <2>4, MinOf
  <2>6. Min(is) = Min(was)
    <3>1. Min(is) \in Nat /\ Min(was) \in Nat
      BY <2>2, <2>4
    <3> QED
      BY <2>4, <2>5, <3>1
  <2> QED
    BY <2>1, <2>3, <2>6 DEF RefusedBy, was
<1> QED
  BY <1>5, <1>6

\* What destroy_connection gives, also of a slot that is free.
LEMMA DestroyedType ==
  ASSUME NEW h \in States, NEW c \in Slots
  PROVE  Destroyed(h, c) \in States
<1> DEFINE k == h.conn[c].cls
           cl == [h.class EXCEPT ![k].clients = @ - 1]
           new == IF cl[k].clients = 0 /\ cl[k].dead THEN DestroyClass(cl, k) ELSE cl
           d == DelFromClass(h, c)
           li == [l \in Lists |-> Without(h.list[l], {c})]
<1>1. /\ h.class \in [Classes -> Class] /\ h.conn \in [Slots -> Connection]
      /\ h.list \in [Lists -> Seq(Slots)] /\ k \in Classes \cup {NoClass}
  BY DEF States, Connection
<1>2. cl \in [Classes -> Class]
  <2>1. ASSUME NEW j \in Classes
        PROVE  cl[j] \in Class
    BY <1>1 DEF Class
  <2> QED
    BY <1>1, <2>1
<1> HIDE DEF cl
<1>3. new \in [Classes -> Class]
  <2>1. DestroyClass(cl, k) \in [Classes -> Class]
    <3> DEFINE z == [cl EXCEPT ![k].dead = TRUE, ![k].here = cl[k].clients # 0]
    <3>1. z \in [Classes -> Class]
      <4>1. DOMAIN z = Classes /\ z = [j \in Classes |-> z[j]]
        BY <1>2
      <4>2. ASSUME NEW j \in Classes
            PROVE  z[j] \in Class
        <5>1. cl[j] \in Class
          BY <1>2
        <5>2. z[j] = IF j = k THEN [[cl[k] EXCEPT !.dead = TRUE] EXCEPT !.here = cl[k].clients # 0]
                     ELSE cl[j]
          BY <1>2
        <5> HIDE DEF z
        <5>3. CASE j = k
          <6>1. [[cl[j] EXCEPT !.dead = TRUE] EXCEPT !.here = cl[j].clients # 0] \in Class
            BY <5>1 DEF Class
          <6> QED
            BY <5>2, <5>3, <6>1
        <5> QED
          BY <5>1, <5>2, <5>3
      <4> HIDE DEF z
      <4> QED
        BY <4>1, <4>2
    <3> HIDE DEF z
    <3> QED
      BY <1>2, <3>1 DEF DestroyClass, z
  <2> QED
    BY <1>2, <2>1
<1>4. d = [h EXCEPT !.class = new, !.conn[c].cls = NoClass]
  BY DEF DelFromClass, cl
<1> HIDE DEF new
<1>5. /\ [h.conn EXCEPT ![c].cls = NoClass] \in [Slots -> Connection]
      /\ Unused \in Connection
  <2>1. [h.conn[c] EXCEPT !.cls = NoClass] \in Connection /\ Hosts # {}
    BY <1>1 DEF Connection
  <2> QED
    BY <1>1, <2>1, UnusedType
<1>6. d \in States /\ d.list = h.list
  BY <1>1, <1>3, <1>4, <1>5 DEF States
<1> HIDE DEF d
<1>7. li \in [Lists -> Seq(Slots)]
  <2>1. ASSUME NEW l \in Lists
        PROVE  li[l] \in Seq(Slots)
    <3>1. h.list[l] \in Seq(Slots)
      BY <1>1
    <3> QED
      BY <3>1, WithoutProperties
  <2> HIDE DEF li
  <2> QED
    BY <2>1 DEF li
<1>8. Unlisted(d, c) = [d EXCEPT !.list = li]
  BY <1>1, <1>6 DEF Unlisted
<1> HIDE DEF li
<1>9. Unlisted(d, c) \in States /\ Unlisted(d, c).conn = d.conn
  BY <1>6, <1>7, <1>8 DEF States
<1>10. [Unlisted(d, c).conn EXCEPT ![c] = Unused] \in [Slots -> Connection]
  BY <1>5, <1>9 DEF States
<1>11. Destroyed(h, c) = [Unlisted(d, c) EXCEPT !.conn = [Unlisted(d, c).conn EXCEPT ![c] = Unused]]
  BY DEF Destroyed, d
<1> QED
  BY <1>9, <1>10, <1>11 DEF States

\* What the check of the first i connections of a list q gives.
CheckedUpto(h, n, l, s, q, i, g) ==
    /\ Sound(g, n) /\ Grows(h, g)
    /\ ToSet(g.list[Waiting[s]]) \subseteq ToSet(q)
    /\ \A j \in 1 .. Len(q) : j > i => q[j] \in ToSet(g.list[Waiting[s]])
    /\ \A j \in 1 .. Len(q) :
        j <= i /\ q[j] \in ToSet(g.list[Waiting[s]]) => ~RefusedBy(g, l, s, q[j])

\* One more is asked about, and destroyed if it is refused.
LEMMA AskedNext ==
  ASSUME NEW h \in States, NEW n \in Nat, NEW l \in Seq(Acl), NEW s \in Stages,
         NEW q \in Seq(Slots), IsInjective(q), NEW i \in 1 .. Len(q),
         NEW f, CheckedUpto(h, n, l, s, q, i - 1, f)
  PROVE  CheckedUpto(h, n, l, s, q, i, Asked(f, l, s, q[i]))
<1> DEFINE c == q[i]
           W == Waiting[s]
           g == Destroyed(f, c)
<1>1. /\ c \in Slots /\ W \in Lists /\ f \in States /\ Len(q) \in Nat
      /\ \A j \in 1 .. Len(q) : q[j] \in Slots /\ (q[j] = c => j = i)
  BY DEF Stages, Waiting, Lists, CheckedUpto, Sound, IsInjective
<1>2. /\ Sound(f, n) /\ Grows(h, f) /\ ToSet(f.list[W]) \subseteq ToSet(q)
      /\ \A j \in 1 .. Len(q) : j >= i => q[j] \in ToSet(f.list[W])
      /\ \A j \in 1 .. Len(q) : j < i /\ q[j] \in ToSet(f.list[W]) => ~RefusedBy(f, l, s, q[j])
  BY DEF CheckedUpto
<1> HIDE DEF W, c
<1>3. CASE ~RefusedBy(f, l, s, c)
  <2>1. Asked(f, l, s, c) = f
    BY <1>3 DEF Asked
  <2>2. \A j \in 1 .. Len(q) : j <= i /\ q[j] \in ToSet(f.list[W]) => ~RefusedBy(f, l, s, q[j])
    <3> TAKE j \in 1 .. Len(q)
    <3>1. CASE j < i
      BY <1>2, <3>1
    <3>2. CASE j = i
      BY <1>3, <3>2 DEF c
    <3> QED
      BY <3>1, <3>2
  <2>3. CheckedUpto(h, n, l, s, q, i, f)
    BY <1>2, <2>2 DEF CheckedUpto, W
  <2> QED
    BY <2>1, <2>3 DEF c
<1>4. CASE RefusedBy(f, l, s, c)
  <2>1. Asked(f, l, s, c) = g
    BY <1>4 DEF Asked
  <2>2. f.conn[c].cls # NoClass
    <3>1. c \in ToSet(f.list[W])
      BY <1>2 DEF c
    <3> QED
      BY <1>1, <1>2, <3>1 DEF Sound, Placement, IsListed
  <2>3. CountsOf(f, n) /\ ListedOnce(f) /\ PlacementBut(f, c)
    BY <1>2 DEF Sound, Placement, PlacementBut
  <2>4. /\ Sound(g, n) /\ Grows(f, g)
        /\ \A k \in Classes : g.class[k].clients <= f.class[k].clients
        /\ \A d \in Slots \ {c} : g.conn[d] = f.conn[d]
        /\ \A m \in Lists : ToSet(g.list[m]) = ToSet(f.list[m]) \ {c}
    BY <1>1, <2>2, <2>3, DestroyedSound
  <2> HIDE DEF g
  <2>5. g \in States
    BY <2>4 DEF Sound
  <2>6. Grows(h, g)
    BY <1>2, <2>4 DEF Grows
  <2>7. ToSet(g.list[W]) = ToSet(f.list[W]) \ {c}
    BY <1>1, <2>4
  <2>8. \A j \in 1 .. Len(q) : j > i => q[j] \in ToSet(g.list[W])
    BY <1>1, <1>2, <2>7
  <2>9. ASSUME NEW j \in 1 .. Len(q), j <= i, q[j] \in ToSet(g.list[W])
        PROVE  ~RefusedBy(g, l, s, q[j])
    <3>1. q[j] # c /\ j < i /\ q[j] \in Slots
      BY <1>1, <2>7, <2>9 DEF c
    <3>2. ~RefusedBy(f, l, s, q[j])
      BY <1>2, <2>7, <2>9, <3>1
    <3>3. \A k \in Classes : g.class[k].max = f.class[k].max
      BY <2>4 DEF Grows
    <3>4. g.conn[q[j]].host = f.conn[q[j]].host
      BY <2>4, <3>1
    <3> QED
      BY <1>1, <2>4, <2>5, <3>1, <3>2, <3>3, <3>4, StaysAdmitted
  <2>10. CheckedUpto(h, n, l, s, q, i, g)
    BY <1>2, <2>4, <2>6, <2>7, <2>8, <2>9 DEF CheckedUpto, W
  <2> QED
    BY <2>1, <2>10 DEF c
<1> QED
  BY <1>3, <1>4

\* acl_force_check: everything stays sound, and nobody is left whom the list refuses.
LEMMA CheckedSound ==
  ASSUME NEW h, NEW n \in Nat, Sound(h, n), NEW l \in Seq(Acl), NEW s \in Stages
  PROVE  /\ Sound(Checked(h, l, s), n) /\ Grows(h, Checked(h, l, s))
         /\ \A c \in ToSet(Checked(h, l, s).list[Waiting[s]]) : ~RefusedBy(Checked(h, l, s), l, s, c)
<1> DEFINE q == h.list[Waiting[s]]
           n2 == Len(q)
           put(i, m) == Asked(m, l, s, q[i])
           is(f) == f = [i \in 0 .. n2 |-> IF i = 0 THEN h ELSE put(i, f[i - 1])]
           after == CHOOSE f : is(f)
           fine(i, m) == CheckedUpto(h, n, l, s, q, i, m)
<1>1. Checked(h, l, s) = after[n2]
  BY Zenon DEF Checked
<1>2. h \in States /\ Waiting[s] \in Lists /\ q \in Seq(Slots) /\ IsInjective(q)
  <2>1. h \in States /\ Waiting[s] \in Lists /\ ListedOnce(h)
    BY DEF Sound, Stages, Waiting, Lists
  <2> QED
    BY <2>1 DEF States, ListedOnce
<1> HIDE DEF q
<1>3. n2 \in Nat /\ \A i \in 1 .. n2 : q[i] \in Slots
  BY <1>2
<1>4. fine(0, h)
  <2>1. Grows(h, h)
    BY DEF Grows
  <2>2. \A j \in 1 .. Len(q) : q[j] \in ToSet(q)
    BY <1>2 DEF ToSet
  <2>3. \A j \in 1 .. Len(q) : ~(j <= 0)
    BY <1>3
  <2> QED
    BY <2>1, <2>2, <2>3 DEF CheckedUpto, q
<1>5. ASSUME NEW i \in 1 .. n2, NEW m, fine(i - 1, m)
      PROVE  fine(i, put(i, m))
  BY <1>2, <1>5, AskedNext
<1>6. ASSUME NEW i \in 1 .. n2, NEW m \in States
      PROVE  put(i, m) \in States
  BY <1>3, DestroyedType DEF Asked
<1> HIDE DEF n2, put
<1>7. \E f : is(f)
  <2> DEFINE step == [i \in 1 .. n2 |-> [m \in States |-> put(i, m)]]
  <2>1. step \in [1 .. n2 -> [States -> States]]
    BY <1>6
  <2>2. \A i \in 1 .. n2, m \in States : step[i][m] = put(i, m)
    OBVIOUS
  <2> HIDE DEF step
  <2>3. PICK f : Results(f, States, n2, h, step)
    BY <1>2, <1>3, <2>1, Iterated
  <2>4. /\ f \in [0 .. n2 -> States] /\ f[0] = h
        /\ \A i \in 1 .. n2 : f[i] = step[i][f[i - 1]]
    BY <2>3 DEF Results
  <2>5. ASSUME NEW i \in 0 .. n2
        PROVE  f[i] = IF i = 0 THEN h ELSE put(i, f[i - 1])
    <3>1. CASE i = 0
      BY <2>4, <3>1
    <3>2. CASE i # 0
      <4>1. i \in 1 .. n2 /\ i - 1 \in 0 .. n2
        BY <1>3, <3>2
      <4>2. f[i - 1] \in States
        BY <2>4, <4>1
      <4> QED
        BY <2>2, <2>4, <3>2, <4>1, <4>2
    <3> QED
      BY <3>1, <3>2
  <2>6. f = [i \in 0 .. n2 |-> f[i]]
    BY <2>4
  <2>7. is(f)
    BY <2>5, <2>6
  <2> QED
    BY <2>7
<1>8. is(after)
  <2> HIDE DEF is
  <2> QED
    BY <1>7
<1> HIDE DEF after
<1>9. after[0] = h /\ \A i \in 1 .. n2 : after[i] = put(i, after[i - 1])
  BY <1>3, <1>8
<1> HIDE DEF fine
<1> DEFINE T == {i \in 0 .. n2 : fine(i, after[i])}
<1>10. 0 \in T
  BY <1>3, <1>4, <1>9
<1>11. ASSUME NEW i \in 1 .. n2, i - 1 \in T
       PROVE  i \in T
  <2>1. fine(i - 1, after[i - 1]) /\ i \in 0 .. n2
    BY <1>3, <1>11
  <2>2. fine(i, put(i, after[i - 1]))
    BY <2>1, <1>5
  <2> QED
    BY <2>1, <2>2, <1>9
<1>12. fine(n2, after[n2])
  <2> HIDE DEF T
  <2>1. n2 \in Nat /\ n2 \in 0 .. n2
    BY <1>3
  <2>2. \A i \in 1 .. n2 : i - 1 \in T => i \in T
    BY <1>11
  <2>3. \A i \in 0 .. n2 : i \in T
    BY ONLY <2>1, <2>2, <1>10, InductionUpto
  <2>4. n2 \in T
    BY <2>1, <2>3
  <2> QED
    BY <2>4 DEF T
<1> DEFINE g == after[n2]
<1>13. /\ Sound(g, n) /\ Grows(h, g) /\ ToSet(g.list[Waiting[s]]) \subseteq ToSet(q)
       /\ \A j \in 1 .. n2 : q[j] \in ToSet(g.list[Waiting[s]]) => ~RefusedBy(g, l, s, q[j])
  BY <1>3, <1>12 DEF fine, CheckedUpto, n2
<1>14. ASSUME NEW c \in ToSet(g.list[Waiting[s]])
       PROVE  ~RefusedBy(g, l, s, c)
  <2>1. PICK j \in 1 .. n2 : q[j] = c
    <3>1. c \in ToSet(q) /\ DOMAIN q = 1 .. n2
      BY <1>2, <1>13, <1>14 DEF n2
    <3> QED
      BY <3>1 DEF ToSet
  <2> QED
    BY <1>13, <1>14, <2>1
<1> QED
  BY <1>1, <1>13, <1>14

-----------------------------------------------------------------------------
(* The throttle                                                            *)

\* There are no fewer connections in a longer time, nor after another one; and one more
\* when that is within the time.
LEMMA WithinGrows ==
  ASSUME NEW ts \in Seq(Int), NEW x \in Int, NEW a \in Int, NEW b \in Int
  PROVE  /\ Cardinality(Within(ts, a, b)) \in Nat
         /\ Cardinality(Within(ts, a, b)) <= Cardinality(Within(Append(ts, x), a, b))
         /\ x \in a .. b =>
              Cardinality(Within(Append(ts, x), a, b)) = Cardinality(Within(ts, a, b)) + 1
         /\ \A c \in Int, d \in Int : c <= a /\ b <= d =>
              Cardinality(Within(ts, a, b)) <= Cardinality(Within(ts, c, d))
<1> DEFINE n == Len(ts)
           us == Append(ts, x)
           I == Within(ts, a, b)
           J == Within(us, a, b)
<1>1. /\ n \in Nat /\ DOMAIN ts = 1 .. n /\ DOMAIN us = 1 .. (n + 1) /\ us[n + 1] = x
      /\ \A i \in 1 .. n : us[i] = ts[i] /\ ts[i] \in Int
  OBVIOUS
<1> HIDE DEF n, us
<1>2. IsFiniteSet(1 .. (n + 1))
  BY <1>1, FS_Interval
<1>3. I \subseteq 1 .. (n + 1) /\ J \subseteq 1 .. (n + 1) /\ n + 1 \notin I /\ I \subseteq J
  BY <1>1 DEF Within
<1>4. x \in a .. b => J = I \cup {n + 1}
  BY <1>1 DEF Within
<1>5. IsFiniteSet(I) /\ IsFiniteSet(J)
  BY <1>2, <1>3, FS_Subset
<1>6. Cardinality(I) \in Nat /\ Cardinality(I) <= Cardinality(J)
  BY <1>3, <1>5, FS_CardinalityType, FS_Subset
<1>7. x \in a .. b => Cardinality(J) = Cardinality(I) + 1
  BY <1>3, <1>4, <1>5, FS_AddElement
<1>8. ASSUME NEW c \in Int, NEW d \in Int, c <= a /\ b <= d
      PROVE  Cardinality(I) <= Cardinality(Within(ts, c, d))
  <2>1. I \subseteq Within(ts, c, d) /\ Within(ts, c, d) \subseteq 1 .. (n + 1)
    BY <1>1, <1>8 DEF Within
  <2>2. IsFiniteSet(Within(ts, c, d))
    BY <1>2, <2>1, FS_Subset
  <2> QED
    BY <2>1, <2>2, FS_Subset
<1> QED
  BY <1>6, <1>7, <1>8 DEF us

\* A ban has a first stage.
LEMMA StagesOfBans == Len(Lengths) \in Nat /\ Len(Lengths) >= 1
<1>1. Lengths \in Seq(Nat \ {0}) /\ Lengths # <<>>
  BY AdmissionAssumption
<1>2. Len(Lengths) \in Nat \ {0}
  BY <1>1, EmptySeq
<1> QED
  BY <1>2

\* How long a ban lasts.
LEMMA LengthType ==
  ASSUME NEW k \in 1 .. Len(Lengths)
  PROVE  Lengths[k] \in Nat /\ Lengths[k] > 0
  BY AdmissionAssumption

\* One more connection is counted, in a time that is not over.
LEMMA CountedOK ==
  ASSUME now \in Nat, NEW t \in Throttle, NEW ts \in Seq(Int),
         CountOK(t, ts, now), BanOK(t, ts, now)
  PROVE  /\ Counted(t) \in Throttle /\ now - Counted(t).first <= TriggerTime
         /\ CountOK(Counted(t), Append(ts, now), now) /\ BanOK(Counted(t), Append(ts, now), now)
         /\ Counted(t).banned # 0 => Counted(t).banned = t.banned /\ Counted(t).stage = t.stage
<1> DEFINE w == Window(t)
           r == Released(w)
           u == Counted(t)
<1>1. /\ TriggerTime \in Nat /\ Cache \in Nat /\ TriggerCount \in Nat
      /\ t.first \in Nat /\ t.count \in Nat /\ t.banned \in Nat /\ t.timer \in Nat
      /\ t.stage \in 0 .. Len(Lengths) /\ Len(Lengths) \in Nat
  BY AdmissionAssumption DEF Throttle
<1>2. \A a, b \in Int : Cardinality(Within(ts, a, b)) \in Nat
  BY WithinGrows
<1>3. /\ w \in Throttle /\ now - w.first <= TriggerTime /\ CountOK(w, ts, now)
      /\ w.banned = t.banned /\ w.stage = t.stage
  <2>1. CASE now - t.first > TriggerTime
    <3>1. w = [t EXCEPT !.first = now, !.count = 0]
      BY <2>1 DEF Window
    <3> HIDE DEF w
    <3>2. /\ w \in Throttle /\ w.first = now /\ w.count = 0
          /\ w.banned = t.banned /\ w.stage = t.stage
      BY <3>1, now \in Nat DEF Throttle
    <3>3. Cardinality(Within(ts, now, now)) \in Nat
      BY <1>2
    <3> QED
      BY <3>2, <3>3, <1>1 DEF CountOK
  <2>2. CASE ~(now - t.first > TriggerTime)
    <3>1. w = t
      BY <2>2 DEF Window
    <3> QED
      BY <2>2, <3>1, <1>1
  <2> QED
    BY <2>1, <2>2
<1> HIDE DEF w
<1>4. /\ r \in Throttle /\ now - r.first <= TriggerTime /\ CountOK(r, ts, now)
      /\ r.banned # 0 => r.banned = t.banned /\ r.stage = t.stage
  <2>1. CASE w.banned # 0 /\ w.banned + Lengths[w.stage] < now
    <3>1. r = [w EXCEPT !.banned = 0, !.first = now, !.count = 0, !.timer = now + Cache]
      BY <2>1 DEF Released
    <3> HIDE DEF r
    <3>4. w \in Throttle /\ now + Cache \in Nat
      BY <1>1, <1>3
    <3>2. r \in Throttle /\ r.first = now /\ r.count = 0 /\ r.banned = 0
      BY <3>1, <3>4, now \in Nat DEF Throttle
    <3>3. Cardinality(Within(ts, now, now)) \in Nat
      BY <1>2
    <3> QED
      BY <3>2, <3>3, <1>1 DEF CountOK
  <2>2. CASE ~(w.banned # 0 /\ w.banned + Lengths[w.stage] < now)
    <3>1. r = w
      BY <2>2 DEF Released
    <3> QED
      BY <3>1, <1>3
  <2> QED
    BY <2>1, <2>2
<1>5. u = [r EXCEPT !.count = @ + 1]
  BY DEF Counted, w
<1> HIDE DEF r, u
<1>6. /\ u \in Throttle /\ u.first = r.first /\ u.count = r.count + 1
      /\ u.banned = r.banned /\ u.stage = r.stage /\ r.first \in Nat /\ r.count \in Nat
  <2>1. r \in Throttle
    BY <1>4
  <2>2. r.first \in Nat /\ r.count \in Nat
    BY <2>1 DEF Throttle
  <2> DEFINE v == r.count + 1
  <2>3. v \in Nat /\ v = r.count + 1 /\ u = [r EXCEPT !.count = v]
    BY <1>5, <2>2
  <2> HIDE DEF v
  <2>4. u \in Throttle /\ u.first = r.first /\ u.count = v /\ u.banned = r.banned /\ u.stage = r.stage
    BY <2>1, <2>3 DEF Throttle
  <2> QED
    BY <2>2, <2>3, <2>4
<1>7. CountOK(u, Append(ts, now), now)
  <2>1. r.first <= now /\ r.count <= Cardinality(Within(ts, r.first, now))
    BY <1>4 DEF CountOK
  <2>2. now \in r.first .. now
    BY <1>6, <2>1
  <2>3. /\ Cardinality(Within(Append(ts, now), r.first, now)) =
             Cardinality(Within(ts, r.first, now)) + 1
        /\ Cardinality(Within(ts, r.first, now)) \in Nat
    <3>1. r.first \in Int /\ now \in Int
      BY <1>6
    <3> QED
      BY <2>2, <3>1, WithinGrows
  <2> QED
    BY <1>6, <2>1, <2>3 DEF CountOK
<1>8. BanOK(u, Append(ts, now), now)
  <2> SUFFICES ASSUME u.banned # 0
               PROVE  /\ u.stage >= 1 /\ u.banned <= now
                      /\ TriggerCount <=
                           Cardinality(Within(Append(ts, now), u.banned - TriggerTime, u.banned))
    BY DEF BanOK
  <2>1. u.banned = t.banned /\ u.stage = t.stage
    BY <1>4, <1>6
  <2>2. /\ t.stage >= 1 /\ t.banned <= now
        /\ TriggerCount <= Cardinality(Within(ts, t.banned - TriggerTime, t.banned))
    BY <2>1 DEF BanOK
  <2>3. /\ Cardinality(Within(ts, t.banned - TriggerTime, t.banned)) \in Nat
        /\ Cardinality(Within(Append(ts, now), t.banned - TriggerTime, t.banned)) \in Nat
        /\ Cardinality(Within(ts, t.banned - TriggerTime, t.banned)) <=
             Cardinality(Within(Append(ts, now), t.banned - TriggerTime, t.banned))
    <3> DEFINE a == t.banned - TriggerTime
               b == t.banned
    <3>1. a \in Int /\ b \in Int /\ now \in Int /\ Append(ts, now) \in Seq(Int)
      BY <1>1
    <3> HIDE DEF a, b
    <3>2. /\ Cardinality(Within(ts, a, b)) \in Nat
          /\ Cardinality(Within(ts, a, b)) <= Cardinality(Within(Append(ts, now), a, b))
      BY <3>1, WithinGrows
    <3>3. Cardinality(Within(Append(ts, now), a, b)) \in Nat
      BY <3>1, WithinGrows
    <3> QED
      BY <3>2, <3>3 DEF a, b
  <2> QED
    BY <1>1, <2>1, <2>2, <2>3
<1> QED
  BY <1>4, <1>6, <1>7, <1>8 DEF u

\* The record after one more connection: as many have been counted as there were, and a
\* ban has its cause.
LEMMA FollowingOK ==
  ASSUME now \in Nat, NEW t \in Throttle, NEW ts \in Seq(Int),
         CountOK(t, ts, now), BanOK(t, ts, now)
  PROVE  /\ Following(t) \in Throttle
         /\ CountOK(Following(t), Append(ts, now), now)
         /\ BanOK(Following(t), Append(ts, now), now)
         /\ ~Hit(t) /\ Following(t).banned # 0 =>
              Following(t).banned = t.banned /\ Following(t).stage = t.stage
<1> DEFINE u == Counted(t)
           us == Append(ts, now)
           f == Banned(u)
           again == Min({u.stage + 1, Len(Lengths)})
           stage == IF u.banned = 0 THEN 1 ELSE again
<1>1. /\ u \in Throttle /\ now - u.first <= TriggerTime /\ CountOK(u, us, now) /\ BanOK(u, us, now)
      /\ u.banned # 0 => u.banned = t.banned /\ u.stage = t.stage
  BY CountedOK
<1>2. CASE ~Hit(t)
  BY <1>1, <1>2 DEF Following
<1>3. CASE Hit(t)
  <2>1. Following(t) = f /\ u.count >= TriggerCount
    BY <1>3 DEF Following, Hit
  <2> HIDE DEF u
  <2>2. /\ TriggerTime \in Nat /\ Cache \in Nat /\ TriggerCount \in Nat
        /\ u.first \in Nat /\ u.count \in Nat /\ u.banned \in Nat /\ u.timer \in Nat
        /\ u.stage \in 0 .. Len(Lengths) /\ Len(Lengths) \in Nat /\ Len(Lengths) >= 1
    <3>1. u \in Throttle
      BY <1>1
    <3>2. /\ u.first \in Nat /\ u.count \in Nat /\ u.banned \in Nat /\ u.timer \in Nat
          /\ u.stage \in 0 .. Len(Lengths)
      BY <3>1 DEF Throttle
    <3>3. TriggerTime \in Nat /\ Cache \in Nat /\ TriggerCount \in Nat
      BY AdmissionAssumption
    <3> QED
      BY <3>2, <3>3, StagesOfBans
  <2>3. again \in 1 .. Len(Lengths)
    <3> DEFINE T == {u.stage + 1, Len(Lengths)}
    <3>1. T \in SUBSET Nat /\ T # {} /\ \A i \in T : i >= 1
      BY <2>2
    <3>2. Len(Lengths) \in T
      OBVIOUS
    <3> HIDE DEF T
    <3>3. Min(T) \in T /\ Min(T) <= Len(Lengths)
      BY <3>1, <3>2, MinOf
    <3>4. Min(T) \in Nat /\ Min(T) >= 1
      BY <3>1, <3>3
    <3> QED
      BY <2>2, <3>3, <3>4 DEF T
  <2> HIDE DEF again
  <2>4. stage \in 1 .. Len(Lengths) /\ stage \in 0 .. Len(Lengths) /\ stage >= 1
    BY <2>2, <2>3
  <2> DEFINE since == IF u.banned = 0 THEN now ELSE u.banned
             time == IF Lengths[stage] > Cache THEN now + Lengths[stage] ELSE u.timer
  <2>5. f = [first |-> 0, count |-> 0, banned |-> since, stage |-> stage, timer |-> time]
    BY DEF Banned, again
  <2> HIDE DEF stage
  <2>6. since \in Nat /\ time \in Nat
    <3>1. Lengths[stage] \in Nat
      BY <2>4, LengthType
    <3> QED
      BY <2>2, <3>1
  <2> HIDE DEF since, time, f
  <2>7. f \in Throttle /\ f.first = 0 /\ f.count = 0 /\ f.banned = since /\ f.stage = stage
    BY <2>4, <2>5, <2>6 DEF Throttle
  <2>8. CountOK(f, us, now)
    <3>1. us \in Seq(Int) /\ now \in Int
      OBVIOUS
    <3> HIDE DEF us
    <3> DEFINE zero == 0
    <3>2. zero \in Int
      OBVIOUS
    <3>3. Cardinality(Within(us, zero, now)) \in Nat
      <4> HIDE DEF zero
      <4> QED
        BY <3>1, <3>2, WithinGrows
    <3> QED
      BY <2>7, <3>3 DEF CountOK
  <2>9. BanOK(f, us, now)
    <3>1. us \in Seq(Int) /\ now \in Int
      OBVIOUS
    <3> HIDE DEF us
    <3>2. CASE u.banned # 0
      <4>1. since = u.banned
        BY <3>2 DEF since
      <4> QED
        BY <1>1, <2>4, <2>7, <3>2, <4>1 DEF BanOK
    <3>3. CASE u.banned = 0
      <4>1. since = now
        BY <3>3 DEF since
      <4>2. u.first <= now /\ u.count <= Cardinality(Within(us, u.first, now))
        BY <1>1 DEF CountOK
      <4>3. /\ now - TriggerTime \in Int /\ u.first \in Int
            /\ now - TriggerTime <= u.first /\ now <= now
        BY <1>1, <2>2
      <4> DEFINE a == now - TriggerTime
      <4> HIDE DEF a
      <4>4. /\ Cardinality(Within(us, u.first, now)) \in Nat /\ Cardinality(Within(us, a, now)) \in Nat
            /\ Cardinality(Within(us, u.first, now)) <= Cardinality(Within(us, a, now))
        <5> DEFINE b == u.first
        <5>1. a \in Int /\ a <= b /\ b \in Int
          BY <4>3 DEF a
        <5> HIDE DEF b
        <5>2. /\ Cardinality(Within(us, b, now)) \in Nat
              /\ Cardinality(Within(us, a, now)) \in Nat
              /\ Cardinality(Within(us, b, now)) <= Cardinality(Within(us, a, now))
          BY <3>1, <5>1, now <= now, WithinGrows
        <5> QED
          BY <5>2 DEF b
      <4>5. TriggerCount <= Cardinality(Within(us, a, now))
        BY <2>1, <2>2, <4>2, <4>4
      <4> QED
        BY <2>4, <2>7, <4>1, <4>5, <3>1 DEF BanOK, a
    <3> QED
      BY <3>2, <3>3
  <2> QED
    BY <1>3, <2>1, <2>7, <2>8, <2>9
<1> QED
  BY <1>2, <1>3

\* The entry of a ban.
BanOf(host, f) ==
    [Entry(TRUE, {host}, "throttle") EXCEPT !.conf = "temp", !.expire = now + Lengths[f.stage]]
LEMMA BanOfType ==
  ASSUME now \in Nat, NEW host \in Hosts, NEW f \in Throttle, f.stage >= 1
  PROVE  /\ BanOf(host, f) \in Acl
         /\ BanOf(host, f).type = "throttle" /\ BanOf(host, f).mask = {host}
         /\ BanOf(host, f).cls = Default /\ BanOf(host, f).conf = "temp"
         /\ BanOf(host, f).expire = now + Lengths[f.stage]
         /\ Lengths[f.stage] \in Nat /\ Lengths[f.stage] > 0
<1>1. f.stage \in 1 .. Len(Lengths)
  BY AdmissionAssumption DEF Throttle
<1>2. Lengths[f.stage] \in Nat /\ Lengths[f.stage] > 0
  BY <1>1, LengthType
<1>3. now + Lengths[f.stage] \in Nat /\ {host} \in SUBSET Hosts /\ Default \in Classes
  BY <1>2 DEF Classes
<1> DEFINE e == Entry(TRUE, {host}, "throttle")
           until == now + Lengths[f.stage]
<1>4. e \in Acl /\ e.type = "throttle" /\ e.mask = {host} /\ e.cls = Default
  BY <1>3 DEF Entry, CommandRule, Acl
<1>5. BanOf(host, f) = [[e EXCEPT !.conf = "temp"] EXCEPT !.expire = until]
  BY DEF BanOf
<1> HIDE DEF e, until
<1>6. until \in Nat
  BY <1>3 DEF until
<1>7. /\ BanOf(host, f) \in Acl
      /\ BanOf(host, f).type = "throttle" /\ BanOf(host, f).mask = {host}
      /\ BanOf(host, f).cls = Default /\ BanOf(host, f).conf = "temp"
      /\ BanOf(host, f).expire = until
  BY <1>4, <1>5, <1>6 DEF Acl
<1> QED
  BY <1>2, <1>7 DEF until

\* It is in the list, and nothing but one like it is gone.
LEMMA BanEntrySet ==
  ASSUME now \in Nat, NEW l \in Seq(Acl), NEW host \in Hosts, NEW f \in Throttle, f.stage >= 1
  PROVE  /\ BanEntry(l, host, f) \in Seq(Acl)
         /\ ToSet(BanEntry(l, host, f)) \subseteq ToSet(l) \cup {BanOf(host, f)}
         /\ BanOf(host, f) \in ToSet(BanEntry(l, host, f))
         /\ \A b \in ToSet(l) : ~Same(b, BanOf(host, f)) => b \in ToSet(BanEntry(l, host, f))
<1> DEFINE a == BanOf(host, f)
           old == FindAcl(l, a)
           m == Min(old)
           t == [l EXCEPT ![m] = a]
<1>1. a \in Acl
  BY BanOfType
<1>2. BanEntry(l, host, f) = IF old = {} THEN CreateAcl(l, a) ELSE t
  BY DEF BanEntry, BanOf
<1>3. old \in SUBSET (1 .. Len(l)) /\ \A i \in old : Same(l[i], a)
  BY DEF FindAcl
<1> HIDE DEF a, old
<1>4. CASE old = {}
  BY <1>1, <1>2, <1>4, CreateAclSet DEF a
<1>5. CASE old # {}
  <2>1. m \in old
    BY <1>3, <1>5, MinOf
  <2>2. m \in 1 .. Len(l) /\ Same(l[m], a)
    BY <1>3, <2>1
  <2> HIDE DEF m
  <2>3. /\ t \in Seq(Acl) /\ DOMAIN t = 1 .. Len(l) /\ DOMAIN l = 1 .. Len(l) /\ t[m] = a
        /\ \A i \in 1 .. Len(l) : i # m => t[i] = l[i]
    BY <1>1, <2>2
  <2> HIDE DEF t
  <2>4. ToSet(t) \subseteq ToSet(l) \cup {a} /\ a \in ToSet(t)
    BY <2>2, <2>3 DEF ToSet
  <2>5. ASSUME NEW b \in ToSet(l), ~Same(b, a)
        PROVE  b \in ToSet(t)
    <3>1. PICK i \in 1 .. Len(l) : l[i] = b
      BY <2>3 DEF ToSet
    <3>2. i # m
      BY <2>2, <2>5, <3>1
    <3> QED
      BY <2>3, <3>1, <3>2 DEF ToSet
  <2> QED
    BY <1>2, <1>5, <2>3, <2>4, <2>5 DEF a, t
<1> QED
  BY <1>4, <1>5

-----------------------------------------------------------------------------
(* Steps                                                                   *)

\* What a handler leaves is the state.
LEMMA BecomesHere ==
  ASSUME NEW h \in States, Becomes(h)
  PROVE  Here' = h
  BY DEF Becomes, Here, States

\* A connection that has a class is in a list.
LEMMA ListedHas ==
  ASSUME NEW h, NEW n, Sound(h, n), NEW c \in Slots
  PROVE  /\ h \in States /\ CountsOf(h, n) /\ ListedOnce(h) /\ PlacementBut(h, c)
         /\ \A l \in Lists : c \in ToSet(h.list[l]) => h.conn[c].cls # NoClass
  BY DEF Sound, Placement, PlacementBut, IsListed

\* Entries stay as sound as they are when no class that is alive dies.
LEMMA EntriesKept ==
  ASSUME NEW h, NEW g, Grows(h, g), NEW ac, EntriesOK(h.class, ac)
  PROVE  EntriesOK(g.class, ac)
  BY DEF Grows, EntriesOK, EntryOK

\* From the list that it is in to another.
LEMMA MovedSound ==
  ASSUME NEW h \in States, NEW n \in Nat, CountsOf(h, n), ListedOnce(h), NEW c \in Slots,
         PlacementBut(h, c), h.conn[c].cls # NoClass, NEW l \in Lists
  PROVE  /\ Sound(Listed(Unlisted(h, c), l, c), n)
         /\ Listed(Unlisted(h, c), l, c).class = h.class
         /\ Listed(Unlisted(h, c), l, c).conn = h.conn
<1> DEFINE u == Unlisted(h, c)
<1>1. /\ u \in States /\ u.class = h.class /\ u.conn = h.conn /\ ListedOnce(u) /\ ~IsListed(u, c)
      /\ \A d \in Slots \ {c} : IsListed(u, d) <=> IsListed(h, d)
  BY UnlistedSound
<1> HIDE DEF u
<1>2. CountsOf(u, n) /\ PlacementBut(u, c)
  BY <1>1, SameClasses DEF PlacementBut
<1>3. /\ Sound(Listed(u, l, c), n)
      /\ Listed(u, l, c).class = u.class /\ Listed(u, l, c).conn = u.conn
  BY <1>1, <1>2, ListedSound
<1> QED
  BY <1>1, <1>3 DEF u

\* acl_stage2_hook, acl_stage3_hook: the class of an entry is there to be joined.
LEMMA PlacedSound ==
  ASSUME NEW n \in Nat, Sound(Here, n), EntriesOK(class, acls), NEW s \in Stages, NEW c \in Slots,
         conn[c].cls # NoClass
  PROVE  /\ Placed(Here, s, c) \in States /\ CountsOf(Placed(Here, s, c), n)
         /\ Placed(Here, s, c).list = list /\ Grows(Here, Placed(Here, s, c))
         /\ Placed(Here, s, c).conn[c].cls # NoClass
         /\ \A d \in Slots \ {c} : Placed(Here, s, c).conn[d] = conn[d]
<1> DEFINE h == Here
           l == acls[s]
           d == Deciding(h, l, s, c)
           k == l[Min(d)].cls
<1>1. /\ h \in States /\ CountsOf(h, n) /\ h.class = class /\ h.conn = conn /\ h.list = list
  BY DEF Sound, Here
<1> HIDE DEF h
<1>2. l \in Seq(Acl) /\ d \in SUBSET (1 .. Len(l)) /\ d \in SUBSET Nat
  <2>1. l \in Seq(Acl)
    BY DEF EntriesOK
  <2> QED
    BY <2>1 DEF Deciding
<1>3. Placed(h, s, c) = IF d = {} THEN h ELSE AddToClass(h, k, c)
  BY DEF Placed
<1> HIDE DEF d
<1>4. CASE d = {}
  BY <1>1, <1>3, <1>4 DEF Grows, h
<1>5. CASE d # {}
  <2>1. Min(d) \in 1 .. Len(l)
    BY <1>2, <1>5, MinOf
  <2>2. l[Min(d)] \in Acl /\ l[Min(d)] \in ToSet(l)
    BY <1>2, <2>1 DEF ToSet
  <2>3. k \in Classes /\ k # NoClass
    BY <2>2, AdmissionAssumption DEF Acl, Classes
  <2>4. k \in Others => class[k].here
    BY <2>2 DEF EntriesOK, EntryOK
  <2>5. class[k].here
    BY <1>1, <2>3, <2>4 DEF CountsOf, Classes
  <2> HIDE DEF k
  <2>6. /\ AddToClass(h, k, c) \in States /\ CountsOf(AddToClass(h, k, c), n)
        /\ AddToClass(h, k, c).list = h.list
        /\ AddToClass(h, k, c).conn = [h.conn EXCEPT ![c].cls = k]
        /\ Grows(h, AddToClass(h, k, c))
    BY <1>1, <2>3, <2>5, AddSound
  <2>7. conn \in [Slots -> Connection]
    BY <1>1 DEF States
  <2>8. /\ AddToClass(h, k, c).conn[c].cls = k
        /\ \A e \in Slots \ {c} : AddToClass(h, k, c).conn[e] = conn[e]
    BY <1>1, <2>6, <2>7 DEF Connection
  <2> QED
    BY <1>1, <1>3, <1>5, <2>3, <2>6, <2>8 DEF h
<1> QED
  BY <1>4, <1>5

\* What a step of a connection leaves is sound, and so are the entries.
Fine(n) == Sound(Here, n) /\ EntriesOK(class, acls)

\* connection_stage2_done and register_client.
LEMMA PassStep ==
  ASSUME NEW n \in Nat, Fine(n), NEW s \in Stages, NEW c \in Slots, NEW l \in Lists,
         NEW m \in Lists, c \in ToSet(list[m]), UNCHANGED acls,
         Becomes(IF RefusedBy(Here, acls[s], s, c) THEN Destroyed(Here, c)
                 ELSE Listed(Unlisted(Placed(Here, s, c), c), l, c))
  PROVE  Sound(Here', n) /\ EntriesOK(class', acls')
<1> DEFINE h == Here
           p == Placed(Here, s, c)
           g == Listed(Unlisted(p, c), l, c)
           d == Destroyed(Here, c)
<1>1. /\ h \in States /\ CountsOf(h, n) /\ ListedOnce(h) /\ PlacementBut(h, c)
      /\ h.conn[c].cls # NoClass /\ h.class = class /\ h.conn = conn /\ h.list = list
  BY ListedHas DEF Fine, Here
<1>2. CASE RefusedBy(Here, acls[s], s, c)
  <2>1. Sound(d, n) /\ Grows(h, d)
    BY <1>1, DestroyedSound
  <2>2. Here' = d
    BY <1>2, <2>1, BecomesHere DEF Sound
  <2> HIDE DEF d, h
  <2>3. EntriesOK(d.class, acls)
    BY <1>1, <2>1, EntriesKept DEF Fine
  <2>4. class' = d.class
    BY <2>2 DEF Here
  <2> QED
    BY <2>1, <2>2, <2>3, <2>4 DEF Fine
<1>3. CASE ~RefusedBy(Here, acls[s], s, c)
  <2>1. /\ p \in States /\ CountsOf(p, n) /\ p.list = list /\ Grows(h, p)
        /\ p.conn[c].cls # NoClass /\ \A e \in Slots \ {c} : p.conn[e] = conn[e]
    BY <1>1, PlacedSound DEF Fine
  <2>2. Becomes(g)
    BY <1>3
  <2> HIDE DEF p, h
  <2>3. ListedOnce(p) /\ PlacementBut(p, c)
    BY <1>1, <2>1 DEF ListedOnce, PlacementBut, IsListed
  <2>4. Sound(g, n) /\ g.class = p.class
    BY <2>1, <2>3, MovedSound
  <2> HIDE DEF g
  <2>5. Here' = g
    BY <2>2, <2>4, BecomesHere DEF Sound
  <2>6. EntriesOK(p.class, acls)
    BY <1>1, <2>1, EntriesKept DEF Fine
  <2>7. class' = g.class
    BY <2>5 DEF Here
  <2> QED
    BY <2>4, <2>5, <2>6, <2>7 DEF Fine
<1> QED
  BY <1>2, <1>3

\* connection_stage2_done.
LEMMA Stage2Step ==
  ASSUME links \in Nat, Fine(links), NEW c \in Slots, Stage2(c)
  PROVE  Sound(Here', links) /\ EntriesOK(class', acls')
<1>1. /\ c \in ToSet(list["stage1"]) /\ UNCHANGED acls
      /\ Becomes(IF RefusedBy(Here, acls[2], 2, c) THEN Destroyed(Here, c)
                 ELSE Listed(Unlisted(Placed(Here, 2, c), c), "stage2", c))
  BY DEF Stage2
<1>2. 2 \in Stages /\ "stage1" \in Lists /\ "stage2" \in Lists
  BY DEF Stages, Lists
<1> QED
  BY <1>1, <1>2, PassStep

\* register_client.
LEMMA RegisterStep ==
  ASSUME links \in Nat, Fine(links), NEW c \in Slots, Register(c)
  PROVE  Sound(Here', links) /\ EntriesOK(class', acls')
<1>1. /\ c \in ToSet(list["stage2"]) /\ UNCHANGED acls
      /\ Becomes(IF RefusedBy(Here, acls[3], 3, c) THEN Destroyed(Here, c)
                 ELSE Listed(Unlisted(Placed(Here, 3, c), c), "clients", c))
  BY DEF Register
<1>2. 3 \in Stages /\ "stage2" \in Lists /\ "clients" \in Lists
  BY DEF Stages, Lists
<1> QED
  BY <1>1, <1>2, PassStep

\* destroy_connection.
LEMMA LeaveStep ==
  ASSUME links \in Nat, Fine(links), NEW c \in Slots, Leave(c)
  PROVE  Sound(Here', links) /\ EntriesOK(class', acls')
<1> DEFINE h == Here
           d == Destroyed(Here, c)
<1>1. /\ h \in States /\ CountsOf(h, links) /\ ListedOnce(h) /\ PlacementBut(h, c)
      /\ h.conn[c].cls # NoClass /\ h.class = class
  BY ListedHas DEF Fine, Here, Leave, Free
<1>2. Sound(d, links) /\ Grows(h, d)
  BY <1>1, DestroyedSound
<1>3. Becomes(d) /\ UNCHANGED acls
  BY DEF Leave
<1> HIDE DEF d, h
<1>4. Here' = d
  BY <1>2, <1>3, BecomesHere DEF Sound
<1>5. EntriesOK(d.class, acls)
  BY <1>1, <1>2, EntriesKept DEF Fine
<1>6. class' = d.class
  BY <1>4 DEF Here
<1> QED
  BY <1>2, <1>3, <1>4, <1>5, <1>6

\* server_register.
LEMMA ServerRegisterStep ==
  ASSUME links \in Nat, Fine(links), NEW c \in Slots, ServerRegister(c)
  PROVE  Sound(Here', links) /\ EntriesOK(class', acls')
<1> DEFINE h == Here
           g == Listed(Unlisted(h, c), "servers", c)
<1>1. /\ h \in States /\ CountsOf(h, links) /\ ListedOnce(h) /\ PlacementBut(h, c)
      /\ h.conn[c].cls # NoClass /\ h.class = class
  <2>1. c \in ToSet(list["stage2"]) /\ "stage2" \in Lists
    BY DEF ServerRegister, Lists
  <2> QED
    BY <2>1, ListedHas DEF Fine, Here
<1>2. Becomes(g) /\ UNCHANGED acls
  BY DEF ServerRegister
<1> HIDE DEF h
<1>3. Sound(g, links) /\ g.class = h.class
  BY <1>1, MovedSound DEF Lists
<1> HIDE DEF g
<1>4. Here' = g
  BY <1>2, <1>3, BecomesHere DEF Sound
<1>5. class' = class
  BY <1>1, <1>3, <1>4 DEF Here
<1> QED
  BY <1>2, <1>3, <1>4, <1>5 DEF Fine

\* server_connect: one more connection whose class does not count it.
LEMMA ServerConnectStep ==
  ASSUME links \in Nat, Fine(links), NEW c \in Slots, NEW host \in Hosts, ServerConnect(c, host)
  PROVE  Sound(Here', links + 1) /\ EntriesOK(class', acls')
<1> DEFINE to == [cls |-> Default, host |-> host, kind |-> "connecting"]
           h == [Here EXCEPT !.conn[c] = to]
           co == [conn EXCEPT ![c] = to]
           old == conn
           g == Listed(h, "stage2", c)
<1>1. /\ Here \in States /\ CountsOf(Here, links) /\ ListedOnce(Here) /\ PlacementBut(Here, c)
      /\ Placement(Here)
  BY ListedHas DEF Fine, Sound
<1>2. /\ class \in [Classes -> Class] /\ conn \in [Slots -> Connection]
      /\ list \in [Lists -> Seq(Slots)] /\ conn[c].cls = NoClass
  BY <1>1 DEF Here, States, ServerConnect, Free
<1>3. to \in Connection /\ Default \in Classes /\ Default # NoClass /\ to.cls = Default
  BY AdmissionAssumption DEF Connection, Classes
<1> HIDE DEF to
<1>4. /\ co \in [Slots -> Connection] /\ co[c].cls = Default
      /\ \A d \in Slots \ {c} : co[d].cls = old[d].cls
  BY <1>2, <1>3
<1>5. h \in States /\ h.class = class /\ h.conn = co /\ h.list = list
  BY <1>2, <1>4 DEF Here, States
<1>6. old \in [Slots -> Connection] /\ old[c].cls = NoClass
  BY <1>2
<1>7. Becomes(g) /\ UNCHANGED acls
  BY DEF ServerConnect, to
<1>8. ~IsListed(Here, c)
  BY <1>1, <1>2 DEF Placement, Here
<1>9. PlacementBut(h, c) /\ ~IsListed(h, c) /\ ListedOnce(h) /\ h.conn[c].cls # NoClass
  <2>1. \A d \in Slots \ {c} : co[d] = conn[d]
    BY <1>2
  <2>2. Here.list = list /\ Here.conn = conn
    BY DEF Here
  <2> HIDE DEF co, h
  <2>3. PlacementBut(h, c)
    BY <1>1, <1>5, <2>1, <2>2 DEF PlacementBut, IsListed
  <2> QED
    BY <1>1, <1>3, <1>4, <1>5, <1>8, <2>2, <2>3 DEF IsListed, ListedOnce
<1> HIDE DEF co, old, h, g
<1>10. ASSUME NEW k \in Classes
       PROVE  /\ Cardinality(Members(old, k)) \in Nat
              /\ k # Default => /\ Cardinality(Members(co, k)) = Cardinality(Members(old, k))
                                /\ Members(co, k) = Members(old, k)
              /\ k = Default => Cardinality(Members(co, k)) = Cardinality(Members(old, k)) + 1
  <2>1. k # NoClass
    BY AdmissionAssumption DEF Classes
  <2>2. /\ Members(co, k) \ {c} = Members(old, k) \ {c}
        /\ c \in Members(co, k) <=> k = Default
        /\ c \notin Members(old, k)
        /\ Cardinality(Members(old, k)) \in Nat
        /\ k # Default => Cardinality(Members(co, k)) = Cardinality(Members(old, k))
        /\ k = Default => Cardinality(Members(co, k)) = Cardinality(Members(old, k)) + 1
    BY <2>1, <1>4, <1>6, MembersMove
  <2> QED
    BY <2>2
<1>11. CountsOf(h, links + 1)
  <2>1. Here.class = class /\ Here.conn = old
    BY DEF Here, old
  <2>2. /\ class[Default].here
        /\ class[Default].clients = Cardinality(Members(co, Default)) - (links + 1)
    BY <1>1, <1>3, <1>10, <2>1 DEF CountsOf
  <2>3. ASSUME NEW k \in Others
        PROVE  /\ class[k].clients = Cardinality(Members(co, k))
               /\ Members(co, k) # {} => class[k].here
               /\ class[k].here /\ class[k].dead => Members(co, k) # {}
    <3>1. k \in Classes /\ k # Default
      BY AdmissionAssumption DEF Classes
    <3> QED
      BY <1>1, <1>10, <2>1, <3>1 DEF CountsOf
  <2> QED
    BY <1>5, <2>2, <2>3 DEF CountsOf
<1>12. Sound(g, links + 1) /\ g.class = h.class
  BY <1>5, <1>9, <1>11, ListedSound DEF g, Lists
<1>13. Here' = g
  BY <1>7, <1>12, BecomesHere DEF Sound
<1>14. class' = class
  BY <1>5, <1>12, <1>13 DEF Here
<1> QED
  BY <1>7, <1>12, <1>13, <1>14 DEF Fine

\* Another class for a connection that is in a list.
LEMMA RejoinSound ==
  ASSUME NEW h, NEW n \in Nat, Sound(h, n), NEW c \in Slots, h.conn[c].cls # NoClass,
         NEW k \in Classes, h.class[k].here
  PROVE  Sound(AddToClass(h, k, c), n) /\ Grows(h, AddToClass(h, k, c))
<1> DEFINE g == AddToClass(h, k, c)
<1>1. h \in States /\ CountsOf(h, n) /\ ListedOnce(h) /\ Placement(h) /\ k # NoClass
  BY AdmissionAssumption DEF Sound, Classes
<1>2. /\ g \in States /\ CountsOf(g, n) /\ g.list = h.list
      /\ g.conn = [h.conn EXCEPT ![c].cls = k] /\ Grows(h, g)
  BY <1>1, AddSound
<1> HIDE DEF g
<1>3. h.conn \in [Slots -> Connection]
  BY <1>1 DEF States
<1>4. g.conn[c].cls = k /\ \A d \in Slots \ {c} : g.conn[d] = h.conn[d]
  BY <1>2, <1>3 DEF Connection
<1>5. \A d \in Slots : g.conn[d].cls # NoClass <=> h.conn[d].cls # NoClass
  BY <1>1, <1>4
<1>6. Placement(g) /\ ListedOnce(g)
  BY <1>1, <1>2, <1>5 DEF Placement, IsListed, ListedOnce
<1> QED
  BY <1>2, <1>6 DEF Sound, g

\* OPER.
LEMMA OperStep ==
  ASSUME links \in Nat, Fine(links), NEW c \in Slots, NEW k \in Classes, Oper(c, k)
  PROVE  Sound(Here', links) /\ EntriesOK(class', acls')
<1> DEFINE h == Here
           g == AddToClass(Here, k, c)
<1>1. Becomes(g) /\ UNCHANGED acls
  BY DEF Oper
<1>2. Sound(h, links) /\ h.conn[c].cls # NoClass /\ h.class = class /\ h.class[k].here
  <2>1. c \in ToSet(list["clients"]) /\ "clients" \in Lists /\ class[k].here
    BY DEF Oper, Lists
  <2> QED
    BY <2>1, ListedHas DEF Fine, Here
<1>3. Sound(g, links) /\ Grows(h, g)
  BY <1>2, RejoinSound
<1> HIDE DEF g, h
<1>4. Here' = g
  BY <1>1, <1>3, BecomesHere DEF Sound
<1>5. EntriesOK(g.class, acls) /\ class' = g.class
  BY <1>2, <1>3, <1>4, EntriesKept DEF Fine, Here
<1> QED
  BY <1>1, <1>3, <1>4, <1>5

\* server_introduce.
LEMMA IntroduceStep ==
  ASSUME links \in Nat, Fine(links), NEW c \in Slots, NEW k \in Classes, Introduce(c, k)
  PROVE  Sound(Here', links) /\ EntriesOK(class', acls')
<1> DEFINE h == [Here EXCEPT !.conn[c].kind = "introduced"]
           co == [conn EXCEPT ![c].kind = "introduced"]
           g == AddToClass(h, k, c)
<1>1. Becomes(g) /\ UNCHANGED acls /\ class[k].here
  BY DEF Introduce
<1>2. /\ Here \in States /\ CountsOf(Here, links) /\ ListedOnce(Here) /\ Placement(Here)
      /\ conn[c].cls # NoClass /\ Here.class = class /\ Here.conn = conn /\ Here.list = list
  <2>1. c \in ToSet(list["stage2"]) /\ "stage2" \in Lists
    BY DEF Introduce, Lists
  <2> QED
    BY <2>1, ListedHas DEF Fine, Here, Sound
<1>3. class \in [Classes -> Class] /\ conn \in [Slots -> Connection] /\ list \in [Lists -> Seq(Slots)]
  BY <1>2 DEF States
<1>4. co \in [Slots -> Connection] /\ \A d \in Slots : co[d].cls = conn[d].cls
  <2>1. [conn[c] EXCEPT !.kind = "introduced"] \in Connection
    BY <1>3 DEF Connection
  <2>2. [conn[c] EXCEPT !.kind = "introduced"].cls = conn[c].cls
    BY <1>3 DEF Connection
  <2> QED
    BY <1>3, <2>1, <2>2
<1>5. h \in States /\ h.class = class /\ h.conn = co /\ h.list = list
  BY <1>3, <1>4 DEF Here, States
<1> HIDE DEF co, h
<1>6. CountsOf(h, links)
  BY <1>2, <1>4, <1>5, SameClasses
<1>7. Placement(h) /\ ListedOnce(h)
  <2>1. ListedOnce(h)
    BY <1>2, <1>5 DEF ListedOnce
  <2>2. \A d \in Slots : IsListed(h, d) <=> IsListed(Here, d)
    BY <1>2, <1>5 DEF IsListed
  <2> QED
    BY <1>2, <1>4, <1>5, <2>1, <2>2 DEF Placement
<1>8. Sound(h, links) /\ h.conn[c].cls # NoClass /\ h.class[k].here
  BY <1>1, <1>2, <1>4, <1>5, <1>6, <1>7 DEF Sound
<1>9. Sound(g, links) /\ Grows(h, g)
  BY <1>8, RejoinSound
<1> HIDE DEF g
<1>10. Here' = g
  BY <1>1, <1>9, BecomesHere DEF Sound
<1>11. EntriesOK(g.class, acls) /\ class' = g.class
  BY <1>5, <1>9, <1>10, EntriesKept DEF Fine, Here
<1> QED
  BY <1>1, <1>9, <1>10, <1>11

-----------------------------------------------------------------------------
(* Commands and reloads                                                    *)

\* An entry that a command makes.
Made(deny, mask, type, cf, until) ==
    [Entry(deny, mask, type) EXCEPT !.conf = cf, !.expire = until]

\* Entries of commands, of services as of operators, are of the default class.
LEMMA EntryType ==
  ASSUME NEW deny \in BOOLEAN, NEW mask \in SUBSET Hosts,
         NEW type \in {"acl", "command", "akill", "throttle"},
         NEW cf \in {"none", "temp", "conf"}, NEW until \in Nat, NEW cl
  PROVE  /\ Made(deny, mask, type, cf, until) \in Acl
         /\ Made(deny, mask, type, cf, until).type = type
         /\ EntryOK(cl, Made(deny, mask, type, cf, until))
<1> DEFINE e == Entry(deny, mask, type)
           a == [[e EXCEPT !.conf = cf] EXCEPT !.expire = until]
<1>1. e \in Acl /\ e.type = type /\ e.cls = Default
  BY DEF Entry, CommandRule, Acl, Classes
<1>2. Made(deny, mask, type, cf, until) = a
  BY DEF Made
<1> HIDE DEF e
<1>3. a \in Acl /\ a.type = type /\ a.cls = Default
  BY <1>1 DEF Acl
<1> HIDE DEF a
<1>4. EntryOK(cl, a)
  BY <1>3, AdmissionAssumption DEF EntryOK
<1> QED
  BY <1>2, <1>3, <1>4

\* A list of entries with one more.
LEMMA CreatedOK ==
  ASSUME NEW cl, NEW ac, EntriesOK(cl, ac), NEW s \in Stages, NEW a \in Acl, EntryOK(cl, a),
         NEW l \in Seq(Acl), ToSet(l) \subseteq ToSet(ac[s]) \cup {a}
  PROVE  EntriesOK(cl, [ac EXCEPT ![s] = l])
  BY DEF EntriesOK

\* An entry is made at a stage and its connections are checked: with ACL ADD and AKILL.
LEMMA AddedStep ==
  ASSUME NEW n \in Nat, Fine(n), NEW s \in Stages, NEW a \in Acl, EntryOK(class, a),
         acls' = [acls EXCEPT ![s] = CreateAcl(acls[s], a)],
         Becomes(Checked(Here, CreateAcl(acls[s], a), s))
  PROVE  /\ Sound(Here', n) /\ EntriesOK(class', acls')
         /\ ToSet(acls'[s]) \subseteq ToSet(acls[s]) \cup {a}
         /\ \A b \in ToSet(acls[s]) : ~Same(b, a) => b \in ToSet(acls'[s])
         /\ \A c \in ToSet(list'[Waiting[s]]) : ~RefusedBy(Here', acls'[s], s, c)
<1> DEFINE l == CreateAcl(acls[s], a)
           h == Here
           g == Checked(h, l, s)
<1>1. acls \in [Stages -> Seq(Acl)] /\ acls[s] \in Seq(Acl)
  BY DEF Fine, EntriesOK
<1>2. /\ l \in Seq(Acl) /\ ToSet(l) \subseteq ToSet(acls[s]) \cup {a}
      /\ \A b \in ToSet(acls[s]) : ~Same(b, a) => b \in ToSet(l)
  BY <1>1, CreateAclSet
<1>3. acls'[s] = l
  BY <1>1
<1> HIDE DEF l, h
<1>4. Sound(h, n) /\ h.class = class
  BY DEF Fine, h, Here
<1>5. /\ Sound(g, n) /\ Grows(h, g)
      /\ \A c \in ToSet(g.list[Waiting[s]]) : ~RefusedBy(g, l, s, c)
  BY <1>2, <1>4, CheckedSound
<1> HIDE DEF g
<1>6. Here' = g
  BY <1>5, BecomesHere DEF Sound, g, h, l
<1>7. EntriesOK(class, [acls EXCEPT ![s] = l])
  BY <1>2, CreatedOK DEF Fine
<1>8. EntriesOK(g.class, acls')
  BY <1>4, <1>5, <1>7, EntriesKept DEF l
<1>9. class' = g.class /\ list' = g.list
  BY <1>6 DEF Here
<1> QED
  BY <1>2, <1>3, <1>5, <1>6, <1>8, <1>9

-----------------------------------------------------------------------------
(* The records of the throttle                                             *)

\* The throttle is as sound as it was while its records stay, time passes and the
\* entries whose time is to come remain.
LEMMA ThrottleKept ==
  ASSUME now \in Nat, now' \in Nat, now <= now', ThrottleOK, UNCHANGED <<throttle, tries>>,
         \A host \in Hosts, u \in Nat :
            u > now' /\ KeptOut(acls[1], host, u) => KeptOut(acls'[1], host, u)
  PROVE  ThrottleOK'
<1>1. ASSUME NEW host \in Hosts
      PROVE  tries[host] \in Seq(Start .. now') /\ tries[host] \in Seq(Int)
  <2>1. tries[host] \in Seq(Start .. now) /\ Start .. now \subseteq Start .. now'
    BY DEF ThrottleOK, Start
  <2> QED
    BY <2>1 DEF Start
<1>2. ASSUME NEW host \in Hosts, NEW i \in DOMAIN throttle[host]
      PROVE  CauseOK(throttle[host][i], tries[host], acls'[1], host, now')
  <2> DEFINE t == throttle[host][i]
             ts == tries[host]
             b == t.first
  <2>1. CauseOK(t, ts, acls[1], host, now) /\ t \in Throttle
    BY DEF ThrottleOK
  <2>2. ts \in Seq(Int)
    BY <1>1
  <2> HIDE DEF t, ts
  <2>3. b \in Int /\ t.count \in Nat /\ t.banned \in Nat /\ t.stage \in 0 .. Len(Lengths)
    BY <2>1 DEF Throttle
  <2>4. /\ Cardinality(Within(ts, b, now)) <= Cardinality(Within(ts, b, now'))
        /\ Cardinality(Within(ts, b, now)) \in Nat
        /\ Cardinality(Within(ts, b, now')) \in Nat
    <3> HIDE DEF b
    <3>1. ASSUME NEW y \in Int
          PROVE  Cardinality(Within(ts, b, y)) \in Nat
      BY <2>2, <2>3, WithinGrows
    <3>2. \A c \in Int, d \in Int :
            c <= b /\ now <= d => Cardinality(Within(ts, b, now)) <= Cardinality(Within(ts, c, d))
      BY <2>2, <2>3, WithinGrows
    <3> QED
      BY <2>3, <3>1, <3>2
  <2>6. CountOK(t, ts, now')
    BY <2>1, <2>3, <2>4 DEF CauseOK, CountOK
  <2>7. BanOK(t, ts, now')
    BY <2>1, <2>3 DEF CauseOK, BanOK
  <2>8. EntryLasts(t, acls'[1], host, now')
    <3>1. CASE t.banned # 0 /\ now' < t.banned + Lengths[t.stage]
      <4>1. t.stage \in 1 .. Len(Lengths)
        BY <2>1, <2>3, <3>1 DEF CauseOK, BanOK
      <4>2. Lengths[t.stage] \in Nat
        BY <4>1, LengthType
      <4>3. now < t.banned + Lengths[t.stage] /\ t.banned + Lengths[t.stage] \in Nat
        BY <2>3, <3>1, <4>2
      <4>4. KeptOut(acls[1], host, t.banned + Lengths[t.stage])
        BY <2>1, <3>1, <4>3 DEF CauseOK, EntryLasts
      <4> QED
        BY <3>1, <4>3, <4>4 DEF EntryLasts
    <3> QED
      BY <3>1 DEF EntryLasts
  <2> QED
    BY <2>6, <2>7, <2>8 DEF CauseOK, t, ts
<1> QED
  BY <1>1, <1>2 DEF ThrottleOK

\* So it is by what a connection does.
LEMMA ThrottleSame ==
  ASSUME now \in Nat, ThrottleOK, UNCHANGED <<now, throttle, tries, acls>>
  PROVE  ThrottleOK'
  BY ThrottleKept

\* By an entry that is not of the throttle.
LEMMA ThrottleAdded ==
  ASSUME now \in Nat, ThrottleOK, UNCHANGED <<now, throttle, tries>>, NEW s \in Stages, NEW a,
         acls \in [Stages -> Seq(Acl)], \A r \in Stages : r # s => acls'[r] = acls[r],
         \A b \in ToSet(acls[s]) : ~Same(b, a) => b \in ToSet(acls'[s]), a.type # "throttle"
  PROVE  ThrottleOK'
<1>1. ASSUME NEW host \in Hosts, NEW u \in Nat, KeptOut(acls[1], host, u)
      PROVE  KeptOut(acls'[1], host, u)
  <2>1. PICK b \in ToSet(acls[1]) : b.type = "throttle" /\ b.mask = {host} /\ b.expire >= u
    BY <1>1 DEF KeptOut
  <2>2. ~Same(b, a)
    BY <2>1 DEF Same
  <2>3. b \in ToSet(acls'[1])
    BY <2>2 DEF Stages
  <2> QED
    BY <2>1, <2>3 DEF KeptOut
<1> QED
  BY <1>1, ThrottleKept

\* And by the removal of one, unless it is of the throttle and its time is to come.
LEMMA ThrottleRemoved ==
  ASSUME now \in Nat, ThrottleOK, UNCHANGED <<now, throttle, tries>>, NEW s \in Stages,
         acls \in [Stages -> Seq(Acl)], NEW i \in 1 .. Len(acls[s]),
         acls' = [acls EXCEPT ![s] = RemoveAt(@, i)],
         acls[s][i].type = "throttle" => acls[s][i].expire <= now
  PROVE  ThrottleOK'
<1>1. ASSUME NEW host \in Hosts, NEW u \in Nat, u > now, KeptOut(acls[1], host, u)
      PROVE  KeptOut(acls'[1], host, u)
  <2>1. PICK b \in ToSet(acls[1]) : b.type = "throttle" /\ b.mask = {host} /\ b.expire >= u
    BY <1>1 DEF KeptOut
  <2>2. CASE s = 1
    <3>1. acls[s] \in Seq(Acl) /\ acls[s][i] \in Acl /\ b \in ToSet(acls[s])
      BY <2>1, <2>2
    <3>2. b # acls[s][i]
      BY <1>1, <2>1, <3>1 DEF Acl
    <3>3. b \in ToSet(RemoveAt(acls[s], i))
      BY <3>1, <3>2, RemoveAtSet
    <3>4. acls'[1] = RemoveAt(acls[s], i)
      BY <2>2
    <3> QED
      BY <2>1, <3>3, <3>4 DEF KeptOut
  <2>3. CASE s # 1
    <3>1. acls'[1] = acls[1]
      BY <2>3
    <3> QED
      BY <1>1, <3>1
  <2> QED
    BY <2>2, <2>3
<1> QED
  BY <1>1, ThrottleKept

\* What the property CheckIsFinal says of a step.
AskedAgain ==
    \A s \in Stages :
        (\E a \in ToSet(acls'[s]) \ ToSet(acls[s]) : a.type \in {"command", "akill"}) =>
            ~\E c \in ToSet(list'[Waiting[s]]) :
                RefusedBy([class |-> class', conn |-> conn', list |-> list'], acls'[s], s, c)

\* A step after which every entry that is new, if there is one, is of another type.
LEMMA NothingNew ==
  ASSUME \A s \in Stages : \A a \in ToSet(acls'[s]) :
            a \in ToSet(acls[s]) \/ a.type \notin {"command", "akill"}
  PROVE  AskedAgain
  BY DEF AskedAgain

\* The whole of what ACL ADD and AKILL keep.
LEMMA EntryAdded ==
  ASSUME now \in Nat, links \in Nat, Fine(links), ThrottleOK, UNCHANGED <<now, throttle, tries>>,
         NEW s \in Stages, NEW a \in Acl, EntryOK(class, a), a.type # "throttle",
         acls' = [acls EXCEPT ![s] = CreateAcl(acls[s], a)],
         Becomes(Checked(Here, CreateAcl(acls[s], a), s))
  PROVE  Sound(Here', links) /\ EntriesOK(class', acls') /\ ThrottleOK' /\ AskedAgain
<1>1. /\ Sound(Here', links) /\ EntriesOK(class', acls')
      /\ \A b \in ToSet(acls[s]) : ~Same(b, a) => b \in ToSet(acls'[s])
      /\ \A c \in ToSet(list'[Waiting[s]]) : ~RefusedBy(Here', acls'[s], s, c)
  BY AddedStep
<1>2. acls \in [Stages -> Seq(Acl)]
  BY DEF Fine, EntriesOK
<1>3. \A r \in Stages : r # s => acls'[r] = acls[r]
  BY <1>2
<1>4. ThrottleOK'
  BY <1>1, <1>2, <1>3, ThrottleAdded
<1>5. Here' = [class |-> class', conn |-> conn', list |-> list']
  BY DEF Here
<1>6. AskedAgain
  BY <1>1, <1>3, <1>5 DEF AskedAgain
<1> QED
  BY <1>1, <1>4, <1>6

\* ACL ADD, KLINE and ZLINE.
LEMMA AclAddStep ==
  ASSUME now \in Nat, links \in Nat, Fine(links), ThrottleOK,
         NEW c \in Slots, NEW s \in Stages, NEW deny \in BOOLEAN, NEW mask \in Masks,
         NEW time \in Times, AclAdd(c, s, deny, mask, time)
  PROVE  Sound(Here', links) /\ EntriesOK(class', acls') /\ ThrottleOK' /\ AskedAgain
<1> DEFINE cf == IF time = 0 THEN "none" ELSE "temp"
           until == IF time = 0 THEN 0 ELSE now + time
           a == Made(deny, mask, "command", cf, until)
<1>1. mask \in SUBSET Hosts /\ cf \in {"none", "temp", "conf"} /\ until \in Nat
  BY AdmissionAssumption
<1>2. /\ acls' = [acls EXCEPT ![s] = CreateAcl(acls[s], a)]
      /\ Becomes(Checked(Here, CreateAcl(acls[s], a), s)) /\ UNCHANGED <<now, throttle, tries>>
  BY DEF AclAdd, Made
<1> HIDE DEF cf, until
<1>3. a \in Acl /\ a.type = "command" /\ EntryOK(class, a)
  BY <1>1, EntryType
<1> HIDE DEF a
<1> QED
  BY <1>2, <1>3, EntryAdded

\* AKILL, SZLINE and UNSZLINE.
LEMMA AkillStep ==
  ASSUME now \in Nat, links \in Nat, Fine(links), ThrottleOK,
         NEW s \in Stages, NEW mask \in Masks, NEW time \in Times, Akill(s, mask, time)
  PROVE  Sound(Here', links) /\ EntriesOK(class', acls') /\ ThrottleOK' /\ AskedAgain
<1> DEFINE until == IF time = 0 THEN 0 ELSE now + time
           deny == TRUE
           a == Made(deny, mask, "akill", "temp", until)
<1>1. deny \in BOOLEAN /\ mask \in SUBSET Hosts /\ until \in Nat
  BY AdmissionAssumption
<1>2. /\ acls' = [acls EXCEPT ![s] = CreateAcl(acls[s], a)]
      /\ Becomes(Checked(Here, CreateAcl(acls[s], a), s)) /\ UNCHANGED <<now, throttle, tries>>
  BY DEF Akill, Made
<1> HIDE DEF until, deny
<1>3. a \in Acl /\ a.type = "akill" /\ EntryOK(class, a)
  BY <1>1, EntryType
<1> HIDE DEF a
<1> QED
  BY <1>2, <1>3, EntryAdded

\* An entry goes, and nobody is asked about again.
LEMMA EntryRemoved ==
  ASSUME now \in Nat, links \in Nat, Fine(links), ThrottleOK,
         UNCHANGED <<now, class, conn, list, throttle, tries>>,
         NEW s \in Stages, NEW i \in 1 .. Len(acls[s]), acls' = [acls EXCEPT ![s] = RemoveAt(@, i)],
         acls[s][i].type = "throttle" => acls[s][i].expire <= now
  PROVE  Sound(Here', links) /\ EntriesOK(class', acls') /\ ThrottleOK' /\ AskedAgain
<1> DEFINE l == RemoveAt(acls[s], i)
<1>1. acls \in [Stages -> Seq(Acl)]
  BY DEF Fine, EntriesOK
<1>2. l \in Seq(Acl) /\ ToSet(l) \subseteq ToSet(acls[s])
  BY <1>1, RemoveAtSet
<1>3. acls' = [acls EXCEPT ![s] = l]
  OBVIOUS
<1>4. ThrottleOK'
  BY <1>1, ThrottleRemoved
<1> HIDE DEF l
<1>5. \A r \in Stages : ToSet(acls'[r]) \subseteq ToSet(acls[r])
  BY <1>1, <1>2, <1>3
<1>6. acls' \in [Stages -> Seq(Acl)] /\ class' = class
  BY <1>1, <1>2, <1>3
<1>7. EntriesOK(class', acls')
  BY <1>5, <1>6 DEF Fine, EntriesOK
<1>8. Here' = Here
  BY DEF Here
<1>9. AskedAgain
  BY <1>5, NothingNew
<1> QED
  BY <1>4, <1>7, <1>8, <1>9 DEF Fine

\* ACL DEL, RAKILL and UNSGLINE.
LEMMA AclDelStep ==
  ASSUME now \in Nat, links \in Nat, Fine(links), ThrottleOK,
         NEW s \in Stages, NEW i \in 1 .. Len(acls[s]), AclDel(s, i)
  PROVE  Sound(Here', links) /\ EntriesOK(class', acls') /\ ThrottleOK' /\ AskedAgain
<1>1. acls[s][i].type # "throttle"
  BY DEF AclDel
<1> QED
  BY <1>1, EntryRemoved DEF AclDel

\* acl_timer_hook.
LEMMA AclExpiresStep ==
  ASSUME now \in Nat, links \in Nat, Fine(links), ThrottleOK,
         NEW s \in Stages, NEW i \in 1 .. Len(acls[s]), AclExpires(s, i)
  PROVE  Sound(Here', links) /\ EntriesOK(class', acls') /\ ThrottleOK' /\ AskedAgain
<1>1. acls[s][i].expire <= now
  BY DEF AclExpires, Due
<1> QED
  BY <1>1, EntryRemoved DEF AclExpires

\* ircd_parse_classes: every class is a class still, as full as it was, and one that a
\* connection or a link is in is there.
LEMMA RevivedOK ==
  ASSUME NEW n \in Nat, Fine(n), NEW cfg \in Configs, class' = Revived(cfg)
  PROVE  class' \in [Classes -> Class] /\ CountsOf([Here EXCEPT !.class = class'], n)
<1> DEFINE d(k) == DestroyClass([class EXCEPT ![k].dead = TRUE], k)[k]
           h == Here
<1>1. /\ class \in [Classes -> Class] /\ CountsOf(h, n) /\ h.class = class /\ h.conn = conn
      /\ conn \in [Slots -> Connection]
  BY DEF Fine, Sound, States, Here
<1>2. PICK named \in SUBSET Classes : cfg.max \in [named -> Nat]
  BY ConfigsAssumption
<1>3. ASSUME NEW k \in Classes
      PROVE  /\ d(k) \in Class /\ d(k).clients = class[k].clients
             /\ k = Default => d(k).here = class[k].here
             /\ k # Default => (d(k).here <=> class[k].clients # 0)
  <2> DEFINE x == [class[k] EXCEPT !.dead = TRUE]
             cl == [class EXCEPT ![k].dead = TRUE]
  <2>1. x \in Class /\ x.clients = class[k].clients /\ x.here = class[k].here
    BY <1>1 DEF Class
  <2>2. cl[k] = x /\ cl = [class EXCEPT ![k] = x]
    BY <1>1
  <2>3. CASE k = Default
    BY <2>1, <2>2, <2>3 DEF DestroyClass
  <2>4. CASE k # Default
    <3> DEFINE y == [[x EXCEPT !.dead = TRUE] EXCEPT !.here = x.clients # 0]
    <3>1. DestroyClass(cl, k) = [cl EXCEPT ![k].dead = TRUE, ![k].here = x.clients # 0]
      BY <2>2, <2>4 DEF DestroyClass
    <3> HIDE DEF x
    <3>2. y \in Class /\ y.clients = x.clients /\ (y.here <=> x.clients # 0)
      BY <2>1 DEF Class
    <3>3. DestroyClass(cl, k)[k] = y
      BY <1>1, <2>2, <3>1
    <3> QED
      BY <2>1, <2>4, <3>2, <3>3
  <2> QED
    BY <2>3, <2>4
<1> HIDE DEF d
<1>4. ASSUME NEW k \in Classes
      PROVE  /\ k \notin DOMAIN cfg.max => class'[k] = d(k)
             /\ k \in DOMAIN cfg.max =>
                  class'[k] = [here |-> TRUE, dead |-> FALSE, clients |-> d(k).clients,
                               max |-> cfg.max[k]]
  BY DEF Revived, d
<1>5. class' \in [Classes -> Class]
  <2>1. ASSUME NEW k \in Classes
        PROVE  class'[k] \in Class
    <3> DEFINE e == d(k)
    <3>1. e \in Class
      BY <1>3
    <3>2. k \in DOMAIN cfg.max => cfg.max[k] \in Nat
      BY <1>2
    <3>3. CASE k \in DOMAIN cfg.max
      <4>1. class'[k] = [here |-> TRUE, dead |-> FALSE, clients |-> e.clients, max |-> cfg.max[k]]
        BY <1>4, <3>3
      <4> HIDE DEF e
      <4> QED
        BY <3>1, <3>2, <3>3, <4>1 DEF Class
    <3>4. CASE k \notin DOMAIN cfg.max
      <4>1. class'[k] = e
        BY <1>4, <3>4
      <4> QED
        BY <3>1, <4>1
    <3> QED
      BY <3>3, <3>4
  <2>2. class' = [k \in Classes |-> class'[k]]
    BY DEF Revived
  <2> QED
    BY <2>1, <2>2
<1>6. ASSUME NEW k \in Classes
      PROVE  /\ class'[k].clients = class[k].clients
             /\ class[k].clients # 0 => class'[k].here
             /\ k = Default /\ class[k].here => class'[k].here
             /\ k # Default /\ class'[k].here /\ class'[k].dead => class[k].clients # 0
  <2> DEFINE e == d(k)
  <2>1. /\ e.clients = class[k].clients /\ (k = Default => e.here = class[k].here)
        /\ k # Default => (e.here <=> class[k].clients # 0)
    BY <1>3
  <2>2. CASE k \in DOMAIN cfg.max
    <3>1. class'[k] = [here |-> TRUE, dead |-> FALSE, clients |-> e.clients, max |-> cfg.max[k]]
      BY <1>4, <2>2
    <3> HIDE DEF e
    <3> QED
      BY <2>1, <3>1
  <2>3. CASE k \notin DOMAIN cfg.max
    <3>1. class'[k] = e
      BY <1>4, <2>3
    <3> HIDE DEF e
    <3>2. class'[k].clients = e.clients /\ class'[k].here = e.here
      BY <3>1
    <3>3. /\ class[k].clients # 0 => class'[k].here
          /\ k # Default /\ class'[k].here => class[k].clients # 0
      BY <2>1, <3>2, <1>1 DEF Class, CountsOf
    <3>4. k = Default /\ class[k].here => class'[k].here
      BY <2>1, <3>2
    <3> QED
      BY <2>1, <3>2, <3>3, <3>4
  <2> QED
    BY <2>2, <2>3
<1> HIDE DEF h
<1>7. ASSUME NEW k \in Classes
      PROVE  Members(conn, k) = {} <=> Cardinality(Members(conn, k)) = 0
  <2>1. IsFiniteSet(Members(conn, k))
    BY AdmissionAssumption, FS_Subset DEF Members
  <2> QED
    BY <2>1, FS_EmptySet
<1>8. ASSUME NEW k \in Others
      PROVE  /\ class'[k].clients = Cardinality(Members(conn, k))
             /\ Members(conn, k) # {} => class'[k].here
             /\ class'[k].here /\ class'[k].dead => Members(conn, k) # {}
  <2>1. k \in Classes /\ k # Default
    BY AdmissionAssumption DEF Classes
  <2>2. class[k].clients = Cardinality(Members(conn, k))
    BY <1>1 DEF CountsOf
  <2> QED
    BY <1>6, <1>7, <2>1, <2>2
<1>9. class'[Default].here /\ class'[Default].clients = Cardinality(Members(conn, Default)) - n
  <2>1. Default \in Classes
    BY DEF Classes
  <2> QED
    BY <1>1, <1>6, <2>1 DEF CountsOf
<1>10. [h EXCEPT !.class = class'].class = class' /\ [h EXCEPT !.class = class'].conn = conn
  BY DEF Here, h
<1> QED
  BY <1>5, <1>8, <1>9, <1>10 DEF CountsOf, h

\* The hooks of read_conf.
LEMMA ReloadStep ==
  ASSUME now \in Nat, links \in Nat, Fine(links), ThrottleOK, NEW cfg \in Configs, Reload(cfg)
  PROVE  Sound(Here', links) /\ EntriesOK(class', acls') /\ ThrottleOK' /\ AskedAgain
<1>1. /\ class' = Revived(cfg) /\ UNCHANGED <<now, conn, list, links, tries>>
      /\ acls' = [s \in Stages |-> Configured(acls[s], class', cfg.acls[s])]
      /\ throttle' = [host \in Hosts |-> <<>>]
  BY DEF Reload
<1>2. class' \in [Classes -> Class] /\ CountsOf([Here EXCEPT !.class = class'], links)
  BY <1>1, RevivedOK
<1>3. /\ Here \in States /\ ListedOnce(Here) /\ Placement(Here)
      /\ Here.conn = conn /\ Here.list = list
  BY DEF Fine, Sound, Here
<1> DEFINE h == [Here EXCEPT !.class = class']
<1>4. h \in States /\ h.conn = Here.conn /\ h.list = Here.list /\ Here' = h
  BY <1>1, <1>2, <1>3 DEF Here, States
<1> HIDE DEF h
<1>5. ListedOnce(h) /\ Placement(h)
  BY <1>3, <1>4 DEF ListedOnce, Placement, IsListed
<1>6. Sound(Here', links)
  BY <1>2, <1>4, <1>5 DEF Sound, h
<1>7. ASSUME NEW s \in Stages
      PROVE  /\ acls'[s] \in Seq(Acl)
             /\ \A a \in ToSet(acls'[s]) : EntryOK(class', a) /\ (a \in ToSet(acls[s]) \/ a.type = "acl")
  <2> DEFINE l == acls[s]
             entries == cfg.acls[s]
             cl == class'
  <2>1. l \in Seq(Acl) /\ \A a \in ToSet(l) : a.conf = "none" => a.cls = Default
    BY DEF Fine, EntriesOK, EntryOK
  <2>2. entries \in Seq(ConfAcl) /\ cl \in [Classes -> Class]
    BY <1>2, ConfigsAssumption
  <2>3. acls'[s] = Configured(l, cl, entries)
    BY <1>1
  <2> HIDE DEF l, entries, cl
  <2>4. /\ Configured(l, cl, entries) \in Seq(Acl)
        /\ \A a \in ToSet(Configured(l, cl, entries)) :
             EntryOK(cl, a) /\ (a \in ToSet(l) \/ a.type = "acl")
    BY <2>1, <2>2, ConfiguredSet
  <2> QED
    BY <2>3, <2>4 DEF l, cl
<1>8. EntriesOK(class', acls')
  BY <1>1, <1>7 DEF EntriesOK
<1>9. AskedAgain
  BY <1>7, NothingNew
<1>10. ThrottleOK'
  BY <1>1 DEF ThrottleOK
<1> QED
  BY <1>6, <1>8, <1>9, <1>10

\* throttle_timer_hook: a record goes, or is looked at again later.
LEMMA ThrottleExpiresStep ==
  ASSUME now \in Nat, links \in Nat, Fine(links), ThrottleOK, NEW host \in Hosts,
         ThrottleExpires(host)
  PROVE  Sound(Here', links) /\ EntriesOK(class', acls') /\ ThrottleOK' /\ AskedAgain
<1>1. UNCHANGED <<now, class, conn, list, acls, tries>> /\ throttle[host] # <<>>
  BY DEF ThrottleExpires
<1>2. Sound(Here', links) /\ EntriesOK(class', acls')
  BY <1>1 DEF Fine, Here
<1>3. AskedAgain
  BY <1>1, NothingNew
<1>4. /\ throttle \in [Hosts -> Seq(Throttle)] /\ \A o \in Hosts : Len(throttle[o]) <= 1
      /\ \A o \in Hosts : \A i \in DOMAIN throttle[o] :
           CauseOK(throttle[o][i], tries[o], acls[1], o, now)
  BY DEF ThrottleOK
<1>5. Len(throttle[host]) = 1 /\ throttle[host] \in Seq(Throttle) /\ throttle[host][1] \in Throttle
  <2> DEFINE q == throttle[host]
  <2>1. q \in Seq(Throttle) /\ Len(q) <= 1 /\ q # <<>>
    BY <1>1, <1>4
  <2> HIDE DEF q
  <2>2. Len(q) = 1
    <3> DEFINE n == Len(q)
    <3>1. n \in Nat \ {0} /\ n <= 1
      BY <2>1, EmptySeq
    <3> HIDE DEF n
    <3>2. n = 1
      BY <3>1
    <3> QED
      BY <3>2 DEF n
  <2>3. q[1] \in Throttle
    BY <2>1, <2>2
  <2> QED
    BY <2>1, <2>2, <2>3 DEF q
<1>6. ASSUME throttle' = [throttle EXCEPT ![host] = <<>>]
      PROVE  ThrottleOK'
  <2>1. /\ throttle' \in [Hosts -> Seq(Throttle)] /\ throttle'[host] = <<>>
        /\ \A o \in Hosts : o # host => throttle'[o] = throttle[o]
    BY <1>4, <1>6
  <2>2. ASSUME NEW o \in Hosts
        PROVE  Len(throttle'[o]) <= 1
    <3>1. CASE o = host
      BY <2>1, <3>1
    <3>2. CASE o # host
      BY <1>4, <2>1, <3>2
    <3> QED
      BY <3>1, <3>2
  <2>3. ASSUME NEW o \in Hosts, NEW i \in DOMAIN throttle'[o]
        PROVE  CauseOK(throttle'[o][i], tries[o], acls[1], o, now)
    <3>1. o # host
      BY <2>1
    <3> QED
      BY <1>4, <2>1, <3>1
  <2> QED
    BY <1>1, <2>1, <2>2, <2>3 DEF ThrottleOK
<1>7. ASSUME NEW u \in Nat, throttle' = [throttle EXCEPT ![host][1].timer = u]
      PROVE  ThrottleOK'
  <2> DEFINE t == throttle[host][1]
             x == [t EXCEPT !.timer = u]
             q == throttle[host]
             r == [q EXCEPT ![1] = x]
  <2>2. t \in Throttle /\ x \in Throttle
    <3>1. t \in Throttle
      BY <1>5
    <3> HIDE DEF t
    <3> QED
      BY <3>1 DEF Throttle
  <2>3. x.first = t.first /\ x.count = t.count /\ x.banned = t.banned /\ x.stage = t.stage
    BY <2>2 DEF Throttle
  <2>4. r \in Seq(Throttle) /\ Len(r) = 1 /\ r[1] = x /\ DOMAIN r = {1}
    <3>1. q \in Seq(Throttle) /\ Len(q) = 1
      BY <1>4, <1>5
    <3>2. r = [j \in 1 .. 1 |-> x]
      BY <3>1
    <3> HIDE DEF x, r
    <3> QED
      BY <2>2, <3>2
  <2>5. throttle' = [throttle EXCEPT ![host] = r]
    BY <1>7
  <2>6. CauseOK(t, tries[host], acls[1], host, now)
    BY <1>4, <1>5
  <2> HIDE DEF t, x, r, q
  <2>7. CauseOK(x, tries[host], acls[1], host, now)
    BY <2>3, <2>6 DEF CauseOK, CountOK, BanOK, EntryLasts
  <2>8. throttle' \in [Hosts -> Seq(Throttle)] /\ \A o \in Hosts : Len(throttle'[o]) <= 1
    <3>1. /\ throttle'[host] = r /\ throttle' \in [Hosts -> Seq(Throttle)]
          /\ \A o \in Hosts : o # host => throttle'[o] = throttle[o]
      BY <1>4, <2>4, <2>5
    <3>2. ASSUME NEW o \in Hosts
          PROVE  Len(throttle'[o]) <= 1
      <4>1. CASE o = host
        <5>1. Len(throttle'[o]) = 1
          BY <2>4, <3>1, <4>1
        <5> QED
          BY ONLY <5>1
      <4>2. CASE o # host
        BY <1>4, <3>1, <4>2
      <4> QED
        BY <4>1, <4>2
    <3> QED
      BY <3>1, <3>2
  <2>9. ASSUME NEW o \in Hosts, NEW i \in DOMAIN throttle'[o]
        PROVE  CauseOK(throttle'[o][i], tries[o], acls[1], o, now)
    BY <1>4, <2>4, <2>5, <2>7
  <2> QED
    BY <1>1, <2>8, <2>9 DEF ThrottleOK
<1>8. \/ throttle' = [throttle EXCEPT ![host] = <<>>]
      \/ \E u \in Nat : throttle' = [throttle EXCEPT ![host][1].timer = u]
  <2> DEFINE t == throttle[host][1]
             again == IF t.stage < Len(Lengths) THEN {now + Lengths[t.stage + 1]} ELSE {Far}
  <2>1. t.stage \in 0 .. Len(Lengths)
    BY <1>5 DEF Throttle
  <2>2. again \subseteq Nat
    <3>1. t.stage < Len(Lengths) => Lengths[t.stage + 1] \in Nat
      <4>1. t.stage < Len(Lengths) => t.stage + 1 \in 1 .. Len(Lengths)
        BY <2>1, StagesOfBans
      <4> QED
        BY <4>1, LengthType
    <3> QED
      BY <3>1 DEF Far
  <2>3. \/ throttle' = [throttle EXCEPT ![host] = <<>>]
        \/ \E u \in again : throttle' = [throttle EXCEPT ![host][1].timer = u]
    BY DEF ThrottleExpires
  <2> QED
    BY <2>2, <2>3
<1> QED
  BY <1>2, <1>3, <1>6, <1>7, <1>8

\* Time passes.
LEMMA TickStep ==
  ASSUME now \in Nat, links \in Nat, Fine(links), ThrottleOK, Tick
  PROVE  Sound(Here', links) /\ EntriesOK(class', acls') /\ ThrottleOK' /\ AskedAgain
<1>1. UNCHANGED <<class, conn, list, acls, throttle, tries>> /\ now' = now + 1
  BY DEF Tick
<1>2. Sound(Here', links) /\ EntriesOK(class', acls')
  BY <1>1 DEF Fine, Here
<1>3. AskedAgain
  BY <1>1, NothingNew
<1>4. ThrottleOK'
  BY <1>1, ThrottleKept
<1> QED
  BY <1>2, <1>3, <1>4

-----------------------------------------------------------------------------
(* A connection comes                                                      *)

\* The record that counts it.
RecordOf(host) == IF throttle[host] = <<>> THEN NewThrottle ELSE throttle[host][1]

\* It is as sound as those of the table.
LEMMA RecordOK ==
  ASSUME now \in Nat, ThrottleOK, NEW host \in Hosts
  PROVE  RecordOf(host) \in Throttle /\ CauseOK(RecordOf(host), tries[host], acls[1], host, now)
<1>1. throttle[host] \in Seq(Throttle)
  BY DEF ThrottleOK
<1>2. CASE throttle[host] # <<>>
  <2>1. 1 \in DOMAIN throttle[host] /\ throttle[host][1] \in Throttle
    BY <1>1, <1>2, EmptySeq
  <2>2. CauseOK(throttle[host][1], tries[host], acls[1], host, now)
    BY <2>1 DEF ThrottleOK
  <2> QED
    BY <1>2, <2>1, <2>2 DEF RecordOf
<1>3. CASE throttle[host] = <<>>
  <2> DEFINE t == NewThrottle
             ts == tries[host]
             first == t.first
  <2>1. /\ t \in Throttle /\ t.first = 0 /\ t.count = 0 /\ t.banned = 0
    BY AdmissionAssumption DEF NewThrottle, Throttle
  <2>2. ts \in Seq(Int)
    BY DEF ThrottleOK, Start
  <2> HIDE DEF t, ts
  <2>3. Cardinality(Within(ts, first, now)) \in Nat
    <3>1. first \in Int /\ now \in Int
      BY <2>1
    <3> HIDE DEF first
    <3> QED
      BY <2>2, <3>1, WithinGrows
  <2>4. CauseOK(t, ts, acls[1], host, now)
    BY <2>1, <2>3 DEF CauseOK, CountOK, BanOK, EntryLasts
  <2> QED
    BY <1>3, <2>1, <2>4 DEF RecordOf, t, ts
<1> QED
  BY <1>2, <1>3

\* The entries of stage 1 afterwards.
EntriesAfter(l, host, t) == IF Bans(t) THEN BanEntry(l, host, Following(t)) ELSE l

\* The record has its cause and its entry then, and no entry of another address is gone.
LEMMA EntriesAfterOK ==
  ASSUME now \in Nat, now >= Start, NEW host \in Hosts, NEW t \in Throttle, NEW ts \in Seq(Int),
         NEW l \in Seq(Acl), CauseOK(t, ts, l, host, now)
  PROVE  /\ Following(t) \in Throttle
         /\ CauseOK(Following(t), Append(ts, now), EntriesAfter(l, host, t), host, now)
         /\ EntriesAfter(l, host, t) \in Seq(Acl)
         /\ \A a \in ToSet(EntriesAfter(l, host, t)) :
              a \in ToSet(l) \/ (a.type = "throttle" /\ a.cls = Default /\ a.conf = "temp")
         /\ \A o \in Hosts \ {host}, u \in Nat :
              KeptOut(l, o, u) => KeptOut(EntriesAfter(l, host, t), o, u)
<1> DEFINE f == Following(t)
           m == EntriesAfter(l, host, t)
           e == BanOf(host, f)
<1>1. /\ f \in Throttle /\ CountOK(f, Append(ts, now), now) /\ BanOK(f, Append(ts, now), now)
      /\ ~Hit(t) /\ f.banned # 0 => f.banned = t.banned /\ f.stage = t.stage
  BY FollowingOK DEF CauseOK
<1>2. Hit(t) => f.banned # 0
  <2>1. CASE Hit(t)
    <3>1. f = Banned(Counted(t))
      BY <2>1 DEF Following
    <3>2. f.banned = IF Counted(t).banned = 0 THEN now ELSE Counted(t).banned
      BY <3>1 DEF Banned
    <3> QED
      BY <3>2 DEF Start
  <2> QED
    BY <2>1
<1>3. f.banned \in Nat /\ f.stage \in 0 .. Len(Lengths)
  BY <1>1 DEF Throttle
<1>4. f.banned # 0 => f.stage >= 1 /\ f.banned <= now
  BY <1>1 DEF BanOK
<1>5. Bans(t) <=> Hit(t) /\ f.banned + Lengths[f.stage] >= now
  BY DEF Bans
<1>6. m = IF Bans(t) THEN BanEntry(l, host, f) ELSE l
  BY DEF EntriesAfter
<1> HIDE DEF f, m
<1>7. CASE Bans(t)
  <2>1. Hit(t) /\ f.banned # 0 /\ f.stage >= 1 /\ f.banned <= now
    BY <1>2, <1>4, <1>5, <1>7
  <2>2. /\ e \in Acl /\ e.type = "throttle" /\ e.mask = {host} /\ e.cls = Default
        /\ e.conf = "temp" /\ e.expire = now + Lengths[f.stage] /\ Lengths[f.stage] \in Nat
    BY <1>1, <2>1, BanOfType
  <2>3. /\ m \in Seq(Acl) /\ ToSet(m) \subseteq ToSet(l) \cup {e} /\ e \in ToSet(m)
        /\ \A b \in ToSet(l) : ~Same(b, e) => b \in ToSet(m)
    BY <1>1, <1>6, <1>7, <2>1, BanEntrySet
  <2> HIDE DEF e
  <2>4. KeptOut(m, host, f.banned + Lengths[f.stage])
    <3>1. e.expire >= f.banned + Lengths[f.stage]
      BY <1>3, <2>1, <2>2
    <3> QED
      BY <2>2, <2>3, <3>1 DEF KeptOut
  <2>5. CauseOK(f, Append(ts, now), m, host, now)
    BY <1>1, <2>4 DEF CauseOK, EntryLasts
  <2>6. ASSUME NEW o \in Hosts \ {host}, NEW u \in Nat, KeptOut(l, o, u)
        PROVE  KeptOut(m, o, u)
    <3>1. PICK b \in ToSet(l) : b.type = "throttle" /\ b.mask = {o} /\ b.expire >= u
      BY <2>6 DEF KeptOut
    <3>2. b.mask # e.mask
      BY <2>2, <3>1
    <3>3. b \in ToSet(m)
      BY <2>3, <3>2 DEF Same
    <3> QED
      BY <3>1, <3>3 DEF KeptOut
  <2> QED
    BY <1>1, <2>2, <2>3, <2>5, <2>6 DEF f, m
<1>8. CASE ~Bans(t)
  <2>1. m = l
    BY <1>6, <1>8
  <2>2. EntryLasts(f, l, host, now)
    <3>1. CASE f.banned # 0 /\ now < f.banned + Lengths[f.stage]
      <4>1. f.stage \in 1 .. Len(Lengths)
        BY <1>3, <1>4, <3>1
      <4>2. Lengths[f.stage] \in Nat
        BY <4>1, LengthType
      <4>3. f.banned + Lengths[f.stage] >= now
        BY <1>3, <3>1, <4>2
      <4>4. f.banned = t.banned /\ f.stage = t.stage
        BY <1>1, <1>5, <1>8, <3>1, <4>3
      <4>5. KeptOut(l, host, f.banned + Lengths[f.stage])
        BY <3>1, <4>4 DEF CauseOK, EntryLasts
      <4> QED
        BY <4>5 DEF EntryLasts
    <3> QED
      BY <3>1 DEF EntryLasts
  <2>3. CauseOK(f, Append(ts, now), m, host, now)
    BY <1>1, <2>1, <2>2 DEF CauseOK
  <2> QED
    BY <1>1, <2>1, <2>3 DEF f, m
<1> QED
  BY <1>7, <1>8

\* ircd_listen_hook: the throttle and the entries.
LEMMA AcceptThrottle ==
  ASSUME now \in Nat, now >= Start, EntriesOK(class, acls), ThrottleOK,
         NEW c \in Slots, NEW host \in Hosts, Accept(c, host)
  PROVE  ThrottleOK' /\ EntriesOK(class, acls') /\ AskedAgain
<1> DEFINE t == RecordOf(host)
           f == Following(t)
           l == EntriesAfter(acls[1], host, t)
           ts == tries[host]
<1>1. acls \in [Stages -> Seq(Acl)] /\ acls[1] \in Seq(Acl) /\ 1 \in Stages
  BY DEF EntriesOK, Stages
<1>2. ts \in Seq(Int) /\ ts \in Seq(Start .. now) /\ t \in Throttle /\ CauseOK(t, ts, acls[1], host, now)
  BY RecordOK DEF ThrottleOK, Start
<1>3. /\ throttle' = [throttle EXCEPT ![host] = <<f>>] /\ acls' = [acls EXCEPT ![1] = l]
      /\ tries' = [tries EXCEPT ![host] = Append(@, now)] /\ now' = now
  BY DEF Accept, RecordOf, EntriesAfter
<1> HIDE DEF t, ts
<1>4. /\ f \in Throttle /\ CauseOK(f, Append(ts, now), l, host, now) /\ l \in Seq(Acl)
      /\ \A a \in ToSet(l) :
           a \in ToSet(acls[1]) \/ (a.type = "throttle" /\ a.cls = Default /\ a.conf = "temp")
      /\ \A o \in Hosts \ {host}, u \in Nat : KeptOut(acls[1], o, u) => KeptOut(l, o, u)
  BY <1>1, <1>2, EntriesAfterOK
<1> HIDE DEF f, l
<1>5. /\ acls' \in [Stages -> Seq(Acl)] /\ acls'[1] = l /\ \A s \in Stages : s # 1 => acls'[s] = acls[s]
  BY <1>1, <1>3, <1>4
<1>6. EntriesOK(class, acls')
  <2>1. ASSUME NEW s \in Stages, NEW a \in ToSet(acls'[s])
        PROVE  EntryOK(class, a)
    <3>1. a \in ToSet(acls[s]) \/ (a.cls = Default /\ a.conf = "temp")
      BY <1>4, <1>5
    <3> QED
      BY <3>1, AdmissionAssumption DEF EntriesOK, EntryOK
  <2> QED
    BY <1>5, <2>1 DEF EntriesOK
<1>7. AskedAgain
  BY <1>4, <1>5, NothingNew
<1>8. /\ throttle \in [Hosts -> Seq(Throttle)] /\ \A o \in Hosts : Len(throttle[o]) <= 1
      /\ DOMAIN tries = Hosts /\ \A o \in Hosts : tries[o] \in Seq(Start .. now)
      /\ \A o \in Hosts : \A i \in DOMAIN throttle[o] :
           CauseOK(throttle[o][i], tries[o], acls[1], o, now)
  BY DEF ThrottleOK
<1>9. /\ throttle' \in [Hosts -> Seq(Throttle)] /\ throttle'[host] = <<f>>
      /\ \A o \in Hosts : o # host => throttle'[o] = throttle[o] /\ tries'[o] = tries[o]
      /\ tries'[host] = Append(ts, now) /\ DOMAIN tries' = Hosts
  BY <1>3, <1>4, <1>8 DEF ts
<1>10. ASSUME NEW o \in Hosts
       PROVE  /\ Len(throttle'[o]) <= 1 /\ tries'[o] \in Seq(Start .. now)
              /\ \A i \in DOMAIN throttle'[o] :
                   CauseOK(throttle'[o][i], tries'[o], l, o, now)
  <2>1. CASE o = host
    <3>1. Append(ts, now) \in Seq(Start .. now)
      BY <1>2, now \in Start .. now DEF Start
    <3>2. Len(throttle'[o]) = 1 /\ \A i \in DOMAIN throttle'[o] : throttle'[o][i] = f
      <4> DEFINE q == throttle'[o]
      <4>1. q = <<f>>
        BY <1>9, <2>1
      <4> HIDE DEF q
      <4>2. Len(q) = 1 /\ \A i \in DOMAIN q : q[i] = f
        BY ONLY <4>1
      <4> QED
        BY <4>2 DEF q
    <3>3. Len(throttle'[o]) <= 1
      BY <3>2
    <3>4. tries'[o] = Append(ts, now)
      BY <1>9, <2>1
    <3>5. CauseOK(f, tries'[o], l, o, now)
      BY <1>4, <2>1, <3>4
    <3> QED
      BY <3>1, <3>2, <3>3, <3>4, <3>5
  <2>2. CASE o # host
    <3>1. ASSUME NEW i \in DOMAIN throttle[o]
          PROVE  CauseOK(throttle[o][i], tries[o], l, o, now)
      <4> DEFINE r == throttle[o][i]
      <4>1. CauseOK(r, tries[o], acls[1], o, now) /\ r \in Throttle
        BY <1>8
      <4> HIDE DEF r
      <4>2. r.banned \in Nat /\ r.stage \in 0 .. Len(Lengths)
        BY <4>1 DEF Throttle
      <4>3. r.banned # 0 => Lengths[r.stage] \in Nat
        <5>1. r.banned # 0 => r.stage \in 1 .. Len(Lengths)
          BY <4>1, <4>2 DEF CauseOK, BanOK
        <5> QED
          BY <5>1, LengthType
      <4>4. r.banned # 0 => r.banned + Lengths[r.stage] \in Nat
        BY <4>2, <4>3
      <4>5. EntryLasts(r, l, o, now)
        BY <1>4, <2>2, <4>1, <4>4 DEF CauseOK, EntryLasts
      <4> QED
        BY <4>1, <4>5 DEF CauseOK, r
    <3> QED
      BY <1>8, <1>9, <2>2, <3>1
  <2> QED
    BY <2>1, <2>2
<1>11. ThrottleOK'
  BY <1>3, <1>5, <1>9, <1>10 DEF ThrottleOK
<1> QED
  BY <1>6, <1>7, <1>11

\* ircd_listen_hook: the connection.
LEMMA AcceptStep ==
  ASSUME now \in Nat, now >= Start, links \in Nat, Fine(links), ThrottleOK,
         NEW c \in Slots, NEW host \in Hosts, Accept(c, host)
  PROVE  Sound(Here', links) /\ EntriesOK(class', acls') /\ ThrottleOK' /\ AskedAgain
<1> DEFINE x == [[conn[c] EXCEPT !.host = host] EXCEPT !.kind = "client"]
           co == [conn EXCEPT ![c].host = host, ![c].kind = "client"]
           g == [Here EXCEPT !.conn[c].host = host, !.conn[c].kind = "client"]
           h == AddToClass(g, Default, c)
           d == Destroyed(h, c)
           e == Listed(h, "stage1", c)
<1>1. ThrottleOK' /\ EntriesOK(class, acls') /\ AskedAgain
  BY AcceptThrottle DEF Fine
<1>2. Becomes(d) \/ Becomes(e)
  BY DEF Accept
<1>3. /\ Here \in States /\ CountsOf(Here, links) /\ ListedOnce(Here) /\ Placement(Here)
      /\ Here.class = class /\ Here.conn = conn /\ Here.list = list /\ conn[c].cls = NoClass
  BY DEF Fine, Sound, Here, Accept, Free
<1>4. /\ class \in [Classes -> Class] /\ conn \in [Slots -> Connection]
      /\ list \in [Lists -> Seq(Slots)]
  BY <1>3 DEF States
<1>5. x \in Connection /\ x.cls = NoClass
  <2> DEFINE y == conn[c]
  <2>1. y \in Connection /\ y.cls = NoClass
    BY <1>3, <1>4
  <2> HIDE DEF y
  <2>2. [[y EXCEPT !.host = host] EXCEPT !.kind = "client"] \in Connection
    BY <2>1 DEF Connection
  <2>3. [[y EXCEPT !.host = host] EXCEPT !.kind = "client"].cls = NoClass
    BY <2>1 DEF Connection
  <2> QED
    BY <2>2, <2>3 DEF y
<1>6. co = [k \in Slots |-> IF k = c THEN x ELSE conn[k]]
  BY <1>4
<1> HIDE DEF x, co
<1>7. co \in [Slots -> Connection] /\ \A k \in Slots : co[k].cls = conn[k].cls
  BY <1>3, <1>4, <1>5, <1>6
<1>8. g \in States /\ g.class = class /\ g.conn = co /\ g.list = list
  BY <1>4, <1>7 DEF Here, States, co
<1> HIDE DEF g
<1>9. CountsOf(g, links) /\ ListedOnce(g) /\ Placement(g)
  <2>1. CountsOf(g, links)
    BY <1>3, <1>7, <1>8, SameClasses
  <2> QED
    BY <1>3, <1>7, <1>8, <2>1 DEF ListedOnce, Placement, IsListed
<1>10. Default \in Classes /\ Default # NoClass /\ g.class[Default].here
  BY <1>8, <1>9, AdmissionAssumption DEF Classes, CountsOf
<1>11. /\ h \in States /\ CountsOf(h, links) /\ h.list = g.list
       /\ h.conn = [g.conn EXCEPT ![c].cls = Default] /\ Grows(g, h)
  BY <1>8, <1>9, <1>10, AddSound
<1> HIDE DEF h
<1>12. h.conn[c].cls = Default /\ \A k \in Slots \ {c} : h.conn[k] = g.conn[k]
  BY <1>7, <1>8, <1>11 DEF Connection
<1>13. ListedOnce(h) /\ PlacementBut(h, c) /\ ~IsListed(h, c) /\ h.conn[c].cls # NoClass
  <2>1. ~IsListed(g, c)
    BY <1>3, <1>7, <1>8, <1>9 DEF Placement
  <2> QED
    BY <1>9, <1>10, <1>11, <1>12, <2>1 DEF ListedOnce, Placement, PlacementBut, IsListed
<1>14. CASE Becomes(d)
  <2>1. Sound(d, links) /\ Grows(h, d)
    BY <1>11, <1>13, DestroyedSound
  <2> HIDE DEF d
  <2>2. Here' = d /\ class' = d.class
    <3>1. Here' = d
      BY <1>14, <2>1, BecomesHere DEF Sound
    <3> QED
      BY <3>1 DEF Here
  <2>3. EntriesOK(h.class, acls')
    BY <1>1, <1>8, <1>11, EntriesKept
  <2>4. EntriesOK(d.class, acls')
    BY <2>1, <2>3, EntriesKept
  <2> QED
    BY <1>1, <2>1, <2>2, <2>4
<1>15. CASE Becomes(e)
  <2>1. Sound(e, links) /\ e.class = h.class
    BY <1>11, <1>13, ListedSound DEF Lists
  <2> HIDE DEF e
  <2>2. Here' = e /\ class' = e.class
    <3>1. Here' = e
      BY <1>15, <2>1, BecomesHere DEF Sound
    <3> QED
      BY <3>1 DEF Here
  <2>3. EntriesOK(h.class, acls')
    BY <1>1, <1>8, <1>11, EntriesKept
  <2> QED
    BY <1>1, <2>1, <2>2, <2>3
<1> QED
  BY <1>2, <1>14, <1>15

-----------------------------------------------------------------------------
(* The invariant                                                           *)

\* At first one client is in the default class.
LEMMA FirstSound ==
  ASSUME Init
  PROVE  Sound(Here, 0) /\ EntriesOK(class, acls)
<1>1. PICK cfg \in Configs :
        /\ Default \in DOMAIN cfg.max
        /\ class = [k \in Classes |-> [here |-> k \in DOMAIN cfg.max, dead |-> FALSE,
                                       clients |-> IF k = Default THEN 1 ELSE 0,
                                       max |-> IF k \in DOMAIN cfg.max THEN cfg.max[k] ELSE 0]]
        /\ acls = [s \in Stages |-> Configured(<<>>, class, cfg.acls[s])]
  BY DEF Init
<1>2. PICK c \in Slots, host \in Hosts :
        /\ conn = [d \in Slots |-> IF d = c THEN [Unused EXCEPT !.cls = Default, !.host = host]
                                   ELSE Unused]
        /\ list = [l \in Lists |-> IF l = "clients" THEN <<c>> ELSE <<>>]
  BY DEF Init
<1>3. PICK named \in SUBSET Classes : cfg.max \in [named -> Nat]
  BY ConfigsAssumption
<1>4. /\ class \in [Classes -> Class]
      /\ \A k \in Classes : /\ class[k].here <=> k \in DOMAIN cfg.max
                            /\ class[k].dead = FALSE
                            /\ class[k].clients = IF k = Default THEN 1 ELSE 0
  <2> DEFINE named2 == DOMAIN cfg.max
  <2>1. ASSUME NEW k \in Classes
        PROVE  /\ class[k] \in Class /\ (class[k].here <=> k \in named2)
               /\ class[k].dead = FALSE /\ class[k].clients = IF k = Default THEN 1 ELSE 0
    <3> DEFINE many == IF k = Default THEN 1 ELSE 0
               limit == IF k \in named2 THEN cfg.max[k] ELSE 0
               there == k \in named2
    <3>1. class[k] = [here |-> there, dead |-> FALSE, clients |-> many, max |-> limit]
      BY <1>1
    <3>2. /\ many \in Int /\ limit \in Nat /\ there \in BOOLEAN /\ (there <=> k \in named2)
          /\ many = IF k = Default THEN 1 ELSE 0
      BY <1>3
    <3> HIDE DEF limit, many, there, named2
    <3>3. class[k] \in Class
      BY <3>1, <3>2 DEF Class
    <3>4. class[k].here = there /\ class[k].dead = FALSE /\ class[k].clients = many
      BY <3>1
    <3> QED
      BY <3>2, <3>3, <3>4
  <2>2. class = [k \in Classes |-> class[k]]
    BY <1>1
  <2> QED
    BY <2>1, <2>2
<1> DEFINE x == [[Unused EXCEPT !.cls = Default] EXCEPT !.host = host]
<1>5. x \in Connection /\ x.cls = Default /\ Unused \in Connection /\ Unused.cls = NoClass
  BY UnusedType DEF Connection, Classes
<1>6. conn = [d \in Slots |-> IF d = c THEN x ELSE Unused]
  BY <1>2
<1> HIDE DEF x
<1>7. /\ conn \in [Slots -> Connection] /\ conn[c].cls = Default
      /\ \A d \in Slots \ {c} : conn[d].cls = NoClass
  BY <1>5, <1>6
<1>8. Default # NoClass /\ \A k \in Others : k # NoClass /\ k # Default /\ k \in Classes
  BY AdmissionAssumption DEF Classes
<1>9. Members(conn, Default) = {c} /\ \A k \in Others : Members(conn, k) = {}
  BY <1>7, <1>8 DEF Members
<1>10. Cardinality({c}) = 1 /\ Cardinality({}) = 0
  BY FS_Singleton, FS_EmptySet
<1>11. Here.class = class /\ Here.conn = conn /\ Here.list = list
  BY DEF Here
<1>12. CountsOf(Here, 0)
  <2>1. Default \in Classes
    BY DEF Classes
  <2>2. class[Default].here /\ class[Default].clients = Cardinality(Members(conn, Default)) - 0
    BY <1>1, <1>4, <1>9, <1>10, <2>1
  <2>3. ASSUME NEW k \in Others
        PROVE  /\ class[k].clients = Cardinality(Members(conn, k))
               /\ Members(conn, k) = {} /\ class[k].dead = FALSE
    BY <1>4, <1>8, <1>9, <1>10
  <2> QED
    BY <1>11, <2>2, <2>3 DEF CountsOf
<1>13. /\ list \in [Lists -> Seq(Slots)]
       /\ list["clients"] = <<c>> /\ \A l \in Lists : l # "clients" => list[l] = <<>>
  <2>1. <<c>> \in Seq(Slots) /\ <<>> \in Seq(Slots)
    OBVIOUS
  <2> QED
    BY <1>2, <2>1 DEF Lists
<1>14. ToSet(<<c>>) = {c} /\ ToSet(<<>>) = {} /\ IsInjective(<<c>>) /\ IsInjective(<<>>)
  BY DEF ToSet, IsInjective
<1>15. ASSUME NEW l \in Lists
       PROVE  /\ IsInjective(list[l]) /\ (l = "clients" => ToSet(list[l]) = {c})
              /\ l # "clients" => ToSet(list[l]) = {}
  BY <1>13, <1>14
<1>16. ListedOnce(Here)
  BY <1>11, <1>15 DEF ListedOnce
<1>17. Placement(Here)
  <2>1. ASSUME NEW d \in Slots
        PROVE  IsListed(Here, d) <=> d = c
    BY <1>11, <1>15 DEF IsListed, Lists
  <2> QED
    BY <1>7, <1>8, <1>11, <2>1 DEF Placement
<1>18. Here \in States
  BY <1>4, <1>7, <1>13 DEF Here, States
<1>19. ASSUME NEW s \in Stages
       PROVE  acls[s] \in Seq(Acl) /\ \A a \in ToSet(acls[s]) : EntryOK(class, a)
  <2> DEFINE l == <<>>
             entries == cfg.acls[s]
             cl == class
  <2>1. l \in Seq(Acl) /\ \A a \in ToSet(l) : a.conf = "none" => a.cls = Default
    BY <1>14
  <2>2. entries \in Seq(ConfAcl) /\ cl \in [Classes -> Class]
    BY <1>4, ConfigsAssumption
  <2>3. acls[s] = Configured(l, cl, entries)
    BY <1>1
  <2> HIDE DEF l, entries, cl
  <2>4. /\ Configured(l, cl, entries) \in Seq(Acl)
        /\ \A a \in ToSet(Configured(l, cl, entries)) : EntryOK(cl, a)
    BY <2>1, <2>2, ConfiguredSet
  <2> QED
    BY <2>3, <2>4 DEF cl
<1>20. EntriesOK(class, acls)
  BY <1>1, <1>19 DEF EntriesOK
<1> QED
  BY <1>12, <1>16, <1>17, <1>18, <1>20 DEF Sound

\* It holds at first.
LEMMA InvariantInit ==
  ASSUME Init
  PROVE  IInv
<1>1. /\ now = Start /\ links = 0 /\ work = 0
      /\ throttle = [host \in Hosts |-> <<>>] /\ tries = [host \in Hosts |-> <<>>]
  BY DEF Init
<1>2. ThrottleOK
  BY <1>1 DEF ThrottleOK
<1>3. now \in Start .. Start + LastTime /\ links \in Nat /\ work \in 0 .. MaxWork
  BY <1>1, AdmissionAssumption DEF Start
<1>4. Sound(Here, links)
  BY <1>1, FirstSound
<1> QED
  BY <1>2, <1>3, <1>4, FirstSound DEF IInv

\* What a step keeps, but for the bounds.
KeepsAll ==
    Sound(Here', links') /\ EntriesOK(class', acls') /\ ThrottleOK' /\ AskedAgain

\* Steps that leave the entries and the throttle alone.
LEMMA KeepsOthers ==
  ASSUME now \in Nat, ThrottleOK, UNCHANGED <<now, acls, throttle, tries>>,
         Sound(Here', links'), EntriesOK(class', acls')
  PROVE  KeepsAll
<1>1. ThrottleOK'
  BY ThrottleSame
<1>2. AskedAgain
  BY NothingNew
<1> QED
  BY <1>1, <1>2 DEF KeepsAll

\* Each step of a connection keeps it.
LEMMA ConnectionSteps ==
  ASSUME IInv, NEW c \in Slots,
         \/ \E host \in Hosts : Accept(c, host) \/ ServerConnect(c, host)
         \/ Stage2(c) \/ Register(c) \/ Leave(c) \/ ServerRegister(c)
         \/ \E k \in Classes : Introduce(c, k) \/ Oper(c, k)
  PROVE  KeepsAll
<1>1. /\ now \in Nat /\ now >= Start /\ links \in Nat /\ Fine(links) /\ ThrottleOK
  BY AdmissionAssumption DEF IInv, Fine, Start
<1>2. ASSUME NEW host \in Hosts, Accept(c, host)
      PROVE  KeepsAll
  <2>1. links' = links
    BY <1>2 DEF Accept
  <2> QED
    BY <1>1, <1>2, <2>1, AcceptStep DEF KeepsAll
<1>3. ASSUME NEW host \in Hosts, ServerConnect(c, host)
      PROVE  KeepsAll
  <2>1. links' = links + 1 /\ UNCHANGED <<now, acls, throttle, tries>>
    BY <1>3 DEF ServerConnect
  <2> QED
    BY <1>1, <1>3, <2>1, ServerConnectStep, KeepsOthers
<1>4. CASE Stage2(c)
  <2>1. UNCHANGED <<now, acls, throttle, tries, links>>
    BY <1>4 DEF Stage2
  <2> QED
    BY <1>1, <1>4, <2>1, Stage2Step, KeepsOthers
<1>5. CASE Register(c)
  <2>1. UNCHANGED <<now, acls, throttle, tries, links>>
    BY <1>5 DEF Register
  <2> QED
    BY <1>1, <1>5, <2>1, RegisterStep, KeepsOthers
<1>6. CASE Leave(c)
  <2>1. UNCHANGED <<now, acls, throttle, tries, links>>
    BY <1>6 DEF Leave
  <2> QED
    BY <1>1, <1>6, <2>1, LeaveStep, KeepsOthers
<1>7. CASE ServerRegister(c)
  <2>1. UNCHANGED <<now, acls, throttle, tries, links>>
    BY <1>7 DEF ServerRegister
  <2> QED
    BY <1>1, <1>7, <2>1, ServerRegisterStep, KeepsOthers
<1>8. ASSUME NEW k \in Classes, Introduce(c, k)
      PROVE  KeepsAll
  <2>1. UNCHANGED <<now, acls, throttle, tries, links>>
    BY <1>8 DEF Introduce
  <2> QED
    BY <1>1, <1>8, <2>1, IntroduceStep, KeepsOthers
<1>9. ASSUME NEW k \in Classes, Oper(c, k)
      PROVE  KeepsAll
  <2>1. UNCHANGED <<now, acls, throttle, tries, links>>
    BY <1>9 DEF Oper
  <2> QED
    BY <1>1, <1>9, <2>1, OperStep, KeepsOthers
<1> QED
  BY <1>2, <1>3, <1>4, <1>5, <1>6, <1>7, <1>8, <1>9

\* And so does each step of a command, a reload or a timer.
LEMMA OtherSteps ==
  ASSUME IInv,
         \/ \E c \in Slots, s \in Stages, deny \in BOOLEAN, mask \in Masks, time \in Times :
              AclAdd(c, s, deny, mask, time)
         \/ \E s \in Stages, mask \in Masks, time \in Times : Akill(s, mask, time)
         \/ \E s \in Stages : \E i \in 1 .. Len(acls[s]) : AclExpires(s, i) \/ AclDel(s, i)
         \/ \E cfg \in Configs : Reload(cfg)
         \/ \E host \in Hosts : ThrottleExpires(host)
         \/ Tick
  PROVE  KeepsAll
<1>1. /\ now \in Nat /\ links \in Nat /\ Fine(links) /\ ThrottleOK
  BY AdmissionAssumption DEF IInv, Fine, Start
<1>2. links' = links
  BY DEF AclAdd, Akill, AclExpires, AclDel, Reload, ThrottleExpires, Tick
<1>3. Sound(Here', links) /\ EntriesOK(class', acls') /\ ThrottleOK' /\ AskedAgain
  BY <1>1, AclAddStep, AkillStep, AclExpiresStep, AclDelStep, ReloadStep, ThrottleExpiresStep,
     TickStep
<1> QED
  BY <1>2, <1>3 DEF KeepsAll

\* Every step keeps the whole of the invariant.
LEMMA InvariantNext ==
  ASSUME IInv, [Next]_vars
  PROVE  IInv' /\ AskedAgain
<1>1. CASE Next
  <2>1. KeepsAll
    BY <1>1, ConnectionSteps, OtherSteps DEF Next
  <2>2. now' \in Start .. Start + LastTime /\ links' \in Nat /\ work' \in 0 .. MaxWork
    <3>1. /\ now \in Start .. Start + LastTime /\ links \in Nat /\ work \in 0 .. MaxWork
          /\ LastTime \in Nat /\ MaxWork \in Nat
      BY AdmissionAssumption DEF IInv
    <3> DEFINE Moves == /\ now' = now \/ (now < Start + LastTime /\ now' = now + 1)
                        /\ links' = links \/ links' = links + 1
                        /\ work' = work \/ Works
    <3>2. ASSUME NEW c \in Slots, NEW k \in Classes, Introduce(c, k)
          PROVE  Moves
      <4>1. conn[c].kind \in {"client", "connecting", "introduced"}
        <5>1. conn \in [Slots -> Connection]
          BY DEF IInv, Sound, States, Here
        <5> QED
          BY <5>1 DEF Connection
      <4> QED
        BY <3>2, <4>1 DEF Introduce
    <3>3. ASSUME NEW c \in Slots,
                 \/ \E host \in Hosts : Accept(c, host) \/ ServerConnect(c, host)
                 \/ Stage2(c) \/ Register(c) \/ Leave(c) \/ ServerRegister(c)
                 \/ \E k \in Classes : Introduce(c, k) \/ Oper(c, k)
                 \/ \E s \in Stages, deny \in BOOLEAN, mask \in Masks, time \in Times :
                      AclAdd(c, s, deny, mask, time)
          PROVE  Moves
      BY <3>2, <3>3 DEF Accept, ServerConnect, Stage2, Register, Leave, ServerRegister, Oper, AclAdd
    <3>4. ASSUME NEW s \in Stages,
                 \/ \E mask \in Masks, time \in Times : Akill(s, mask, time)
                 \/ \E k \in 1 .. Len(acls[s]) : AclExpires(s, k) \/ AclDel(s, k)
          PROVE  Moves
      BY <3>4 DEF Akill, AclExpires, AclDel
    <3>5. ASSUME \/ \E cfg \in Configs : Reload(cfg)
                 \/ \E host \in Hosts : ThrottleExpires(host)
                 \/ Tick
          PROVE  Moves
      BY <3>5 DEF Reload, ThrottleExpires, Tick
    <3>6. Moves
      BY <1>1, <3>3, <3>4, <3>5 DEF Next
    <3> HIDE DEF Moves
    <3>7. /\ now' = now \/ (now < Start + LastTime /\ now' = now + 1)
          /\ links' = links \/ links' = links + 1
          /\ work' = work \/ (work < MaxWork /\ work' = work + 1)
      BY <3>6 DEF Moves, Works
    <3> QED
      BY <3>1, <3>7 DEF Start
  <2> QED
    BY <2>1, <2>2 DEF KeepsAll, IInv
<1>2. CASE UNCHANGED vars
  <2>1. UNCHANGED <<now, class, conn, list, acls, throttle, links, tries, work>>
    BY <1>2 DEF vars
  <2>2. IInv'
    BY <2>1 DEF IInv, ThrottleOK, Here
  <2>3. AskedAgain
    BY <2>1, NothingNew
  <2> QED
    BY <2>2, <2>3
<1> QED
  BY <1>1, <1>2

\* The invariant holds of every state of admission.
THEOREM Invariant == Spec => []IInv
<1>1. Init => IInv
  BY InvariantInit
<1>2. IInv /\ [Next]_vars => IInv'
  BY InvariantNext
<1> QED
  BY <1>1, <1>2, PTL DEF Spec

-----------------------------------------------------------------------------
(* What the runs check                                                     *)

\* The lists that a connection is in.
LEMMA OneList ==
  ASSUME NEW h, NEW n, Sound(h, n), NEW c \in Slots
  PROVE  Cardinality({l \in Lists : c \in ToSet(h.list[l])}) =
            IF h.conn[c].cls = NoClass THEN 0 ELSE 1
<1> DEFINE in == {l \in Lists : c \in ToSet(h.list[l])}
<1>1. IsListed(h, c) <=> h.conn[c].cls # NoClass
  BY DEF Sound, Placement
<1>2. CASE h.conn[c].cls = NoClass
  <2>1. in = {}
    BY <1>1, <1>2 DEF IsListed
  <2> QED
    BY <1>2, <2>1, FS_EmptySet
<1>3. CASE h.conn[c].cls # NoClass
  <2>1. PICK l \in Lists : c \in ToSet(h.list[l])
    BY <1>1, <1>3 DEF IsListed
  <2>2. in = {l}
    BY <2>1 DEF Sound, ListedOnce
  <2> QED
    BY <1>3, <2>2, FS_Singleton
<1> QED
  BY <1>2, <1>3

\* Records have their types in every state, a connection is in one list, and a free slot
\* in none, however connections come, pass, are placed, refused and destroyed.
THEOREM TypeCorrect == Spec => []TypeOK
<1>1. IInv => TypeOK
  <2> SUFFICES ASSUME IInv
               PROVE  TypeOK
    OBVIOUS
  <2>1. /\ class \in [Classes -> Class] /\ conn \in [Slots -> Connection]
        /\ list \in [Lists -> Seq(Slots)]
    BY DEF IInv, Sound, States, Here
  <2>2. ASSUME NEW s \in Stages
        PROVE  ToSet(acls[s]) \subseteq Acl
    <3>1. acls[s] \in Seq(Acl)
      BY DEF IInv, EntriesOK
    <3> QED
      BY <3>1 DEF ToSet
  <2>3. ASSUME NEW host \in Hosts
        PROVE  Len(throttle[host]) <= 1 /\ ToSet(throttle[host]) \subseteq Throttle
    <3>1. throttle[host] \in Seq(Throttle) /\ Len(throttle[host]) <= 1
      BY DEF IInv, ThrottleOK
    <3> QED
      BY <3>1 DEF ToSet
  <2>4. ASSUME NEW c \in Slots
        PROVE  Cardinality({l \in DOMAIN list : c \in ToSet(list[l])}) = IF Free(c) THEN 0 ELSE 1
    <3> DEFINE h == Here
    <3>1. Sound(h, links) /\ h.conn = conn /\ h.list = list
      BY DEF IInv, Here
    <3> HIDE DEF h
    <3>2. Cardinality({l \in Lists : c \in ToSet(h.list[l])}) =
            IF h.conn[c].cls = NoClass THEN 0 ELSE 1
      BY <3>1, OneList
    <3>3. DOMAIN list = Lists
      BY <2>1
    <3> QED
      BY <3>1, <3>2, <3>3 DEF Free
  <2> QED
    BY <2>1, <2>2, <2>3, <2>4 DEF TypeOK, IInv
<1> QED
  BY <1>1, Invariant, PTL

\* The clients that a class counts are the connections that point to it, less the links;
\* classes are freed neither early nor late, and no entry points to one that may be.
THEOREM ClassesCountedAlways == Spec => []ClassesCounted
<1>1. IInv => ClassesCounted
  <2> SUFFICES ASSUME IInv
               PROVE  ClassesCounted
    OBVIOUS
  <2>1. CountsOf(Here, links) /\ Here.class = class /\ Here.conn = conn
    BY DEF IInv, Sound, Here
  <2>2. \A s \in Stages : \A a \in ToSet(acls[s]) :
          a.cls \in Others => class[a.cls].here /\ ~class[a.cls].dead
    BY DEF IInv, EntriesOK, EntryOK
  <2> QED
    BY <2>1, <2>2 DEF ClassesCounted, CountsOf
<1> QED
  BY <1>1, Invariant, PTL

\* Whoever is banned has connected as often as that takes, and until the ban ends an
\* entry keeps the address out, whatever timers run and commands remove.
THEOREM ThrottledForCauseAlways == Spec => []ThrottledForCause
<1>1. IInv => ThrottledForCause
  <2> SUFFICES ASSUME IInv, NEW host \in Hosts, NEW t \in ToSet(throttle[host]), t.banned # 0
               PROVE  /\ Cardinality({i \in DOMAIN tries[host] :
                           tries[host][i] \in t.banned - TriggerTime .. t.banned}) >= TriggerCount
                      /\ now < t.banned + Lengths[t.stage] =>
                           \E a \in ToSet(acls[1]) :
                             a.type = "throttle" /\ a.mask = {host} /\ a.expire > now
    BY DEF ThrottledForCause
  <2> DEFINE ts == tries[host]
             a == t.banned - TriggerTime
             b == t.banned
  <2>1. t \in Throttle /\ CauseOK(t, ts, acls[1], host, now)
    <3>1. PICK i \in DOMAIN throttle[host] : t = throttle[host][i]
      BY DEF ToSet
    <3>2. throttle[host] \in Seq(Throttle)
      BY DEF IInv, ThrottleOK
    <3> QED
      BY <3>1, <3>2 DEF IInv, ThrottleOK
  <2>2. ts \in Seq(Int) /\ now \in Nat
    BY AdmissionAssumption DEF IInv, ThrottleOK, Start
  <2>3. b \in Nat /\ t.stage \in 0 .. Len(Lengths) /\ a \in Int
    BY <2>1, AdmissionAssumption DEF Throttle
  <2> HIDE DEF ts, a
  <2>4. t.stage >= 1 /\ TriggerCount <= Cardinality(Within(ts, a, b))
    BY <2>1 DEF CauseOK, BanOK, a
  <2>5. Lengths[t.stage] \in Nat
    <3>1. t.stage \in 1 .. Len(Lengths)
      BY <2>3, <2>4
    <3> QED
      BY <3>1, LengthType
  <2>6. Cardinality(Within(ts, a, b)) >= TriggerCount
    BY <2>4
  <2>7. ASSUME now < b + Lengths[t.stage]
        PROVE  \E e \in ToSet(acls[1]) : e.type = "throttle" /\ e.mask = {host} /\ e.expire > now
    <3>1. PICK e \in ToSet(acls[1]) :
            e.type = "throttle" /\ e.mask = {host} /\ e.expire >= b + Lengths[t.stage]
      BY <2>1, <2>7 DEF CauseOK, EntryLasts, KeptOut
    <3>2. e \in Acl
      BY AdmissionAssumption DEF IInv, EntriesOK, Stages, ToSet
    <3>3. e.expire \in Nat
      BY <3>2 DEF Acl
    <3> QED
      BY <2>2, <2>3, <2>5, <2>7, <3>1, <3>3
  <2> QED
    BY <2>6, <2>7 DEF Within, ts, a
<1> QED
  BY <1>1, Invariant, PTL

\* When a command has added an entry nobody whom the entries of that stage refuse is left
\* there, although each who is destroyed makes room for others.
THEOREM CheckIsFinalAlways == Spec => CheckIsFinal
<1>1. IInv /\ [Next]_vars => [AskedAgain]_vars
  BY InvariantNext
<1>2. Spec => [][AskedAgain]_vars
  BY <1>1, Invariant, PTL DEF Spec
<1>3. [AskedAgain]_vars <=>
        [\A s \in Stages :
           (\E a \in ToSet(acls'[s]) \ ToSet(acls[s]) : a.type \in {"command", "akill"}) =>
             ~\E c \in ToSet(list'[Waiting[s]]) :
               RefusedBy([class |-> class', conn |-> conn', list |-> list'], acls'[s], s, c)]_vars
  BY DEF AskedAgain
<1> QED
  BY <1>2, <1>3, PTL DEF CheckIsFinal
=============================================================================
