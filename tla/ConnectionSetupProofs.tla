----------------------- MODULE ConnectionSetupProofs -----------------------
(***************************************************************************)
(* StagesSound holds in every state of ConnectionSetup, whatever the       *)
(* connections, the addresses and the names are.                           *)
(*                                                                         *)
(* Between events a connection in stage 1 waits for a lookup or an ident   *)
(* request.  During one it may also be waiting for a call in progress: a   *)
(* lookup that is finishing and has hooks left to call, its own init, or a *)
(* walk of the list that has yet to come to it.  The invariant says this,  *)
(* and that the walks lead along stage 1: the one that is nested in        *)
(* another never takes away the connection the outer one goes to next.     *)
(***************************************************************************)
EXTENDS ConnectionSetup, ListLemmas

\* The lookup that a connection waits for.
Needs(cn, l) ==
  IF l.type = "PTR" THEN cn.flags \cap DNS = {} /\ l.name = cn.ip
                    ELSE cn.flags \cap DNS = {PTR} /\ l.name = cn.host

\* The connection a walk visits next.
Ahead(f) == IF f.step = "visit" THEN f.cur ELSE f.nxt

\* What the outermost call is.
Starting(c) == stack # <<>> /\ stack[1].op = "init" /\ stack[1].c = c
Finishes(l) == stack # <<>> /\ stack[1].op = "finish" /\ stack[1].l = l

\* A walk with the answer of l will visit c.
Coming(l, c) ==
  \E i \in DOMAIN stack :
    stack[i].op = "walk" /\ stack[i].l = l /\ Precedes(stage1, Ahead(stack[i]), c)

\* The answer of l will be brought to c.
Awaited(l, c) ==
  \/ hooks[l] > 0 /\ ~Finishes(l)
  \/ Finishes(l) /\ stack[1].left > 0
  \/ l.type = "PTR" /\ Starting(c) /\ stack[1].step = "dns"
  \/ Coming(l, c)

\* A call in progress will look whether c has everything for stage 2.
InHand(c) ==
  \/ Starting(c)
  \/ \E i \in DOMAIN stack :
       stack[i].op = "walk" /\ stack[i].step = "done" /\ stack[i].cur = c

\* Who may need the answer of l that is cached: the one it was looked up for.
Asker(l, c) ==
  IF l.type = "PTR" THEN Starting(c)
                    ELSE Len(stack) = 3 /\ stack[3].l = l /\ stack[2].cur = c

Placed ==
  /\ OnOneList
  /\ ToSet(stage1) \cup ToSet(stage2) \cup freed \subseteq DOMAIN conn

\* Before its lookups a connection has its address for a host, between them a
\* name, and after them one of the two, the name proven.
Named(cn) ==
  /\ cn.flags \cap DNS \in {{}, {PTR}, DNS}
  /\ cn.flags \cap DNS = {} => cn.host = cn.ip
  /\ cn.flags \cap DNS = {PTR} => cn.host \in Hosts
  /\ DNS \subseteq cn.flags => cn.host = cn.ip \/ cn.host \in cn.proven
AllNamed == \A c \in DOMAIN conn : Named(conn[c])

\* The calls in progress: a lookup's end or an init, a walk, and a walk for a
\* cached forward lookup inside that.
Shape ==
  /\ Len(stack) <= 3
  /\ \A i \in DOMAIN stack : stack[i].op = "walk" <=> i > 1
  /\ Len(stack) >= 2 =>
       IF stack[1].op = "finish" THEN stack[2].l = stack[1].l
       ELSE /\ stack[2].l.type = "PTR" /\ cache[stack[2].l] # {}
            /\ stack[2].step = "done" => stack[2].cur = stack[1].c
  /\ Len(stack) = 3 =>
       /\ stack[2].l.type = "PTR" /\ stack[2].step = "done"
       /\ stack[3].l.type = "A" /\ cache[stack[3].l] # {}
       /\ stack[3].step = "done" /\ Done(conn[stack[3].cur].flags) =>
            stack[3].cur # stack[2].nxt

\* What they keep pointers to.
Leads(f) ==
  /\ f.op = "walk" =>
       /\ Ahead(f) \in ToSet(stage1) \cup {None}
       /\ f.step = "done" => f.cur \in DOMAIN conn /\ f.nxt # f.cur
  /\ f.op = "init" => f.c \in DOMAIN conn
  /\ f.op = "finish" => f.a \in AnswersTo(f.l)
Frames == \A i \in DOMAIN stack : Leads(stack[i])

Waits(c) ==
  /\ \A l \in Lookups : Needs(conn[c], l) => Awaited(l, c)
  /\ IDENT \notin conn[c].flags => ident[c] # "no" \/ (Starting(c) /\ stack[1].step # "end")
  /\ Done(conn[c].flags) => InHand(c)
Waiting == \A c \in ToSet(stage1) : Waits(c)

\* An answer is cached when nobody waits for it any more.
KeptFor(l) ==
  cache[l] # {} =>
    hooks[l] = 0 /\ \A c \in ToSet(stage1) : Needs(conn[c], l) => Asker(l, c)
Kept == \A l \in Lookups : KeptFor(l)

Calls == Shape /\ Frames
IInv == TypeOK /\ Placed /\ AllNamed /\ Calls /\ Waiting /\ Kept

-----------------------------------------------------------------------------
(* Types, lists and stacks.                                                *)

LEMMA Types ==
  ASSUME TypeOK
  PROVE  /\ stage1 \in Seq(Conns) /\ stage2 \in Seq(Conns)
         /\ DOMAIN conn \subseteq Conns /\ conn \in [DOMAIN conn -> ConnType]
         /\ freed \subseteq DOMAIN conn
         /\ hooks \in [Lookups -> Nat]
         /\ cache \in [Lookups -> SUBSET Answers]
         /\ \A l \in Lookups : cache[l] \subseteq AnswersTo(l) /\ Cardinality(cache[l]) <= 1
         /\ ident \in [Conns -> {"no", "connecting", "asked"}]
         /\ stack \in Seq(Frame) /\ Len(stack) \in Nat /\ DOMAIN stack = 1..Len(stack)
         /\ \A i \in 1..Len(stack) : stack[i] \in Frame
         /\ fault \in BOOLEAN
         /\ None \notin Conns /\ None \notin Hosts /\ None \notin Ips
         /\ Hosts \cap Ips = {}
<1> stack \in Seq(Frame)
  BY DEF TypeOK
<1> QED
  BY SetupAssumption DEF TypeOK

LEMMA FrameTypes ==
  ASSUME NEW f \in Frame
  PROVE  /\ f.op \in {"init", "walk", "finish"}
         /\ f.op = "init" => f.c \in Conns /\ f.step \in {"dns", "ident", "end"}
         /\ f.op = "walk" => /\ f.l \in Lookups /\ f.a \in Answers
                             /\ f.cur \in Conns \cup {None} /\ f.nxt \in Conns \cup {None}
                             /\ f.step \in {"visit", "done"}
         /\ f.op = "finish" => f.l \in Lookups /\ f.a \in Answers /\ f.left \in Nat
  BY DEF Frame

\* The two kinds of lookup.
LEMMA LookupTypes ==
  ASSUME NEW l \in Lookups
  PROVE  /\ l.type \in {"PTR", "A"}
         /\ l.type = "PTR" => l.name \in Ips /\ l = [type |-> "PTR", name |-> l.name]
         /\ l.type = "A" => l.name \in Hosts /\ l = [type |-> "A", name |-> l.name]
  BY DEF Lookups

LEMMA LookupMade ==
  /\ \A ip \in Ips : [type |-> "PTR", name |-> ip] \in Lookups
  /\ \A h \in Hosts : [type |-> "A", name |-> h] \in Lookups
  BY DEF Lookups

LEMMA ContainsIsIn ==
  ASSUME NEW S, NEW s \in Seq(S), NEW e
  PROVE  Contains(s, e) <=> e \in ToSet(s)
  BY DEF Contains, ToSet

LEMMA MembersOf ==
  ASSUME NEW S, NEW s \in Seq(S)
  PROVE  ToSet(s) \subseteq S
  BY DEF ToSet

LEMMA PrecedesIn ==
  ASSUME NEW s, NEW x, NEW y, Precedes(s, x, y)
  PROVE  x \in ToSet(s) /\ y \in ToSet(s)
  BY DEF Precedes, ToSet

\* LIST_NEXT leads to the rest of the list.
LEMMA NextLeads ==
  ASSUME NEW S, NEW s \in Seq(S), None \notin S, IsInjective(s), NEW c \in ToSet(s)
  PROVE  /\ NextIn(s, c) \in ToSet(s) \cup {None} /\ NextIn(s, c) # c
         /\ \A d : Precedes(s, c, d) /\ d # c => Precedes(s, NextIn(s, c), d)
<1>1. Len(s) \in Nat /\ DOMAIN s = 1..Len(s) /\ \A j \in DOMAIN s : s[j] \in S
  OBVIOUS
<1>2. PICK i : i = CHOOSE j \in DOMAIN s : s[j] = c
  OBVIOUS
<1>3. i \in DOMAIN s /\ s[i] = c
  BY <1>2 DEF ToSet
<1>4. NextIn(s, c) = IF i < Len(s) THEN s[i + 1] ELSE None
  BY <1>2 DEF NextIn
<1>5. NextIn(s, c) \in ToSet(s) \cup {None}
  BY <1>1, <1>3, <1>4 DEF ToSet
<1>6. NextIn(s, c) # c
  BY <1>1, <1>3, <1>4 DEF IsInjective
<1>7. ASSUME NEW d, Precedes(s, c, d), d # c
      PROVE  Precedes(s, NextIn(s, c), d)
  <2>1. PICK k \in DOMAIN s, j \in DOMAIN s : k <= j /\ s[k] = c /\ s[j] = d
    BY <1>7 DEF Precedes
  <2>2. k = i /\ j # i
    BY <1>3, <1>7, <2>1 DEF IsInjective
  <2>3. i + 1 \in DOMAIN s /\ i + 1 <= j /\ i < Len(s)
    BY <1>1, <1>3, <2>1, <2>2
  <2> QED
    BY <1>4, <2>1, <2>3 DEF Precedes
<1> QED
  BY <1>5, <1>6, <1>7

\* LIST_FIRST of stage 1 leads to all of it.
LEMMA HeadLeads ==
  ASSUME stage1 \in Seq(Conns)
  PROVE  /\ Head1 \in ToSet(stage1) \cup {None}
         /\ \A d \in ToSet(stage1) : Precedes(stage1, Head1, d)
<1>1. Len(stage1) \in Nat /\ DOMAIN stage1 = 1..Len(stage1)
  OBVIOUS
<1>2. CASE stage1 = <<>>
  BY <1>2 DEF Head1, ToSet
<1>3. CASE stage1 # <<>>
  <2>1. 1 \in DOMAIN stage1 /\ Head1 = stage1[1]
    BY <1>1, <1>3 DEF Head1
  <2> QED
    BY <1>1, <2>1 DEF ToSet, Precedes
<1> QED
  BY <1>2, <1>3

\* The top of the stack.
LEMMA CallTop ==
  ASSUME TypeOK, Shape, NEW op, Calling(op)
  PROVE  /\ stack # <<>> /\ Len(stack) \in 1..3 /\ DOMAIN stack = 1..Len(stack)
         /\ Top = stack[Len(stack)] /\ Top \in Frame /\ Top.op = op /\ ~fault
         /\ op = "walk" <=> Len(stack) > 1
<1>1. stack \in Seq(Frame) /\ stack # <<>> /\ ~fault /\ Top.op = op
  BY Types DEF Calling
<1>2. Len(stack) \in Nat \ {0} /\ Last(stack) = stack[Len(stack)] /\ Last(stack) \in Frame
  BY <1>1, StackProperties
<1>3. DOMAIN stack = 1..Len(stack) /\ Len(stack) \in DOMAIN stack
  BY <1>2, Types
<1> QED
  BY <1>1, <1>2, <1>3 DEF Shape, Top

LEMMA Replaced ==
  ASSUME TypeOK, stack # <<>>, NEW f \in Frame
  PROVE  /\ Replace(f) \in Seq(Frame) /\ Replace(f) # <<>>
         /\ Len(Replace(f)) = Len(stack) /\ DOMAIN Replace(f) = DOMAIN stack
         /\ Replace(f)[Len(stack)] = f
         /\ \A i \in DOMAIN stack : i < Len(stack) => Replace(f)[i] = stack[i]
<1>1. stack \in Seq(Frame) /\ Len(stack) \in Nat \ {0} /\ DOMAIN stack = 1..Len(stack)
  BY Types
<1>2. /\ Append(Front(stack), f) \in Seq(Frame) /\ Len(Append(Front(stack), f)) = Len(stack)
      /\ \A i \in 1..Len(stack) :
           Append(Front(stack), f)[i] = IF i < Len(stack) THEN stack[i] ELSE f
  <2>1. stack \in Seq(Frame) /\ stack # <<>> /\ f \in Frame
    BY <1>1
  <2> QED
    BY ONLY <2>1, StackProperties
<1>3. Replace(f) = Append(Front(stack), f)
  BY DEF Replace
<1> DEFINE t == Replace(f)
<1>4. /\ t \in Seq(Frame) /\ Len(t) = Len(stack)
      /\ \A i \in 1..Len(stack) : t[i] = IF i < Len(stack) THEN stack[i] ELSE f
  BY <1>2, <1>3
<1> HIDE DEF t
<1>5. DOMAIN t = 1..Len(t) /\ t # <<>> /\ t[Len(stack)] = f
  BY <1>1, <1>4
<1>6. \A i \in DOMAIN stack : i < Len(stack) => t[i] = stack[i]
  BY <1>1, <1>4
<1> QED
  BY <1>1, <1>4, <1>5, <1>6 DEF t

LEMMA Popped ==
  ASSUME TypeOK, stack # <<>>
  PROVE  /\ Front(stack) \in Seq(Frame) /\ Len(Front(stack)) = Len(stack) - 1
         /\ DOMAIN Front(stack) = 1..(Len(stack) - 1)
         /\ \A i \in 1..(Len(stack) - 1) : Front(stack)[i] = stack[i]
<1>1. stack \in Seq(Frame) /\ Len(stack) \in Nat \ {0}
  BY Types
<1>2. Last(stack) \in Frame
  <2>1. Len(stack) \in DOMAIN stack
    BY <1>1
  <2> QED
    BY <1>1, <2>1 DEF Last
<1>3. /\ Front(stack) \in Seq(Frame) /\ Len(Front(stack)) = Len(stack) - 1
      /\ \A i \in 1..(Len(stack) - 1) : Front(stack)[i] = stack[i]
  BY <1>1, <1>2, StackProperties
<1> QED
  BY <1>3

\* A walk that begins.
LEMMA WalkBegins ==
  ASSUME TypeOK, NEW l \in Lookups, NEW a \in Answers
  PROVE  /\ Walk(l, a) \in Frame /\ Walk(l, a).op = "walk" /\ Walk(l, a).l = l
         /\ Walk(l, a).step = "visit" /\ Ahead(Walk(l, a)) = Head1
<1>1. Head1 \in Conns \cup {None}
  BY Types, HeadLeads, MembersOf
<1> QED
  BY <1>1 DEF Walk, Frame, Ahead

-----------------------------------------------------------------------------
(* What the steps do to the lists.                                         *)

\* What Proceed and Destroy leave: c has left stage 1 or not, and its flags are
\* those of cn.
Left(c, gone, cn) ==
  /\ stage1' = IF gone THEN Without(stage1, {c}) ELSE stage1
  /\ DOMAIN conn' = DOMAIN conn
  /\ \A d \in DOMAIN conn : d # c => conn'[d] = conn[d]
  /\ \A f \in {"ip", "host", "flags", "proven"} : conn'[c][f] = cn[f]
ListsOK ==
  /\ stage1 \in Seq(Conns) /\ stage2 \in Seq(Conns)
  /\ conn \in [DOMAIN conn -> ConnType]
  /\ freed \subseteq DOMAIN conn
  /\ Placed

LEMMA Destroyed ==
  ASSUME TypeOK, Placed, NEW c \in DOMAIN conn, NEW cn \in ConnType, Destroy(c),
         conn' = [conn EXCEPT ![c] = cn]
  PROVE  ListsOK' /\ Left(c, TRUE, cn)
<1>1. /\ stage1 \in Seq(Conns) /\ stage2 \in Seq(Conns) /\ conn \in [DOMAIN conn -> ConnType]
      /\ IsInjective(stage1) /\ IsInjective(stage2)
  BY Types DEF Placed, OnOneList
<1>2. /\ stage1' \in Seq(Conns) /\ ToSet(stage1') = ToSet(stage1) \ {c} /\ IsInjective(stage1')
      /\ stage1' = Without(stage1, {c})
  BY <1>1, WithoutProperties DEF Destroy
<1>3. stage2' \in Seq(Conns) /\ ToSet(stage2') = ToSet(stage2) \ {c} /\ IsInjective(stage2')
  BY <1>1, WithoutProperties DEF Destroy
<1>4. freed' = freed \cup {c}
  BY DEF Destroy
<1>5. DOMAIN conn' = DOMAIN conn /\ conn' \in [DOMAIN conn -> ConnType] /\ conn'[c] = cn
  BY <1>1
<1>6. ListsOK'
  BY <1>2, <1>3, <1>4, <1>5, Types DEF ListsOK, Placed, OnOneList
<1> QED
  BY <1>2, <1>5, <1>6 DEF Left

LEMMA Moves ==
  ASSUME TypeOK, Placed, NEW c \in DOMAIN conn, NEW cn \in ConnType, c \notin freed, Moved(c),
         conn' = [conn EXCEPT ![c] = [cn EXCEPT !.proto = TRUE]], UNCHANGED freed
  PROVE  ListsOK' /\ Left(c, TRUE, cn)
<1>1. /\ stage1 \in Seq(Conns) /\ stage2 \in Seq(Conns) /\ conn \in [DOMAIN conn -> ConnType]
      /\ IsInjective(stage1) /\ IsInjective(stage2) /\ c \in Conns
  BY Types DEF Placed, OnOneList
<1>2. /\ stage1' \in Seq(Conns) /\ ToSet(stage1') = ToSet(stage1) \ {c} /\ IsInjective(stage1')
      /\ stage1' = Without(stage1, {c})
  BY <1>1, WithoutProperties DEF Moved
<1>3. /\ stage2' \in Seq(Conns) /\ ToSet(stage2') = (ToSet(stage2) \ {c}) \cup {c}
      /\ IsInjective(stage2')
  <2> DEFINE w == Without(stage2, {c})
  <2>1. w \in Seq(Conns) /\ ToSet(w) = ToSet(stage2) \ {c} /\ IsInjective(w)
    BY <1>1, WithoutProperties
  <2>2. stage2' = Cons(c, w) /\ c \notin ToSet(w) /\ c \in Conns
    BY <1>1, <2>1 DEF Moved
  <2>3. stage2' = Cons(c, w) \/ stage2' = Append(w, c)
    BY <2>2
  <2> HIDE DEF w
  <2>4. stage2' \in Seq(Conns) /\ ToSet(stage2') = ToSet(w) \cup {c} /\ IsInjective(stage2')
    BY ONLY <2>1, <2>2, <2>3, Joined
  <2> QED
    BY <2>1, <2>4
<1>4. [cn EXCEPT !.proto = TRUE] \in ConnType
  BY DEF ConnType
<1>5. /\ DOMAIN conn' = DOMAIN conn /\ conn' \in [DOMAIN conn -> ConnType]
      /\ conn'[c] = [cn EXCEPT !.proto = TRUE] /\ \A d \in DOMAIN conn : d # c => conn'[d] = conn[d]
  BY <1>1, <1>4
<1>6. ListsOK'
  BY <1>2, <1>3, <1>5, Types DEF ListsOK, Placed, OnOneList
<1>7. \A f \in {"ip", "host", "flags", "proven"} : conn'[c][f] = cn[f]
  BY <1>5 DEF ConnType
<1> QED
  BY <1>2, <1>5, <1>6, <1>7 DEF Left

LEMMA ProceedLeaves ==
  ASSUME TypeOK, Placed, NEW c \in DOMAIN conn, NEW cn \in ConnType, c \notin freed, Proceed(c, cn)
  PROVE  ListsOK' /\ Left(c, Done(cn.flags), cn)
<1>1. CASE Done(cn.flags)
  <2>1. CASE Destroy(c) /\ conn' = [conn EXCEPT ![c] = cn]
    <3>1. ListsOK' /\ Left(c, TRUE, cn)
      BY <2>1, Destroyed
    <3> QED
      BY <1>1, <3>1 DEF Left
  <2>2. CASE /\ Moved(c) /\ conn' = [conn EXCEPT ![c] = [cn EXCEPT !.proto = TRUE]]
             /\ UNCHANGED freed
    <3>1. ListsOK' /\ Left(c, TRUE, cn)
      BY <2>2, Moves
    <3> QED
      BY <1>1, <3>1 DEF Left
  <2> QED
    BY <1>1, <2>1, <2>2 DEF Proceed, Stage2Done
<1>2. CASE ~Done(cn.flags)
  <2>1. conn' = [conn EXCEPT ![c] = cn] /\ UNCHANGED <<stage1, stage2, freed>>
    BY <1>2 DEF Proceed
  <2>2. /\ DOMAIN conn' = DOMAIN conn /\ conn' \in [DOMAIN conn -> ConnType] /\ conn'[c] = cn
        /\ \A d \in DOMAIN conn : d # c => conn'[d] = conn[d]
    BY <2>1, Types
  <2> QED
    BY <1>2, <2>1, <2>2, Types DEF ListsOK, Left, Placed, OnOneList
<1> QED
  BY <1>1, <1>2

LEMMA LeftLists ==
  ASSUME TypeOK, ListsOK', NEW c \in DOMAIN conn, NEW gone \in BOOLEAN, NEW cn, Left(c, gone, cn)
  PROVE  /\ ToSet(stage1') = IF gone THEN ToSet(stage1) \ {c} ELSE ToSet(stage1)
         /\ \A x, y : Precedes(stage1, x, y) /\ (gone => x # c /\ y # c) => Precedes(stage1', x, y)
<1>1. stage1 \in Seq(Conns)
  BY Types
<1>2. CASE gone
  <2>1. stage1' = Without(stage1, {c})
    BY <1>2 DEF Left
  <2>2. ToSet(stage1') = ToSet(stage1) \ {c}
    BY <1>1, <2>1, WithoutProperties
  <2>3. ASSUME NEW x, NEW y, Precedes(stage1, x, y), x # c, y # c
        PROVE  Precedes(stage1', x, y)
    <3>1. x \notin {c} /\ y \notin {c}
      BY <2>3
    <3> QED
      BY <1>1, <2>1, <2>3, <3>1, WithoutKeepsOrder
  <2> QED
    BY <1>2, <2>2, <2>3
<1>3. CASE ~gone
  BY <1>3 DEF Left
<1> QED
  BY <1>2, <1>3

\* The fields that c is left with when no lookup of its has ended.
Unlooked(c, cn) ==
  /\ cn \in ConnType /\ cn.ip = conn[c].ip /\ cn.host = conn[c].host /\ cn.proven = conn[c].proven
  /\ cn.flags \in {conn[c].flags, conn[c].flags \cup {IDENT}}

LEMMA LeftFields ==
  ASSUME TypeOK, NEW c \in DOMAIN conn, NEW gone, NEW cn, Unlooked(c, cn), Left(c, gone, cn),
         NEW d \in DOMAIN conn
  PROVE  /\ \A l : Needs(conn'[d], l) <=> Needs(conn[d], l)
         /\ Named(conn[d]) => Named(conn'[d])
         /\ d # c => conn'[d] = conn[d]
         /\ conn'[c].flags = cn.flags
<1>1. CASE d # c
  BY <1>1 DEF Left
<1>2. CASE d = c
  <2>1. /\ conn'[c].ip = conn[c].ip /\ conn'[c].host = conn[c].host
        /\ conn'[c].proven = conn[c].proven /\ conn'[c].flags = cn.flags
    BY DEF Left, Unlooked
  <2>2. /\ cn.flags \cap DNS = conn[c].flags \cap DNS
        /\ (DNS \subseteq cn.flags <=> DNS \subseteq conn[c].flags)
    BY DEF Unlooked, DNS, IDENT, PTR, ADDR
  <2> QED
    BY <1>2, <2>1, <2>2 DEF Needs, Named
<1>3. conn'[c].flags = cn.flags
  BY DEF Left
<1> QED
  BY <1>1, <1>2, <1>3

LEMMA AsItIs ==
  ASSUME TypeOK, NEW c \in DOMAIN conn
  PROVE  Unlooked(c, conn[c])
  BY Types DEF Unlooked

LEMMA IdentifiedIsUnlooked ==
  ASSUME TypeOK, NEW c \in DOMAIN conn, NEW answered
  PROVE  Unlooked(c, Identified(conn[c], answered))
<1>1. conn[c] \in ConnType
  BY Types
<1> QED
  BY <1>1 DEF Unlooked, Identified, ConnType

\* A connection that waits for a lookup is one that its answer is for.
LEMMA NeedsMatches ==
  ASSUME NEW cn, Named(cn), NEW l \in Lookups, Needs(cn, l)
  PROVE  Matches(l, cn)
  BY LookupTypes DEF Needs, Named, Matches, DNS, PTR, ADDR

LEMMA MatchesNeeds ==
  ASSUME NEW cn, Named(cn), NEW l \in Lookups, Matches(l, cn)
  PROVE  /\ l.type = "PTR" => Needs(cn, l) /\ cn.flags \cap DNS = {}
         /\ l.type = "A" => cn.flags \cap DNS \in {{PTR}, DNS} /\ l.name = cn.host
         /\ l.type = "A" /\ ~(DNS \subseteq cn.flags) => Needs(cn, l)
  BY LookupTypes DEF Needs, Named, Matches, DNS, PTR, ADDR

\* One lookup at most is waited for.
LEMMA NeedsOne ==
  ASSUME NEW cn, NEW l \in Lookups, NEW m \in Lookups, Needs(cn, l), Needs(cn, m)
  PROVE  l = m
<1>1. l.type = m.type
  BY LookupTypes DEF Needs, DNS, PTR, ADDR
<1>2. l.name = m.name
  BY <1>1 DEF Needs
<1> QED
  BY <1>1, <1>2, LookupTypes

-----------------------------------------------------------------------------
(* Steps of a walk.                                                        *)

\* The frame on top is g now.
Over(g) ==
  /\ stack' \in Seq(Frame) /\ stack' # <<>>
  /\ Len(stack') = Len(stack) /\ DOMAIN stack' = DOMAIN stack
  /\ stack'[Len(stack)] = g
  /\ \A i \in DOMAIN stack : i < Len(stack) => stack'[i] = stack[i]

LEMMA ReplacedIsOver ==
  ASSUME TypeOK, stack # <<>>, NEW g \in Frame, stack' = Replace(g)
  PROVE  Over(g)
  BY Replaced DEF Over

LEMMA ShapeAlong ==
  ASSUME TypeOK, Calls, Calling("walk"), NEW g, Over(g), g.op = "walk", g.l = Top.l,
         UNCHANGED cache,
         Len(stack) = 2 /\ stack[1].op # "finish" /\ g.step = "done" => g.cur = stack[1].c,
         Len(stack) = 3 /\ g.step = "done" /\ Done(conn'[g.cur].flags) => g.cur # stack[2].nxt
  PROVE  Shape'
<1>1. /\ Len(stack) \in {2, 3} /\ DOMAIN stack = 1..Len(stack) /\ Top = stack[Len(stack)]
      /\ Len(stack') = Len(stack) /\ DOMAIN stack' = DOMAIN stack
  BY CallTop DEF Calls, Over
<1>2. stack'[1] = stack[1] /\ stack'[Len(stack)] = g /\ Shape
  BY <1>1 DEF Over, Calls
<1>3. \A i \in DOMAIN stack' : stack'[i].op = "walk" <=> i > 1
  BY <1>1, <1>2 DEF Shape, Over
<1>4. CASE Len(stack) = 2
  BY <1>1, <1>2, <1>3, <1>4 DEF Shape
<1>5. CASE Len(stack) = 3
  <2>1. stack'[2] = stack[2]
    BY <1>1, <1>5 DEF Over
  <2> QED
    BY <1>1, <1>2, <1>3, <1>5, <2>1 DEF Shape
<1> QED
  BY <1>1, <1>4, <1>5

\* The walk below the top still leads along what is stage 1 now.
BelowLeads ==
  \A i \in DOMAIN stack : 1 < i /\ i < Len(stack) =>
    /\ Ahead(stack[i]) \in ToSet(stage1') \cup {None}
    /\ \A d \in ToSet(stage1') :
         Precedes(stage1, Ahead(stack[i]), d) => Precedes(stage1', Ahead(stack[i]), d)

\* With g on top d gets what it waits for, if it did before.
Serves(g, d) ==
  /\ \A l \in Lookups : Needs(conn'[d], l) => Needs(conn[d], l)
  /\ Needs(conn'[d], Top.l) /\ Precedes(stage1, Ahead(Top), d) =>
       Precedes(stage1', Ahead(g), d)
  /\ IDENT \in conn'[d].flags <=> IDENT \in conn[d].flags
  /\ Done(conn'[d].flags) =>
       \/ Done(conn[d].flags) /\ ~(Top.step = "done" /\ Top.cur = d)
       \/ g.step = "done" /\ g.cur = d

\* The walk on top goes on: when it and those below it lead, along what is now
\* stage 1, to all that wait for their answers, nobody is forgotten.
LEMMA WalkOn ==
  ASSUME IInv, Calling("walk"), NEW g, Over(g), g.op = "walk", g.l = Top.l,
         UNCHANGED <<hooks, cache, ident>>,
         DOMAIN conn' = DOMAIN conn, ToSet(stage1') \subseteq ToSet(stage1),
         Shape', Leads(g)',
         BelowLeads,
         \A d \in ToSet(stage1') : Serves(g, d)
  PROVE  Calls' /\ Waiting' /\ Kept'
<1>1. TypeOK /\ Shape /\ Frames /\ Waiting /\ Kept
  BY DEF IInv, Calls
<1>2. /\ Len(stack) \in {2, 3} /\ DOMAIN stack = 1..Len(stack) /\ Top = stack[Len(stack)]
      /\ Top.op = "walk" /\ stack # <<>>
  BY <1>1, CallTop
<1>3. /\ Len(stack') = Len(stack) /\ DOMAIN stack' = DOMAIN stack /\ stack' # <<>>
      /\ stack'[1] = stack[1] /\ stack'[Len(stack)] = g
      /\ \A i \in DOMAIN stack : i < Len(stack) => stack'[i] = stack[i]
  <2>1. /\ Len(stack') = Len(stack) /\ DOMAIN stack' = DOMAIN stack /\ stack' # <<>>
        /\ stack'[Len(stack)] = g
        /\ \A i \in DOMAIN stack : i < Len(stack) => stack'[i] = stack[i]
    BY DEF Over
  <2>2. 1 \in DOMAIN stack /\ 1 < Len(stack)
    <3>1. PICK n \in {2, 3} : n = Len(stack)
      BY <1>2
    <3>2. 1 \in 1..n /\ 1 < n
      OBVIOUS
    <3> QED
      BY ONLY <1>2, <3>1, <3>2
  <2> QED
    BY <2>1, <2>2
<1>4. Frames'
  <2>1. ASSUME NEW i \in DOMAIN stack, i < Len(stack)
        PROVE  Leads(stack[i])'
    <3>1. stack'[i] = stack[i] /\ Leads(stack[i])
      BY <1>1, <1>3, <2>1 DEF Frames
    <3>2. stack[i].op = "walk" => Ahead(stack[i]) \in ToSet(stage1') \cup {None}
      BY <1>1, <1>2, <2>1 DEF Shape, BelowLeads
    <3> QED
      BY <3>1, <3>2 DEF Leads, Ahead
  <2>2. Leads(stack[Len(stack)])'
    <3>1. stack'[Len(stack')] = g
      BY <1>3
    <3> QED
      BY <3>1 DEF Leads, Ahead
  <2>3. \A i \in DOMAIN stack' : i < Len(stack) \/ i = Len(stack')
    BY <1>2, <1>3
  <2> QED
    BY <1>3, <2>1, <2>2, <2>3 DEF Frames
<1>5. \A d \in ToSet(stage1'), l \in Lookups : Needs(conn'[d], l) => Awaited(l, d)'
  <2> SUFFICES ASSUME NEW d \in ToSet(stage1'), NEW l \in Lookups, Needs(conn'[d], l)
               PROVE  Awaited(l, d)'
    OBVIOUS
  <2>1. Awaited(l, d)
    BY <1>1 DEF Waiting, Waits, Serves
  <2>2. Coming(l, d) => Coming(l, d)'
    <3>1. SUFFICES ASSUME NEW i \in DOMAIN stack, stack[i].op = "walk", stack[i].l = l,
                          Precedes(stage1, Ahead(stack[i]), d)
                   PROVE  Coming(l, d)'
      BY DEF Coming
    <3>2. CASE i = Len(stack)
      <4>1. Precedes(stage1', Ahead(g), d) /\ g.l = l
        BY <1>2, <3>1, <3>2 DEF Serves
      <4> QED
        BY <1>3, <3>2, <4>1 DEF Coming, Ahead
    <3>3. CASE i # Len(stack)
      <4>1. 1 < i /\ i < Len(stack)
        BY <1>1, <1>2, <3>1, <3>3 DEF Shape
      <4>2. Precedes(stage1', Ahead(stack[i]), d) /\ stack'[i] = stack[i]
        BY <1>3, <3>1, <4>1 DEF BelowLeads
      <4> QED
        BY <1>3, <3>1, <4>2 DEF Coming, Ahead
    <3> QED
      BY <3>2, <3>3
  <2> QED
    BY <1>2, <1>3, <2>1, <2>2 DEF Awaited, Finishes, Starting
<1>6. \A d \in ToSet(stage1') : Done(conn'[d].flags) => InHand(d)'
  <2> SUFFICES ASSUME NEW d \in ToSet(stage1'), Done(conn'[d].flags)
               PROVE  InHand(d)'
    OBVIOUS
  <2>1. CASE g.step = "done" /\ g.cur = d
    BY <1>2, <1>3, <2>1 DEF InHand
  <2>2. CASE Done(conn[d].flags) /\ ~(Top.step = "done" /\ Top.cur = d)
    <3>1. InHand(d)
      BY <1>1, <2>2 DEF Waiting, Waits
    <3> QED
      BY <1>2, <1>3, <2>2, <3>1 DEF InHand, Starting
  <2> QED
    BY <2>1, <2>2 DEF Serves
<1>7. Waiting'
  <2>1. ASSUME NEW d \in ToSet(stage1'), IDENT \notin conn'[d].flags
        PROVE  ident'[d] # "no" \/ (Starting(d)' /\ stack'[1].step # "end")
    <3>1. ident[d] # "no" \/ (Starting(d) /\ stack[1].step # "end")
      BY <1>1, <2>1 DEF Waiting, Waits, Serves
    <3> QED
      BY <1>3, <3>1 DEF Starting
  <2> QED
    BY <1>5, <1>6, <2>1 DEF Waiting, Waits
<1>8. Kept'
  <2> SUFFICES ASSUME NEW l \in Lookups, cache[l] # {}
               PROVE  /\ hooks[l] = 0
                      /\ \A d \in ToSet(stage1') : Needs(conn'[d], l) => Asker(l, d)'
    BY DEF Kept, KeptFor
  <2>1. hooks[l] = 0 /\ \A d \in ToSet(stage1) : Needs(conn[d], l) => Asker(l, d)
    BY <1>1 DEF Kept, KeptFor
  <2>2. ASSUME NEW d, Asker(l, d)
        PROVE  Asker(l, d)'
    <3>1. CASE l.type = "PTR"
      <4>1. Starting(d)'
        BY <1>3, <2>2, <3>1 DEF Asker, Starting
      <4> QED
        BY <3>1, <4>1 DEF Asker
    <3>2. CASE l.type # "PTR"
      <4>1. Len(stack) = 3 /\ stack[3].l = l /\ stack[2].cur = d
        BY <2>2, <3>2 DEF Asker
      <4>2. Len(stack') = 3 /\ stack'[3].l = l /\ stack'[2] = stack[2]
        BY <1>2, <1>3, <4>1
      <4> QED
        BY <3>2, <4>1, <4>2 DEF Asker
    <3> QED
      BY <3>1, <3>2
  <2> QED
    BY <2>1, <2>2 DEF Serves
<1> QED
  BY <1>4, <1>7, <1>8 DEF Calls

\* The connection a walk looks at, and where it goes next.
LEMMA Visits ==
  ASSUME IInv, Visiting
  PROVE  /\ Top.l \in Lookups /\ Top.a \in Answers /\ Top.op = "walk" /\ Top.step = "visit"
         /\ Top.cur \in ToSet(stage1) /\ Top.cur \in DOMAIN conn /\ Top.cur \in Conns
         /\ Top.cur \notin freed /\ Named(conn[Top.cur]) /\ conn[Top.cur] \in ConnType
         /\ Next1(Top.cur) \in ToSet(stage1) \cup {None} /\ Next1(Top.cur) \in Conns \cup {None}
         /\ Next1(Top.cur) # Top.cur
         /\ \A d : Precedes(stage1, Ahead(Top), d) /\ d # Top.cur =>
                    Precedes(stage1, Next1(Top.cur), d)
<1>1. TypeOK /\ Shape /\ Frames /\ Placed /\ AllNamed /\ Calling("walk")
  BY DEF IInv, Calls, Visiting
<1>2. /\ Len(stack) \in DOMAIN stack /\ Top = stack[Len(stack)] /\ Top \in Frame /\ Top.op = "walk"
      /\ Top.step = "visit" /\ Top.cur # None /\ Top.cur \notin freed
  BY <1>1, CallTop DEF Visiting, Alive
<1>3. Top.l \in Lookups /\ Top.a \in Answers /\ Top.cur \in Conns
  BY <1>2, FrameTypes
<1>4. Ahead(Top) = Top.cur /\ Top.cur \in ToSet(stage1)
  <2>1. Leads(stack[Len(stack)])
    BY <1>1, <1>2 DEF Frames
  <2>2. Leads(Top)
    BY <1>2, <2>1
  <2> QED
    BY <1>2, <2>2 DEF Leads, Ahead
<1>5. stage1 \in Seq(Conns) /\ None \notin Conns /\ IsInjective(stage1) /\ Top.cur \in DOMAIN conn
  BY <1>1, <1>4, Types DEF Placed, OnOneList
<1>6. Next1(Top.cur) = NextIn(stage1, Top.cur)
  BY <1>4, <1>5, ContainsIsIn DEF Next1
<1>7. /\ NextIn(stage1, Top.cur) \in ToSet(stage1) \cup {None} /\ NextIn(stage1, Top.cur) # Top.cur
      /\ \A d : Precedes(stage1, Top.cur, d) /\ d # Top.cur =>
                 Precedes(stage1, NextIn(stage1, Top.cur), d)
  BY <1>4, <1>5, NextLeads
<1>8. ToSet(stage1) \subseteq Conns
  BY <1>5, MembersOf
<1>9. Named(conn[Top.cur]) /\ conn[Top.cur] \in ConnType
  BY <1>1, <1>5, Types DEF AllNamed
<1> QED
  BY <1>2, <1>3, <1>4, <1>5, <1>6, <1>7, <1>8, <1>9

\* The conditions of WalkOn on the walk below, when stage 1 is as it was.
LEMMA BelowStays ==
  ASSUME IInv, Calling("walk"), UNCHANGED stage1
  PROVE  BelowLeads
<1>1. \A i \in DOMAIN stack : stack[i].op = "walk" => Ahead(stack[i]) \in ToSet(stage1) \cup {None}
  BY DEF IInv, Calls, Frames, Leads
<1>2. \A i \in DOMAIN stack : 1 < i => stack[i].op = "walk"
  BY DEF IInv, Calls, Shape
<1> QED
  BY <1>1, <1>2 DEF BelowLeads

\* The answer is for another connection.
LEMMA SkipKeeps ==
  ASSUME IInv, Skip
  PROVE  IInv'
<1>1. /\ TypeOK /\ Placed /\ AllNamed /\ Calls /\ Visiting /\ Calling("walk")
      /\ stack # <<>> /\ Top \in Frame
  <2>1. TypeOK /\ Placed /\ AllNamed /\ Calls /\ Shape /\ Visiting /\ Calling("walk")
    BY DEF IInv, Calls, Skip, Visiting
  <2> QED
    BY <2>1, CallTop
<1>2. /\ ~Matches(Top.l, conn[Top.cur])
      /\ UNCHANGED <<stage1, stage2, conn, freed, hooks, cache, ident, fault>>
      /\ stack' = Replace([Top EXCEPT !.cur = Next1(Top.cur)])
  BY DEF Skip
<1>3. /\ Top.l \in Lookups /\ Top.op = "walk" /\ Top.step = "visit"
      /\ Top.cur \in ToSet(stage1) /\ Top.cur \in DOMAIN conn /\ Named(conn[Top.cur])
      /\ Next1(Top.cur) \in ToSet(stage1) \cup {None} /\ Next1(Top.cur) \in Conns \cup {None}
      /\ \A d : Precedes(stage1, Ahead(Top), d) /\ d # Top.cur =>
                 Precedes(stage1, Next1(Top.cur), d)
  BY <1>1, Visits
<1>4. PICK g : g = [Top EXCEPT !.cur = Next1(Top.cur)]
  OBVIOUS
<1>5. /\ g \in Frame /\ g.op = "walk" /\ g.l = Top.l /\ g.step = "visit"
      /\ g.cur = Next1(Top.cur)
  BY <1>1, <1>3, <1>4 DEF Frame
<1>6. Over(g)
  BY <1>1, <1>2, <1>4, <1>5, ReplacedIsOver
<1>7. Shape'
  BY <1>1, <1>2, <1>5, <1>6, ShapeAlong
<1>8. Leads(g)'
  BY <1>2, <1>3, <1>5 DEF Leads, Ahead
<1>9. ASSUME NEW d \in ToSet(stage1')
      PROVE  Serves(g, d)
  <2>1. Needs(conn[d], Top.l) => d # Top.cur
    BY <1>2, <1>3, NeedsMatches
  <2>2. Ahead(g) = Next1(Top.cur)
    BY <1>5 DEF Ahead
  <2> QED
    BY <1>2, <1>3, <2>1, <2>2 DEF Serves
<1>10. Calls' /\ Waiting' /\ Kept'
  <2>1. DOMAIN conn' = DOMAIN conn /\ ToSet(stage1') \subseteq ToSet(stage1)
    BY <1>2
  <2>2. BelowLeads
    BY <1>1, <1>2, BelowStays
  <2> QED
    BY <1>1, <1>2, <1>5, <1>6, <1>7, <1>8, <1>9, <2>1, <2>2, WalkOn
<1>11. TypeOK'
  BY <1>1, <1>2, <1>6 DEF TypeOK, Over
<1>12. Placed' /\ AllNamed'
  BY <1>1, <1>2 DEF Placed, OnOneList, AllNamed
<1> QED
  BY <1>10, <1>11, <1>12 DEF IInv

\* The end of a pass over a connection.
LEMMA VisitEndsKeeps ==
  ASSUME IInv, VisitEnds
  PROVE  IInv'
<1>1. /\ TypeOK /\ Placed /\ AllNamed /\ Calls /\ Shape /\ Frames /\ Waiting
      /\ Calling("walk") /\ Top.step = "done"
  BY DEF IInv, Calls, VisitEnds
<1>2. /\ Alive(Top.cur) /\ Proceed(Top.cur, conn[Top.cur])
      /\ stack' = Replace([Top EXCEPT !.cur = Top.nxt, !.nxt = None, !.step = "visit"])
      /\ UNCHANGED <<hooks, cache, ident, fault>>
  BY DEF VisitEnds
<1>3. /\ stack # <<>> /\ Top \in Frame /\ Top.op = "walk" /\ Top = stack[Len(stack)]
      /\ Len(stack) \in {2, 3} /\ DOMAIN stack = 1..Len(stack)
  BY <1>1, CallTop
<1>4. PICK c : c = Top.cur
  OBVIOUS
<1>5. /\ c \in DOMAIN conn /\ c \notin freed /\ Top.nxt # c
      /\ Top.nxt \in ToSet(stage1) \cup {None} /\ Top.nxt \in Conns \cup {None}
  <2>1. Leads(Top)
    BY <1>1, <1>3 DEF Frames
  <2>2. stage1 \in Seq(Conns)
    BY <1>1, Types
  <2>3. ToSet(stage1) \subseteq Conns
    BY <2>2, MembersOf
  <2> QED
    BY <1>1, <1>2, <1>3, <1>4, <2>1, <2>3 DEF Leads, Ahead, Alive
<1>6. PICK g : g = [Top EXCEPT !.cur = Top.nxt, !.nxt = None, !.step = "visit"]
  OBVIOUS
<1>7. g \in Frame /\ g.op = "walk" /\ g.l = Top.l /\ g.step = "visit" /\ g.cur = Top.nxt
  BY <1>3, <1>5, <1>6 DEF Frame
<1>8. Over(g)
  BY <1>1, <1>2, <1>3, <1>6, <1>7, ReplacedIsOver
<1>9. PICK cn : cn = conn[c]
  OBVIOUS
<1>10. cn \in ConnType /\ Unlooked(c, cn)
  BY <1>1, <1>5, <1>9, Types, AsItIs
<1>11. ListsOK' /\ Left(c, Done(cn.flags), cn)
  BY <1>1, <1>2, <1>4, <1>5, <1>9, <1>10, ProceedLeaves
<1>12. /\ ToSet(stage1') = IF Done(cn.flags) THEN ToSet(stage1) \ {c} ELSE ToSet(stage1)
       /\ \A x, y : Precedes(stage1, x, y) /\ (Done(cn.flags) => x # c /\ y # c) =>
                     Precedes(stage1', x, y)
  <2>1. Done(cn.flags) \in BOOLEAN
    BY DEF Done
  <2> QED
    BY <1>1, <1>5, <1>11, <2>1, LeftLists
<1>13. \A d \in DOMAIN conn :
         /\ \A l : Needs(conn'[d], l) <=> Needs(conn[d], l)
         /\ Named(conn[d]) => Named(conn'[d])
         /\ d # c => conn'[d] = conn[d]
         /\ conn'[c].flags = cn.flags
  BY <1>1, <1>5, <1>10, <1>11, LeftFields
<1>14. Shape'
  BY <1>1, <1>2, <1>7, <1>8, ShapeAlong
<1>15. Leads(g)'
  BY <1>5, <1>7, <1>12 DEF Leads, Ahead
<1>16. ASSUME NEW i \in DOMAIN stack, 1 < i, i < Len(stack)
       PROVE  /\ Ahead(stack[i]) \in ToSet(stage1') \cup {None}
              /\ \A d \in ToSet(stage1') :
                   Precedes(stage1, Ahead(stack[i]), d) => Precedes(stage1', Ahead(stack[i]), d)
  <2>1. i = 2 /\ Len(stack) = 3
    BY <1>3, <1>16
  <2>2. Ahead(stack[i]) = stack[2].nxt
    BY <1>1, <2>1 DEF Shape, Ahead
  <2>3. Done(cn.flags) => stack[2].nxt # c
    BY <1>1, <1>3, <1>4, <1>9, <2>1 DEF Shape
  <2>4. stack[2].nxt \in ToSet(stage1) \cup {None}
    BY <1>1, <2>1, <2>2 DEF Frames, Leads, Shape
  <2> QED
    BY <1>12, <2>2, <2>3, <2>4
<1>17. ASSUME NEW d \in ToSet(stage1')
       PROVE  Serves(g, d)
  <2>1. d \in ToSet(stage1) /\ d \in DOMAIN conn /\ (d = c => ~Done(cn.flags))
    BY <1>1, <1>12 DEF Placed
  <2>2. Ahead(g) = Top.nxt /\ Ahead(Top) = Top.nxt
    BY <1>1, <1>7 DEF Ahead
  <2>3. conn'[d].flags = conn[d].flags
    BY <1>9, <1>13, <2>1
  <2> QED
    BY <1>4, <1>5, <1>9, <1>12, <1>13, <2>1, <2>2, <2>3 DEF Serves
<1>18. Calls' /\ Waiting' /\ Kept'
  <2>1. DOMAIN conn' = DOMAIN conn /\ ToSet(stage1') \subseteq ToSet(stage1)
    BY <1>11, <1>12 DEF Left
  <2>2. BelowLeads
    BY <1>16 DEF BelowLeads
  <2> QED
    BY <1>1, <1>2, <1>7, <1>8, <1>14, <1>15, <1>17, <2>1, <2>2, WalkOn
<1>19. TypeOK'
  <2>1. DOMAIN conn' = DOMAIN conn /\ UNCHANGED <<hooks, cache, ident, fault>>
    BY <1>2, <1>11 DEF Left
  <2> QED
    BY <1>1, <1>8, <1>11, <2>1 DEF TypeOK, Over, ListsOK
<1>20. Placed' /\ AllNamed'
  <2>1. DOMAIN conn' = DOMAIN conn
    BY <1>11 DEF Left
  <2> QED
    BY <1>1, <1>11, <1>13, <2>1 DEF AllNamed, ListsOK
<1> QED
  BY <1>18, <1>19, <1>20 DEF IInv

\* A nested walk that brings a connection the last of what it needs does not
\* bring it to the one the outer walk goes to next: it was looked up for the
\* connection the outer walk is at, and others that have everything are in hand.
LEMMA NestedSpares ==
  ASSUME IInv, Visiting, Len(stack) = 3, Matches(Top.l, conn[Top.cur]),
         DNS \subseteq conn[Top.cur].flags => Done(conn[Top.cur].flags)
  PROVE  Top.cur # stack[2].nxt
<1>1. TypeOK /\ Shape /\ Frames /\ Waiting /\ Kept /\ Calling("walk")
  BY DEF IInv, Calls, Visiting
<1>2. PICK c : c = Top.cur
  OBVIOUS
<1>3. /\ Top.l \in Lookups /\ Top.step = "visit" /\ c \in ToSet(stage1) /\ Named(conn[c])
      /\ Matches(Top.l, conn[c])
  BY <1>2, Visits
<1>4. Top = stack[3] /\ DOMAIN stack = 1..3
  BY <1>1, CallTop
<1>5. /\ stack[2].op = "walk" /\ stack[2].step = "done" /\ Top.l.type = "A" /\ cache[Top.l] # {}
      /\ stack[1].op = "init" => stack[2].cur = stack[1].c
  BY <1>1, <1>4 DEF Shape
<1>6. stack[2].cur # stack[2].nxt
  <2>1. Leads(stack[2])
    BY <1>1, <1>4 DEF Frames
  <2> QED
    BY <1>5, <2>1 DEF Leads
<1>7. CASE ~(DNS \subseteq conn[c].flags)
  <2>1. Needs(conn[c], Top.l)
    BY <1>3, <1>5, <1>7, MatchesNeeds
  <2>2. Asker(Top.l, c)
    BY <1>1, <1>3, <1>5, <2>1 DEF Kept, KeptFor
  <2>3. stack[2].cur = c
    BY <1>5, <2>2 DEF Asker
  <2> QED
    BY <1>2, <1>6, <2>3
<1>8. CASE DNS \subseteq conn[c].flags
  <2>1. InHand(c)
    BY <1>1, <1>2, <1>3, <1>8 DEF Waiting, Waits
  <2>2. CASE Starting(c)
    BY <1>2, <1>5, <1>6, <2>2 DEF Starting
  <2>3. CASE \E i \in DOMAIN stack :
               stack[i].op = "walk" /\ stack[i].step = "done" /\ stack[i].cur = c
    <3>1. PICK i \in DOMAIN stack :
                 stack[i].op = "walk" /\ stack[i].step = "done" /\ stack[i].cur = c
      BY <2>3
    <3>2. i = 2
      BY <1>1, <1>3, <1>4, <3>1 DEF Shape
    <3> QED
      BY <1>2, <1>6, <3>1, <3>2
  <2> QED
    BY <2>1, <2>2, <2>3 DEF InHand
<1> QED
  BY <1>7, <1>8

\* The answer is for the connection the walk is at, which waits for nothing
\* more, and the walk goes on at the end of the loop's body.
LEMMA AnswerKeeps ==
  ASSUME IInv, Visiting, Matches(Top.l, conn[Top.cur]), NEW cn \in ConnType,
         conn' = [conn EXCEPT ![Top.cur] = cn], DNS \subseteq cn.flags, Named(cn),
         IDENT \in cn.flags <=> IDENT \in conn[Top.cur].flags,
         stack' = Replace([Top EXCEPT !.nxt = Next1(Top.cur), !.step = "done"]),
         UNCHANGED <<stage1, stage2, freed, hooks, cache, ident, fault>>
  PROVE  IInv'
<1>1. TypeOK /\ Placed /\ AllNamed /\ Calls /\ Shape /\ Kept /\ Calling("walk")
  BY DEF IInv, Calls, Visiting
<1>2. /\ stack # <<>> /\ Top \in Frame /\ Top.op = "walk" /\ Top = stack[Len(stack)]
      /\ Len(stack) \in {2, 3} /\ DOMAIN stack = 1..Len(stack)
  BY <1>1, CallTop
<1>3. PICK c : c = Top.cur
  OBVIOUS
<1>4. /\ Top.l \in Lookups /\ Top.step = "visit" /\ c \in ToSet(stage1) /\ c \in DOMAIN conn
      /\ c \in Conns /\ Named(conn[c]) /\ Matches(Top.l, conn[c])
      /\ Next1(c) \in ToSet(stage1) \cup {None} /\ Next1(c) \in Conns \cup {None} /\ Next1(c) # c
      /\ \A d : Precedes(stage1, Ahead(Top), d) /\ d # c => Precedes(stage1, Next1(c), d)
  BY <1>3, Visits
<1>5. PICK g : g = [Top EXCEPT !.nxt = Next1(c), !.step = "done"]
  OBVIOUS
<1>6. /\ g \in Frame /\ g.op = "walk" /\ g.l = Top.l /\ g.step = "done"
      /\ g.cur = c /\ g.nxt = Next1(c)
  BY <1>2, <1>3, <1>4, <1>5 DEF Frame
<1>7. Over(g)
  BY <1>1, <1>2, <1>3, <1>5, <1>6, ReplacedIsOver
<1>8. /\ DOMAIN conn' = DOMAIN conn /\ conn' \in [DOMAIN conn -> ConnType] /\ conn'[c] = cn
      /\ \A d \in DOMAIN conn : d # c => conn'[d] = conn[d]
  BY <1>1, <1>3, <1>4, Types
<1>9. \A l : ~Needs(cn, l)
  BY DEF Needs, DNS, PTR, ADDR
<1>10. Shape'
  <2>1. Len(stack) = 2 /\ stack[1].op # "finish" => c = stack[1].c
    <3>1. SUFFICES ASSUME Len(stack) = 2, stack[1].op # "finish"
                   PROVE  c = stack[1].c
      OBVIOUS
    <3>2. Top.l.type = "PTR" /\ cache[Top.l] # {}
      BY <1>1, <1>2, <3>1 DEF Shape
    <3>3. Needs(conn[c], Top.l)
      BY <1>4, <3>2, MatchesNeeds
    <3>4. Asker(Top.l, c)
      BY <1>1, <1>4, <3>2, <3>3 DEF Kept, KeptFor
    <3> QED
      BY <3>2, <3>4 DEF Asker, Starting
  <2>2. Len(stack) = 3 /\ Done(conn'[c].flags) => c # stack[2].nxt
    <3>1. SUFFICES ASSUME Len(stack) = 3, Done(cn.flags)
                   PROVE  c # stack[2].nxt
      BY <1>8
    <3>2. DNS \subseteq conn[c].flags => Done(conn[c].flags)
      BY <1>3, <3>1 DEF Done
    <3> QED
      BY <1>3, <1>4, <3>1, <3>2, NestedSpares
  <2>3. UNCHANGED cache
    OBVIOUS
  <2> QED
    BY <1>1, <1>6, <1>7, <2>1, <2>2, <2>3, ShapeAlong
<1>11. Leads(g)'
  BY <1>4, <1>6, <1>8 DEF Leads, Ahead
<1>12. ASSUME NEW d \in ToSet(stage1')
       PROVE  Serves(g, d)
  <2>1. d \in ToSet(stage1) /\ d \in DOMAIN conn
    BY <1>1 DEF Placed
  <2>2. Ahead(g) = Next1(c)
    BY <1>6 DEF Ahead
  <2> QED
    BY <1>3, <1>4, <1>6, <1>8, <1>9, <2>1, <2>2 DEF Serves
<1>13. Calls' /\ Waiting' /\ Kept'
  <2>1. ToSet(stage1') \subseteq ToSet(stage1) /\ UNCHANGED <<hooks, cache, ident>>
    OBVIOUS
  <2>2. BelowLeads
    BY <1>1, BelowStays
  <2> QED
    BY <1>1, <1>6, <1>7, <1>8, <1>10, <1>11, <1>12, <2>1, <2>2, WalkOn
<1>14. TypeOK'
  <2>1. UNCHANGED <<stage1, stage2, freed, hooks, cache, ident, fault>>
    OBVIOUS
  <2> QED
    BY <1>1, <1>7, <1>8, <2>1 DEF TypeOK, Over
<1>15. Placed' /\ AllNamed'
  BY <1>1, <1>3, <1>8 DEF Placed, OnOneList, AllNamed
<1> QED
  BY <1>13, <1>14, <1>15 DEF IInv

\* A forward answer: the name is proven, or the host is the address.
LEMMA ForwardAnswerKeeps ==
  ASSUME IInv, ForwardAnswer
  PROVE  IInv'
<1>1. Visiting /\ Top.l.type = "A" /\ Matches(Top.l, conn[Top.cur])
  BY DEF ForwardAnswer
<1>2. PICK c : c = Top.cur
  OBVIOUS
<1>3. /\ Top.l \in Lookups /\ c \in DOMAIN conn /\ Named(conn[c]) /\ conn[c] \in ConnType
      /\ conn \in [DOMAIN conn -> ConnType] /\ Top.l.name \in Hosts
  BY <1>1, <1>2, Visits, LookupTypes, Types DEF IInv
<1>4. PICK old : old = conn[c]
  OBVIOUS
<1>5. PICK host : host = IF Confirms(Top.a, old) /\ old.host \notin BadHosts
                         THEN old.host ELSE old.ip
  OBVIOUS
<1>6. PICK flags : flags = old.flags \cup (IF Confirms(Top.a, old) THEN {ADDR} ELSE DNS)
  OBVIOUS
<1>7. PICK proven : proven = old.proven \cup (IF old.ip \in Top.a.ips THEN {Top.l.name} ELSE {})
  OBVIOUS
<1>8. PICK cn : cn = [old EXCEPT !.host = host, !.flags = flags, !.proven = proven]
  OBVIOUS
<1>9. conn' = [conn EXCEPT ![c] = cn]
  <2>1. conn' = [conn EXCEPT ![c].host = host, ![c].flags = flags, ![c].proven = proven]
    BY <1>2, <1>3, <1>4, <1>5, <1>6, <1>7 DEF ForwardAnswer
  <2> QED
    BY <1>3, <1>4, <1>8, <2>1
<1>10. /\ old.ip \in Ips /\ old.host \in Ips \cup Hosts /\ old.flags \in SUBSET (DNS \cup {IDENT})
       /\ old.proven \in SUBSET Hosts
  BY <1>3, <1>4 DEF ConnType
<1>11. /\ cn \in ConnType /\ cn.ip = old.ip /\ cn.host = host /\ cn.flags = flags
       /\ cn.proven = proven
  <2>1. host \in Ips \cup Hosts /\ flags \in SUBSET (DNS \cup {IDENT}) /\ proven \in SUBSET Hosts
    BY <1>3, <1>5, <1>6, <1>7, <1>10 DEF DNS
  <2> QED
    BY <1>3, <1>4, <1>8, <2>1 DEF ConnType
<1>12. old.flags \cap DNS \in {{PTR}, DNS} /\ Top.l.name = old.host
  BY <1>1, <1>2, <1>3, <1>4, MatchesNeeds
<1>13. DNS \subseteq cn.flags
  BY <1>6, <1>11, <1>12 DEF DNS
<1>14. IDENT \in cn.flags <=> IDENT \in old.flags
  BY <1>6, <1>11 DEF DNS, IDENT, PTR, ADDR
<1>15. Named(cn)
  <2>1. cn.flags \cap DNS = DNS /\ DNS # {} /\ DNS # {PTR}
    BY <1>13 DEF DNS, PTR, ADDR
  <2>2. cn.host = cn.ip \/ cn.host \in cn.proven
    BY <1>5, <1>7, <1>11, <1>12 DEF Confirms
  <2> QED
    BY <2>1, <2>2 DEF Named
<1>16. /\ stack' = Replace([Top EXCEPT !.nxt = Next1(Top.cur), !.step = "done"])
       /\ UNCHANGED <<stage1, stage2, freed, hooks, cache, ident, fault>>
  BY DEF ForwardAnswer
<1> QED
  BY <1>1, <1>2, <1>4, <1>9, <1>11, <1>13, <1>14, <1>15, <1>16, AnswerKeeps

-----------------------------------------------------------------------------
(* Lookups that are made.                                                  *)

\* dns_lookup begins a walk, with an answer that is cached or a failure that is
\* then kept, or leaves a hook.
Asked(l, st) ==
  \/ /\ cache'[l] # {} /\ UNCHANGED hooks
     /\ UNCHANGED cache \/ (l.type = "PTR" /\ hooks[l] = 0)
     /\ \A m \in Lookups : m # l => cache'[m] = cache[m]
     /\ stack' \in Seq(Frame) /\ Len(stack') = Len(st) + 1 /\ DOMAIN stack' = 1..(Len(st) + 1)
     /\ \A i \in 1..Len(st) : stack'[i] = st[i]
     /\ LET w == stack'[Len(st) + 1]
        IN w.op = "walk" /\ w.l = l /\ w.step = "visit" /\ w.cur = Head1
  \/ /\ cache[l] = {} /\ UNCHANGED cache /\ stack' = st
     /\ hooks' \in [Lookups -> Nat] /\ hooks'[l] > 0
     /\ \A m \in Lookups : m # l => hooks'[m] = hooks[m]

LEMMA LookupAsks ==
  ASSUME TypeOK, NEW l \in Lookups, NEW st \in Seq(Frame), DnsLookup(l, st)
  PROVE  /\ Asked(l, st)
         /\ cache' \in [Lookups -> SUBSET Answers]
         /\ \A m \in Lookups : cache'[m] \subseteq AnswersTo(m) /\ Cardinality(cache'[m]) <= 1
<1>1. /\ hooks \in [Lookups -> Nat] /\ cache \in [Lookups -> SUBSET Answers]
      /\ \A m \in Lookups : cache[m] \subseteq AnswersTo(m) /\ Cardinality(cache[m]) <= 1
  BY Types
<1>2. ASSUME NEW a \in Answers, stack' = Append(st, Walk(l, a)), UNCHANGED hooks,
             cache'[l] # {}, UNCHANGED cache \/ (l.type = "PTR" /\ hooks[l] = 0),
             \A m \in Lookups : m # l => cache'[m] = cache[m]
      PROVE  Asked(l, st)
  <2>1. PICK w : w = Walk(l, a)
    OBVIOUS
  <2>2. w \in Frame /\ w.op = "walk" /\ w.l = l /\ w.step = "visit" /\ w.cur = Head1
    <3>1. Walk(l, a) \in Frame
      BY <1>2, WalkBegins
    <3> QED
      BY <2>1, <3>1 DEF Walk
  <2>3. stack' = Append(st, w)
    BY <1>2, <2>1
  <2>4. /\ stack' \in Seq(Frame) /\ Len(stack') = Len(st) + 1 /\ DOMAIN stack' = 1..(Len(st) + 1)
        /\ \A i \in 1..Len(st) : stack'[i] = st[i]
        /\ stack'[Len(st) + 1] = w
    BY <2>2, <2>3
  <2> QED
    BY <1>2, <2>2, <2>4 DEF Asked
<1>3. CASE \E a \in cache[l] : stack' = Append(st, Walk(l, a)) /\ UNCHANGED <<hooks, cache>>
  <2>1. PICK a \in cache[l] : stack' = Append(st, Walk(l, a)) /\ UNCHANGED <<hooks, cache>>
    BY <1>3
  <2>2. a \in Answers
    BY <1>1
  <2> QED
    BY <1>1, <1>2, <2>1, <2>2
<1>4. CASE /\ l.type = "PTR" /\ l.name \in BadIps /\ cache[l] = {} /\ hooks[l] = 0
           /\ stack' = Append(st, Walk(l, Failed))
           /\ cache' = [cache EXCEPT ![l] = {Failed}]
           /\ UNCHANGED hooks
  <2>1. Failed \in Answers /\ Failed \in AnswersTo(l)
    BY <1>4 DEF Failed, Answers, AnswersTo
  <2>2. /\ cache' \in [Lookups -> SUBSET Answers] /\ cache'[l] = {Failed}
        /\ \A m \in Lookups : m # l => cache'[m] = cache[m]
    BY <1>1, <1>4, <2>1
  <2>3. Cardinality({Failed}) = 1
    BY FS_Singleton
  <2>4. Asked(l, st)
    BY <1>2, <1>4, <2>1, <2>2
  <2>5. ASSUME NEW m \in Lookups
        PROVE  cache'[m] \subseteq AnswersTo(m) /\ Cardinality(cache'[m]) <= 1
    <3>1. CASE m = l
      <4>1. {Failed} \subseteq AnswersTo(l) /\ Cardinality({Failed}) <= 1
        BY <2>1, <2>3
      <4> QED
        BY <2>2, <3>1, <4>1
    <3>2. CASE m # l
      <4>1. cache[m] \subseteq AnswersTo(m) /\ Cardinality(cache[m]) <= 1 /\ cache'[m] = cache[m]
        BY <1>1, <2>2, <3>2
      <4> QED
        BY ONLY <4>1
    <3> QED
      BY <3>1, <3>2
  <2> QED
    BY <2>2, <2>4, <2>5
<1>5. CASE cache[l] = {} /\ stack' = st /\ hooks' = [hooks EXCEPT ![l] = @ + 1] /\ UNCHANGED cache
  BY <1>1, <1>5 DEF Asked
<1> QED
  BY <1>3, <1>4, <1>5 DEF DnsLookup

\* A reverse answer with a name, whose addresses are looked up next.
LEMMA NameKeeps ==
  ASSUME IInv, Visiting, Top.l.type = "PTR", Matches(Top.l, conn[Top.cur]),
         NEW h \in Hosts, NEW cn \in ConnType, conn' = [conn EXCEPT ![Top.cur] = cn],
         cn.flags = conn[Top.cur].flags \cup {PTR}, cn.host = h,
         DnsLookup([type |-> "A", name |-> h],
                   Replace([Top EXCEPT !.nxt = Next1(Top.cur), !.step = "done"])),
         UNCHANGED <<stage1, stage2, freed, cache, ident, fault>>
  PROVE  IInv'
<1>1. /\ TypeOK /\ Placed /\ AllNamed /\ Calls /\ Shape /\ Frames /\ Waiting /\ Kept
      /\ Calling("walk")
  BY DEF IInv, Calls, Visiting
<1>2. /\ stack # <<>> /\ Top \in Frame /\ Top.op = "walk" /\ Top = stack[2]
      /\ Len(stack) = 2 /\ DOMAIN stack = 1..2
  <2>1. /\ stack # <<>> /\ Top \in Frame /\ Top.op = "walk" /\ Top = stack[Len(stack)]
        /\ Len(stack) \in {2, 3} /\ DOMAIN stack = 1..Len(stack)
    BY <1>1, CallTop
  <2>2. Len(stack) # 3
    BY <1>1, <2>1 DEF Shape
  <2> QED
    BY <2>1, <2>2
<1>3. PICK c : c = Top.cur
  OBVIOUS
<1>4. /\ Top.l \in Lookups /\ Top.step = "visit" /\ c \in ToSet(stage1) /\ c \in DOMAIN conn
      /\ c \in Conns /\ Named(conn[c]) /\ Matches(Top.l, conn[c])
      /\ Next1(c) \in ToSet(stage1) \cup {None} /\ Next1(c) \in Conns \cup {None} /\ Next1(c) # c
      /\ \A d : Precedes(stage1, Ahead(Top), d) /\ d # c => Precedes(stage1, Next1(c), d)
  BY <1>3, Visits
<1>5. PICK g : g = [Top EXCEPT !.nxt = Next1(c), !.step = "done"]
  OBVIOUS
<1>6. /\ g \in Frame /\ g.op = "walk" /\ g.l = Top.l /\ g.step = "done"
      /\ g.cur = c /\ g.nxt = Next1(c) /\ Ahead(g) = Next1(c)
  BY <1>2, <1>3, <1>4, <1>5 DEF Frame, Ahead
<1>7. PICK st : st = Replace(g)
  OBVIOUS
<1>8. st \in Seq(Frame) /\ Len(st) = 2 /\ DOMAIN st = 1..2 /\ st[1] = stack[1] /\ st[2] = g
  BY <1>1, <1>2, <1>6, <1>7, Replaced
<1>9. PICK m \in Lookups : m = [type |-> "A", name |-> h]
  BY LookupMade
<1>10. Asked(m, st)
  <2>1. DnsLookup(m, st)
    BY <1>3, <1>5, <1>7, <1>9
  <2> QED
    BY <1>1, <1>8, <2>1, LookupAsks
<1>11. /\ stack' \in Seq(Frame) /\ Len(stack') \in {2, 3} /\ DOMAIN stack' = 1..Len(stack')
       /\ stack' # <<>> /\ stack'[1] = stack[1] /\ stack'[2] = g
       /\ hooks' \in [Lookups -> Nat] /\ \A l \in Lookups : l # m => hooks'[l] = hooks[l]
       /\ Len(stack') = 2 => cache[m] = {} /\ hooks'[m] > 0
       /\ Len(stack') = 3 =>
            /\ cache[m] # {} /\ UNCHANGED hooks
            /\ stack'[3].op = "walk" /\ stack'[3].l = m /\ stack'[3].step = "visit"
            /\ stack'[3].cur = Head1
  <2>1. hooks \in [Lookups -> Nat]
    BY <1>1, Types
  <2>2. CASE cache[m] # {}
    <3>1. /\ UNCHANGED hooks /\ stack' \in Seq(Frame)
          /\ Len(stack') = Len(st) + 1 /\ DOMAIN stack' = 1..(Len(st) + 1)
          /\ \A i \in 1..Len(st) : stack'[i] = st[i]
          /\ stack'[Len(st) + 1].op = "walk" /\ stack'[Len(st) + 1].l = m
          /\ stack'[Len(st) + 1].step = "visit" /\ stack'[Len(st) + 1].cur = Head1
      BY <1>10, <2>2 DEF Asked
    <3>2. Len(stack') = 3 /\ Len(st) + 1 = 3 /\ stack' # <<>> /\ DOMAIN stack' = 1..3
      <4>1. Len(st) + 1 = 3
        BY <1>8
      <4>2. Len(stack') = 3 /\ DOMAIN stack' = 1..3
        BY ONLY <3>1, <4>1
      <4>3. stack' # <<>>
        BY <4>2
      <4> QED
        BY <4>1, <4>2, <4>3
    <3>3. stack'[1] = stack[1] /\ stack'[2] = g
      BY <1>8, <3>1
    <3>4. /\ stack'[3].op = "walk" /\ stack'[3].l = m
          /\ stack'[3].step = "visit" /\ stack'[3].cur = Head1
      BY <3>1, <3>2
    <3> QED
      BY <2>1, <2>2, <3>1, <3>2, <3>3, <3>4
  <2>3. CASE cache[m] = {}
    <3>1. /\ stack' = st /\ hooks' \in [Lookups -> Nat] /\ hooks'[m] > 0
          /\ \A l \in Lookups : l # m => hooks'[l] = hooks[l]
      BY <1>10, <2>3 DEF Asked
    <3>2. Len(stack') = 2 /\ DOMAIN stack' = 1..2 /\ stack' \in Seq(Frame)
      BY ONLY <1>8, <3>1
    <3>4. stack' # <<>>
      BY ONLY <3>2
    <3>3. stack'[1] = stack[1] /\ stack'[2] = g
      BY <1>8, <3>1
    <3> QED
      BY <2>3, <3>1, <3>2, <3>3, <3>4
  <2> QED
    BY <2>2, <2>3
<1>. \A i \in DOMAIN stack' : i \in {1, 2} \/ (i = 3 /\ Len(stack') = 3)
  BY <1>11
<1>12. /\ DOMAIN conn' = DOMAIN conn /\ conn' \in [DOMAIN conn -> ConnType] /\ conn'[c] = cn
       /\ \A d \in DOMAIN conn : d # c => conn'[d] = conn[d]
  BY <1>1, <1>3, <1>4, Types
<1>13. /\ cn.flags \cap DNS = {PTR} /\ (IDENT \in cn.flags <=> IDENT \in conn[c].flags)
       /\ Needs(cn, m) /\ ~Done(cn.flags) /\ Named(cn)
  <2>1. conn[c].flags \cap DNS = {}
    BY <1>4, MatchesNeeds
  <2>2. cn.flags = conn[c].flags \cup {PTR}
    BY <1>3
  <2>3. cn.flags \cap DNS = {PTR} /\ (IDENT \in cn.flags <=> IDENT \in conn[c].flags)
    BY <2>1, <2>2 DEF DNS, PTR, ADDR, IDENT
  <2>4. ADDR \notin cn.flags
    BY <2>3 DEF DNS, PTR, ADDR
  <2> QED
    BY <1>9, <2>3, <2>4 DEF Needs, Done, Named, DNS, PTR, ADDR
<1>14. \A l \in Lookups : Needs(cn, l) => l = m
  BY <1>13, NeedsOne
<1>15. m # Top.l /\ m.type = "A"
  BY <1>9
<1>16. stage1 \in Seq(Conns) /\ ToSet(stage1) \subseteq DOMAIN conn
  BY <1>1, Types DEF Placed
<1>17. Head1 \in ToSet(stage1) \cup {None} /\ \A d \in ToSet(stage1) : Precedes(stage1, Head1, d)
  BY <1>16, HeadLeads
<1>18. Shape'
  <2>1. \A i \in DOMAIN stack' : stack'[i].op = "walk" <=> i > 1
    BY <1>1, <1>2, <1>6, <1>11 DEF Shape
  <2>2. stack[1].op = "finish" => g.l = stack[1].l
    BY <1>1, <1>2, <1>6 DEF Shape
  <2>3. stack[1].op # "finish" => g.l.type = "PTR" /\ cache[g.l] # {} /\ g.cur = stack[1].c
    <3>1. SUFFICES ASSUME stack[1].op # "finish"
                   PROVE  g.l.type = "PTR" /\ cache[g.l] # {} /\ g.cur = stack[1].c
      OBVIOUS
    <3>2. Top.l.type = "PTR" /\ cache[Top.l] # {}
      BY <1>1, <1>2, <3>1 DEF Shape
    <3>3. Needs(conn[c], Top.l)
      BY <1>4, <3>2, MatchesNeeds
    <3>4. Asker(Top.l, c)
      BY <1>1, <1>4, <3>2, <3>3 DEF Kept, KeptFor
    <3> QED
      BY <1>6, <3>2, <3>4 DEF Asker, Starting
  <2>4. g.l.type = "PTR" /\ g.step = "done"
    BY <1>6
  <2>5. IF stack'[1].op = "finish" THEN stack'[2].l = stack'[1].l
        ELSE /\ stack'[2].l.type = "PTR" /\ cache'[stack'[2].l] # {}
             /\ stack'[2].step = "done" => stack'[2].cur = stack'[1].c
    BY <1>11, <2>2, <2>3
  <2>6. Len(stack') = 3 =>
          /\ stack'[2].l.type = "PTR" /\ stack'[2].step = "done"
          /\ stack'[3].l.type = "A" /\ cache'[stack'[3].l] # {} /\ stack'[3].step = "visit"
    BY <1>11, <1>15, <2>4
  <2>7. Len(stack') <= 3
    BY <1>11
  <2> QED
    BY <2>1, <2>5, <2>6, <2>7 DEF Shape
<1>19. Frames'
  <2>1. Leads(stack[1])'
    <3>1. Leads(stack[1]) /\ stack[1].op # "walk"
      BY <1>1, <1>2 DEF Frames, Shape
    <3> QED
      BY <1>11, <1>12, <3>1 DEF Leads
  <2>2. Leads(stack[2])'
    BY <1>4, <1>6, <1>11, <1>12 DEF Leads, Ahead
  <2>3. Len(stack') = 3 => Leads(stack[3])'
    BY <1>11, <1>17 DEF Leads, Ahead
  <2> QED
    BY <1>11, <2>1, <2>2, <2>3 DEF Frames
<1>20. ASSUME NEW d \in ToSet(stage1), d # c
       PROVE  Waits(d)'
  <2>1. Waits(d) /\ conn'[d] = conn[d] /\ d \in DOMAIN conn
    BY <1>1, <1>12, <1>16, <1>20 DEF Waiting
  <2>2. ASSUME NEW l \in Lookups, Needs(conn[d], l)
        PROVE  Awaited(l, d)'
    <3>1. Awaited(l, d)
      BY <2>1, <2>2 DEF Waits
    <3>2. Coming(l, d) => Coming(l, d)'
      <4>1. SUFFICES ASSUME Coming(l, d)
                     PROVE  Coming(l, d)'
        OBVIOUS
      <4>2. stack[2].l = l /\ Precedes(stage1, Ahead(stack[2]), d)
        BY <1>1, <1>2, <4>1 DEF Coming, Shape
      <4>3. g.l = l /\ Precedes(stage1, Ahead(g), d)
        BY <1>2, <1>4, <1>6, <1>20, <4>2
      <4> QED
        BY <1>6, <1>11, <4>3 DEF Coming, Ahead
    <3>3. hooks[l] > 0 => hooks'[l] > 0
      BY <1>11
    <3> QED
      BY <1>2, <1>11, <3>1, <3>2, <3>3 DEF Awaited, Finishes, Starting
  <2>3. Done(conn[d].flags) => InHand(d)'
    <3>1. SUFFICES ASSUME Done(conn[d].flags)
                   PROVE  InHand(d)'
      OBVIOUS
    <3>2. InHand(d)
      BY <2>1, <3>1 DEF Waits
    <3>3. Starting(d)
      BY <1>1, <1>2, <1>4, <3>2 DEF InHand, Shape
    <3> QED
      BY <1>2, <1>11, <3>3 DEF InHand, Starting
  <2>4. IDENT \notin conn[d].flags => ident'[d] # "no" \/ (Starting(d)' /\ stack'[1].step # "end")
    BY <1>2, <1>11, <2>1 DEF Waits, Starting
  <2> QED
    BY <2>1, <2>2, <2>3, <2>4 DEF Waits
<1>21. Waits(c)'
  <2>1. Awaited(m, c)'
    <3>1. CASE Len(stack') = 3
      <4>1. Coming(m, c)'
        BY <1>4, <1>11, <1>17, <3>1 DEF Coming, Ahead
      <4> QED
        BY <4>1 DEF Awaited
    <3>2. CASE Len(stack') = 2
      <4>1. ~Finishes(m)'
        BY <1>1, <1>2, <1>11, <1>15 DEF Finishes, Shape
      <4> QED
        BY <1>11, <3>2, <4>1 DEF Awaited
    <3> QED
      BY <1>11, <3>1, <3>2
  <2>2. Waits(c)
    BY <1>1, <1>4 DEF Waiting
  <2>3. IDENT \notin cn.flags => ident'[c] # "no" \/ (Starting(c)' /\ stack'[1].step # "end")
    BY <1>2, <1>11, <1>13, <2>2 DEF Waits, Starting
  <2> QED
    BY <1>12, <1>13, <1>14, <2>1, <2>3 DEF Waits
<1>22. Waiting'
  BY <1>20, <1>21 DEF Waiting
<1>23. Kept'
  <2> SUFFICES ASSUME NEW l \in Lookups, cache[l] # {}
               PROVE  hooks'[l] = 0 /\ \A d \in ToSet(stage1) : Needs(conn'[d], l) => Asker(l, d)'
    BY DEF Kept, KeptFor
  <2>1. hooks[l] = 0 /\ \A d \in ToSet(stage1) : Needs(conn[d], l) => Asker(l, d)
    BY <1>1 DEF Kept, KeptFor
  <2>2. hooks'[l] = 0
    BY <1>11, <2>1
  <2>3. ASSUME NEW d \in ToSet(stage1), Needs(conn'[d], l)
        PROVE  Asker(l, d)'
    <3>1. CASE d = c
      <4>1. l = m
        BY <1>12, <1>14, <2>3, <3>1
      <4> QED
        BY <1>6, <1>11, <1>15, <3>1, <4>1 DEF Asker
    <3>2. CASE d # c
      <4>1. Asker(l, d)
        BY <1>12, <1>16, <2>1, <2>3, <3>2
      <4>2. l.type = "PTR" /\ Starting(d)
        BY <1>2, <4>1 DEF Asker
      <4> QED
        BY <1>2, <1>11, <4>2 DEF Asker, Starting
    <3> QED
      BY <3>1, <3>2
  <2> QED
    BY <2>2, <2>3
<1>24. TypeOK'
  <2>1. UNCHANGED <<stage1, stage2, freed, cache, ident, fault>>
    OBVIOUS
  <2> QED
    BY <1>1, <1>11, <1>12, <2>1 DEF TypeOK
<1>25. Placed' /\ AllNamed'
  BY <1>1, <1>12, <1>13 DEF Placed, OnOneList, AllNamed
<1> QED
  BY <1>18, <1>19, <1>22, <1>23, <1>24, <1>25 DEF IInv, Calls

\* A reverse answer.
LEMMA ReverseAnswerKeeps ==
  ASSUME IInv, ReverseAnswer
  PROVE  IInv'
<1>1. Visiting /\ Top.l.type = "PTR" /\ Matches(Top.l, conn[Top.cur])
  BY DEF ReverseAnswer
<1>2. PICK c : c = Top.cur
  OBVIOUS
<1>3. /\ Top.l \in Lookups /\ Top.a \in Answers /\ c \in DOMAIN conn /\ Named(conn[c])
      /\ conn[c] \in ConnType /\ conn \in [DOMAIN conn -> ConnType]
  BY <1>1, <1>2, Visits, Types DEF IInv
<1>4. PICK old : old = conn[c]
  OBVIOUS
<1>5. /\ old.ip \in Ips /\ old.host = old.ip /\ old.flags \in SUBSET (DNS \cup {IDENT})
      /\ old.flags \cap DNS = {}
  <2>1. old.flags \cap DNS = {}
    BY <1>1, <1>2, <1>3, <1>4, MatchesNeeds
  <2> QED
    BY <1>3, <1>4, <2>1 DEF ConnType, Named
<1>6. UNCHANGED <<stage1, stage2, freed, ident, fault>>
  BY DEF ReverseAnswer
<1>7. CASE Top.a.host = None
  <2>1. /\ conn' = [conn EXCEPT ![c] = Unnamed(old)] /\ UNCHANGED <<hooks, cache>>
        /\ stack' = Replace([Top EXCEPT !.nxt = Next1(Top.cur), !.step = "done"])
    BY <1>2, <1>4, <1>7 DEF ReverseAnswer
  <2>2. PICK cn : cn = Unnamed(old)
    OBVIOUS
  <2>3. cn \in ConnType /\ cn.flags = old.flags \cup DNS /\ cn.host = old.host /\ cn.ip = old.ip
    BY <1>3, <1>4, <1>5, <2>2 DEF Unnamed, ConnType
  <2>4. DNS \subseteq cn.flags /\ (IDENT \in cn.flags <=> IDENT \in old.flags) /\ Named(cn)
    <3>1. DNS \subseteq cn.flags /\ cn.flags \cap DNS = DNS
      BY <2>3
    <3>2. IDENT \notin DNS /\ DNS # {} /\ DNS # {PTR}
      BY DEF DNS, PTR, ADDR, IDENT
    <3> QED
      BY <1>5, <2>3, <3>1, <3>2 DEF Named
  <2> QED
    BY <1>1, <1>2, <1>4, <1>6, <2>1, <2>2, <2>3, <2>4, AnswerKeeps
<1>8. CASE Top.a.host # None
  <2>1. PICK h \in Hosts : h = Top.a.host
    BY <1>3, <1>8 DEF Answers
  <2>2. PICK cn : cn = [old EXCEPT !.flags = old.flags \cup {PTR}, !.host = h]
    OBVIOUS
  <2>3. cn \in ConnType /\ cn.flags = old.flags \cup {PTR} /\ cn.host = h
    BY <1>3, <1>4, <1>5, <2>1, <2>2 DEF ConnType, DNS
  <2>4. conn' = [conn EXCEPT ![c] = cn]
    <3>1. conn' = [conn EXCEPT ![c].flags = @ \cup {PTR}, ![c].host = h]
      BY <1>2, <1>8, <2>1 DEF ReverseAnswer
    <3> QED
      BY <1>3, <1>4, <2>2, <3>1
  <2>5. DnsLookup([type |-> "A", name |-> h],
                  Replace([Top EXCEPT !.nxt = Next1(Top.cur), !.step = "done"]))
    BY <1>8, <2>1 DEF ReverseAnswer
  <2>6. UNCHANGED cache
    BY <2>5 DEF DnsLookup
  <2> QED
    BY <1>1, <1>2, <1>4, <1>6, <2>3, <2>4, <2>5, <2>6, NameKeeps
<1> QED
  BY <1>7, <1>8

-----------------------------------------------------------------------------
(* Steps with no walk in progress before and after.                        *)

\* Then what a connection is waiting for is a hook, or the outermost call.
Hoped(l, c) ==
  \/ hooks[l] > 0 /\ ~Finishes(l)
  \/ Finishes(l) /\ stack[1].left > 0
  \/ l.type = "PTR" /\ Starting(c) /\ stack[1].step = "dns"

Short ==
  /\ Shape
  /\ \A l, c : Awaited(l, c) <=> Hoped(l, c)
  /\ \A c : InHand(c) <=> Starting(c)
  /\ \A l, c : Asker(l, c) <=> l.type = "PTR" /\ Starting(c)

LEMMA ShortStep ==
  ASSUME IInv, stack = <<>> \/ Calling("init") \/ Calling("finish"),
         stack' \in Seq(Frame), Len(stack') <= 1, Len(stack') = 1 => stack'[1].op # "walk"
  PROVE  Short /\ Short' /\ Len(stack) <= 1
<1>1. TypeOK /\ Shape
  BY DEF IInv, Calls
<1>2. /\ Len(stack) \in {0, 1} /\ DOMAIN stack = 1..Len(stack)
      /\ \A i \in DOMAIN stack : stack[i].op # "walk"
  <2>1. CASE stack = <<>>
    BY <2>1
  <2>2. ASSUME NEW op \in {"init", "finish"}, Calling(op)
        PROVE  /\ Len(stack) \in {0, 1} /\ DOMAIN stack = 1..Len(stack)
               /\ \A i \in DOMAIN stack : stack[i].op # "walk"
    <3>1. /\ Len(stack) \in 1..3 /\ DOMAIN stack = 1..Len(stack) /\ Top = stack[Len(stack)]
          /\ Top.op = op /\ ~(Len(stack) > 1)
      BY <1>1, <2>2, CallTop
    <3>2. Len(stack) = 1
      BY <3>1
    <3> QED
      BY <2>2, <3>1, <3>2
  <2> QED
    BY <2>1, <2>2
<1>3. /\ Len(stack') \in {0, 1} /\ DOMAIN stack' = 1..Len(stack')
      /\ \A i \in DOMAIN stack' : stack'[i].op # "walk"
  <2>1. Len(stack') \in {0, 1} /\ DOMAIN stack' = 1..Len(stack')
    OBVIOUS
  <2> QED
    BY <2>1
<1>4. Short
  <2>1. \A l, c : Awaited(l, c) <=> Hoped(l, c)
    BY <1>2 DEF Awaited, Hoped, Coming
  <2>2. \A c : InHand(c) <=> Starting(c)
    BY <1>2 DEF InHand
  <2>3. \A l, c : Asker(l, c) <=> l.type = "PTR" /\ Starting(c)
    BY <1>2 DEF Asker
  <2> QED
    BY <1>1, <2>1, <2>2, <2>3 DEF Short
<1>5. Short'
  <2>1. \A l, c : Awaited(l, c)' <=> Hoped(l, c)'
    BY <1>3 DEF Awaited, Hoped, Coming, Finishes, Starting
  <2>2. \A c : InHand(c)' <=> Starting(c)'
    BY <1>3 DEF InHand
  <2>3. \A l, c : Asker(l, c)' <=> l.type = "PTR" /\ Starting(c)'
    BY <1>3 DEF Asker
  <2>4. Shape'
    BY <1>3 DEF Shape
  <2> QED
    BY <2>1, <2>2, <2>3, <2>4 DEF Short
<1> QED
  BY <1>2, <1>4, <1>5

LEMMA ShortInitially ==
  ASSUME stack = <<>>
  PROVE  Calls
  BY DEF Calls, Shape, Frames

LEMMA InitInvariant ==
  ASSUME Init
  PROVE  IInv
<1>1. stage1 = <<>> /\ stage2 = <<>> /\ freed = {} /\ stack = <<>> /\ DOMAIN conn = {}
  BY DEF Init
<1>2. ToSet(stage1) = {} /\ ToSet(stage2) = {} /\ IsInjective(stage1) /\ IsInjective(stage2)
  BY <1>1 DEF ToSet, IsInjective
<1>3. \A l \in Lookups : cache[l] = {} /\ hooks[l] = 0
  BY DEF Init
<1>4. TypeOK
  <2>1. Cardinality({}) = 0
    BY FS_EmptySet
  <2>2. conn \in [DOMAIN conn -> ConnType] /\ DOMAIN conn \subseteq Conns
    BY DEF Init
  <2>3. /\ hooks \in [Lookups -> Nat] /\ cache \in [Lookups -> SUBSET Answers]
        /\ ident \in [Conns -> {"no", "connecting", "asked"}] /\ fault \in BOOLEAN
    BY DEF Init
  <2>4. \A l \in Lookups : cache[l] \subseteq AnswersTo(l) /\ Cardinality(cache[l]) <= 1
    BY <1>3, <2>1
  <2>5. stage1 \in Seq(Conns) /\ stage2 \in Seq(Conns) /\ stack \in Seq(Frame)
    BY <1>1
  <2> QED
    BY <1>1, <2>2, <2>3, <2>4, <2>5 DEF TypeOK
<1>5. Placed /\ AllNamed /\ Waiting /\ Kept
  BY <1>1, <1>2, <1>3 DEF Placed, OnOneList, AllNamed, Waiting, Kept, KeptFor
<1>6. Calls
  BY <1>1, ShortInitially
<1> QED
  BY <1>4, <1>5, <1>6 DEF IInv

\* A connection's fields change, or it leaves stage 1, between events.
LEMMA BetweenEvents ==
  ASSUME IInv, stack = <<>>, UNCHANGED <<stack, hooks, cache, fault>>,
         NEW c \in DOMAIN conn, NEW gone \in BOOLEAN, NEW cn, Unlooked(c, cn),
         ListsOK', Left(c, gone, cn), ~gone => ~Done(cn.flags) /\ IDENT \in cn.flags,
         ident' \in [Conns -> {"no", "connecting", "asked"}],
         \A d \in Conns : d # c => ident'[d] = ident[d]
  PROVE  IInv'
<1>1. TypeOK /\ Placed /\ AllNamed /\ Waiting /\ Kept
  BY DEF IInv
<1>2. stack' = <<>> /\ ~(\E d : Starting(d)) /\ ~(\E d : Starting(d)') /\ stack' \in Seq(Frame)
  BY DEF Starting
<1>3. Short /\ Short'
  BY <1>2, ShortStep
<1>4. ToSet(stage1') = IF gone THEN ToSet(stage1) \ {c} ELSE ToSet(stage1)
  BY <1>1, LeftLists
<1>5. \A d \in DOMAIN conn :
         /\ \A l : Needs(conn'[d], l) <=> Needs(conn[d], l)
         /\ Named(conn[d]) => Named(conn'[d])
         /\ d # c => conn'[d] = conn[d]
         /\ conn'[c].flags = cn.flags
  BY <1>1, LeftFields
<1>6. DOMAIN conn' = DOMAIN conn
  BY DEF Left
<1>7. ToSet(stage1) \subseteq DOMAIN conn /\ DOMAIN conn \subseteq Conns
  BY <1>1, Types DEF Placed
<1>8. Waiting'
  <2> SUFFICES ASSUME NEW d \in ToSet(stage1')
               PROVE  Waits(d)'
    BY DEF Waiting
  <2>1. d \in ToSet(stage1) /\ d \in DOMAIN conn /\ d \in Conns /\ (d = c => ~gone)
    BY <1>4, <1>7
  <2>2. Waits(d)
    BY <1>1, <2>1 DEF Waiting
  <2>3. ASSUME NEW l \in Lookups, Needs(conn'[d], l)
        PROVE  Awaited(l, d)'
    <3>1. Awaited(l, d)
      BY <1>5, <2>1, <2>2, <2>3 DEF Waits
    <3> QED
      BY <1>3, <3>1 DEF Short, Hoped, Finishes, Starting
  <2>4. IDENT \notin conn'[d].flags => ident'[d] # "no"
    BY <1>2, <1>5, <2>1, <2>2 DEF Waits
  <2>5. ~Done(conn'[d].flags)
    BY <1>2, <1>3, <1>5, <2>1, <2>2 DEF Waits, Short
  <2> QED
    BY <2>3, <2>4, <2>5 DEF Waits
<1>9. Kept'
  BY <1>1, <1>2, <1>3, <1>4, <1>5, <1>7 DEF Kept, KeptFor, Short
<1>10. Calls'
  BY <1>2, <1>3 DEF Calls, Short, Frames
<1>11. TypeOK'
  <2>1. UNCHANGED <<stack, hooks, cache, fault>>
    OBVIOUS
  <2> QED
    BY <1>1, <1>6, <2>1 DEF TypeOK, ListsOK
<1>12. Placed' /\ AllNamed'
  BY <1>1, <1>5, <1>6 DEF ListsOK, AllNamed
<1> QED
  BY <1>8, <1>9, <1>10, <1>11, <1>12 DEF IInv

LEMMA IdentEndsKeeps ==
  ASSUME IInv, NEW c \in Conns, NEW answered \in BOOLEAN, IdentEnds(c, answered)
  PROVE  IInv'
<1>1. /\ TypeOK /\ Placed /\ stack = <<>> /\ stage1 \in Seq(Conns)
      /\ ident \in [Conns -> {"no", "connecting", "asked"}]
  BY Types DEF IInv, IdentEnds, Idle
<1>2. ident' = [ident EXCEPT ![c] = "no"] /\ UNCHANGED <<hooks, cache, stack, fault>>
  BY DEF IdentEnds
<1>3. /\ ident' \in [Conns -> {"no", "connecting", "asked"}]
      /\ \A d \in Conns : d # c => ident'[d] = ident[d]
  BY <1>1, <1>2
<1>4. CASE c \in ToSet(stage1)
  <2>1. c \in DOMAIN conn /\ c \notin freed
    BY <1>1, <1>4 DEF Placed, OnOneList
  <2>2. PICK cn : cn = Identified(conn[c], answered)
    OBVIOUS
  <2>3. Proceed(c, cn)
    BY <1>1, <1>4, <2>2, ContainsIsIn DEF IdentEnds
  <2>4. Unlooked(c, cn) /\ cn \in ConnType
    BY <1>1, <2>1, <2>2, IdentifiedIsUnlooked DEF Unlooked
  <2>5. IDENT \in cn.flags
    <3>1. conn[c] \in ConnType
      BY <1>1, <2>1, Types
    <3> QED
      BY <2>2, <3>1 DEF Identified, ConnType
  <2>6. ListsOK' /\ Left(c, Done(cn.flags), cn)
    BY <1>1, <2>1, <2>3, <2>4, ProceedLeaves
  <2>7. PICK gone \in BOOLEAN : gone = Done(cn.flags)
    BY DEF Done
  <2> QED
    BY <1>1, <1>2, <1>3, <2>1, <2>4, <2>5, <2>6, <2>7, BetweenEvents
<1>5. CASE c \notin ToSet(stage1)
  <2>1. UNCHANGED <<stage1, stage2, conn, freed>>
    BY <1>1, <1>5, ContainsIsIn DEF IdentEnds
  <2>2. TypeOK'
    BY <1>1, <1>2, <1>3, <2>1 DEF TypeOK
  <2>3. Placed' /\ AllNamed' /\ Calls' /\ Kept'
    BY <1>2, <2>1 DEF IInv, Placed, OnOneList, AllNamed, Calls, Shape, Frames, Leads, Ahead, Kept,
       KeptFor, Asker, Starting
  <2>4. Waiting'
    <3>1. \A d \in ToSet(stage1) : Waits(d) /\ ident'[d] = ident[d]
      BY <1>1, <1>3, <1>5, MembersOf DEF IInv, Waiting
    <3> QED
      BY <1>2, <2>1, <3>1 DEF Waiting, Waits, Awaited, Finishes, Starting, Coming, InHand, Ahead
  <2> QED
    BY <2>2, <2>3, <2>4 DEF IInv
<1> QED
  BY <1>4, <1>5

LEMMA LeavesKeeps ==
  ASSUME IInv, NEW c \in Conns, Leaves(c)
  PROVE  IInv'
<1>1. /\ TypeOK /\ Placed /\ stack = <<>> /\ stage1 \in Seq(Conns) /\ stage2 \in Seq(Conns)
      /\ ident \in [Conns -> {"no", "connecting", "asked"}]
  BY Types DEF IInv, Leaves, Idle
<1>2. Destroy(c) /\ UNCHANGED <<conn, hooks, cache, ident, stack, fault>>
  BY DEF Leaves
<1>3. c \in DOMAIN conn
  <2>1. c \in ToSet(stage1) \/ c \in ToSet(stage2)
    BY <1>1, ContainsIsIn DEF Leaves
  <2> QED
    BY <1>1, <2>1 DEF Placed
<1>4. PICK cn : cn = conn[c]
  OBVIOUS
<1>5. cn \in ConnType /\ Unlooked(c, cn) /\ conn' = [conn EXCEPT ![c] = cn]
  BY <1>1, <1>2, <1>3, <1>4, Types, AsItIs
<1>6. ListsOK' /\ Left(c, TRUE, cn)
  BY <1>1, <1>2, <1>3, <1>5, Destroyed
<1> QED
  BY <1>1, <1>2, <1>3, <1>5, <1>6, BetweenEvents

\* The only call in progress.
LEMMA OneCall ==
  ASSUME TypeOK, Shape, NEW op \in {"init", "finish"}, Calling(op)
  PROVE  /\ stack # <<>> /\ Len(stack) = 1 /\ DOMAIN stack = 1..1
         /\ Top = stack[1] /\ Top \in Frame /\ Top.op = op
<1>1. /\ stack # <<>> /\ Len(stack) \in 1..3 /\ DOMAIN stack = 1..Len(stack)
      /\ Top = stack[Len(stack)] /\ Top \in Frame /\ Top.op = op /\ ~(Len(stack) > 1)
  BY CallTop
<1>2. Len(stack) = 1
  BY <1>1
<1> QED
  BY <1>1, <1>2

\* connection_init_lookups after its lookup.
LEMMA InitGoesOn ==
  ASSUME IInv, Calling("init"), Top.step # "dns", NEW c, c = Top.c,
         UNCHANGED <<hooks, cache, fault>>,
         NEW gone \in BOOLEAN, NEW cn, Unlooked(c, cn), ListsOK', Left(c, gone, cn),
         stack' \in Seq(Frame), Len(stack') <= 1,
         stack' # <<>> => stack'[1] = [Top EXCEPT !.step = "end"],
         stack' = <<>> => gone \/ ~Done(cn.flags),
         ident' \in [Conns -> {"no", "connecting", "asked"}],
         \A d \in Conns : d # c => ident'[d] = ident[d],
         c \in ToSet(stage1') => IDENT \in cn.flags \/ ident'[c] # "no"
  PROVE  IInv'
<1>1. TypeOK /\ Placed /\ AllNamed /\ Waiting /\ Kept /\ Shape /\ Frames
  BY DEF IInv, Calls
<1>2. /\ stack # <<>> /\ Len(stack) = 1 /\ DOMAIN stack = 1..1
      /\ Top = stack[1] /\ Top \in Frame /\ Top.op = "init"
  BY <1>1, OneCall
<1>3. c \in DOMAIN conn
  BY <1>1, <1>2 DEF Frames, Leads
<1>4. stack' # <<>> => stack'[1].op = "init" /\ stack'[1].c = c /\ stack'[1].step = "end"
  BY <1>2 DEF Frame
<1>5. /\ \A d : Starting(d) <=> d = c
      /\ \A d : Starting(d)' <=> stack' # <<>> /\ d = c
      /\ \A l : ~Finishes(l) /\ ~Finishes(l)'
  BY <1>2, <1>4 DEF Starting, Finishes
<1>6. Short /\ Short'
  <2>1. Len(stack') = 1 => stack'[1].op # "walk"
    BY <1>4
  <2> QED
    BY <2>1, ShortStep
<1>7. ToSet(stage1') = IF gone THEN ToSet(stage1) \ {c} ELSE ToSet(stage1)
  BY <1>1, <1>3, LeftLists
<1>8. \A d \in DOMAIN conn :
         /\ \A l : Needs(conn'[d], l) <=> Needs(conn[d], l)
         /\ Named(conn[d]) => Named(conn'[d])
         /\ d # c => conn'[d] = conn[d]
         /\ conn'[c].flags = cn.flags
  BY <1>1, <1>3, LeftFields
<1>9. DOMAIN conn' = DOMAIN conn
  BY DEF Left
<1>10. ToSet(stage1) \subseteq DOMAIN conn /\ DOMAIN conn \subseteq Conns
  BY <1>1, Types DEF Placed
<1>11. \A d \in ToSet(stage1), l \in Lookups : Needs(conn[d], l) => hooks[l] > 0
  <2> SUFFICES ASSUME NEW d \in ToSet(stage1), NEW l \in Lookups, Needs(conn[d], l)
               PROVE  hooks[l] > 0
    OBVIOUS
  <2>1. Hoped(l, d)
    BY <1>1, <1>6 DEF Waiting, Waits, Short
  <2> QED
    BY <1>2, <1>5, <2>1 DEF Hoped
<1>12. Waiting'
  <2> SUFFICES ASSUME NEW d \in ToSet(stage1')
               PROVE  Waits(d)'
    BY DEF Waiting
  <2>1. d \in ToSet(stage1) /\ d \in DOMAIN conn /\ d \in Conns /\ (d = c => ~gone)
    BY <1>7, <1>10
  <2>2. Waits(d)
    BY <1>1, <2>1 DEF Waiting
  <2>3. ASSUME NEW l \in Lookups, Needs(conn'[d], l)
        PROVE  Awaited(l, d)'
    <3>1. hooks[l] > 0
      BY <1>8, <1>11, <2>1, <2>3
    <3>2. hooks'[l] > 0 /\ ~Finishes(l)'
      BY <1>5, <3>1
    <3> QED
      BY <3>2 DEF Awaited
  <2>4. IDENT \notin conn'[d].flags =>
          ident'[d] # "no" \/ (Starting(d)' /\ stack'[1].step # "end")
    BY <1>5, <1>8, <2>1, <2>2 DEF Waits
  <2>5. Done(conn'[d].flags) => InHand(d)'
    <3>1. CASE d = c
      BY <1>5, <1>6, <1>8, <2>1, <3>1 DEF Short
    <3>2. CASE d # c
      BY <1>5, <1>6, <1>8, <2>1, <2>2, <3>2 DEF Short, Waits
    <3> QED
      BY <3>1, <3>2
  <2> QED
    BY <2>3, <2>4, <2>5 DEF Waits
<1>13. Kept'
  <2> SUFFICES ASSUME NEW l \in Lookups, cache[l] # {}
               PROVE  hooks[l] = 0 /\ \A d \in ToSet(stage1') : ~Needs(conn'[d], l)
    BY DEF Kept, KeptFor
  <2>1. hooks[l] = 0
    BY <1>1 DEF Kept, KeptFor
  <2> QED
    BY <1>7, <1>8, <1>10, <1>11, <2>1
<1>14. Calls'
  <2>1. ASSUME NEW i \in DOMAIN stack'
        PROVE  Leads(stack[i])'
    <3>1. i = 1 /\ stack' # <<>>
      BY <2>1
    <3> QED
      BY <1>3, <1>4, <1>9, <3>1 DEF Leads
  <2> QED
    BY <1>6, <2>1 DEF Calls, Short, Frames
<1>15. TypeOK'
  <2>1. UNCHANGED <<hooks, cache, fault>>
    OBVIOUS
  <2> QED
    BY <1>1, <1>9, <2>1 DEF TypeOK, ListsOK
<1>16. Placed' /\ AllNamed'
  BY <1>1, <1>8, <1>9 DEF ListsOK, AllNamed
<1> QED
  BY <1>12, <1>13, <1>14, <1>15, <1>16 DEF IInv

LEMMA NothingLeft ==
  ASSUME TypeOK, Placed, NEW c \in DOMAIN conn, UNCHANGED <<stage1, stage2, conn, freed>>
  PROVE  ListsOK' /\ Left(c, FALSE, conn[c])
  BY Types DEF ListsOK, Left, Placed, OnOneList

LEMMA InitIdentKeeps ==
  ASSUME IInv, InitIdent
  PROVE  IInv'
<1>1. /\ TypeOK /\ Placed /\ Shape /\ Frames /\ stage1 \in Seq(Conns)
      /\ ident \in [Conns -> {"no", "connecting", "asked"}]
  BY Types DEF IInv, Calls
<1>2. Calling("init") /\ Top.step = "ident" /\ UNCHANGED <<hooks, cache, fault>>
  BY DEF InitIdent
<1>3. PICK c : c = Top.c
  OBVIOUS
<1>4. /\ stack # <<>> /\ Len(stack) = 1 /\ DOMAIN stack = 1..1
      /\ Top = stack[1] /\ Top \in Frame /\ Top.op = "init"
  BY <1>1, <1>2, OneCall
<1>5. c \in DOMAIN conn /\ c \in Conns /\ c \notin freed
  BY <1>1, <1>3, <1>4, FrameTypes DEF Frames, Leads, InitIdent, Alive
<1>6. PICK g : g = [Top EXCEPT !.step = "end"]
  OBVIOUS
<1>7. g \in Frame
  BY <1>4, <1>6 DEF Frame
<1>8. /\ stack' \in Seq(Frame) /\ Len(stack') <= 1 /\ stack' # <<>>
      /\ stack'[1] = [Top EXCEPT !.step = "end"]
  <2>1. stack' = Replace(g)
    BY <1>6 DEF InitIdent
  <2>2. Over(g)
    BY <1>1, <1>4, <1>7, <2>1, ReplacedIsOver
  <2> QED
    BY <1>4, <1>6, <2>2 DEF Over
<1>9. ASSUME NEW gone \in BOOLEAN, NEW cn, Unlooked(c, cn), ListsOK', Left(c, gone, cn),
             ident' \in [Conns -> {"no", "connecting", "asked"}],
             \A d \in Conns : d # c => ident'[d] = ident[d],
             c \in ToSet(stage1') => IDENT \in cn.flags \/ ident'[c] # "no"
      PROVE  IInv'
  <2>1. Top.step # "dns" /\ (stack' = <<>> => gone \/ ~Done(cn.flags))
    BY <1>2, <1>8
  <2> QED
    BY <1>2, <1>3, <1>8, <1>9, <2>1, InitGoesOn
<1>10. CASE IDENT \in conn[c].flags /\ UNCHANGED <<stage1, stage2, conn, freed, ident>>
  <2>1. ListsOK' /\ Left(c, FALSE, conn[c]) /\ Unlooked(c, conn[c])
    BY <1>1, <1>5, <1>10, NothingLeft, AsItIs
  <2>2. FALSE \in BOOLEAN
    OBVIOUS
  <2> QED
    BY <1>1, <1>9, <1>10, <2>1, <2>2
<1>11. CASE ident' = [ident EXCEPT ![c] = "connecting"] /\ UNCHANGED <<stage1, stage2, conn, freed>>
  <2>1. ListsOK' /\ Left(c, FALSE, conn[c]) /\ Unlooked(c, conn[c])
    BY <1>1, <1>5, <1>11, NothingLeft, AsItIs
  <2>2. /\ ident' \in [Conns -> {"no", "connecting", "asked"}] /\ ident'[c] = "connecting"
        /\ \A d \in Conns : d # c => ident'[d] = ident[d]
    BY <1>1, <1>5, <1>11
  <2>3. FALSE \in BOOLEAN /\ ident'[c] # "no"
    BY <2>2
  <2> QED
    BY <1>9, <2>1, <2>2, <2>3
<1>12. CASE /\ IF Contains(stage1, c) THEN Proceed(c, Identified(conn[c], FALSE))
                                      ELSE UNCHANGED <<stage1, stage2, conn, freed>>
            /\ UNCHANGED ident
  <2>1. CASE c \in ToSet(stage1)
    <3>1. PICK cn : cn = Identified(conn[c], FALSE)
      OBVIOUS
    <3>2. Proceed(c, cn)
      BY <1>1, <1>12, <2>1, <3>1, ContainsIsIn
    <3>3. Unlooked(c, cn) /\ cn \in ConnType
      BY <1>1, <1>5, <3>1, IdentifiedIsUnlooked DEF Unlooked
    <3>4. IDENT \in cn.flags
      <4>1. conn[c] \in ConnType
        BY <1>1, <1>5, Types
      <4> QED
        BY <3>1, <4>1 DEF Identified, ConnType
    <3>5. ListsOK' /\ Left(c, Done(cn.flags), cn)
      BY <1>1, <1>5, <3>2, <3>3, ProceedLeaves
    <3>6. Done(cn.flags) \in BOOLEAN
      BY DEF Done
    <3> QED
      BY <1>1, <1>9, <1>12, <3>3, <3>4, <3>5, <3>6
  <2>2. CASE c \notin ToSet(stage1)
    <3>1. UNCHANGED <<stage1, stage2, conn, freed>>
      BY <1>1, <1>12, <2>2, ContainsIsIn
    <3>2. ListsOK' /\ Left(c, FALSE, conn[c]) /\ Unlooked(c, conn[c])
      BY <1>1, <1>5, <3>1, NothingLeft, AsItIs
    <3>3. FALSE \in BOOLEAN /\ c \notin ToSet(stage1')
      BY <2>2, <3>1
    <3> QED
      BY <1>1, <1>9, <1>12, <3>2, <3>3
  <2> QED
    BY <2>1, <2>2
<1> QED
  BY <1>3, <1>10, <1>11, <1>12 DEF InitIdent

LEMMA InitEndKeeps ==
  ASSUME IInv, InitEnd
  PROVE  IInv'
<1>1. /\ TypeOK /\ Placed /\ Shape /\ Frames /\ Waiting
      /\ ident \in [Conns -> {"no", "connecting", "asked"}]
  BY Types DEF IInv, Calls
<1>2. /\ Calling("init") /\ Top.step = "end" /\ UNCHANGED <<hooks, cache, ident, fault>>
      /\ stack' = Front(stack)
  BY DEF InitEnd
<1>3. PICK c : c = Top.c
  OBVIOUS
<1>4. /\ stack # <<>> /\ Len(stack) = 1 /\ DOMAIN stack = 1..1
      /\ Top = stack[1] /\ Top \in Frame /\ Top.op = "init"
  BY <1>1, <1>2, OneCall
<1>5. c \in DOMAIN conn /\ c \notin freed
  BY <1>1, <1>3, <1>4 DEF Frames, Leads, InitEnd, Alive
<1>6. PICK cn : cn = conn[c]
  OBVIOUS
<1>7. Unlooked(c, cn) /\ cn \in ConnType
  BY <1>1, <1>5, <1>6, AsItIs DEF Unlooked
<1>8. Proceed(c, cn)
  BY <1>3, <1>6 DEF InitEnd
<1>9. ListsOK' /\ Left(c, Done(cn.flags), cn)
  BY <1>1, <1>5, <1>7, <1>8, ProceedLeaves
<1>10. stack' \in Seq(Frame) /\ Len(stack') <= 1 /\ stack' = <<>>
  BY <1>1, <1>2, <1>4, Popped
<1>11. c \in ToSet(stage1') => IDENT \in cn.flags \/ ident'[c] # "no"
  <2>1. ToSet(stage1') \subseteq ToSet(stage1)
    <3>1. Done(cn.flags) \in BOOLEAN
      BY DEF Done
    <3>2. ToSet(stage1') = IF Done(cn.flags) THEN ToSet(stage1) \ {c} ELSE ToSet(stage1)
      BY <1>1, <1>5, <1>9, <3>1, LeftLists
    <3> QED
      BY <3>2
  <2> QED
    BY <1>1, <1>2, <1>4, <1>6, <2>1 DEF Waiting, Waits
<1>12. PICK gone \in BOOLEAN : gone = Done(cn.flags)
  BY DEF Done
<1> QED
  BY <1>1, <1>2, <1>3, <1>7, <1>9, <1>10, <1>11, <1>12, InitGoesOn

-----------------------------------------------------------------------------
(* Steps that start and end a walk, and what happens between events.       *)

LEMMA AcceptKeeps ==
  ASSUME IInv, NEW c \in Conns, NEW ip \in Ips, NEW skip \in SUBSET (DNS \cup {IDENT}),
         skip \cap DNS \in {{}, DNS}, Accept(c, ip, skip)
  PROVE  IInv'
<1>1. /\ TypeOK /\ Placed /\ AllNamed /\ Waiting /\ Kept /\ stage1 \in Seq(Conns)
      /\ conn \in [DOMAIN conn -> ConnType] /\ DOMAIN conn \subseteq Conns
  BY Types DEF IInv
<1>2. /\ stack = <<>> /\ c \notin DOMAIN conn /\ stage1' = Cons(c, stage1)
      /\ stack' = <<[op |-> "init", c |-> c, step |-> "dns"]>>
      /\ UNCHANGED <<stage2, freed, hooks, cache, ident, fault>>
  BY DEF Accept, Idle
<1>3. PICK f : f = [op |-> "init", c |-> c, step |-> "dns"]
  OBVIOUS
<1>4. f \in Frame /\ f.op = "init" /\ f.c = c /\ f.step = "dns"
  BY <1>3 DEF Frame
<1>5. /\ stack' \in Seq(Frame) /\ Len(stack') = 1 /\ DOMAIN stack' = 1..1 /\ stack' # <<>>
      /\ stack'[1] = f
  BY <1>2, <1>3, <1>4
<1>6. PICK cn : cn = Accepted(ip, skip)
  OBVIOUS
<1>7. /\ cn \in ConnType /\ cn.ip = ip /\ cn.host = ip /\ cn.flags = skip
  BY <1>6 DEF Accepted, ConnType
<1>8. Named(cn)
  <2>1. DNS # {PTR}
    BY DEF DNS, PTR, ADDR
  <2> QED
    BY <1>7, <2>1 DEF Named
<1>9. /\ DOMAIN conn' = DOMAIN conn \cup {c} /\ conn' \in [DOMAIN conn' -> ConnType]
      /\ conn'[c] = cn /\ \A d \in DOMAIN conn : conn'[d] = conn[d]
  <2>1. conn' = [d \in DOMAIN conn \cup {c} |-> IF d = c THEN cn ELSE conn[d]]
    BY <1>6 DEF Accept
  <2> QED
    BY <1>1, <1>2, <1>7, <2>1
<1>10. ToSet(stage1) \cup ToSet(stage2) \cup freed \subseteq DOMAIN conn
  BY <1>1 DEF Placed
<1>11. stage1' \in Seq(Conns) /\ ToSet(stage1') = ToSet(stage1) \cup {c} /\ IsInjective(stage1')
  <2>1. IsInjective(stage1) /\ c \notin ToSet(stage1)
    BY <1>1, <1>2, <1>10 DEF Placed, OnOneList
  <2>2. stage1' = Cons(c, stage1) \/ stage1' = Append(stage1, c)
    BY <1>2
  <2> QED
    BY ONLY <1>1, <2>1, <2>2, c \in Conns, Joined
<1>12. /\ \A d : ~Starting(d)
       /\ \A d : Starting(d)' <=> d = c
       /\ \A l : ~Finishes(l) /\ ~Finishes(l)'
  BY <1>2, <1>4, <1>5 DEF Starting, Finishes
<1>13. Short /\ Short'
  BY <1>2, <1>4, <1>5, ShortStep
<1>14. \A l \in Lookups : Needs(cn, l) => l.type = "PTR"
  <2>1. DNS # {PTR} /\ {PTR} # {}
    BY DEF DNS, PTR, ADDR
  <2> QED
    BY <1>7, <2>1 DEF Needs
<1>15. Waiting'
  <2>1. Waits(c)'
    <3>1. \A l \in Lookups : Needs(cn, l) => Awaited(l, c)'
      BY <1>4, <1>5, <1>12, <1>14 DEF Awaited
    <3> QED
      BY <1>4, <1>5, <1>9, <1>12, <1>13, <3>1 DEF Waits, Short
  <2>2. ASSUME NEW d \in ToSet(stage1)
        PROVE  Waits(d)'
    <3>1. Waits(d) /\ conn'[d] = conn[d]
      BY <1>1, <1>9, <1>10 DEF Waiting
    <3>2. ASSUME NEW l \in Lookups, Needs(conn[d], l)
          PROVE  Awaited(l, d)'
      <4>1. Hoped(l, d)
        BY <1>13, <3>1, <3>2 DEF Waits, Short
      <4>2. hooks'[l] > 0 /\ ~Finishes(l)'
        BY <1>2, <1>12, <4>1 DEF Hoped
      <4> QED
        BY <4>2 DEF Awaited
    <3>3. ~Done(conn[d].flags)
      BY <1>12, <1>13, <3>1 DEF Waits, Short
    <3>4. IDENT \notin conn[d].flags => ident'[d] # "no"
      BY <1>2, <1>12, <3>1 DEF Waits
    <3> QED
      BY <3>1, <3>2, <3>3, <3>4 DEF Waits
  <2> QED
    BY <1>11, <2>1, <2>2 DEF Waiting
<1>16. Kept'
  <2> SUFFICES ASSUME NEW l \in Lookups, cache[l] # {}
               PROVE  hooks[l] = 0 /\ \A d \in ToSet(stage1') : Needs(conn'[d], l) => Asker(l, d)'
    BY <1>2 DEF Kept, KeptFor
  <2>1. hooks[l] = 0 /\ \A d \in ToSet(stage1) : ~Needs(conn[d], l)
    BY <1>1, <1>12, <1>13 DEF Kept, KeptFor, Short
  <2>2. \A d \in ToSet(stage1) : ~Needs(conn'[d], l)
    BY <1>9, <1>10, <2>1
  <2>3. Needs(conn'[c], l) => Asker(l, c)'
    BY <1>9, <1>12, <1>13, <1>14 DEF Short
  <2> QED
    BY <1>11, <2>1, <2>2, <2>3
<1>17. Calls'
  <2>1. Leads(f)'
    BY <1>4, <1>9 DEF Leads
  <2>2. Frames'
    BY <1>4, <1>5, <1>9 DEF Frames, Leads
  <2> QED
    BY <1>13, <2>2 DEF Calls, Short
<1>18. TypeOK'
  BY <1>1, <1>2, <1>5, <1>9, <1>10, <1>11 DEF TypeOK
<1>19. Placed' /\ AllNamed'
  BY <1>1, <1>2, <1>8, <1>9, <1>10, <1>11 DEF Placed, OnOneList, AllNamed
<1> QED
  BY <1>15, <1>16, <1>17, <1>18, <1>19 DEF IInv

\* What does not touch the connections.
LEMMA SameConnections ==
  ASSUME IInv, UNCHANGED <<stage1, stage2, conn, freed>>
  PROVE  Placed' /\ AllNamed'
  BY DEF IInv, Placed, OnOneList, AllNamed

LEMMA DnsFinishKeeps ==
  ASSUME IInv, NEW l \in Lookups, NEW a \in AnswersTo(l), DnsFinish(l, a)
  PROVE  IInv'
<1>1. TypeOK /\ Waiting /\ Kept /\ hooks \in [Lookups -> Nat]
  BY Types DEF IInv
<1>2. /\ stack = <<>> /\ hooks[l] > 0
      /\ stack' = <<[op |-> "finish", l |-> l, a |-> a, left |-> hooks[l]]>>
      /\ UNCHANGED <<stage1, stage2, conn, freed, hooks, cache, ident, fault>>
  BY DEF DnsFinish, Idle
<1>3. PICK f : f = [op |-> "finish", l |-> l, a |-> a, left |-> hooks[l]]
  OBVIOUS
<1>4. f \in Frame /\ f.op = "finish" /\ f.l = l /\ f.a = a /\ f.left = hooks[l]
  <2>1. a \in Answers /\ hooks[l] \in Nat
    BY <1>1 DEF AnswersTo
  <2> QED
    BY <1>3, <2>1 DEF Frame
<1>5. /\ stack' \in Seq(Frame) /\ Len(stack') = 1 /\ DOMAIN stack' = 1..1 /\ stack' # <<>>
      /\ stack'[1] = f
  BY <1>2, <1>3, <1>4
<1>6. /\ \A d : ~Starting(d) /\ ~Starting(d)'
      /\ \A m : ~Finishes(m)
      /\ \A m : Finishes(m)' <=> m = l
  BY <1>2, <1>4, <1>5 DEF Starting, Finishes
<1>7. Short /\ Short'
  BY <1>2, <1>4, <1>5, ShortStep
<1>8. Waiting'
  <2> SUFFICES ASSUME NEW d \in ToSet(stage1)
               PROVE  Waits(d)'
    BY <1>2 DEF Waiting
  <2>1. Waits(d)
    BY <1>1 DEF Waiting
  <2>2. ASSUME NEW m \in Lookups, Needs(conn[d], m)
        PROVE  Awaited(m, d)'
    <3>1. Hoped(m, d)
      BY <1>7, <2>1, <2>2 DEF Waits, Short
    <3>2. hooks[m] > 0
      BY <1>6, <3>1 DEF Hoped
    <3> QED
      BY <1>2, <1>4, <1>5, <1>6, <3>2 DEF Awaited
  <2>3. ~Done(conn[d].flags)
    BY <1>6, <1>7, <2>1 DEF Waits, Short
  <2>4. IDENT \notin conn[d].flags => ident'[d] # "no"
    BY <1>2, <1>6, <2>1 DEF Waits
  <2> QED
    BY <1>2, <2>2, <2>3, <2>4 DEF Waits
<1>9. Kept'
  BY <1>1, <1>2, <1>6, <1>7 DEF Kept, KeptFor, Short
<1>10. Calls'
  <2>1. Frames'
    BY <1>4, <1>5 DEF Frames, Leads
  <2> QED
    BY <1>7, <2>1 DEF Calls, Short
<1>11. TypeOK'
  BY <1>1, <1>2, <1>5 DEF TypeOK
<1>12. Placed' /\ AllNamed'
  BY <1>2, SameConnections
<1> QED
  BY <1>8, <1>9, <1>10, <1>11, <1>12 DEF IInv

LEMMA DnsReturnsKeeps ==
  ASSUME IInv, NEW keep \in BOOLEAN, DnsReturns(keep)
  PROVE  IInv'
<1>1. /\ TypeOK /\ Waiting /\ Kept /\ Shape /\ Frames
      /\ hooks \in [Lookups -> Nat] /\ cache \in [Lookups -> SUBSET Answers]
  BY Types DEF IInv, Calls
<1>2. /\ Calling("finish") /\ Top.left = 0 /\ stack' = Front(stack)
      /\ UNCHANGED <<stage1, stage2, conn, freed, ident, fault>>
      /\ hooks' = [hooks EXCEPT ![Top.l] = 0]
      /\ cache' = [cache EXCEPT ![Top.l] = IF keep THEN {Top.a} ELSE {}]
  BY DEF DnsReturns
<1>3. /\ stack # <<>> /\ Len(stack) = 1 /\ DOMAIN stack = 1..1
      /\ Top = stack[1] /\ Top \in Frame /\ Top.op = "finish"
  BY <1>1, <1>2, OneCall
<1>4. PICK l : l = Top.l
  OBVIOUS
<1>5. l \in Lookups /\ Top.a \in AnswersTo(l) /\ Top.a \in Answers
  BY <1>1, <1>3, <1>4, FrameTypes DEF Frames, Leads
<1>6. stack' \in Seq(Frame) /\ Len(stack') <= 1 /\ stack' = <<>>
  BY <1>1, <1>2, <1>3, Popped
<1>7. /\ \A d : ~Starting(d) /\ ~Starting(d)'
      /\ \A m : Finishes(m) <=> m = l
      /\ \A m : ~Finishes(m)'
  BY <1>3, <1>4, <1>6 DEF Starting, Finishes
<1>8. Short /\ Short'
  BY <1>2, <1>6, ShortStep
<1>9. /\ hooks' \in [Lookups -> Nat] /\ hooks'[l] = 0
      /\ cache' \in [Lookups -> SUBSET Answers] /\ cache'[l] \subseteq {Top.a}
      /\ \A m \in Lookups : m # l => hooks'[m] = hooks[m] /\ cache'[m] = cache[m]
  BY <1>1, <1>2, <1>4, <1>5
<1>10. \A d \in ToSet(stage1), m \in Lookups : Needs(conn[d], m) => hooks[m] > 0 /\ m # l
  <2> SUFFICES ASSUME NEW d \in ToSet(stage1), NEW m \in Lookups, Needs(conn[d], m)
               PROVE  hooks[m] > 0 /\ m # l
    OBVIOUS
  <2>1. Hoped(m, d)
    BY <1>1, <1>8 DEF Waiting, Waits, Short
  <2> QED
    BY <1>2, <1>3, <1>7, <2>1 DEF Hoped
<1>11. Waiting'
  <2> SUFFICES ASSUME NEW d \in ToSet(stage1)
               PROVE  Waits(d)'
    BY <1>2 DEF Waiting
  <2>1. Waits(d)
    BY <1>1 DEF Waiting
  <2>2. \A m \in Lookups : Needs(conn[d], m) => Awaited(m, d)'
    BY <1>7, <1>9, <1>10 DEF Awaited
  <2>3. ~Done(conn[d].flags)
    BY <1>7, <1>8, <2>1 DEF Waits, Short
  <2>4. IDENT \notin conn[d].flags => ident'[d] # "no"
    BY <1>2, <1>7, <2>1 DEF Waits
  <2> QED
    BY <1>2, <2>2, <2>3, <2>4 DEF Waits
<1>12. Kept'
  <2> SUFFICES ASSUME NEW m \in Lookups, cache'[m] # {}
               PROVE  hooks'[m] = 0 /\ \A d \in ToSet(stage1) : ~Needs(conn[d], m)
    BY <1>2 DEF Kept, KeptFor
  <2>1. CASE m = l
    BY <1>9, <1>10, <2>1
  <2>2. CASE m # l
    BY <1>1, <1>7, <1>8, <1>9, <2>2 DEF Kept, KeptFor, Short
  <2> QED
    BY <2>1, <2>2
<1>13. Calls'
  BY <1>6, <1>8 DEF Calls, Short, Frames
<1>14. TypeOK'
  <2>1. \A m \in Lookups : cache'[m] \subseteq AnswersTo(m) /\ Cardinality(cache'[m]) <= 1
    <3>1. Cardinality({}) = 0 /\ Cardinality({Top.a}) = 1
      BY FS_EmptySet, FS_Singleton
    <3>2. cache'[l] = {} \/ cache'[l] = {Top.a}
      BY <1>9
    <3>3. cache'[l] \subseteq AnswersTo(l) /\ Cardinality(cache'[l]) <= 1
      BY <1>5, <3>1, <3>2
    <3> QED
      BY <1>1, <1>9, <3>3, Types
  <2> QED
    BY <1>1, <1>2, <1>6, <1>9, <2>1 DEF TypeOK
<1>15. Placed' /\ AllNamed'
  BY <1>2, SameConnections
<1> QED
  BY <1>11, <1>12, <1>13, <1>14, <1>15 DEF IInv

LEMMA CacheExpiresKeeps ==
  ASSUME IInv, NEW l \in Lookups, CacheExpires(l)
  PROVE  IInv'
<1>1. /\ TypeOK /\ Waiting /\ Kept /\ Frames
      /\ cache \in [Lookups -> SUBSET Answers]
  BY Types DEF IInv, Calls
<1>2. /\ stack = <<>> /\ cache' = [cache EXCEPT ![l] = {}]
      /\ UNCHANGED <<stage1, stage2, conn, freed, hooks, ident, stack, fault>>
  BY DEF CacheExpires, Idle
<1>3. /\ cache' \in [Lookups -> SUBSET Answers]
      /\ \A m \in Lookups : cache'[m] = {} \/ cache'[m] = cache[m]
  BY <1>1, <1>2
<1>4. TypeOK'
  <2>1. Cardinality({}) = 0
    BY FS_EmptySet
  <2>2. \A m \in Lookups : cache'[m] \subseteq AnswersTo(m) /\ Cardinality(cache'[m]) <= 1
    <3>1. \A m \in Lookups : cache[m] \subseteq AnswersTo(m) /\ Cardinality(cache[m]) <= 1
      BY <1>1, Types
    <3> QED
      BY <1>3, <2>1, <3>1
  <2> QED
    BY <1>1, <1>2, <1>3, <2>2 DEF TypeOK
<1>5. Waiting'
  BY <1>1, <1>2 DEF Waiting, Waits, Awaited, Finishes, Starting, Coming, InHand, Ahead
<1>6. Kept'
  BY <1>1, <1>2, <1>3 DEF Kept, KeptFor, Asker, Starting
<1>7. Calls'
  BY <1>2 DEF Calls, Shape, Frames
<1>8. Placed' /\ AllNamed'
  BY <1>2, SameConnections
<1> QED
  BY <1>4, <1>5, <1>6, <1>7, <1>8 DEF IInv

LEMMA IdentWriteKeeps ==
  ASSUME IInv, NEW c \in Conns, IdentWrite(c)
  PROVE  IInv'
<1>1. /\ TypeOK /\ Waiting /\ Kept /\ stage1 \in Seq(Conns)
      /\ ident \in [Conns -> {"no", "connecting", "asked"}]
  BY Types DEF IInv
<1>2. /\ stack = <<>> /\ ident' = [ident EXCEPT ![c] = "asked"] /\ fault' = ~Alive(c)
      /\ UNCHANGED <<stage1, stage2, conn, freed, hooks, cache, stack>>
  BY DEF IdentWrite, Idle
<1>3. /\ ident' \in [Conns -> {"no", "connecting", "asked"}]
      /\ \A d \in Conns : ident[d] # "no" => ident'[d] # "no"
  BY <1>1, <1>2
<1>4. TypeOK'
  <2>1. fault' \in BOOLEAN
    BY <1>2 DEF Alive
  <2> QED
    BY <1>1, <1>2, <1>3, <2>1 DEF TypeOK
<1>5. Waiting'
  <2>1. \A d \in ToSet(stage1) : d \in Conns /\ Waits(d)
    BY <1>1, MembersOf DEF Waiting
  <2> QED
    BY <1>2, <1>3, <2>1 DEF Waiting, Waits, Awaited, Finishes, Starting, Coming, InHand, Ahead
<1>6. Kept'
  BY <1>1, <1>2 DEF Kept, KeptFor, Asker, Starting
<1>7. Calls'
  BY <1>2 DEF Calls, Shape, Frames
<1>8. Placed' /\ AllNamed'
  BY <1>2, SameConnections
<1> QED
  BY <1>4, <1>5, <1>6, <1>7, <1>8 DEF IInv

\* A step that changes no more than fault.
LEMMA NothingKeeps ==
  ASSUME IInv, UNCHANGED <<stage1, stage2, conn, freed, hooks, cache, ident, stack>>,
         fault' \in BOOLEAN
  PROVE  IInv'
<1>1. TypeOK'
  BY DEF IInv, TypeOK
<1>2. Waiting'
  BY DEF IInv, Waiting, Waits, Awaited, Finishes, Starting, Coming, InHand, Ahead
<1>3. Kept'
  BY DEF IInv, Kept, KeptFor, Asker, Starting
<1>4. Calls'
  <2>1. Shape' /\ Frames'
    BY DEF IInv, Calls, Shape, Frames, Leads, Ahead
  <2> QED
    BY <2>1 DEF Calls
<1>5. Placed' /\ AllNamed'
  BY SameConnections
<1> QED
  BY <1>1, <1>2, <1>3, <1>4, <1>5 DEF IInv

\* The next hook of a lookup that finishes is called.
LEMMA DnsHookKeeps ==
  ASSUME IInv, DnsHook
  PROVE  IInv'
<1>1. /\ TypeOK /\ Waiting /\ Kept /\ Shape /\ Frames /\ stage1 \in Seq(Conns)
  BY Types DEF IInv, Calls
<1>2. /\ Calling("finish") /\ Top.left > 0
      /\ stack' = Append(Replace([Top EXCEPT !.left = @ - 1]), Walk(Top.l, Top.a))
      /\ UNCHANGED <<stage1, stage2, conn, freed, hooks, cache, ident, fault>>
  BY DEF DnsHook
<1>3. /\ stack # <<>> /\ Len(stack) = 1 /\ DOMAIN stack = 1..1
      /\ Top = stack[1] /\ Top \in Frame /\ Top.op = "finish"
  BY <1>1, <1>2, OneCall
<1>4. PICK l : l = Top.l
  OBVIOUS
<1>5. l \in Lookups /\ Top.a \in AnswersTo(l) /\ Top.a \in Answers /\ Top.left \in Nat
  BY <1>1, <1>3, <1>4, FrameTypes DEF Frames, Leads
<1>6. PICK g : g = [Top EXCEPT !.left = @ - 1]
  OBVIOUS
<1>7. g \in Frame /\ g.op = "finish" /\ g.l = l /\ g.a = Top.a
  <2>1. Top.left - 1 \in Nat
    BY <1>2, <1>5
  <2> QED
    BY <1>3, <1>4, <1>6, <2>1 DEF Frame
<1>8. PICK w : w = Walk(l, Top.a)
  OBVIOUS
<1>9. w \in Frame /\ w.op = "walk" /\ w.l = l /\ w.step = "visit" /\ w.cur = Head1
  <2>1. Walk(l, Top.a) \in Frame
    BY <1>1, <1>5, WalkBegins
  <2> QED
    BY <1>8, <2>1 DEF Walk
<1>10. PICK st : st = Replace(g)
  OBVIOUS
<1>11. st \in Seq(Frame) /\ Len(st) = 1 /\ st[1] = g
  BY <1>1, <1>3, <1>7, <1>10, Replaced
<1>12. /\ stack' \in Seq(Frame) /\ Len(stack') = 2 /\ DOMAIN stack' = 1..2 /\ stack' # <<>>
       /\ stack'[1] = g /\ stack'[2] = w
  <2>1. stack' = Append(st, w)
    BY <1>2, <1>4, <1>6, <1>8, <1>10
  <2> QED
    BY ONLY <1>9, <1>11, <2>1
<1>13. Head1 \in ToSet(stage1) \cup {None} /\ \A d \in ToSet(stage1) : Precedes(stage1, Head1, d)
  BY <1>1, HeadLeads
<1>14. /\ \A d : ~Starting(d) /\ ~Starting(d)'
       /\ \A m : Finishes(m) <=> m = l
       /\ \A m : Finishes(m)' <=> m = l
  BY <1>3, <1>4, <1>7, <1>12 DEF Starting, Finishes
<1>15. /\ \A i \in DOMAIN stack : stack[i].op # "walk"
       /\ Len(stack) # 3
  BY <1>3
<1>16. Waiting'
  <2> SUFFICES ASSUME NEW d \in ToSet(stage1)
               PROVE  Waits(d)'
    BY <1>2 DEF Waiting
  <2>1. Waits(d)
    BY <1>1 DEF Waiting
  <2>2. ASSUME NEW m \in Lookups, Needs(conn[d], m)
        PROVE  Awaited(m, d)'
    <3>1. CASE m = l
      <4>1. Coming(l, d)'
        BY <1>2, <1>9, <1>12, <1>13 DEF Coming, Ahead
      <4> QED
        BY <3>1, <4>1 DEF Awaited
    <3>2. CASE m # l
      <4>1. hooks[m] > 0
        BY <1>14, <1>15, <2>1, <2>2, <3>2 DEF Waits, Awaited, Coming
      <4> QED
        BY <1>2, <1>14, <3>2, <4>1 DEF Awaited
    <3> QED
      BY <3>1, <3>2
  <2>3. ~Done(conn[d].flags)
    BY <1>14, <1>15, <2>1 DEF Waits, InHand
  <2>4. IDENT \notin conn[d].flags => ident'[d] # "no"
    BY <1>2, <1>14, <2>1 DEF Waits
  <2> QED
    BY <1>2, <2>2, <2>3, <2>4 DEF Waits
<1>17. Kept'
  BY <1>1, <1>2, <1>14, <1>15 DEF Kept, KeptFor, Asker
<1>18. Calls'
  <2>1. Shape'
    BY <1>7, <1>9, <1>12 DEF Shape
  <2>2. Leads(stack[1])' /\ Leads(stack[2])'
    BY <1>2, <1>5, <1>7, <1>9, <1>12, <1>13 DEF Leads, Ahead
  <2>3. Frames'
    BY <1>12, <2>2 DEF Frames
  <2> QED
    BY <2>1, <2>3 DEF Calls
<1>19. TypeOK'
  BY <1>1, <1>2, <1>12 DEF TypeOK
<1>20. Placed' /\ AllNamed'
  BY <1>2, SameConnections
<1> QED
  BY <1>16, <1>17, <1>18, <1>19, <1>20 DEF IInv

\* The reverse lookup of a new connection.
LEMMA InitDnsKeeps ==
  ASSUME IInv, InitDns
  PROVE  IInv'
<1>1. /\ TypeOK /\ AllNamed /\ Waiting /\ Kept /\ Shape /\ Frames /\ stage1 \in Seq(Conns)
      /\ hooks \in [Lookups -> Nat]
  BY Types DEF IInv, Calls
<1>2. /\ Calling("init") /\ Top.step = "dns"
      /\ UNCHANGED <<stage1, stage2, conn, freed, ident, fault>>
  BY DEF InitDns
<1>3. /\ stack # <<>> /\ Len(stack) = 1 /\ DOMAIN stack = 1..1
      /\ Top = stack[1] /\ Top \in Frame /\ Top.op = "init"
  BY <1>1, <1>2, OneCall
<1>4. PICK c : c = Top.c
  OBVIOUS
<1>5. c \in DOMAIN conn /\ conn[c] \in ConnType /\ Named(conn[c])
  BY <1>1, <1>3, <1>4, Types DEF Frames, Leads, AllNamed
<1>6. PICK g : g = [Top EXCEPT !.step = "ident"]
  OBVIOUS
<1>7. g \in Frame /\ g.op = "init" /\ g.c = c /\ g.step = "ident"
  BY <1>3, <1>4, <1>6 DEF Frame
<1>8. PICK st : st = Replace(g)
  OBVIOUS
<1>9. st \in Seq(Frame) /\ Len(st) = 1 /\ st[1] = g /\ DOMAIN st = 1..1 /\ st # <<>>
  BY <1>1, <1>3, <1>7, <1>8, Replaced
<1>10. PICK m \in Lookups : m = [type |-> "PTR", name |-> conn[c].ip]
  BY <1>5, LookupMade DEF ConnType
<1>11. /\ conn[c].flags \cap DNS = {} => Asked(m, st)
       /\ conn[c].flags \cap DNS # {} => stack' = st /\ UNCHANGED <<hooks, cache>>
       /\ cache' \in [Lookups -> SUBSET Answers]
       /\ \A l \in Lookups : cache'[l] \subseteq AnswersTo(l) /\ Cardinality(cache'[l]) <= 1
  <2>1. CASE conn[c].flags \cap DNS = {}
    <3>1. conn[c].host = conn[c].ip
      BY <1>5, <2>1 DEF Named
    <3>2. DnsLookup(m, st)
      BY <1>4, <1>6, <1>8, <1>10, <2>1, <3>1 DEF InitDns
    <3> QED
      BY <1>1, <1>9, <2>1, <3>2, LookupAsks
  <2>2. CASE conn[c].flags \cap DNS # {}
    <3>1. stack' = st /\ UNCHANGED <<hooks, cache>>
      BY <1>4, <1>6, <1>8, <2>2 DEF InitDns
    <3> QED
      BY <1>1, <2>2, <3>1, Types
  <2> QED
    BY <2>1, <2>2
<1>12. \A l \in Lookups : Needs(conn[c], l) /\ l.type = "PTR" => l = m /\ Asked(m, st)
  BY <1>10, <1>11, LookupTypes DEF Needs
<1>13. /\ stack' \in Seq(Frame) /\ Len(stack') \in {1, 2} /\ DOMAIN stack' = 1..Len(stack')
       /\ stack' # <<>> /\ stack'[1] = g
       /\ hooks' \in [Lookups -> Nat] /\ \A l \in Lookups : hooks[l] > 0 => hooks'[l] > 0
       /\ \A l \in Lookups : cache'[l] # {} => hooks'[l] = hooks[l]
       /\ \A l \in Lookups : cache'[l] = cache[l] \/ (l = m /\ hooks[l] = 0)
       /\ Len(stack') = 1 /\ Asked(m, st) => hooks'[m] > 0
       /\ Len(stack') = 2 =>
            /\ stack'[2].op = "walk" /\ stack'[2].l = m /\ stack'[2].step = "visit"
            /\ stack'[2].cur = Head1 /\ cache'[m] # {}
  <2>1. CASE conn[c].flags \cap DNS # {}
    <3>1. stack' = st /\ UNCHANGED <<hooks, cache>>
      BY <1>11, <2>1
    <3>2. /\ Len(stack') = 1 /\ stack' \in Seq(Frame) /\ stack' # <<>> /\ stack'[1] = g
          /\ DOMAIN stack' = 1..1
      BY <1>9, <3>1
    <3>3. Asked(m, st) => hooks'[m] > 0
      BY <3>2, <1>9 DEF Asked
    <3> QED
      BY <1>1, <3>1, <3>2, <3>3
  <2>2. CASE conn[c].flags \cap DNS = {} /\ cache'[m] # {}
    <3>1. /\ UNCHANGED hooks /\ stack' \in Seq(Frame)
          /\ \A l \in Lookups : cache'[l] = cache[l] \/ (l = m /\ hooks[l] = 0)
          /\ Len(stack') = Len(st) + 1 /\ DOMAIN stack' = 1..(Len(st) + 1)
          /\ \A i \in 1..Len(st) : stack'[i] = st[i]
          /\ stack'[Len(st) + 1].op = "walk" /\ stack'[Len(st) + 1].l = m
          /\ stack'[Len(st) + 1].step = "visit" /\ stack'[Len(st) + 1].cur = Head1
      BY <1>11, <2>2 DEF Asked
    <3>2. Len(st) + 1 = 2
      BY <1>9
    <3>3. Len(stack') = 2 /\ DOMAIN stack' = 1..2
      BY ONLY <3>1, <3>2
    <3>4. stack' # <<>> /\ stack'[1] = g
      BY <1>9, <3>1, <3>3
    <3>5. /\ stack'[2].op = "walk" /\ stack'[2].l = m
          /\ stack'[2].step = "visit" /\ stack'[2].cur = Head1
      BY <3>1, <3>2
    <3>6. /\ hooks' \in [Lookups -> Nat] /\ \A l \in Lookups : hooks[l] > 0 => hooks'[l] > 0
          /\ \A l \in Lookups : cache'[l] # {} => hooks'[l] = hooks[l]
          /\ \A l \in Lookups : cache'[l] = cache[l] \/ (l = m /\ hooks[l] = 0)
      BY <1>1, <3>1
    <3>7. stack' \in Seq(Frame)
      BY <3>1
    <3>8. Len(stack') \in {1, 2} /\ DOMAIN stack' = 1..Len(stack') /\ Len(stack') # 1
      BY ONLY <3>3
    <3> QED
      BY ONLY <2>2, <3>4, <3>5, <3>6, <3>7, <3>8
  <2>3. CASE conn[c].flags \cap DNS = {} /\ cache'[m] = {}
    <3>1. /\ UNCHANGED cache /\ stack' = st /\ hooks' \in [Lookups -> Nat] /\ hooks'[m] > 0
          /\ \A l \in Lookups : l # m => hooks'[l] = hooks[l]
      BY <1>11, <2>3 DEF Asked
    <3>2. /\ Len(stack') = 1 /\ stack' \in Seq(Frame) /\ stack' # <<>> /\ stack'[1] = g
          /\ DOMAIN stack' = 1..1
      BY <1>9, <3>1
    <3> QED
      BY <2>3, <3>1, <3>2
  <2> QED
    BY <2>1, <2>2, <2>3
<1>14. \A i \in DOMAIN stack' : i = 1 \/ (i = 2 /\ Len(stack') = 2)
  BY <1>13
<1>15. Head1 \in ToSet(stage1) \cup {None} /\ \A d \in ToSet(stage1) : Precedes(stage1, Head1, d)
  BY <1>1, HeadLeads
<1>16. /\ \A d : Starting(d) <=> d = c
       /\ \A d : Starting(d)' <=> d = c
       /\ \A l : ~Finishes(l) /\ ~Finishes(l)'
  BY <1>3, <1>4, <1>7, <1>13 DEF Starting, Finishes
<1>17. /\ \A i \in DOMAIN stack : stack[i].op # "walk"
       /\ Len(stack) # 3
  BY <1>3
<1>18. Waiting'
  <2> SUFFICES ASSUME NEW d \in ToSet(stage1)
               PROVE  Waits(d)'
    BY <1>2 DEF Waiting
  <2>1. Waits(d)
    BY <1>1 DEF Waiting
  <2>2. ASSUME NEW l \in Lookups, Needs(conn[d], l)
        PROVE  Awaited(l, d)'
    <3>1. CASE hooks[l] > 0
      BY <1>13, <1>16, <3>1 DEF Awaited
    <3>2. CASE ~(hooks[l] > 0)
      <4>1. l.type = "PTR" /\ d = c
        BY <1>16, <1>17, <2>1, <2>2, <3>2 DEF Waits, Awaited, Coming
      <4>2. l = m /\ Asked(m, st)
        BY <1>12, <2>2, <4>1
      <4>3. CASE Len(stack') = 2
        <5>1. Coming(m, c)'
          BY <1>2, <1>13, <1>15, <4>1, <4>3 DEF Coming, Ahead
        <5> QED
          BY <4>1, <4>2, <5>1 DEF Awaited
      <4>4. CASE Len(stack') = 1
        BY <1>13, <1>16, <4>2, <4>4 DEF Awaited
      <4> QED
        BY <1>13, <4>3, <4>4
    <3> QED
      BY <3>1, <3>2
  <2>3. Done(conn[d].flags) => InHand(d)'
    BY <1>16, <1>17, <2>1 DEF Waits, InHand
  <2>4. IDENT \notin conn[d].flags =>
          ident'[d] # "no" \/ (Starting(d)' /\ stack'[1].step # "end")
    BY <1>2, <1>7, <1>13, <1>16, <2>1 DEF Waits
  <2> QED
    BY <1>2, <2>2, <2>3, <2>4 DEF Waits
<1>19. Kept'
  <2> SUFFICES ASSUME NEW l \in Lookups, cache'[l] # {}
               PROVE  hooks'[l] = 0 /\ \A d \in ToSet(stage1) : Needs(conn[d], l) => Asker(l, d)'
    BY <1>2 DEF Kept, KeptFor
  <2>1. hooks[l] = 0 /\ \A d \in ToSet(stage1) : Needs(conn[d], l) => Asker(l, d)
    <3>1. CASE cache'[l] = cache[l]
      BY <1>1, <3>1 DEF Kept, KeptFor
    <3>2. ASSUME l = m, hooks[l] = 0, NEW d \in ToSet(stage1), Needs(conn[d], l)
          PROVE  Asker(l, d)
      <4>1. Awaited(l, d)
        BY <1>1, <3>2 DEF Waiting, Waits
      <4>2. l.type = "PTR" /\ Starting(d)
        BY <1>10, <1>16, <1>17, <3>2, <4>1 DEF Awaited, Coming
      <4> QED
        BY <4>2 DEF Asker
    <3> QED
      BY <1>13, <3>1, <3>2
  <2>2. \A d : Asker(l, d) => Asker(l, d)'
    BY <1>16, <1>17 DEF Asker
  <2> QED
    BY <1>13, <2>1, <2>2
<1>20. Calls'
  <2>1. \A i \in DOMAIN stack' : stack'[i].op = "walk" <=> i > 1
    BY <1>7, <1>13, <1>14
  <2>2. Shape'
    <3>0. PICK n \in {1, 2} : n = Len(stack')
      BY <1>13
    <3>1. n <= 3 /\ n # 3 /\ (n >= 2 => n = 2)
      OBVIOUS
    <3>2. Len(stack') <= 3 /\ Len(stack') # 3 /\ (Len(stack') >= 2 => Len(stack') = 2)
      BY ONLY <3>0, <3>1
    <3>3. Len(stack') = 2 => /\ stack'[1].op # "finish" /\ stack'[2].l.type = "PTR"
                             /\ cache'[stack'[2].l] # {} /\ stack'[2].step # "done"
      BY <1>2, <1>7, <1>10, <1>13
    <3> QED
      BY <2>1, <3>2, <3>3 DEF Shape
  <2>3. Leads(stack[1])'
    BY <1>2, <1>5, <1>7, <1>13 DEF Leads
  <2>4. Len(stack') = 2 => Leads(stack[2])'
    BY <1>2, <1>13, <1>15 DEF Leads, Ahead
  <2>5. Frames'
    BY <1>14, <2>3, <2>4 DEF Frames
  <2> QED
    BY <2>2, <2>5 DEF Calls
<1>21. TypeOK'
  BY <1>1, <1>2, <1>11, <1>13 DEF TypeOK
<1>22. Placed' /\ AllNamed'
  BY <1>2, SameConnections
<1> QED
  BY <1>18, <1>19, <1>20, <1>21, <1>22 DEF IInv

\* A walk comes to the end of the list.  A nested one leaves nobody behind who
\* waits for the answer that is cached: its list had all of them.
LEMMA WalkEndsKeeps ==
  ASSUME IInv, WalkEnds
  PROVE  IInv'
<1>1. /\ TypeOK /\ Waiting /\ Kept /\ Shape /\ Frames /\ stage1 \in Seq(Conns)
      /\ None \notin Conns
  BY Types DEF IInv, Calls
<1>2. /\ Calling("walk") /\ Top.step = "visit" /\ Top.cur = None /\ stack' = Front(stack)
      /\ UNCHANGED <<stage1, stage2, conn, freed, hooks, cache, ident, fault>>
  BY DEF WalkEnds
<1>3. PICK n : n = Len(stack)
  OBVIOUS
<1>4. /\ stack # <<>> /\ n \in {2, 3} /\ DOMAIN stack = 1..n
      /\ Top = stack[n] /\ Top.op = "walk"
  BY <1>1, <1>2, <1>3, CallTop
<1>5. /\ stack' \in Seq(Frame) /\ Len(stack') = n - 1 /\ DOMAIN stack' = 1..(n - 1)
      /\ \A i \in 1..(n - 1) : stack'[i] = stack[i]
  BY <1>1, <1>2, <1>3, <1>4, Popped
<1>6. 1 \in 1..(n - 1) /\ stack' # <<>> /\ stack'[1] = stack[1]
  <2>1. 1 \in 1..(n - 1)
    BY <1>4
  <2>2. Len(stack') # 0
    BY <1>4, <1>5
  <2> QED
    BY <1>5, <2>1, <2>2
<1>7. \A i \in DOMAIN stack : i \in DOMAIN stack' \/ i = n
  BY <1>4, <1>5
<1>8. /\ \A d : Starting(d) <=> Starting(d)'
      /\ \A l : Finishes(l) <=> Finishes(l)'
  BY <1>4, <1>6 DEF Starting, Finishes
<1>9. ASSUME NEW d
      PROVE  ~Precedes(stage1, Ahead(Top), d)
  <2>1. Ahead(Top) = None /\ None \notin ToSet(stage1)
    BY <1>1, <1>2, MembersOf DEF Ahead
  <2> QED
    BY <2>1, PrecedesIn
<1>10. ASSUME NEW l, NEW d, Coming(l, d)
       PROVE  \E i \in DOMAIN stack' : /\ stack[i].op = "walk" /\ stack[i].l = l
                                       /\ Precedes(stage1, Ahead(stack[i]), d)
  <2>1. PICK i \in DOMAIN stack : /\ stack[i].op = "walk" /\ stack[i].l = l
                                  /\ Precedes(stage1, Ahead(stack[i]), d)
    BY <1>10 DEF Coming
  <2>2. i # n
    BY <1>4, <1>9, <2>1
  <2> QED
    BY <1>7, <2>1, <2>2
<1>11. ASSUME NEW l, NEW d, Coming(l, d)
       PROVE  Coming(l, d)'
  <2>1. PICK i \in DOMAIN stack' : /\ stack[i].op = "walk" /\ stack[i].l = l
                                   /\ Precedes(stage1, Ahead(stack[i]), d)
    BY <1>10, <1>11
  <2>2. stack'[i] = stack[i] /\ stage1' = stage1
    BY <1>2, <1>5
  <2> QED
    BY <2>1, <2>2 DEF Coming, Ahead
<1>12. Waiting'
  <2> SUFFICES ASSUME NEW d \in ToSet(stage1)
               PROVE  Waits(d)'
    BY <1>2 DEF Waiting
  <2>1. Waits(d)
    BY <1>1 DEF Waiting
  <2>2. ASSUME NEW l \in Lookups, Needs(conn[d], l)
        PROVE  Awaited(l, d)'
    <3>1. Awaited(l, d)
      BY <2>1, <2>2 DEF Waits
    <3> QED
      BY <1>2, <1>6, <1>8, <1>11, <3>1 DEF Awaited
  <2>3. Done(conn[d].flags) => InHand(d)'
    <3>1. SUFFICES ASSUME Done(conn[d].flags)
                   PROVE  InHand(d)'
      OBVIOUS
    <3>2. InHand(d)
      BY <2>1, <3>1 DEF Waits
    <3> QED
      BY <1>2, <1>4, <1>5, <1>7, <1>8, <3>2 DEF InHand
  <2>4. IDENT \notin conn[d].flags =>
          ident'[d] # "no" \/ (Starting(d)' /\ stack'[1].step # "end")
    BY <1>2, <1>6, <1>8, <2>1 DEF Waits
  <2> QED
    BY <1>2, <2>2, <2>3, <2>4 DEF Waits
<1>13. Kept'
  <2> SUFFICES ASSUME NEW l \in Lookups, cache[l] # {}
               PROVE  hooks[l] = 0 /\ \A d \in ToSet(stage1) : Needs(conn[d], l) => Asker(l, d)'
    BY <1>2 DEF Kept, KeptFor
  <2>1. hooks[l] = 0 /\ \A d \in ToSet(stage1) : Needs(conn[d], l) => Asker(l, d)
    BY <1>1 DEF Kept, KeptFor
  <2>2. ASSUME NEW d \in ToSet(stage1), Needs(conn[d], l)
        PROVE  Asker(l, d)'
    <3>1. Asker(l, d)
      BY <2>1, <2>2
    <3>2. CASE l.type = "PTR"
      BY <1>8, <3>1, <3>2 DEF Asker
    <3>3. CASE l.type # "PTR"
      <4>1. n = 3
        BY <1>3, <3>1, <3>3 DEF Asker
      <4>2. Awaited(l, d)
        BY <1>1, <2>2 DEF Waiting, Waits
      <4>3. ~Coming(l, d)
        <5>1. SUFFICES ASSUME Coming(l, d)
                       PROVE  FALSE
          OBVIOUS
        <5>2. PICK i \in DOMAIN stack' : stack[i].op = "walk" /\ stack[i].l = l
          BY <1>10, <5>1
        <5>3. i = 2
          BY <1>1, <1>4, <1>5, <4>1, <5>2 DEF Shape
        <5> QED
          BY <1>1, <1>3, <3>3, <4>1, <5>2, <5>3 DEF Shape
      <4>4. ~Finishes(l)
        BY <1>1, <1>3, <3>3, <4>1 DEF Shape, Finishes
      <4> QED
        BY <2>1, <3>3, <4>2, <4>3, <4>4 DEF Awaited
    <3> QED
      BY <3>2, <3>3
  <2> QED
    BY <2>1, <2>2
<1>14. Calls'
  <2>1. Frames'
    <3>1. ASSUME NEW i \in DOMAIN stack'
          PROVE  Leads(stack[i])'
      <4>1. stack'[i] = stack[i] /\ i \in DOMAIN stack
        BY <1>4, <1>5
      <4>2. Leads(stack[i])
        BY <1>1, <4>1 DEF Frames
      <4> QED
        BY <1>2, <4>1, <4>2 DEF Leads, Ahead
    <3> QED
      BY <3>1 DEF Frames
  <2>2. Shape'
    <3>1. \A i \in DOMAIN stack' : stack'[i].op = "walk" <=> i > 1
      BY <1>1, <1>4, <1>5 DEF Shape
    <3>2. CASE n = 2
      <4>1. Len(stack') = 1
        BY <1>5, <3>2
      <4> QED
        BY <3>1, <4>1 DEF Shape
    <3>3. CASE n = 3
      <4>1. Len(stack') = 2 /\ stack'[2] = stack[2] /\ stack'[1] = stack[1]
        BY <1>5, <1>6, <3>3
      <4>2. IF stack[1].op = "finish" THEN stack[2].l = stack[1].l
            ELSE /\ stack[2].l.type = "PTR" /\ cache[stack[2].l] # {}
                 /\ stack[2].step = "done" => stack[2].cur = stack[1].c
        BY <1>1, <1>3, <3>3 DEF Shape
      <4> QED
        BY <1>2, <3>1, <4>1, <4>2 DEF Shape
    <3> QED
      BY <1>4, <3>2, <3>3
  <2> QED
    BY <2>1, <2>2 DEF Calls
<1>15. TypeOK'
  BY <1>1, <1>2, <1>5 DEF TypeOK
<1>16. Placed' /\ AllNamed'
  BY <1>2, SameConnections
<1> QED
  BY <1>12, <1>13, <1>14, <1>15, <1>16 DEF IInv

-----------------------------------------------------------------------------
(* The theorems.                                                           *)

\* What an ACL lets a connection skip: both DNS lookups or neither.
LEMMA Skips ==
  ASSUME NEW skip \in SUBSET {"dns", "ident"}
  PROVE  LET flags == UNION {IF s = "dns" THEN DNS ELSE {IDENT} : s \in skip}
         IN flags \in SUBSET (DNS \cup {IDENT}) /\ flags \cap DNS \in {{}, DNS}
<1> DEFINE flags == UNION {IF s = "dns" THEN DNS ELSE {IDENT} : s \in skip}
<1>1. \A x : x \in flags <=> ("dns" \in skip /\ x \in DNS) \/ ("ident" \in skip /\ x = IDENT)
  OBVIOUS
<1>2. IDENT \notin DNS
  BY DEF IDENT, DNS, PTR, ADDR
<1> HIDE DEF flags
<1>3. flags \in SUBSET (DNS \cup {IDENT})
  BY <1>1
<1>4. CASE "dns" \in skip
  <2>1. flags \cap DNS = DNS
    BY <1>1, <1>4
  <2> QED
    BY <1>3, <2>1 DEF flags
<1>5. CASE "dns" \notin skip
  <2>1. flags \cap DNS = {}
    BY <1>1, <1>2, <1>5
  <2> QED
    BY <1>3, <2>1 DEF flags
<1> QED
  BY <1>4, <1>5

\* Every step keeps the invariant.
LEMMA NextKeeps ==
  ASSUME IInv, [Next]_vars
  PROVE  IInv'
<1>1. CASE UNCHANGED vars
  BY <1>1, NothingKeeps DEF vars, IInv, TypeOK
<1>2. ASSUME NEW c \in Conns, NEW ip \in Ips, NEW skip \in SUBSET {"dns", "ident"},
             Accept(c, ip, UNION {IF s = "dns" THEN DNS ELSE {IDENT} : s \in skip})
      PROVE  IInv'
  <2>1. PICK flags : flags = UNION {IF s = "dns" THEN DNS ELSE {IDENT} : s \in skip}
    OBVIOUS
  <2>2. flags \in SUBSET (DNS \cup {IDENT}) /\ flags \cap DNS \in {{}, DNS}
    BY <2>1, Skips
  <2>3. Accept(c, ip, flags)
    BY <1>2, <2>1
  <2> QED
    BY <2>2, <2>3, AcceptKeeps
<1>3. ASSUME CallStep
      PROVE  IInv'
  <2>1. CASE UseAfterFree
    BY <2>1, NothingKeeps DEF UseAfterFree
  <2>2. CASE \E keep \in BOOLEAN : DnsReturns(keep)
    BY <2>2, DnsReturnsKeeps
  <2> QED
    BY <1>3, <2>1, <2>2, InitDnsKeeps, InitIdentKeeps, InitEndKeeps, WalkEndsKeeps, SkipKeeps,
       ReverseAnswerKeeps, ForwardAnswerKeeps, VisitEndsKeeps, DnsHookKeeps DEF CallStep
<1>4. ASSUME NEW l \in Lookups, CacheExpires(l) \/ \E a \in AnswersTo(l) : DnsFinish(l, a)
      PROVE  IInv'
  BY <1>4, CacheExpiresKeeps, DnsFinishKeeps
<1>5. ASSUME NEW c \in Conns,
             \/ IdentWrite(c) \/ (\E answered \in BOOLEAN : IdentEnds(c, answered))
             \/ Leaves(c)
      PROVE  IInv'
  BY <1>5, IdentWriteKeeps, IdentEndsKeeps, LeavesKeeps
<1> QED
  BY <1>1, <1>2, <1>3, <1>4, <1>5 DEF Next

\* The invariant holds in every state of connection.c's two stages.
THEOREM InductiveInvariant == Spec => []IInv
<1>1. Init => IInv
  BY InitInvariant
<1>2. IInv /\ [Next]_vars => IInv'
  BY NextKeeps
<1> QED
  BY <1>1, <1>2, PTL DEF Spec

\* The fields of connections, the lists, the caches and the stack of calls keep
\* their types.
THEOREM TypeCorrect == Spec => []TypeOK
<1>1. IInv => TypeOK
  BY DEF IInv
<1> QED
  BY <1>1, InductiveInvariant, PTL

\* A connection that connection.c has in a stage is there once and not freed, in
\* stage 1 it waits for a lookup or an ident request when the program does, and
\* its host when its lookups are done is its address or a proven name: however
\* the answers come, be they cached, given from inside the call that asks, or
\* meant for another connection of the same name.
THEOREM StagesStaySound == Spec => []StagesSound
<1>1. IInv => OnOneList
  BY DEF IInv, Placed
<1>2. IInv => HostIsProven
  BY DEF IInv, AllNamed, Named, HostIsProven
<1>3. IInv => NobodyForgotten
  <2> SUFFICES ASSUME IInv, stack = <<>>, NEW c \in ToSet(stage1)
               PROVE  LET cn == conn[c]
                      IN /\ cn.flags \cap DNS = {} => hooks[[type |-> "PTR", name |-> cn.ip]] > 0
                         /\ cn.flags \cap DNS = {PTR} =>
                              cn.host \in Hosts /\ hooks[[type |-> "A", name |-> cn.host]] > 0
                         /\ IDENT \notin cn.flags => ident[c] # "no"
                         /\ ~Done(cn.flags)
    BY DEF NobodyForgotten, Idle
  <2>1. Waits(c) /\ c \in DOMAIN conn /\ conn[c] \in ConnType /\ Named(conn[c])
    BY Types DEF IInv, Waiting, Placed, AllNamed
  <2>2. \A l \in Lookups : Needs(conn[c], l) => hooks[l] > 0
    BY <2>1 DEF Waits, Awaited, Finishes, Starting, Coming
  <2>3. conn[c].flags \cap DNS = {} => hooks[[type |-> "PTR", name |-> conn[c].ip]] > 0
    <3>1. PICK l \in Lookups : l = [type |-> "PTR", name |-> conn[c].ip]
      BY <2>1, LookupMade DEF ConnType
    <3> QED
      BY <2>2, <3>1 DEF Needs
  <2>4. conn[c].flags \cap DNS = {PTR} =>
          conn[c].host \in Hosts /\ hooks[[type |-> "A", name |-> conn[c].host]] > 0
    <3>1. SUFFICES ASSUME conn[c].flags \cap DNS = {PTR}
                   PROVE  conn[c].host \in Hosts /\ hooks[[type |-> "A", name |-> conn[c].host]] > 0
      OBVIOUS
    <3>2. conn[c].host \in Hosts
      BY <2>1, <3>1 DEF Named
    <3>3. PICK l \in Lookups : l = [type |-> "A", name |-> conn[c].host]
      BY <3>2, LookupMade
    <3> QED
      BY <2>2, <3>1, <3>2, <3>3 DEF Needs
  <2>5. IDENT \notin conn[c].flags => ident[c] # "no"
    BY <2>1 DEF Waits, Starting
  <2>6. ~Done(conn[c].flags)
    BY <2>1 DEF Waits, InHand, Starting
  <2> QED
    BY <2>3, <2>4, <2>5, <2>6
<1>4. IInv => StagesSound
  BY <1>1, <1>2, <1>3 DEF StagesSound
<1> QED
  BY <1>4, InductiveInvariant, PTL
=============================================================================
