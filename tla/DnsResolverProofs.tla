-------------------------- MODULE DnsResolverProofs --------------------------
(***************************************************************************)
(* Theorems about the resolver, for any number of lookups, callbacks and   *)
(* calls in progress and for all limits: the lists, the timers and the     *)
(* cache fit each other, and whoever asks is called back once.             *)
(***************************************************************************)
EXTENDS DnsResolver, ListLemmas

\* The invariant is told of lists ls, lookups q, calls in progress st and what
\* is owed ow, as dns_lookup_send is: it is called with lists that have just
\* been changed.
Pend(ls) == ToSet(ls["active"]) \cup ToSet(ls["waiting"])
Ends(st) == {st[i].key : i \in {j \in DOMAIN st : st[j].op = "finish"}}

\* A lookup is on one list at most.
Sound(ls) ==
  /\ ls \in [Lists -> Seq(Keys)]
  /\ \A l \in Lists : IsInjective(ls[l])
  /\ \A l, m \in Lists : l # m => ToSet(ls[l]) \cap ToSet(ls[m]) = {}

\* Those in done may be without a timer: they are being finished.
Timed(ls, q, done) ==
  /\ \A k \in (ToSet(ls["active"]) \cup ToSet(ls["cached"])) \ done : q[k].timer
  /\ \A k \in Keys : q[k].timer => k \in Pend(ls) \cup ToSet(ls["cached"])

Hooked(ls, q, st, ow) ==
  \A o \in ow :
    /\ o[2] \in Pend(ls) /\ q[o[2]].hooks[o[1]] > 0
    /\ \A i \in DOMAIN st : st[i].op = "finish" /\ st[i].key = o[2] => st[i].todo[o[1]] > 0

EndsOnce(ls, st) ==
  /\ \A i, j \in DOMAIN st :
       st[i].op = "finish" /\ st[j].op = "finish" /\ st[i].key = st[j].key => i = j
  /\ Ends(st) \subseteq Pend(ls)

\* A lookup whose query cannot be built has never been asked; so it gets no
\* reply and no timer, and one that is being finished is not sent again by
\* a callback, as others may be.
Unasked(ls, q, st) ==
  \A k \in BadKeys :
    /\ q[k].asked = {}
    /\ k \in Pend(ls) => ~q[k].timer
    /\ ~(k \in Ends(st) /\ k \in ToSet(ls["waiting"]))

\* The socket hook is called by the main loop only.
ReadsFirst(st) == \A i \in DOMAIN st : st[i].op = "read" => i = 1

Fits(ls, q, st, ow) ==
  /\ Sound(ls) /\ q \in [Keys -> LookupType] /\ st \in Seq(Frame) /\ ow \subseteq Users \X Keys
  /\ Hooked(ls, q, st, ow) /\ EndsOnce(ls, st) /\ Unasked(ls, q, st) /\ ReadsFirst(st)

Good(ls, q, st, ow) == Fits(ls, q, st, ow) /\ Timed(ls, q, Ends(st))

IInv ==
  /\ Good(list, lookup, stack, owed)
  /\ CacheBounded
  /\ conf \in Confs /\ sockUp \in BOOLEAN /\ gone \subseteq Users /\ aborted \in BOOLEAN

-----------------------------------------------------------------------------
(* The lists.                                                              *)

\* ms is ls with k moved to a list, or off all of them.
IsMove(ls, k, to, ms) ==
  /\ Sound(ms)
  /\ \A l \in Lists :
       ToSet(ms[l]) = IF l = to THEN ToSet(ls[l]) \cup {k} ELSE ToSet(ls[l]) \ {k}
  /\ \A l \in Lists :
       /\ Len(ms[l]) <= Len(ls[l]) + (IF l = to THEN 1 ELSE 0)
       /\ k \in ToSet(ls[l]) => Len(ms[l]) <= Len(ls[l]) - (IF l = to THEN 0 ELSE 1)

\* dns_lookup_move moves one lookup and no other.
LEMMA MoveMoves ==
  ASSUME NEW ls, Sound(ls), NEW k \in Keys, NEW to, NEW head \in BOOLEAN
  PROVE  IsMove(ls, k, to, Move(ls, k, to, head))
<1> DEFINE ms == Move(ls, k, to, head)
           rest(l) == Without(ls[l], {k})
<1>1. ASSUME NEW l \in Lists
      PROVE  /\ ls[l] \in Seq(Keys) /\ rest(l) \in Seq(Keys) /\ Len(ls[l]) \in Nat /\ Len(rest(l)) \in Nat
             /\ ToSet(rest(l)) = ToSet(ls[l]) \ {k} /\ IsInjective(rest(l))
             /\ Len(rest(l)) <= Len(ls[l])
             /\ k \in ToSet(ls[l]) => Len(rest(l)) < Len(ls[l])
  <2>1. ls[l] \in Seq(Keys) /\ IsInjective(ls[l])
    BY DEF Sound
  <2>2. k \in ToSet(ls[l]) => ToSet(ls[l]) \cap {k} # {}
    OBVIOUS
  <2>3. /\ rest(l) \in Seq(Keys) /\ ToSet(rest(l)) = ToSet(ls[l]) \ {k} /\ IsInjective(rest(l))
        /\ Len(rest(l)) <= Len(ls[l])
        /\ k \in ToSet(ls[l]) => Len(rest(l)) < Len(ls[l])
    BY <2>1, <2>2, WithoutProperties
  <2> HIDE DEF rest
  <2> QED
    BY <2>1, <2>3
<1>2. \A l \in Lists :
        ms[l] = IF l # to THEN rest(l) ELSE IF head THEN Cons(k, rest(l)) ELSE Append(rest(l), k)
  BY DEF Move
<1>3. DOMAIN ms = Lists /\ ms = [l \in Lists |-> ms[l]]
  BY DEF Move
<1> HIDE DEF rest, ms
<1>4. ASSUME NEW l \in Lists
      PROVE  /\ ms[l] \in Seq(Keys) /\ IsInjective(ms[l])
             /\ ToSet(ms[l]) = IF l = to THEN ToSet(ls[l]) \cup {k} ELSE ToSet(ls[l]) \ {k}
             /\ Len(ms[l]) = Len(rest(l)) + (IF l = to THEN 1 ELSE 0)
  <2>1. CASE l # to
    BY <1>1, <1>2, <2>1
  <2>2. CASE l = to
    <3>1. ms[l] = Cons(k, rest(l)) \/ ms[l] = Append(rest(l), k)
      BY <1>2, <2>2
    <3>2. rest(l) \in Seq(Keys) /\ IsInjective(rest(l)) /\ k \notin ToSet(rest(l))
      BY <1>1
    <3>3. /\ ms[l] \in Seq(Keys) /\ Len(ms[l]) = Len(rest(l)) + 1
          /\ ToSet(ms[l]) = ToSet(rest(l)) \cup {k} /\ IsInjective(ms[l])
      BY <3>1, <3>2, Joined
    <3>4. ToSet(rest(l)) = ToSet(ls[l]) \ {k}
      BY <1>1
    <3> QED
      BY <2>2, <3>3, <3>4
  <2> QED
    BY <2>1, <2>2
<1>5. Sound(ms)
  <2>1. \A l, m \in Lists : l # m => ToSet(ms[l]) \cap ToSet(ms[m]) = {}
    <3>1. \A l \in Lists :
            ToSet(ms[l]) = IF l = to THEN ToSet(ls[l]) \cup {k} ELSE ToSet(ls[l]) \ {k}
      BY <1>4
    <3>2. \A l, m \in Lists : l # m => ToSet(ls[l]) \cap ToSet(ls[m]) = {}
      BY DEF Sound
    <3> QED
      BY ONLY <3>1, <3>2
  <2>2. \A l \in Lists : ms[l] \in Seq(Keys) /\ IsInjective(ms[l])
    BY <1>4
  <2>3. ms \in [Lists -> Seq(Keys)]
    BY ONLY <1>3, <2>2
  <2> QED
    BY <2>1, <2>2, <2>3 DEF Sound
<1>6. ASSUME NEW l \in Lists
      PROVE  /\ Len(ms[l]) <= Len(ls[l]) + (IF l = to THEN 1 ELSE 0)
             /\ k \in ToSet(ls[l]) => Len(ms[l]) <= Len(ls[l]) - (IF l = to THEN 0 ELSE 1)
  <2>1. /\ Len(ls[l]) \in Nat /\ Len(rest(l)) \in Nat /\ Len(rest(l)) <= Len(ls[l])
        /\ k \in ToSet(ls[l]) => Len(rest(l)) < Len(ls[l])
    BY <1>1
  <2>2. Len(ms[l]) = Len(rest(l)) + (IF l = to THEN 1 ELSE 0)
    BY <1>4
  <2> QED
    BY <2>1, <2>2
<1> QED
  BY <1>4, <1>5, <1>6 DEF IsMove, ms

-----------------------------------------------------------------------------
(* The stack.                                                              *)

\* A frame that finishes a lookup.
LEMMA FinishFrame ==
  ASSUME NEW f \in Frame, f.op = "finish"
  PROVE  /\ f \in [op : {"finish"}, key : Keys, todo : [Users -> Nat], user : SUBSET Users]
         /\ f.key \in Keys /\ f.todo \in [Users -> Nat] /\ f.user \subseteq Users
  BY DEF Frame

\* Lookups that are being finished after a call and after a return.
LEMMA EndsOfPush ==
  ASSUME NEW st \in Seq(Frame), NEW f \in Frame
  PROVE  Ends(Append(st, f)) = Ends(st) \cup (IF f.op = "finish" THEN {f.key} ELSE {})
<1> DEFINE tt == Append(st, f)
           n == Len(st)
<1>1. /\ n \in Nat /\ DOMAIN tt = 1..(n + 1) /\ DOMAIN st = 1..n /\ tt[n + 1] = f
      /\ \A i \in 1..n : tt[i] = st[i]
  OBVIOUS
<1>2. \A i \in DOMAIN tt : (i \in DOMAIN st /\ tt[i] = st[i]) \/ (i = n + 1 /\ tt[i] = f)
  BY <1>1
<1>3. /\ \A i \in DOMAIN st : i \in DOMAIN tt /\ tt[i] = st[i]
      /\ n + 1 \in DOMAIN tt
  BY <1>1
<1> HIDE DEF tt, n
<1> QED
  BY <1>1, <1>2, <1>3 DEF Ends, tt

\* Two stacks that finish the same lookups and have the same callbacks to make.
Same(st, tt) ==
  /\ Len(tt) = Len(st)
  /\ \A i \in DOMAIN st :
       /\ tt[i].op = st[i].op
       /\ st[i].op = "finish" => tt[i].key = st[i].key /\ tt[i].todo = st[i].todo

LEMMA GoodSame ==
  ASSUME NEW ls, NEW q, NEW st, NEW ow, Good(ls, q, st, ow), NEW tt \in Seq(Frame), Same(st, tt)
  PROVE  Good(ls, q, tt, ow)
<1>1. DOMAIN tt = DOMAIN st
  BY DEF Same, Good
<1>2. Ends(tt) = Ends(st)
  BY <1>1 DEF Same, Ends
<1>3. Timed(ls, q, Ends(tt)) /\ Unasked(ls, q, tt)
  BY <1>2 DEF Good, Fits, Timed, Unasked
<1>4. Hooked(ls, q, tt, ow)
  BY <1>1 DEF Good, Fits, Same, Hooked
<1>5. EndsOnce(ls, tt)
  BY <1>1, <1>2 DEF Good, Fits, Same, EndsOnce
<1>6. ReadsFirst(tt)
  BY <1>1 DEF Good, Fits, Same, ReadsFirst
<1> QED
  BY <1>3, <1>4, <1>5, <1>6 DEF Good, Fits

\* A loop that returns.
LEMMA GoodPop ==
  ASSUME NEW ls, NEW q, NEW st, NEW ow, Good(ls, q, st, ow), st # <<>>, Last(st).op # "finish"
  PROVE  Good(ls, q, Front(st), ow)
<1> DEFINE tt == Front(st)
           n == Len(st)
<1>1. st \in Seq(Frame)
  BY DEF Good, Fits
<1>2. /\ n \in Nat \ {0} /\ Last(st) = st[n] /\ Last(st) \in Frame
      /\ tt \in Seq(Frame) /\ Len(tt) = n - 1 /\ \A i \in 1..(n - 1) : tt[i] = st[i]
  <2>1. Drain \in Frame
    BY DEF Drain, Frame
  <2> QED
    BY <1>1, <2>1, StackProperties
<1>3. \A i \in DOMAIN tt : i \in DOMAIN st /\ tt[i] = st[i]
  BY <1>1, <1>2
<1>4. \A i \in DOMAIN st : st[i].op = "finish" => i \in DOMAIN tt /\ tt[i] = st[i]
  BY <1>1, <1>2
<1> HIDE DEF tt, n
<1>5. Ends(tt) = Ends(st)
  BY <1>3, <1>4 DEF Ends
<1>6. Timed(ls, q, Ends(tt)) /\ Unasked(ls, q, tt)
  BY <1>5 DEF Good, Fits, Timed, Unasked
<1>7. Hooked(ls, q, tt, ow)
  BY <1>3 DEF Good, Fits, Hooked
<1>8. EndsOnce(ls, tt)
  BY <1>3, <1>5 DEF Good, Fits, EndsOnce
<1>9. ReadsFirst(tt)
  BY <1>3 DEF Good, Fits, ReadsFirst
<1> QED
  BY <1>2, <1>6, <1>7, <1>8, <1>9 DEF Good, Fits, tt

\* A loop that starts while nothing is in progress.
LEMMA GoodStart ==
  ASSUME NEW ls, NEW q, NEW ow, Good(ls, q, <<>>, ow)
  PROVE  Good(ls, q, <<Drain>>, ow) /\ Good(ls, q, <<Reading, Drain>>, ow)
<1>1. \A tt \in {<<Drain>>, <<Reading, Drain>>} :
        /\ tt \in Seq(Frame) /\ ReadsFirst(tt) /\ \A i \in DOMAIN tt : tt[i].op # "finish"
  <2>1. Drain \in Frame /\ Reading \in Frame /\ Drain.op = "drain" /\ Reading.op = "read"
    BY DEF Drain, Reading, Frame
  <2> DEFINE a == <<Drain>>
             b == <<Reading, Drain>>
  <2>2. a \in Seq(Frame) /\ DOMAIN a = {1} /\ a[1] = Drain
    BY <2>1
  <2>3. b \in Seq(Frame) /\ DOMAIN b = {1, 2} /\ b[1] = Reading /\ b[2] = Drain
    BY <2>1
  <2>4. /\ ReadsFirst(a) /\ \A i \in DOMAIN a : a[i].op # "finish"
        /\ ReadsFirst(b) /\ \A i \in DOMAIN b : b[i].op # "finish"
    BY <2>1, <2>2, <2>3 DEF ReadsFirst
  <2> QED
    BY <2>2, <2>3, <2>4
<1> SUFFICES ASSUME NEW tt \in Seq(Frame), ReadsFirst(tt), \A i \in DOMAIN tt : tt[i].op # "finish"
             PROVE  Good(ls, q, tt, ow)
  BY <1>1
<1>2. Ends(tt) = {} /\ Ends(<<>>) = {}
  BY DEF Ends
<1>3. Timed(ls, q, Ends(tt)) /\ Unasked(ls, q, tt)
  BY <1>2 DEF Good, Fits, Timed, Unasked
<1>4. Hooked(ls, q, tt, ow)
  BY DEF Good, Fits, Hooked
<1>5. EndsOnce(ls, tt)
  BY <1>2 DEF EndsOnce
<1> QED
  BY <1>3, <1>4, <1>5 DEF Good, Fits

\* A callback that has called dns_lookup goes on.
LEMMA CallReturnsSame ==
  ASSUME Good(list, lookup, stack, owed), NEW u, MayCall(u)
  PROVE  CallReturns \in Seq(Frame) /\ Same(stack, CallReturns)
<1>1. stack \in Seq(Frame)
  BY DEF Good, Fits
<1>2. CASE stack = <<>>
  BY <1>1, <1>2 DEF CallReturns, Same
<1>3. CASE stack # <<>>
  <2> DEFINE f == [Top EXCEPT !.user = {}]
             n == Len(stack)
  <2>1. Top.op = "finish" /\ Top = stack[n] /\ Top \in Frame
    BY <1>1, <1>3, StackProperties DEF MayCall, Calls, Top
  <2>2. /\ f \in Frame /\ f.op = "finish" /\ f.key = Top.key /\ f.todo = Top.todo
    <3>1. Top \in [op : {"finish"}, key : Keys, todo : [Users -> Nat], user : SUBSET Users]
      BY <2>1, FinishFrame
    <3> HIDE DEF Top
    <3> QED
      BY <3>1 DEF Frame
  <2> HIDE DEF f
  <2>3. /\ Append(Front(stack), f) \in Seq(Frame) /\ Len(Append(Front(stack), f)) = n
        /\ \A i \in 1..n : Append(Front(stack), f)[i] = IF i < n THEN stack[i] ELSE f
    BY <1>1, <1>3, <2>2, StackProperties
  <2>4. CallReturns = Append(Front(stack), f)
    BY <1>3 DEF CallReturns, f
  <2>5. \A i \in DOMAIN stack : i \in 1..n /\ (i < n \/ i = n)
    BY <1>1
  <2> HIDE DEF n, Top
  <2> QED
    BY <2>1, <2>2, <2>3, <2>4, <2>5 DEF Same, n
<1> QED
  BY <1>2, <1>3

-----------------------------------------------------------------------------
(* dns_lookup_send.                                                        *)

\* Lists with the same lookups, in another order, and lookups with the same
\* hooks and timers.
LEMMA GoodAgain ==
  ASSUME NEW ls, NEW q, NEW st, NEW ow, Good(ls, q, st, ow),
         NEW ms, Sound(ms), \A l \in Lists : ToSet(ms[l]) = ToSet(ls[l]),
         NEW r \in [Keys -> LookupType],
         \A k \in Keys : r[k].hooks = q[k].hooks /\ r[k].timer = q[k].timer,
         \A k \in BadKeys : r[k].asked = {}
  PROVE  Good(ms, r, st, ow)
<1>1. /\ Pend(ms) = Pend(ls) /\ ToSet(ms["active"]) = ToSet(ls["active"])
      /\ ToSet(ms["waiting"]) = ToSet(ls["waiting"]) /\ ToSet(ms["cached"]) = ToSet(ls["cached"])
  BY DEF Pend, Lists
<1>2. BadKeys \subseteq Keys /\ \A o \in ow : o[2] \in Keys
  BY ResolverAssumption DEF Good, Fits
<1>3. Ends(st) \subseteq Keys /\ \A l \in Lists : ToSet(ls[l]) \subseteq Keys
  <2>1. \A l \in Lists : ls[l] \in Seq(Keys)
    BY DEF Good, Fits, Sound
  <2>2. \A i \in DOMAIN st : st[i].op = "finish" => st[i].key \in Keys
    BY FinishFrame DEF Good, Fits
  <2> QED
    BY <2>1, <2>2 DEF Ends, ToSet
<1>4. Timed(ms, r, Ends(st))
  BY <1>1, <1>3 DEF Good, Fits, Timed, Lists
<1>5. Hooked(ms, r, st, ow)
  BY <1>1, <1>2 DEF Good, Fits, Hooked
<1>6. EndsOnce(ms, st)
  BY <1>1 DEF Good, Fits, EndsOnce
<1>7. Unasked(ms, r, st)
  BY <1>1, <1>2 DEF Good, Fits, Unasked
<1> QED
  BY <1>4, <1>5, <1>6, <1>7 DEF Good, Fits

\* The keys of lists, lookups and calls that fit each other.
LEMMA FitKeys ==
  ASSUME NEW ls, NEW q, NEW st, NEW ow, Fits(ls, q, st, ow)
  PROVE  /\ \A l \in Lists : ToSet(ls[l]) \subseteq Keys
         /\ Pend(ls) \subseteq Keys /\ Ends(st) \subseteq Keys /\ BadKeys \subseteq Keys
         /\ \A l \in Lists : ls[l] # <<>> => Head(ls[l]) \in ToSet(ls[l])
         /\ \A k \in Keys : q[k] \in LookupType
<1>1. \A l \in Lists : ls[l] \in Seq(Keys)
  BY DEF Fits, Sound
<1>2. \A l \in Lists : ToSet(ls[l]) \subseteq Keys /\ (ls[l] # <<>> => Head(ls[l]) \in ToSet(ls[l]))
  BY <1>1 DEF ToSet
<1>3. \A i \in DOMAIN st : st[i].op = "finish" => st[i].key \in Keys
  BY FinishFrame DEF Fits
<1>4. Pend(ls) \subseteq Keys
  BY <1>2 DEF Pend, Lists
<1>5. Ends(st) \subseteq Keys
  BY <1>3 DEF Ends
<1> QED
  BY <1>2, <1>4, <1>5, ResolverAssumption DEF Fits

\* dns_lookup_finish is called: the lookup's timer does not matter any more.
LEMMA GoodPush ==
  ASSUME NEW ls, NEW q, NEW st, NEW ow, Fits(ls, q, st, ow),
         NEW k \in Pend(ls) \ Ends(st), Timed(ls, q, Ends(st) \cup {k}),
         k \in BadKeys => k \notin ToSet(ls["waiting"])
  PROVE  Good(ls, q, Append(st, Finish(k, q)), ow)
<1> DEFINE f == Finish(k, q)
           tt == Append(st, f)
           n == Len(st)
<1>1. k \in Keys /\ q[k] \in LookupType
  BY FitKeys
<1>2. /\ f \in Frame /\ f.op = "finish" /\ f.key = k /\ f.todo = q[k].hooks
  BY <1>1 DEF Finish, Frame, LookupType
<1>3. st \in Seq(Frame)
  BY DEF Fits
<1> HIDE DEF f
<1>4. Ends(tt) = Ends(st) \cup {k}
  BY <1>2, <1>3, EndsOfPush
<1>5. /\ tt \in Seq(Frame)
      /\ \A i \in DOMAIN tt : (i \in DOMAIN st /\ tt[i] = st[i]) \/ (i = n + 1 /\ tt[i] = f)
  BY <1>2, <1>3
<1> HIDE DEF tt, n
<1>6. Timed(ls, q, Ends(tt)) /\ Unasked(ls, q, tt)
  BY <1>4 DEF Fits, Unasked
<1>7. Hooked(ls, q, tt, ow)
  BY <1>2, <1>5 DEF Fits, Hooked
<1>8. EndsOnce(ls, tt)
  <2>1. \A i \in DOMAIN st : st[i].op = "finish" => st[i].key \in Ends(st)
    BY DEF Ends
  <2>2. \A i, j \in DOMAIN tt :
          tt[i].op = "finish" /\ tt[j].op = "finish" /\ tt[i].key = tt[j].key => i = j
    BY <1>2, <1>5, <2>1 DEF Fits, EndsOnce
  <2> QED
    BY <1>4, <2>2 DEF Fits, EndsOnce
<1>9. ReadsFirst(tt)
  BY <1>2, <1>5 DEF Fits, ReadsFirst
<1> QED
  BY <1>5, <1>6, <1>7, <1>8, <1>9 DEF Good, Fits, tt, f

\* A pending lookup that is moved to the active or to the waiting ones.
LEMMA FitsMoved ==
  ASSUME NEW ls, NEW q, NEW st, NEW ow, Fits(ls, q, st, ow),
         NEW k \in Pend(ls), NEW to \in {"active", "waiting"}, NEW ms, IsMove(ls, k, to, ms),
         k \in BadKeys => to # "waiting"
  PROVE  /\ Fits(ms, q, st, ow) /\ Pend(ms) = Pend(ls) /\ ToSet(ms["cached"]) = ToSet(ls["cached"])
         /\ ToSet(ms["active"]) \subseteq ToSet(ls["active"]) \cup {k}
         /\ to = "waiting" => ToSet(ms["active"]) = ToSet(ls["active"]) \ {k}
<1>1. /\ ToSet(ms["active"]) = IF to = "active" THEN ToSet(ls["active"]) \cup {k} ELSE ToSet(ls["active"]) \ {k}
      /\ ToSet(ms["waiting"]) = IF to = "waiting" THEN ToSet(ls["waiting"]) \cup {k} ELSE ToSet(ls["waiting"]) \ {k}
      /\ ToSet(ms["cached"]) = ToSet(ls["cached"]) \ {k}
  BY DEF IsMove, Lists
<1>2. k \notin ToSet(ls["cached"])
  BY DEF Fits, Sound, Pend, Lists
<1>3. Pend(ms) = Pend(ls) /\ ToSet(ms["cached"]) = ToSet(ls["cached"])
  BY <1>1, <1>2 DEF Pend
<1>4. Sound(ms)
  BY DEF IsMove
<1>5. Unasked(ms, q, st)
  BY <1>1, <1>3 DEF Fits, Unasked
<1>6. Hooked(ms, q, st, ow) /\ EndsOnce(ms, st)
  BY <1>3 DEF Fits, Hooked, EndsOnce
<1> QED
  BY <1>1, <1>3, <1>4, <1>5, <1>6 DEF Fits

\* Lookups whose timers and flags alone have changed.
LEMMA FitsTimers ==
  ASSUME NEW ls, NEW q, NEW st, NEW ow, Fits(ls, q, st, ow),
         NEW r \in [Keys -> LookupType], \A k \in Keys : r[k].hooks = q[k].hooks,
         \A k \in BadKeys : r[k].asked = {} /\ (k \in Pend(ls) => ~r[k].timer)
  PROVE  Fits(ls, r, st, ow)
<1>1. Hooked(ls, r, st, ow)
  <2>1. \A o \in ow : o[2] \in Keys
    BY DEF Fits
  <2> QED
    BY <2>1 DEF Fits, Hooked
<1>2. Unasked(ls, r, st)
  BY DEF Fits, Unasked
<1> QED
  BY <1>1, <1>2 DEF Fits

\* What a call of dns_lookup_send leaves, whether it returns 0 or 1.
LEMMA SendGood ==
  ASSUME NEW ls, NEW q, NEW zero, NEW one, NEW ow,
         Good(ls, q, zero, ow), Good(ls, q, one, ow), aborted \in BOOLEAN, Send(ls, q, zero, one)
  PROVE  /\ Good(list', lookup', stack', ow) /\ aborted' \in BOOLEAN
         /\ Len(list'["cached"]) <= Len(ls["cached"])
<1> DEFINE k == Head(ls["waiting"])
           moved == Activated(ls, k)
           back == Move(moved, k, "waiting", TRUE)
<1>1. /\ Fits(ls, q, zero, ow) /\ Fits(ls, q, one, ow) /\ Sound(ls) /\ q \in [Keys -> LookupType]
      /\ Len(ls["cached"]) \in Nat
  BY DEF Good, Fits, Sound, Lists
<1>2. CASE list' = ls /\ lookup' = q /\ stack' = zero /\ aborted' = aborted
  BY <1>1, <1>2
<1>3. ASSUME ls["waiting"] # <<>>
      PROVE  /\ k \in ToSet(ls["waiting"]) /\ k \in Pend(ls) /\ k \in Keys /\ q[k] \in LookupType
             /\ IsMove(ls, k, "active", moved)
             /\ k \notin ToSet(ls["cached"]) /\ Len(moved["cached"]) <= Len(ls["cached"])
  <2>1. "waiting" \in Lists /\ "cached" \in Lists /\ "active" # "cached"
    BY DEF Lists
  <2>2. k \in ToSet(ls["waiting"]) /\ k \in Keys
    BY <1>1, <1>3, <2>1, FitKeys
  <2>3. IsMove(ls, k, "active", moved)
    BY <1>1, <2>2, MoveMoves DEF Activated
  <2>4. k \notin ToSet(ls["cached"])
    BY <1>1, <2>2 DEF Sound, Lists
  <2>5. Len(moved["cached"]) <= Len(ls["cached"]) + 0
    BY <2>1, <2>3 DEF IsMove
  <2> QED
    BY <1>1, <2>2, <2>3, <2>4, <2>5 DEF Pend
<1> HIDE DEF k, moved
<1>4. CASE /\ ls["waiting"] # <<>> /\ k \in BadKeys
           /\ list' = moved /\ lookup' = q /\ stack' = Append(one, Finish(k, q)) /\ aborted' = aborted
  <2>1. /\ Fits(moved, q, one, ow) /\ Pend(moved) = Pend(ls)
        /\ ToSet(moved["cached"]) = ToSet(ls["cached"])
        /\ ToSet(moved["active"]) \subseteq ToSet(ls["active"]) \cup {k}
    BY <1>1, <1>3, <1>4, FitsMoved
  <2>2. k \notin Ends(one)
    BY <1>1, <1>3, <1>4 DEF Fits, Unasked
  <2>3. k \notin ToSet(moved["waiting"])
    BY <1>3, <1>4 DEF IsMove, Lists
  <2>4. Timed(moved, q, Ends(one) \cup {k})
    BY <2>1 DEF Good, Timed
  <2>5. Good(moved, q, Append(one, Finish(k, q)), ow)
    BY <1>3, <1>4, <2>1, <2>2, <2>3, <2>4, GoodPush
  <2> QED
    BY <1>3, <1>4, <2>5
<1>5. CASE /\ ls["waiting"] # <<>> /\ k \notin BadKeys
           /\ list' = back /\ lookup' = [q EXCEPT ![k].again = FALSE] /\ stack' = zero
           /\ aborted' = aborted
  <2> DEFINE r == [q EXCEPT ![k].again = FALSE]
  <2>1. IsMove(moved, k, "waiting", back)
    BY <1>3, <1>5, MoveMoves DEF IsMove
  <2> HIDE DEF back
  <2>2. Sound(back) /\ \A l \in Lists : ToSet(back[l]) = ToSet(ls[l])
    <3>1. \A l \in Lists : ToSet(ls[l]) = IF l = "waiting" THEN ToSet(ls[l]) \cup {k} ELSE ToSet(ls[l]) \ {k}
      BY <1>1, <1>3, <1>5 DEF Sound, Lists
    <3> QED
      BY <1>3, <1>5, <2>1, <3>1 DEF IsMove, Lists
  <2>3. r \in [Keys -> LookupType] /\ \A x \in Keys : r[x].hooks = q[x].hooks /\ r[x].timer = q[x].timer /\ r[x].asked = q[x].asked
    BY <1>1 DEF LookupType
  <2>4. \A x \in BadKeys : r[x].asked = {}
    BY <1>1, <2>3, FitKeys DEF Fits, Unasked
  <2> HIDE DEF r
  <2>5. Good(back, r, zero, ow)
    BY <2>2, <2>3, <2>4, GoodAgain
  <2>6. Len(back["cached"]) <= Len(moved["cached"]) + 0
    BY <2>1 DEF IsMove, Lists
  <2>7. Len(moved["cached"]) \in Nat /\ Len(back["cached"]) \in Nat
    BY <1>3, <1>5, <2>1 DEF IsMove, Sound, Lists
  <2> QED
    BY <1>1, <1>3, <1>5, <2>5, <2>6, <2>7 DEF r
<1>6. CASE /\ ls["waiting"] # <<>> /\ k \notin BadKeys
           /\ list' = moved /\ lookup' = Queried(q, k) /\ stack' = one
           /\ aborted' = (q[k].retry > conf.retries)
  <2> DEFINE r == Queried(q, k)
  <2>1. /\ Fits(moved, q, one, ow) /\ Pend(moved) = Pend(ls)
        /\ ToSet(moved["cached"]) = ToSet(ls["cached"])
        /\ ToSet(moved["active"]) \subseteq ToSet(ls["active"]) \cup {k}
    BY <1>1, <1>3, <1>6, FitsMoved
  <2>2. Zone(k, q) \in Zones
    BY DEF Zone, Zones
  <2>3. /\ r \in [Keys -> LookupType] /\ r[k].timer /\ \A x \in Keys : r[x].hooks = q[x].hooks
        /\ \A x \in Keys \ {k} : r[x].timer = q[x].timer /\ r[x].asked = q[x].asked
    BY <1>1, <1>3, <1>6, <2>2 DEF LookupType, Queried
  <2> HIDE DEF r
  <2>4. Fits(moved, r, one, ow)
    <3>1. \A x \in BadKeys : r[x].asked = {} /\ (x \in Pend(moved) => ~r[x].timer)
      BY <1>1, <1>6, <2>1, <2>3, FitKeys DEF Fits, Unasked
    <3> QED
      BY <2>1, <2>3, <3>1, FitsTimers
  <2>5. Timed(moved, r, Ends(one))
    <3>1. ToSet(moved["active"]) \subseteq Keys /\ ToSet(moved["cached"]) \subseteq Keys
      BY <2>4, FitKeys DEF Lists
    <3> QED
      BY <1>3, <1>6, <2>1, <2>3, <3>1 DEF Good, Timed
  <2> QED
    BY <1>3, <1>6, <2>4, <2>5 DEF Good, r
<1> QED
  BY <1>2, <1>4, <1>5, <1>6 DEF Send, k, moved

-----------------------------------------------------------------------------
(* The steps.                                                              *)

\* What the invariant says of the rest of the state.
LEMMA Types ==
  ASSUME IInv
  PROVE  /\ Good(list, lookup, stack, owed) /\ Fits(list, lookup, stack, owed)
         /\ Sound(list) /\ lookup \in [Keys -> LookupType] /\ stack \in Seq(Frame)
         /\ owed \subseteq Users \X Keys
         /\ \A l \in Lists : list[l] \in Seq(Keys) /\ Len(list[l]) \in Nat
         /\ conf \in Confs /\ conf.cache \in Nat /\ conf.retries \in Nat
         /\ sockUp \in BOOLEAN /\ gone \subseteq Users /\ aborted \in BOOLEAN
         /\ (sockUp => Len(list["cached"]) <= conf.cache)
<1>1. /\ Good(list, lookup, stack, owed) /\ Fits(list, lookup, stack, owed)
      /\ Sound(list) /\ lookup \in [Keys -> LookupType] /\ stack \in Seq(Frame)
      /\ owed \subseteq Users \X Keys
  BY DEF IInv, Good, Fits
<1>2. \A l \in Lists : list[l] \in Seq(Keys) /\ Len(list[l]) \in Nat
  BY <1>1 DEF Sound
<1>3. conf \in Confs /\ conf.cache \in Nat /\ conf.retries \in Nat
  BY ResolverAssumption DEF IInv
<1> QED
  BY <1>1, <1>2, <1>3 DEF IInv, CacheBounded

\* Nothing but lists, lookups, calls and callers has changed, and the cache has
\* not grown.
LEMMA Rest ==
  ASSUME IInv, Good(list', lookup', stack', owed'), UNCHANGED <<conf, sockUp>>,
         gone' \subseteq Users, aborted' \in BOOLEAN,
         Len(list'["cached"]) <= Len(list["cached"])
  PROVE  IInv'
<1>1. Len(list'["cached"]) \in Nat
  BY DEF Good, Fits, Sound, Lists
<1>2. Len(list["cached"]) \in Nat /\ conf.cache \in Nat
  BY Types DEF Lists
<1>3. CacheBounded'
  BY <1>1, <1>2 DEF IInv, CacheBounded
<1> QED
  BY <1>3 DEF IInv

LEMMA DrainStepIInv ==
  ASSUME IInv, DrainStep
  PROVE  IInv'
<1>1. /\ Calls("drain") /\ Send(list, lookup, Front(stack), stack)
      /\ UNCHANGED <<conf, sockUp, owed, gone>>
  BY DEF DrainStep
<1>2. Good(list, lookup, stack, owed) /\ aborted \in BOOLEAN /\ gone \subseteq Users
  BY Types
<1>3. Good(list, lookup, Front(stack), owed)
  BY <1>1, <1>2, GoodPop DEF Calls, Top
<1>4. /\ Good(list', lookup', stack', owed) /\ aborted' \in BOOLEAN
      /\ Len(list'["cached"]) <= Len(list["cached"])
  BY <1>1, <1>2, <1>3, SendGood
<1> QED
  BY <1>1, <1>2, <1>4, Rest

\* A lookup in the cache is answered at once and moves to the front of it.
LEMMA LookupCachedIInv ==
  ASSUME IInv, NEW u \in Users, NEW k \in Keys, LookupCached(u, k)
  PROVE  IInv'
<1>1. /\ MayCall(u) /\ k \in On("cached") /\ list' = Move(list, k, "cached", TRUE)
      /\ stack' = CallReturns /\ UNCHANGED <<lookup, conf, sockUp, owed, gone, aborted>>
  BY DEF LookupCached
<1>2. IsMove(list, k, "cached", list')
  BY <1>1, Types, MoveMoves
<1>3. \A l \in Lists : ToSet(list'[l]) = ToSet(list[l])
  <2>1. Sound(list)
    BY Types
  <2>2. k \in ToSet(list["cached"]) /\ \A l \in Lists : l # "cached" => k \notin ToSet(list[l])
    BY <1>1, <2>1 DEF Sound, On, Lists
  <2> QED
    BY <1>2, <2>2 DEF IsMove
<1>4. Sound(list') /\ Len(list'["cached"]) <= Len(list["cached"])
  <2>1. Len(list'["cached"]) <= Len(list["cached"]) - 0
    BY <1>1, <1>2 DEF IsMove, On, Lists
  <2> QED
    BY <1>2, <2>1, Types DEF IsMove, Lists
<1>5. \A x \in BadKeys : lookup[x].asked = {}
  BY Types DEF Fits, Unasked
<1>6. Good(list', lookup, stack, owed)
  BY <1>3, <1>4, <1>5, Types, GoodAgain
<1>7. CallReturns \in Seq(Frame) /\ Same(stack, CallReturns)
  BY <1>1, Types, CallReturnsSame
<1>8. Good(list', lookup, CallReturns, owed)
  BY <1>6, <1>7, GoodSame
<1> QED
  BY <1>1, <1>4, <1>8, Types, Rest

\* One more callback on a lookup that is not being finished.
LEMMA LookupPendingIInv ==
  ASSUME IInv, NEW u \in Users, NEW k \in Keys, LookupPending(u, k)
  PROVE  IInv'
<1>1. /\ MayCall(u) /\ k \in Pend(list) /\ k \notin Ends(stack)
      /\ lookup' = [lookup EXCEPT ![k].hooks[u] = @ + 1] /\ owed' = owed \cup {<<u, k>>}
      /\ stack' = CallReturns /\ UNCHANGED <<list, conf, sockUp, gone, aborted>>
  BY DEF LookupPending, Pending, Pend, On, Ends, Finishing
<1>2. /\ lookup' \in [Keys -> LookupType]
      /\ \A x \in Keys \ {k} : lookup'[x] = lookup[x]
      /\ lookup'[k].timer = lookup[k].timer /\ lookup'[k].asked = lookup[k].asked
      /\ lookup'[k].hooks = [lookup[k].hooks EXCEPT ![u] = @ + 1]
      /\ lookup[k].hooks \in [Users -> Nat]
  <2>1. lookup \in [Keys -> LookupType] /\ lookup[k] \in LookupType
    BY Types
  <2>2. /\ lookup[k].hooks \in [Users -> Nat]
        /\ [lookup[k].hooks EXCEPT ![u] = @ + 1] \in [Users -> Nat]
    BY <2>1 DEF LookupType
  <2>3. lookup' = [lookup EXCEPT ![k] = [lookup[k] EXCEPT !.hooks = [lookup[k].hooks EXCEPT ![u] = @ + 1]]]
    BY <1>1, <2>1
  <2> DEFINE h == [lookup[k].hooks EXCEPT ![u] = @ + 1]
             r == [lookup[k] EXCEPT !.hooks = h]
  <2> HIDE DEF h
  <2>4. /\ r \in LookupType /\ r.timer = lookup[k].timer /\ r.asked = lookup[k].asked
        /\ r.hooks = h
    BY <2>1, <2>2 DEF LookupType, h
  <2>5. lookup' = [lookup EXCEPT ![k] = r]
    BY <2>3 DEF h
  <2> HIDE DEF r
  <2> QED
    BY <2>1, <2>2, <2>4, <2>5 DEF h
<1>3. lookup'[k].hooks[u] > 0 /\ \A v \in Users : lookup[k].hooks[v] > 0 => lookup'[k].hooks[v] > 0
  BY <1>2
<1>4. /\ Fits(list, lookup, stack, owed) /\ Timed(list, lookup, Ends(stack))
      /\ owed \subseteq Users \X Keys
  BY Types DEF Good
<1>5. Hooked(list, lookup', stack, owed')
  <2> SUFFICES ASSUME NEW o \in owed'
               PROVE  /\ o[2] \in Pend(list) /\ lookup'[o[2]].hooks[o[1]] > 0
                      /\ \A i \in DOMAIN stack :
                           stack[i].op = "finish" /\ stack[i].key = o[2] => stack[i].todo[o[1]] > 0
    BY DEF Hooked
  <2>1. CASE o \in owed
    <3>1. o[1] \in Users /\ o[2] \in Keys
      BY <1>4, <2>1
    <3> QED
      BY <1>2, <1>3, <1>4, <2>1, <3>1 DEF Fits, Hooked
  <2>2. CASE o = <<u, k>>
    BY <1>1, <1>3, <2>2 DEF Ends
  <2> QED
    BY <1>1, <2>1, <2>2
<1>6. Timed(list, lookup', Ends(stack)) /\ Unasked(list, lookup', stack)
  <2>1. \A x \in Keys : lookup'[x].timer = lookup[x].timer /\ lookup'[x].asked = lookup[x].asked
    BY <1>2
  <2>2. BadKeys \subseteq Keys /\ ToSet(list["active"]) \subseteq Keys /\ ToSet(list["cached"]) \subseteq Keys
    BY <1>4, FitKeys DEF Lists
  <2> QED
    BY <1>4, <2>1, <2>2 DEF Fits, Timed, Unasked
<1>7. Good(list, lookup', stack, owed')
  BY <1>1, <1>2, <1>4, <1>5, <1>6 DEF Good, Fits
<1>8. CallReturns \in Seq(Frame) /\ Same(stack, CallReturns)
  BY <1>1, Types, CallReturnsSame
<1>9. Good(list, lookup', CallReturns, owed')
  BY <1>7, <1>8, GoodSame
<1> QED
  <2>1. Len(list["cached"]) \in Nat
    BY Types DEF Lists
  <2> QED
    BY <1>1, <1>9, <2>1, Types, Rest

\* A lookup that was on no list is put last on the waiting list.
LEMMA GoodNew ==
  ASSUME NEW ls, NEW q, NEW st, NEW ow, Good(ls, q, st, ow), NEW u \in Users, NEW k \in Keys,
         \A l \in Lists : k \notin ToSet(ls[l]),
         NEW new \in LookupType, ~new.timer, new.asked = {}, new.hooks[u] > 0
  PROVE  Good([ls EXCEPT !["waiting"] = Append(@, k)], [q EXCEPT ![k] = new], st, ow \cup {<<u, k>>})
<1> DEFINE ms == [ls EXCEPT !["waiting"] = Append(@, k)]
           r == [q EXCEPT ![k] = new]
           pw == ow \cup {<<u, k>>}
<1>1. /\ Fits(ls, q, st, ow) /\ Timed(ls, q, Ends(st)) /\ Sound(ls) /\ q \in [Keys -> LookupType]
      /\ ow \subseteq Users \X Keys /\ BadKeys \subseteq Keys
  BY ResolverAssumption DEF Good, Fits
<1>2. /\ ms \in [Lists -> Seq(Keys)] /\ ms["active"] = ls["active"] /\ ms["cached"] = ls["cached"]
      /\ ToSet(ms["waiting"]) = ToSet(ls["waiting"]) \cup {k} /\ IsInjective(ms["waiting"])
  <2>1. /\ "waiting" \in Lists /\ ls["waiting"] \in Seq(Keys) /\ IsInjective(ls["waiting"])
        /\ k \notin ToSet(ls["waiting"])
    BY <1>1 DEF Sound, Lists
  <2> DEFINE w == ls["waiting"]
           t == Append(ls["waiting"], k)
  <2>2. t \in Seq(Keys) /\ ToSet(t) = ToSet(w) \cup {k} /\ IsInjective(t)
    <3>1. w \in Seq(Keys) /\ k \in Keys /\ IsInjective(w) /\ k \notin ToSet(w)
      BY <2>1
    <3>2. t = Cons(k, w) \/ t = Append(w, k)
      OBVIOUS
    <3> HIDE DEF w, t
    <3> QED
      BY ONLY <3>1, <3>2, Joined
  <2> HIDE DEF t
  <2>3. ms = [ls EXCEPT !["waiting"] = t]
    BY DEF t
  <2> HIDE DEF ms
  <2> QED
    BY <1>1, <2>1, <2>2, <2>3 DEF Sound, Lists
<1>3. /\ r \in [Keys -> LookupType] /\ r[k] = new /\ \A x \in Keys \ {k} : r[x] = q[x]
  BY <1>1
<1> HIDE DEF ms, r
<1>4. Sound(ms)
  <2>1. \A l \in Lists : IsInjective(ms[l])
    BY <1>1, <1>2 DEF Sound, Lists
  <2>2. \A l, m \in Lists : l # m => ToSet(ms[l]) \cap ToSet(ms[m]) = {}
    BY <1>1, <1>2 DEF Sound, Lists
  <2> QED
    BY <1>2, <2>1, <2>2 DEF Sound
<1>5. Pend(ms) = Pend(ls) \cup {k} /\ k \notin Pend(ls) /\ k \notin Ends(st)
  <2>1. Pend(ms) = Pend(ls) \cup {k} /\ k \notin Pend(ls)
    BY <1>2 DEF Pend, Lists
  <2> QED
    BY <1>1, <2>1 DEF Fits, EndsOnce
<1>6. Timed(ms, r, Ends(st))
  <2>1. ToSet(ls["active"]) \subseteq Keys /\ ToSet(ls["cached"]) \subseteq Keys
    BY <1>1, FitKeys DEF Lists
  <2> QED
    BY <1>1, <1>2, <1>3, <1>5, <2>1 DEF Timed, Lists
<1>7. Hooked(ms, r, st, pw)
  <2> SUFFICES ASSUME NEW o \in pw
               PROVE  /\ o[2] \in Pend(ms) /\ r[o[2]].hooks[o[1]] > 0
                      /\ \A i \in DOMAIN st :
                           st[i].op = "finish" /\ st[i].key = o[2] => st[i].todo[o[1]] > 0
    BY DEF Hooked
  <2>1. CASE o \in ow
    <3>1. o[2] \in Keys /\ o[2] \in Pend(ls)
      BY <1>1, <2>1 DEF Fits, Hooked
    <3> QED
      BY <1>1, <1>3, <1>5, <2>1, <3>1 DEF Fits, Hooked
  <2>2. CASE o = <<u, k>>
    BY <1>3, <1>5, <2>2 DEF Ends
  <2> QED
    BY <2>1, <2>2
<1>8. EndsOnce(ms, st) /\ ReadsFirst(st) /\ st \in Seq(Frame)
  BY <1>1, <1>5 DEF Fits, EndsOnce
<1>9. Unasked(ms, r, st)
  BY <1>1, <1>2, <1>3, <1>5 DEF Fits, Unasked
<1> QED
  BY <1>1, <1>3, <1>4, <1>6, <1>7, <1>8, <1>9 DEF Good, Fits, ms, r

\* A new lookup, and a call of dns_lookup_send.
LEMMA LookupNewIInv ==
  ASSUME IInv, NEW u \in Users, NEW k \in Keys, LookupNew(u, k)
  PROVE  IInv'
<1> DEFINE ls == [list EXCEPT !["waiting"] = Append(@, k)]
           new == [Blank EXCEPT !.retry = conf.retries, !.hooks[u] = 1]
           q == [lookup EXCEPT ![k] = new]
<1>1. /\ MayCall(u) /\ k \notin On("cached") /\ ~Pending(k)
      /\ Send(ls, q, CallReturns, CallReturns)
      /\ owed' = owed \cup {<<u, k>>} /\ UNCHANGED <<conf, sockUp, gone>>
  BY DEF LookupNew
<1>2. new \in LookupType /\ ~new.timer /\ new.asked = {} /\ new.hooks[u] > 0
  <2> DEFINE h == [NoHooks EXCEPT ![u] = 1]
  <2>1. h \in [Users -> Nat] /\ h[u] > 0
    BY DEF NoHooks
  <2> HIDE DEF h
  <2> DEFINE b == Blank
  <2>2. /\ b \in LookupType /\ b.hooks = NoHooks /\ ~b.timer /\ b.asked = {}
    BY DEF Blank, LookupType, NoHooks
  <2> HIDE DEF b
  <2>3. new = [b EXCEPT !.retry = conf.retries, !.hooks = h]
    BY <2>2 DEF b, h, LookupType
  <2> HIDE DEF new
  <2> QED
    BY <2>1, <2>2, <2>3, Types DEF LookupType
<1>3. \A l \in Lists : k \notin ToSet(list[l])
  BY <1>1 DEF Pending, On, Lists
<1>4. Good(list, lookup, stack, owed) /\ aborted \in BOOLEAN /\ gone \subseteq Users
  BY Types
<1> HIDE DEF new
<1>5. Good(ls, q, stack, owed')
  BY <1>1, <1>2, <1>3, <1>4, GoodNew
<1>6. ls["cached"] = list["cached"]
  BY Types DEF Lists, Sound
<1> HIDE DEF ls, q
<1>7. CallReturns \in Seq(Frame) /\ Same(stack, CallReturns)
  BY <1>1, <1>4, CallReturnsSame
<1>8. Good(ls, q, CallReturns, owed')
  BY <1>5, <1>7, GoodSame
<1>9. /\ Good(list', lookup', stack', owed') /\ aborted' \in BOOLEAN
      /\ Len(list'["cached"]) <= Len(ls["cached"])
  BY <1>1, <1>4, <1>8, SendGood
<1> QED
  BY <1>1, <1>4, <1>6, <1>9, Rest

\* What a destroyed lookup looks like.
LEMMA BlankLookup ==
  /\ Blank \in LookupType /\ Blank.hooks = NoHooks /\ ~Blank.timer /\ Blank.asked = {}
  /\ [Blank EXCEPT !.timer = TRUE] \in LookupType /\ [Blank EXCEPT !.timer = TRUE].timer
  /\ [Blank EXCEPT !.timer = TRUE].asked = {}
BY DEF Blank, LookupType, NoHooks

\* Nothing is in progress.
LEMMA GoodQuiet ==
  ASSUME NEW ms, Sound(ms), NEW r \in [Keys -> LookupType], NEW ow \in SUBSET (Users \X Keys),
         \A o \in ow : o[2] \in Pend(ms) /\ r[o[2]].hooks[o[1]] > 0,
         Timed(ms, r, {}),
         \A k \in BadKeys : r[k].asked = {} /\ (k \in Pend(ms) => ~r[k].timer)
  PROVE  Good(ms, r, <<>>, ow)
<1>1. Ends(<<>>) = {} /\ <<>> \in Seq(Frame) /\ DOMAIN <<>> = {}
  BY DEF Ends
<1>2. Hooked(ms, r, <<>>, ow) /\ EndsOnce(ms, <<>>) /\ Unasked(ms, r, <<>>) /\ ReadsFirst(<<>>)
  BY <1>1 DEF Hooked, EndsOnce, Unasked, ReadsFirst
<1> QED
  BY <1>1, <1>2 DEF Good, Fits

\* dns_lookup_cancel.
LEMMA CancelIInv ==
  ASSUME IInv, NEW u \in Users, Cancel(u)
  PROVE  IInv'
<1> DEFINE q == Unhooked(u)
           gn == Idle(q)
<1>1. /\ stack = <<>> /\ list' = [list EXCEPT !["waiting"] = Without(@, gn)]
      /\ lookup' = [k \in Keys |-> IF k \in gn THEN Blank ELSE q[k]]
      /\ owed' = {o \in owed : o[1] # u} /\ gone' = gone \cup {u}
      /\ UNCHANGED <<stack, conf, sockUp, aborted>>
  BY DEF Cancel
<1>2. /\ Fits(list, lookup, <<>>, owed) /\ Timed(list, lookup, {}) /\ Sound(list)
      /\ lookup \in [Keys -> LookupType] /\ owed \subseteq Users \X Keys /\ BadKeys \subseteq Keys
  <2>1. Ends(<<>>) = {}
    BY DEF Ends
  <2> QED
    BY <1>1, <2>1, Types, FitKeys DEF Good
<1>3. ASSUME NEW k \in Keys
      PROVE  /\ q[k] \in LookupType /\ q[k].timer = lookup[k].timer /\ q[k].asked = lookup[k].asked
             /\ \A v \in Users \ {u} : q[k].hooks[v] = lookup[k].hooks[v]
  <2>1. lookup[k] \in LookupType /\ lookup[k].hooks \in [Users -> Nat]
    BY <1>2 DEF LookupType
  <2>2. q[k] = IF Pending(k) /\ lookup[k].hooks[u] > 0
                 THEN [lookup[k] EXCEPT !.hooks[u] = @ - 1] ELSE lookup[k]
    BY DEF Unhooked
  <2> HIDE DEF q
  <2>3. CASE Pending(k) /\ lookup[k].hooks[u] > 0
    <3> DEFINE h == [lookup[k].hooks EXCEPT ![u] = @ - 1]
    <3>1. h \in [Users -> Nat] /\ \A v \in Users \ {u} : h[v] = lookup[k].hooks[v]
      BY <2>1, <2>3
    <3>2. q[k] = [lookup[k] EXCEPT !.hooks = h]
      BY <2>1, <2>2, <2>3
    <3> HIDE DEF h
    <3> QED
      BY <2>1, <3>1, <3>2 DEF LookupType
  <2> QED
    BY <2>1, <2>2, <2>3
<1>4. gn \subseteq ToSet(list["waiting"]) /\ gn \subseteq Keys /\ \A k \in gn : q[k].hooks = NoHooks
  BY <1>2, FitKeys DEF Idle, On, Lists
<1> HIDE DEF q, gn
<1>5. /\ list' \in [Lists -> Seq(Keys)]
      /\ list'["active"] = list["active"] /\ list'["cached"] = list["cached"]
      /\ ToSet(list'["waiting"]) = ToSet(list["waiting"]) \ gn /\ IsInjective(list'["waiting"])
  <2>1. "waiting" \in Lists /\ list["waiting"] \in Seq(Keys) /\ IsInjective(list["waiting"])
    BY <1>2 DEF Sound, Lists
  <2> DEFINE w == Without(list["waiting"], gn)
  <2>2. w \in Seq(Keys) /\ ToSet(w) = ToSet(list["waiting"]) \ gn /\ IsInjective(w)
    BY <2>1, WithoutProperties
  <2> HIDE DEF w
  <2>3. list' = [list EXCEPT !["waiting"] = w]
    BY <1>1 DEF w
  <2> QED
    BY <1>2, <2>1, <2>2, <2>3 DEF Sound, Lists
<1>6. Sound(list')
  <2>1. \A l \in Lists : IsInjective(list'[l])
    BY <1>2, <1>5 DEF Sound, Lists
  <2>2. \A l, m \in Lists : l # m => ToSet(list'[l]) \cap ToSet(list'[m]) = {}
    BY <1>2, <1>5 DEF Sound, Lists
  <2> QED
    BY <1>5, <2>1, <2>2 DEF Sound
<1>7. Pend(list') = Pend(list) \ gn
  <2>1. ToSet(list["active"]) \cap gn = {}
    BY <1>2, <1>4 DEF Sound, Lists
  <2> QED
    BY <1>5, <2>1 DEF Pend
<1>8. /\ lookup' \in [Keys -> LookupType]
      /\ \A k \in Keys : lookup'[k] = IF k \in gn THEN Blank ELSE q[k]
  BY <1>1, <1>3, BlankLookup
<1>9. Timed(list', lookup', {})
  <2>1. ASSUME NEW k \in ToSet(list'["active"]) \cup ToSet(list'["cached"])
        PROVE  lookup'[k].timer
    <3>1. k \in Keys /\ lookup[k].timer
      BY <1>2, <1>5, <2>1, FitKeys DEF Timed, Lists
    <3>2. k \notin gn
      BY <1>2, <1>4, <1>5, <2>1 DEF Sound, Lists
    <3> QED
      BY <1>3, <1>8, <3>1, <3>2
  <2>2. ASSUME NEW k \in Keys, lookup'[k].timer
        PROVE  k \in Pend(list') \cup ToSet(list'["cached"])
    <3>1. k \notin gn /\ lookup[k].timer
      BY <1>3, <1>8, <2>2, BlankLookup
    <3> QED
      BY <1>2, <1>5, <1>7, <3>1 DEF Timed
  <2> QED
    BY <2>1, <2>2 DEF Timed
<1>10. ASSUME NEW o \in owed'
       PROVE  o[2] \in Pend(list') /\ lookup'[o[2]].hooks[o[1]] > 0
  <2>1. /\ o \in owed /\ o[1] \in Users \ {u} /\ o[2] \in Keys /\ o[2] \in Pend(list)
        /\ lookup[o[2]].hooks[o[1]] > 0
    BY <1>1, <1>2 DEF Fits, Hooked
  <2>2. q[o[2]].hooks[o[1]] > 0
    BY <1>3, <2>1
  <2>3. o[2] \notin gn
    BY <1>4, <2>1, <2>2 DEF NoHooks
  <2> QED
    BY <1>7, <1>8, <2>1, <2>2, <2>3
<1>11. \A k \in BadKeys : lookup'[k].asked = {} /\ (k \in Pend(list') => ~lookup'[k].timer)
  BY <1>2, <1>3, <1>7, <1>8, BlankLookup DEF Fits, Unasked
<1>12. owed' \in SUBSET (Users \X Keys)
  BY <1>1, <1>2
<1>13. Good(list', lookup', <<>>, owed')
  BY <1>6, <1>8, <1>9, <1>10, <1>11, <1>12, GoodQuiet
<1>14. gone' \subseteq Users /\ aborted' \in BOOLEAN /\ Len(list'["cached"]) <= Len(list["cached"])
  BY <1>1, <1>5, Types DEF Lists
<1> QED
  BY <1>1, <1>13, <1>14, Rest

\* hook_event calls the next callback of the lookup that is being finished.
LEMMA CallbackIInv ==
  ASSUME IInv, NEW u \in Users, Callback(u)
  PROVE  IInv'
<1> DEFINE n == Len(stack)
           k == Top.key
           todo == [Top.todo EXCEPT ![u] = @ - 1]
           f == [Top EXCEPT !.todo[u] = @ - 1, !.user = {u}]
           tt == Append(Front(stack), f)
<1>1. /\ stack # <<>> /\ Top.op = "finish" /\ Top.todo[u] > 0 /\ stack' = tt
      /\ owed' = owed \ {<<u, k>>}
      /\ UNCHANGED <<list, lookup, conf, sockUp, gone, aborted>>
  BY DEF Callback, Calls
<1>2. /\ Fits(list, lookup, stack, owed) /\ Timed(list, lookup, Ends(stack))
      /\ stack \in Seq(Frame) /\ owed \subseteq Users \X Keys
  BY Types DEF Good
<1>3. /\ Top = stack[n] /\ Top \in Frame /\ n \in Nat \ {0}
      /\ Top \in [op : {"finish"}, key : Keys, todo : [Users -> Nat], user : SUBSET Users]
  <2>1. Top = stack[n] /\ Top \in Frame /\ n \in Nat \ {0}
    BY <1>1, <1>2, StackProperties DEF Top
  <2> QED
    BY <1>1, <2>1, FinishFrame
<1>4. /\ todo \in [Users -> Nat] /\ \A v \in Users \ {u} : todo[v] = Top.todo[v]
  <2> HIDE DEF Top
  <2> QED
    BY <1>1, <1>3
<1>5. f \in Frame /\ f.op = "finish" /\ f.key = k /\ f.todo = todo
  <2> HIDE DEF Top
  <2>1. f = [Top EXCEPT !.todo = todo, !.user = {u}]
    BY <1>3
  <2> HIDE DEF todo, f
  <2> QED
    BY <1>3, <1>4, <2>1 DEF Frame
<1> HIDE DEF f, todo
<1>6. tt \in Seq(Frame) /\ Len(tt) = n /\ \A i \in 1..n : tt[i] = IF i < n THEN stack[i] ELSE f
  BY <1>1, <1>2, <1>5, StackProperties
<1> HIDE DEF tt
<1>7. /\ DOMAIN tt = DOMAIN stack /\ n \in DOMAIN stack
      /\ \A i \in DOMAIN stack : i # n => tt[i] = stack[i]
      /\ tt[n] = f
  BY <1>2, <1>3, <1>6
<1>8. \A i \in DOMAIN stack : tt[i].op = stack[i].op /\ (tt[i].op = "finish" => tt[i].key = stack[i].key)
  BY <1>1, <1>3, <1>5, <1>7
<1>9. Ends(tt) = Ends(stack)
  BY <1>7, <1>8 DEF Ends
<1>10. Hooked(list, lookup, tt, owed')
  <2>1. ASSUME NEW o \in owed', NEW i \in DOMAIN tt, tt[i].op = "finish", tt[i].key = o[2]
        PROVE  tt[i].todo[o[1]] > 0
    <3>1. o \in owed /\ o[1] \in Users /\ o = <<o[1], o[2]>> /\ o # <<u, k>>
      BY <1>1, <1>2, <2>1
    <3>2. stack[i].op = "finish" /\ stack[i].key = o[2] /\ i \in DOMAIN stack
      BY <1>7, <1>8, <2>1
    <3>3. stack[i].todo[o[1]] > 0
      BY <1>2, <3>1, <3>2 DEF Fits, Hooked
    <3>4. CASE i = n
      BY <1>3, <1>4, <1>5, <1>7, <3>1, <3>2, <3>3, <3>4
    <3> QED
      BY <1>7, <3>2, <3>3, <3>4
  <2> QED
    BY <1>1, <1>2, <2>1 DEF Fits, Hooked
<1>11. EndsOnce(list, tt) /\ ReadsFirst(tt) /\ Unasked(list, lookup, tt)
  BY <1>2, <1>7, <1>8, <1>9 DEF Fits, EndsOnce, ReadsFirst, Unasked
<1>12. Good(list, lookup, tt, owed')
  BY <1>1, <1>2, <1>6, <1>9, <1>10, <1>11 DEF Good, Fits
<1>13. Len(list'["cached"]) <= Len(list["cached"])
  BY <1>1, Types DEF Lists
<1> QED
  BY <1>1, <1>12, <1>13, Types, Rest

\* A lookup in the cache is destroyed.
LEMMA GoodDropped ==
  ASSUME NEW ls, NEW q, NEW st, NEW ow, Good(ls, q, st, ow), NEW k \in ToSet(ls["cached"])
  PROVE  /\ Good(Unlist(ls, k), Destroyed(q, k), st, ow)
         /\ Pend(Unlist(ls, k)) = Pend(ls)
         /\ Len(Unlist(ls, k)["cached"]) <= Len(ls["cached"]) - 1
<1> DEFINE ms == Unlist(ls, k)
           r == Destroyed(q, k)
<1>1. /\ Fits(ls, q, st, ow) /\ Timed(ls, q, Ends(st)) /\ Sound(ls) /\ q \in [Keys -> LookupType]
      /\ ow \subseteq Users \X Keys
  BY DEF Good, Fits
<1>2. k \in Keys /\ BadKeys \subseteq Keys
  BY <1>1, FitKeys DEF Lists
<1>3. IsMove(ls, k, Nowhere, ms)
  BY <1>1, <1>2, MoveMoves DEF Unlist
<1>4. r \in [Keys -> LookupType] /\ r[k] = Blank /\ \A x \in Keys \ {k} : r[x] = q[x]
  BY <1>1, <1>2, BlankLookup DEF Destroyed
<1> HIDE DEF ms, r
<1>5. k \notin ToSet(ls["active"]) /\ k \notin ToSet(ls["waiting"])
  BY <1>1 DEF Sound, Lists
<1>6. /\ Sound(ms) /\ ToSet(ms["active"]) = ToSet(ls["active"])
      /\ ToSet(ms["waiting"]) = ToSet(ls["waiting"]) /\ ToSet(ms["cached"]) = ToSet(ls["cached"]) \ {k}
      /\ Len(ms["cached"]) <= Len(ls["cached"]) - 1
  BY <1>3, <1>5 DEF IsMove, Lists, Nowhere
<1>7. Pend(ms) = Pend(ls) /\ k \notin Pend(ls)
  BY <1>5, <1>6 DEF Pend
<1>8. Timed(ms, r, Ends(st))
  <2>1. ToSet(ls["active"]) \subseteq Keys /\ ToSet(ls["cached"]) \subseteq Keys
    BY <1>1, FitKeys DEF Lists
  <2> QED
    BY <1>1, <1>4, <1>5, <1>6, <1>7, <2>1, BlankLookup DEF Timed
<1>9. Hooked(ms, r, st, ow)
  <2>1. \A o \in ow : o[2] \in Keys \ {k}
    BY <1>1, <1>7 DEF Fits, Hooked
  <2> QED
    BY <1>1, <1>4, <1>7, <2>1 DEF Fits, Hooked
<1>10. EndsOnce(ms, st) /\ Unasked(ms, r, st)
  BY <1>1, <1>2, <1>4, <1>6, <1>7, BlankLookup DEF Fits, EndsOnce, Unasked
<1> QED
  BY <1>1, <1>4, <1>6, <1>7, <1>8, <1>9, <1>10 DEF Good, Fits, ms, r

\* The lookup that has been finished goes to the cache, with a timer, or is
\* destroyed, without: nobody is owed its answer any more.
LEMMA GoodFinished ==
  ASSUME NEW ls, NEW q, NEW st, NEW ow, Good(ls, q, st, ow),
         st # <<>>, NEW k, Last(st).op = "finish", Last(st).key = k, Last(st).todo = NoHooks,
         NEW to \in {"cached", Nowhere}, NEW ms, IsMove(ls, k, to, ms),
         NEW b \in LookupType, b.asked = {}, b.timer <=> to = "cached"
  PROVE  Good(ms, [q EXCEPT ![k] = b], Front(st), ow)
<1> DEFINE r == [q EXCEPT ![k] = b]
           tt == Front(st)
           n == Len(st)
<1>1. /\ Fits(ls, q, st, ow) /\ Timed(ls, q, Ends(st)) /\ Sound(ls) /\ q \in [Keys -> LookupType]
      /\ ow \subseteq Users \X Keys /\ st \in Seq(Frame) /\ BadKeys \subseteq Keys
  BY FitKeys DEF Good, Fits
<1>2. /\ n \in Nat \ {0} /\ Last(st) = st[n] /\ Last(st) \in Frame
      /\ tt \in Seq(Frame) /\ Len(tt) = n - 1 /\ \A i \in 1..(n - 1) : tt[i] = st[i]
  <2>1. Drain \in Frame
    BY DEF Drain, Frame
  <2> QED
    BY <1>1, <2>1, StackProperties
<1>3. /\ \A i \in DOMAIN tt : i \in DOMAIN st /\ i # n /\ tt[i] = st[i]
      /\ n \in DOMAIN st /\ \A i \in DOMAIN st : i # n => i \in DOMAIN tt /\ tt[i] = st[i]
  BY <1>1, <1>2
<1>4. st[n].op = "finish" /\ st[n].key = k /\ st[n].todo = NoHooks /\ k \in Keys
  BY <1>2, FinishFrame
<1> HIDE DEF tt, n
<1>5. k \in Pend(ls) /\ Ends(tt) = Ends(st) \ {k}
  <2>1. k \in Ends(st)
    BY <1>3, <1>4 DEF Ends
  <2>2. \A i \in DOMAIN tt : tt[i].op = "finish" => tt[i].key # k
    BY <1>1, <1>3, <1>4 DEF Fits, EndsOnce
  <2>3. \A i \in DOMAIN tt : tt[i].op = "finish" => tt[i].key \in Ends(st) \ {k}
    BY <1>3, <2>2 DEF Ends
  <2>4. \A i \in DOMAIN st : st[i].op = "finish" /\ st[i].key # k => st[i].key \in Ends(tt)
    BY <1>3, <1>4 DEF Ends
  <2>5. Ends(tt) \subseteq Ends(st) \ {k}
    BY <2>3 DEF Ends
  <2>6. Ends(st) \ {k} \subseteq Ends(tt)
    BY <2>4 DEF Ends
  <2> QED
    BY <1>1, <2>1, <2>5, <2>6 DEF Fits, EndsOnce
<1>6. /\ r \in [Keys -> LookupType] /\ r[k] = b /\ \A x \in Keys \ {k} : r[x] = q[x]
  BY <1>1, <1>4
<1> HIDE DEF r
<1>7. /\ Sound(ms) /\ ToSet(ms["active"]) = ToSet(ls["active"]) \ {k}
      /\ ToSet(ms["waiting"]) = ToSet(ls["waiting"]) \ {k}
      /\ ToSet(ms["cached"]) = IF to = "cached" THEN ToSet(ls["cached"]) \cup {k} ELSE ToSet(ls["cached"]) \ {k}
  BY DEF IsMove, Lists, Nowhere
<1>8. Pend(ms) = Pend(ls) \ {k}
  BY <1>7 DEF Pend
<1>9. Timed(ms, r, Ends(tt))
  <2>1. ToSet(ls["active"]) \subseteq Keys /\ ToSet(ls["cached"]) \subseteq Keys
    BY <1>1, FitKeys DEF Lists
  <2>2. ASSUME NEW x \in (ToSet(ms["active"]) \cup ToSet(ms["cached"])) \ Ends(tt)
        PROVE  r[x].timer
    <3>1. CASE x = k
      BY <1>6, <1>7, <2>2, <3>1
    <3>2. CASE x # k
      BY <1>1, <1>5, <1>6, <1>7, <2>1, <2>2, <3>2 DEF Timed
    <3> QED
      BY <3>1, <3>2
  <2>3. ASSUME NEW x \in Keys, r[x].timer
        PROVE  x \in Pend(ms) \cup ToSet(ms["cached"])
    <3>1. CASE x = k
      BY <1>6, <1>7, <2>3, <3>1
    <3>2. CASE x # k
      BY <1>1, <1>6, <1>7, <1>8, <2>3, <3>2 DEF Timed
    <3> QED
      BY <3>1, <3>2
  <2> QED
    BY <2>2, <2>3 DEF Timed
<1>10. Hooked(ms, r, tt, ow)
  <2>1. ASSUME NEW o \in ow PROVE o[2] \in Keys \ {k}
    <3>1. o[1] \in Users /\ o[2] \in Keys
      BY <1>1
    <3>2. st[n].key = o[2] => st[n].todo[o[1]] > 0
      BY <1>1, <1>3, <1>4 DEF Fits, Hooked
    <3>3. NoHooks[o[1]] = 0
      BY <3>1 DEF NoHooks
    <3> QED
      BY <1>4, <3>1, <3>2, <3>3
  <2> QED
    BY <1>1, <1>3, <1>6, <1>8, <2>1 DEF Fits, Hooked
<1>11. EndsOnce(ms, tt) /\ ReadsFirst(tt)
  BY <1>1, <1>3, <1>5, <1>8 DEF Fits, EndsOnce, ReadsFirst
<1>12. Unasked(ms, r, tt)
  BY <1>1, <1>5, <1>6, <1>7, <1>8 DEF Fits, Unasked
<1> QED
  BY <1>1, <1>2, <1>6, <1>7, <1>9, <1>10, <1>11, <1>12 DEF Good, Fits, r, tt

\* The hooks have been called: the lookup is cached, in the place of the last
\* one when the cache is full, or destroyed.
LEMMA FinishReturnsIInv ==
  ASSUME IInv, NEW keep \in BOOLEAN, FinishReturns(keep)
  PROVE  IInv'
<1> DEFINE k == Top.key
           victim == Last(list["cached"])
           ls == IF Evicts(keep) THEN Unlist(list, victim) ELSE list
           q == IF Evicts(keep) THEN Destroyed(lookup, victim) ELSE lookup
           kept == keep /\ conf.cache > 0
           size == Len(list["cached"])
<1>1. /\ stack # <<>> /\ Top.op = "finish" /\ Top.todo = NoHooks
      /\ list' = IF kept THEN Move(ls, k, "cached", TRUE) ELSE Unlist(ls, k)
      /\ lookup' = IF kept THEN Retained(q, k) ELSE Destroyed(q, k)
      /\ stack' = Front(stack) /\ UNCHANGED <<conf, sockUp, owed, gone, aborted>>
  BY DEF FinishReturns, Calls
<1>2. /\ Good(list, lookup, stack, owed) /\ conf.cache \in Nat /\ size \in Nat
      /\ list["cached"] \in Seq(Keys) /\ (sockUp => size <= conf.cache)
  BY Types DEF Lists
<1>3. Top = Last(stack) /\ k \in Keys /\ k \in Ends(stack)
  <2>1. stack \in Seq(Frame) /\ Top \in Frame /\ Top = stack[Len(stack)] /\ Len(stack) \in DOMAIN stack
    BY <1>1, Types, StackProperties DEF Top
  <2> HIDE DEF Top
  <2>2. k \in Keys
    BY <1>1, <2>1, FinishFrame
  <2> QED
    BY <1>1, <2>1, <2>2 DEF Ends, Top
<1>4. Evicts(keep) => victim \in ToSet(list["cached"])
  BY <1>2 DEF Evicts, Last, ToSet
<1>5. /\ Good(ls, q, stack, owed)
      /\ Len(ls["cached"]) <= IF Evicts(keep) THEN size - 1 ELSE size
      /\ Sound(ls)
  <2>1. CASE Evicts(keep)
    <3>1. Good(Unlist(list, victim), Destroyed(lookup, victim), stack, owed)
          /\ Len(Unlist(list, victim)["cached"]) <= size - 1
      BY <1>2, <1>4, <2>1, GoodDropped
    <3> QED
      BY <2>1, <3>1 DEF Good, Fits
  <2>2. CASE ~Evicts(keep)
    BY <1>2, <2>2 DEF Good, Fits
  <2> QED
    BY <2>1, <2>2
<1> HIDE DEF ls, q, victim, k
<1>6. Len(ls["cached"]) \in Nat
  BY <1>5 DEF Sound, Lists
<1>7. CASE kept
  <2>1. IsMove(ls, k, "cached", list')
    BY <1>1, <1>3, <1>5, <1>7, MoveMoves
  <2>2. lookup' = [q EXCEPT ![k] = [Blank EXCEPT !.timer = TRUE]]
    BY <1>1, <1>7 DEF Retained
  <2>3. Last(stack).op = "finish" /\ Last(stack).key = k /\ Last(stack).todo = NoHooks
    BY <1>1, <1>3 DEF k
  <2> DEFINE b == [Blank EXCEPT !.timer = TRUE]
  <2>4. Good(list', lookup', stack', owed')
    <3>1. b \in LookupType /\ b.asked = {} /\ (b.timer <=> "cached" = "cached")
      BY BlankLookup
    <3> HIDE DEF b
    <3>2. Good(list', [q EXCEPT ![k] = b], Front(stack), owed)
      BY <1>1, <1>5, <2>1, <2>3, <3>1, GoodFinished
    <3> QED
      BY <1>1, <2>2, <3>2 DEF b
  <2>5. Len(list'["cached"]) <= Len(ls["cached"]) + 1 /\ Len(list'["cached"]) \in Nat
    BY <2>1, <2>4 DEF IsMove, Lists, Good, Fits, Sound
  <2>6. sockUp => Len(list'["cached"]) <= conf.cache
    <3>1. keep /\ conf.cache > 0
      BY <1>7
    <3>2. Evicts(keep) <=> size = conf.cache /\ size > 0
      BY <3>1 DEF Evicts
    <3>3. Len(ls["cached"]) <= IF size = conf.cache /\ size > 0 THEN size - 1 ELSE size
      BY <1>5, <3>2
    <3>4. conf.cache \in Nat /\ size \in Nat /\ (sockUp => size <= conf.cache)
      BY <1>2
    <3> DEFINE new == Len(list'["cached"])
               old == Len(ls["cached"])
               max == conf.cache
    <3>5. new <= old + 1 /\ new \in Nat /\ old \in Nat
      BY <1>6, <2>5
    <3> HIDE DEF new, old, max, size
    <3> QED
      BY <3>1, <3>3, <3>4, <3>5 DEF new, old, max
  <2> QED
    BY <1>1, <2>4, <2>6, Types DEF IInv, CacheBounded
<1>8. CASE ~kept
  <2>1. IsMove(ls, k, Nowhere, list')
    BY <1>1, <1>3, <1>5, <1>8, MoveMoves DEF Unlist
  <2>2. lookup' = [q EXCEPT ![k] = Blank]
    BY <1>1, <1>8 DEF Destroyed
  <2>3. Last(stack).op = "finish" /\ Last(stack).key = k /\ Last(stack).todo = NoHooks
    BY <1>1, <1>3 DEF k
  <2>4. Blank.timer <=> Nowhere = "cached"
    BY BlankLookup DEF Nowhere
  <2>5. Good(list', lookup', stack', owed')
    <3>1. Good(list', [q EXCEPT ![k] = Blank], Front(stack), owed)
      BY <1>1, <1>5, <2>1, <2>3, <2>4, BlankLookup, GoodFinished
    <3> QED
      BY <1>1, <2>2, <3>1
  <2>6. Len(list'["cached"]) <= Len(ls["cached"]) + 0 /\ Len(list'["cached"]) \in Nat
    BY <2>1, <2>5 DEF IsMove, Lists, Good, Fits, Sound, Nowhere
  <2>7. Len(list'["cached"]) <= size
    BY <1>2, <1>5, <1>6, <2>6
  <2> QED
    BY <1>1, <2>5, <2>7, Types, Rest DEF size
<1> QED
  BY <1>7, <1>8

\* The main loop calls the socket hook.
LEMMA SocketReadyIInv ==
  ASSUME IInv, SocketReady
  PROVE  IInv'
<1>1. /\ stack = <<>> /\ stack' = <<Reading, Drain>>
      /\ UNCHANGED <<list, lookup, conf, sockUp, owed, gone, aborted>>
  BY DEF SocketReady
<1>2. Good(list', lookup', stack', owed')
  BY <1>1, Types, GoodStart
<1> QED
  BY <1>1, <1>2, Types, Rest DEF Lists

LEMMA ReadDoneIInv ==
  ASSUME IInv, ReadDone
  PROVE  IInv'
<1>1. /\ stack # <<>> /\ Last(stack).op = "read" /\ stack' = Front(stack)
      /\ UNCHANGED <<list, lookup, conf, sockUp, owed, gone, aborted>>
  BY DEF ReadDone, Calls, Top
<1>2. Good(list', lookup', stack', owed')
  BY <1>1, Types, GoodPop
<1> QED
  BY <1>1, <1>2, Types, Rest DEF Lists

\* A reply is read for a lookup that is pending, whose query has been sent,
\* while no lookup is being finished.
LEMMA ReplyFinds ==
  ASSUME IInv, Calls("read"), NEW k \in Keys, Expected(k), lookup[k].asked # {}
  PROVE  /\ k \in Pend(list) /\ k \notin BadKeys /\ Ends(stack) = {}
         /\ Timed(list, lookup, {})
<1>1. /\ Fits(list, lookup, stack, owed) /\ Timed(list, lookup, Ends(stack)) /\ stack \in Seq(Frame)
  BY Types DEF Good
<1>2. k \in Pend(list)
  BY DEF Expected, On, Pend
<1>3. k \notin BadKeys
  BY <1>1 DEF Fits, Unasked
<1>4. Ends(stack) = {}
  <2>1. stack # <<>> /\ stack[Len(stack)].op = "read" /\ Len(stack) \in DOMAIN stack
    BY <1>1 DEF Calls, Top, Last
  <2>2. Len(stack) = 1
    BY <1>1, <2>1 DEF Fits, ReadsFirst
  <2>3. \A i \in DOMAIN stack : stack[i].op = "read"
    BY <1>1, <2>1, <2>2
  <2> QED
    BY <2>3 DEF Ends
<1> QED
  BY <1>1, <1>2, <1>3, <1>4

LEMMA ReplyIInv ==
  ASSUME IInv, NEW k \in Keys, NEW zone \in Zones, Reply(k, zone)
  PROVE  IInv'
<1>1. /\ Calls("read") /\ Expected(k) /\ zone \in lookup[k].asked
      /\ stack' = Append(stack, Finish(k, lookup))
      /\ UNCHANGED <<list, lookup, conf, sockUp, owed, gone, aborted>>
  BY DEF Reply
<1>2. /\ k \in Pend(list) /\ k \notin BadKeys /\ Ends(stack) = {}
      /\ Timed(list, lookup, {})
  BY <1>1, ReplyFinds
<1>3. Timed(list, lookup, Ends(stack) \cup {k})
  BY <1>2 DEF Timed
<1>4. Good(list, lookup, Append(stack, Finish(k, lookup)), owed)
  BY <1>2, <1>3, Types, GoodPush
<1> QED
  BY <1>1, <1>4, Types, Rest DEF Lists

\* The lookup is put back on the waiting list, for the other zone.
LEMMA ReplyAgainIInv ==
  ASSUME IInv, NEW k \in Keys, ReplyAgain(k)
  PROVE  IInv'
<1>1. /\ Calls("read") /\ Expected(k) /\ lookup[k].asked # {}
      /\ lookup' = [lookup EXCEPT ![k].again = TRUE] /\ list' = Move(list, k, "waiting", TRUE)
      /\ UNCHANGED <<stack, conf, sockUp, owed, gone, aborted>>
  BY DEF ReplyAgain
<1>2. /\ k \in Pend(list) /\ k \notin BadKeys /\ Ends(stack) = {}
      /\ Timed(list, lookup, {})
  BY <1>1, ReplyFinds
<1>3. /\ Fits(list, lookup, stack, owed) /\ Sound(list) /\ lookup \in [Keys -> LookupType]
      /\ BadKeys \subseteq Keys
  BY Types, FitKeys
<1>4. IsMove(list, k, "waiting", list')
  BY <1>1, <1>3, MoveMoves
<1>5. /\ Fits(list', lookup, stack, owed) /\ Pend(list') = Pend(list)
      /\ ToSet(list'["cached"]) = ToSet(list["cached"])
      /\ ToSet(list'["active"]) = ToSet(list["active"]) \ {k}
  BY <1>2, <1>3, <1>4, FitsMoved
<1>6. /\ lookup' \in [Keys -> LookupType]
      /\ \A x \in Keys : /\ lookup'[x].hooks = lookup[x].hooks /\ lookup'[x].timer = lookup[x].timer
                         /\ lookup'[x].asked = lookup[x].asked
  BY <1>1, <1>3 DEF LookupType
<1>7. \A x \in BadKeys : lookup'[x].asked = {} /\ (x \in Pend(list') => ~lookup'[x].timer)
  BY <1>3, <1>5, <1>6 DEF Fits, Unasked
<1>8. Fits(list', lookup', stack, owed)
  BY <1>5, <1>6, <1>7, FitsTimers
<1>9. Timed(list', lookup', Ends(stack))
  <2>1. ToSet(list["active"]) \subseteq Keys /\ ToSet(list["cached"]) \subseteq Keys
    BY <1>3, FitKeys DEF Lists
  <2> QED
    BY <1>2, <1>5, <1>6, <2>1 DEF Timed
<1>10. Len(list'["cached"]) <= Len(list["cached"]) + 0
  BY <1>4 DEF IsMove, Lists
<1>11. Len(list["cached"]) \in Nat /\ Len(list'["cached"]) \in Nat
  BY <1>3, <1>4 DEF IsMove, Sound, Lists
<1> QED
  BY <1>1, <1>8, <1>9, <1>10, <1>11, Types, Rest DEF Good

\* A lookup in the cache expires.
LEMMA CacheExpiresIInv ==
  ASSUME IInv, NEW k \in Keys, CacheExpires(k)
  PROVE  IInv'
<1>1. /\ k \in ToSet(list["cached"]) /\ list' = Unlist(list, k) /\ lookup' = Destroyed(lookup, k)
      /\ UNCHANGED <<stack, conf, sockUp, owed, gone, aborted>>
  BY DEF CacheExpires, On
<1>2. /\ Good(list', lookup', stack', owed')
      /\ Len(list'["cached"]) <= Len(list["cached"]) - 1
  BY <1>1, Types, GoodDropped
<1>3. Len(list["cached"]) \in Nat /\ Len(list'["cached"]) \in Nat
  BY <1>2, Types DEF Good, Fits, Sound, Lists
<1> QED
  BY <1>1, <1>2, <1>3, Types, Rest

\* The timer of a pending lookup: it is tried again, or has failed.
LEMMA TimesOutIInv ==
  ASSUME IInv, NEW k \in Keys, TimesOut(k)
  PROVE  IInv'
<1>1. /\ stack = <<>> /\ lookup[k].timer /\ k \notin ToSet(list["cached"])
      /\ aborted' = (lookup[k].retry > conf.retries) /\ UNCHANGED <<conf, sockUp, owed, gone>>
      /\ \/ /\ stack' = <<Drain, Finish(k, lookup)>>
            /\ lookup' = [lookup EXCEPT ![k].timer = FALSE] /\ UNCHANGED list
         \/ /\ lookup[k].retry # 0 /\ stack' = <<Drain>>
            /\ lookup' = [lookup EXCEPT ![k].timer = FALSE, ![k].retry = @ - 1]
            /\ list' = Move(list, k, "waiting", TRUE)
  BY DEF TimesOut, On
<1>2. /\ Good(list, lookup, <<Drain>>, owed) /\ Fits(list, lookup, <<Drain>>, owed)
      /\ Ends(<<Drain>>) = {}
  <2> DEFINE d == <<Drain>>
  <2>1. Good(list, lookup, d, owed)
    BY <1>1, Types, GoodStart
  <2>2. DOMAIN d = {1} /\ d[1].op # "finish"
    BY DEF Drain
  <2> HIDE DEF d
  <2>3. Ends(d) = {}
    BY <2>2 DEF Ends
  <2> QED
    BY <2>1, <2>3 DEF Good, d
<1>3. Timed(list, lookup, {})
  BY <1>2 DEF Good
<1>4. /\ Sound(list) /\ lookup \in [Keys -> LookupType] /\ BadKeys \subseteq Keys
      /\ ToSet(list["active"]) \subseteq Keys /\ ToSet(list["cached"]) \subseteq Keys
  BY <1>2, Types, FitKeys DEF Lists
<1>5. k \in Pend(list) /\ k \notin BadKeys
  <2>1. k \in Pend(list)
    BY <1>1, <1>3 DEF Timed
  <2> QED
    BY <1>1, <1>2, <2>1 DEF Fits, Unasked
<1>6. /\ lookup' \in [Keys -> LookupType] /\ ~lookup'[k].timer
      /\ \A x \in Keys : lookup'[x].hooks = lookup[x].hooks /\ lookup'[x].asked = lookup[x].asked
      /\ \A x \in Keys \ {k} : lookup'[x].timer = lookup[x].timer
  <2>1. lookup[k] \in LookupType
    BY <1>4
  <2> DEFINE a == [lookup[k] EXCEPT !.timer = FALSE]
             b == [lookup[k] EXCEPT !.timer = FALSE, !.retry = @ - 1]
  <2>2. a \in LookupType /\ ~a.timer /\ a.hooks = lookup[k].hooks /\ a.asked = lookup[k].asked
    BY <2>1 DEF LookupType
  <2>3. lookup[k].retry # 0 =>
          b \in LookupType /\ ~b.timer /\ b.hooks = lookup[k].hooks /\ b.asked = lookup[k].asked
    <3> DEFINE left == lookup[k].retry - 1
    <3>1. lookup[k].retry # 0 => left \in Nat
      BY <2>1 DEF LookupType
    <3>2. b = [lookup[k] EXCEPT !.timer = FALSE, !.retry = left]
      BY <2>1 DEF LookupType
    <3> HIDE DEF left, b
    <3> QED
      BY <2>1, <3>1, <3>2 DEF LookupType
  <2>4. lookup' = [lookup EXCEPT ![k] = a] \/ (lookup[k].retry # 0 /\ lookup' = [lookup EXCEPT ![k] = b])
    BY <1>1, <1>4
  <2> HIDE DEF a, b
  <2> QED
    BY <1>4, <2>2, <2>3, <2>4
<1>7. \A x \in BadKeys : lookup'[x].asked = {} /\ (x \in Pend(list) => ~lookup'[x].timer)
  BY <1>2, <1>4, <1>5, <1>6 DEF Fits, Unasked
<1>8. CASE stack' = <<Drain, Finish(k, lookup)>> /\ list' = list
  <2>1. Fits(list, lookup', <<Drain>>, owed)
    BY <1>2, <1>6, <1>7, FitsTimers
  <2>2. Timed(list, lookup', Ends(<<Drain>>) \cup {k})
    BY <1>2, <1>3, <1>4, <1>6 DEF Timed
  <2>3. Finish(k, lookup') = Finish(k, lookup)
    BY <1>6 DEF Finish
  <2>4. Good(list, lookup', Append(<<Drain>>, Finish(k, lookup')), owed)
    BY <1>2, <1>5, <2>1, <2>2, GoodPush
  <2> DEFINE f == Finish(k, lookup)
  <2>5. Append(<<Drain>>, f) = <<Drain, f>>
    <3>1. f \in Frame /\ Drain \in Frame
      <4>1. k \in Keys /\ lookup[k] \in LookupType
        BY <1>4, <1>5, <1>2, FitKeys
      <4> QED
        BY <4>1 DEF Finish, Drain, Frame, LookupType
    <3> HIDE DEF f
    <3> DEFINE a == Append(<<Drain>>, f)
               b == <<Drain, f>>
    <3>2. a \in Seq(Frame) /\ Len(a) = 2 /\ a[1] = Drain /\ a[2] = f
      BY <3>1
    <3>3. b \in Seq(Frame) /\ Len(b) = 2 /\ b[1] = Drain /\ b[2] = f
      BY <3>1
    <3>4. DOMAIN a = 1..2 /\ DOMAIN b = 1..2
      BY <3>2, <3>3
    <3> HIDE DEF a, b
    <3>5. \A i \in 1..2 : a[i] = b[i]
      BY <3>2, <3>3
    <3>6. a = b
      BY <3>2, <3>3, <3>5, SeqEqual
    <3> QED
      BY <3>6 DEF a, b
  <2> HIDE DEF f
  <2>6. Good(list', lookup', stack', owed')
    BY <1>1, <1>8, <2>3, <2>4, <2>5 DEF f
  <2>7. Len(list'["cached"]) <= Len(list["cached"])
    BY <1>8, Types DEF Lists
  <2> QED
    BY <1>1, <2>6, <2>7, Types, Rest
<1>9. CASE stack' = <<Drain>> /\ list' = Move(list, k, "waiting", TRUE)
  <2>1. IsMove(list, k, "waiting", list')
    BY <1>4, <1>9, MoveMoves
  <2>2. /\ Fits(list', lookup, <<Drain>>, owed) /\ Pend(list') = Pend(list)
        /\ ToSet(list'["cached"]) = ToSet(list["cached"])
        /\ ToSet(list'["active"]) = ToSet(list["active"]) \ {k}
    BY <1>2, <1>5, <2>1, FitsMoved
  <2>3. Fits(list', lookup', <<Drain>>, owed)
    BY <1>6, <1>7, <2>2, FitsTimers
  <2>4. Timed(list', lookup', {})
    BY <1>1, <1>3, <1>4, <1>5, <1>6, <2>2 DEF Timed
  <2>5. Good(list', lookup', stack', owed')
    BY <1>1, <1>2, <1>9, <2>3, <2>4 DEF Good
  <2>6. Len(list'["cached"]) <= Len(list["cached"]) + 0
    BY <2>1 DEF IsMove, Lists
  <2>7. Len(list["cached"]) \in Nat /\ Len(list'["cached"]) \in Nat
    BY <1>4, <2>1 DEF IsMove, Sound, Lists
  <2> QED
    BY <1>1, <2>5, <2>6, <2>7, Types, Rest
<1> QED
  BY <1>1, <1>8, <1>9

\* A reload forgets what has been asked, and empties the cache unless it fails.
LEMMA ReloadIInv ==
  ASSUME IInv, NEW c \in Confs, NEW ok \in BOOLEAN, Reload(c, ok)
  PROVE  IInv'
<1>1. /\ stack = <<>> /\ conf' = c /\ sockUp' = ok
      /\ list' = IF ok THEN [list EXCEPT !["cached"] = <<>>] ELSE list
      /\ lookup' = [k \in Keys |-> IF ok /\ k \in ToSet(list["cached"]) THEN Blank
                                   ELSE [lookup[k] EXCEPT !.asked = {}]]
      /\ UNCHANGED <<stack, owed, gone, aborted>>
  BY DEF Reload, Flushed, On
<1>2. /\ Fits(list, lookup, stack, owed) /\ Timed(list, lookup, {}) /\ Sound(list)
      /\ lookup \in [Keys -> LookupType] /\ owed \subseteq Users \X Keys /\ BadKeys \subseteq Keys
      /\ ToSet(list["active"]) \subseteq Keys /\ ToSet(list["cached"]) \subseteq Keys
  <2>1. Ends(<<>>) = {}
    BY DEF Ends
  <2> QED
    BY <1>1, <2>1, Types, FitKeys DEF Good, Lists
<1>3. /\ list' \in [Lists -> Seq(Keys)] /\ list'["active"] = list["active"]
      /\ list'["waiting"] = list["waiting"]
      /\ list'["cached"] = IF ok THEN <<>> ELSE list["cached"]
  BY <1>1, <1>2 DEF Sound, Lists
<1>4. /\ ToSet(list'["cached"]) = IF ok THEN {} ELSE ToSet(list["cached"])
      /\ IsInjective(list'["cached"])
  <2>1. ToSet(<<>>) = {} /\ IsInjective(<<>>)
    BY DEF ToSet, IsInjective
  <2> QED
    BY <1>2, <1>3, <2>1 DEF Sound, Lists
<1>5. Sound(list')
  <2>1. \A l \in Lists : IsInjective(list'[l])
    BY <1>2, <1>3, <1>4 DEF Sound, Lists
  <2>2. \A l, m \in Lists : l # m => ToSet(list'[l]) \cap ToSet(list'[m]) = {}
    BY <1>2, <1>3, <1>4 DEF Sound, Lists
  <2> QED
    BY <1>3, <2>1, <2>2 DEF Sound
<1>6. Pend(list') = Pend(list)
  BY <1>3 DEF Pend
<1>7. ASSUME NEW k \in Keys
      PROVE  /\ lookup'[k] \in LookupType /\ lookup'[k].asked = {}
             /\ lookup'[k].timer => lookup[k].timer
             /\ ~(ok /\ k \in ToSet(list["cached"])) =>
                  lookup'[k].timer = lookup[k].timer /\ lookup'[k].hooks = lookup[k].hooks
  <2>1. lookup[k] \in LookupType
    BY <1>2
  <2> DEFINE a == [lookup[k] EXCEPT !.asked = {}]
  <2>2. /\ a \in LookupType /\ a.asked = {} /\ a.timer = lookup[k].timer /\ a.hooks = lookup[k].hooks
    BY <2>1 DEF LookupType
  <2>3. lookup'[k] = IF ok /\ k \in ToSet(list["cached"]) THEN Blank ELSE a
    BY <1>1
  <2> HIDE DEF a
  <2> QED
    BY <2>2, <2>3, BlankLookup
<1>8. lookup' \in [Keys -> LookupType]
  BY <1>1, <1>7
<1>9. Timed(list', lookup', {})
  <2>1. ASSUME NEW k \in ToSet(list'["active"]) \cup ToSet(list'["cached"])
        PROVE  lookup'[k].timer
    <3>1. k \in Keys /\ lookup[k].timer
      BY <1>2, <1>3, <1>4, <2>1 DEF Timed
    <3>2. ~(ok /\ k \in ToSet(list["cached"]))
      BY <1>2, <1>3, <1>4, <2>1 DEF Sound, Lists
    <3> QED
      BY <1>7, <3>1, <3>2
  <2>2. ASSUME NEW k \in Keys, lookup'[k].timer
        PROVE  k \in Pend(list') \cup ToSet(list'["cached"])
    <3>1. lookup[k].timer
      BY <1>7, <2>2
    <3>2. ~(ok /\ k \in ToSet(list["cached"]))
      BY <1>1, <2>2, BlankLookup
    <3> QED
      BY <1>2, <1>4, <1>6, <3>1, <3>2 DEF Timed
  <2> QED
    BY <2>1, <2>2 DEF Timed
<1>10. \A o \in owed : o[2] \in Pend(list') /\ lookup'[o[2]].hooks[o[1]] > 0
  <2>1. \A o \in owed : o[2] \in Keys /\ o[2] \in Pend(list) /\ lookup[o[2]].hooks[o[1]] > 0
    BY <1>2 DEF Fits, Hooked
  <2>2. Pend(list) \cap ToSet(list["cached"]) = {}
    BY <1>2 DEF Sound, Pend, Lists
  <2> QED
    BY <1>6, <1>7, <2>1, <2>2
<1>11. \A k \in BadKeys : lookup'[k].asked = {} /\ (k \in Pend(list') => ~lookup'[k].timer)
  BY <1>2, <1>6, <1>7 DEF Fits, Unasked
<1>12. Good(list', lookup', <<>>, owed)
  BY <1>2, <1>5, <1>8, <1>9, <1>10, <1>11, GoodQuiet
<1>13. sockUp' => Len(list'["cached"]) <= conf'.cache
  <2>1. conf'.cache \in Nat
    BY <1>1, ResolverAssumption
  <2> QED
    BY <1>1, <1>3, <2>1
<1> QED
  BY <1>1, <1>12, <1>13, Types DEF IInv, CacheBounded

\* No lookup at all.
LEMMA GoodEmpty ==
  Good([l \in Lists |-> <<>>], [k \in Keys |-> Blank], <<>>, {})
<1> DEFINE ms == [l \in Lists |-> <<>>]
           r == [k \in Keys |-> Blank]
<1>1. /\ ms \in [Lists -> Seq(Keys)] /\ \A l \in Lists : ms[l] = <<>>
      /\ r \in [Keys -> LookupType] /\ \A k \in Keys : r[k] = Blank
  BY BlankLookup
<1> HIDE DEF ms, r
<1>2. \A l \in Lists : ToSet(ms[l]) = {} /\ IsInjective(ms[l])
  BY <1>1 DEF ToSet, IsInjective
<1>3. Sound(ms) /\ Pend(ms) = {} /\ ToSet(ms["active"]) = {} /\ ToSet(ms["cached"]) = {}
  BY <1>1, <1>2 DEF Sound, Pend, Lists
<1>4. Timed(ms, r, {})
  BY <1>1, <1>3, BlankLookup DEF Timed
<1>5. \A k \in BadKeys : r[k].asked = {} /\ (k \in Pend(ms) => ~r[k].timer)
  BY <1>1, BlankLookup, ResolverAssumption
<1>6. Good(ms, r, <<>>, {})
  BY <1>1, <1>3, <1>4, <1>5, GoodQuiet
<1> QED
  BY <1>6 DEF ms, r

LEMMA UnloadAndLoadIInv ==
  ASSUME IInv, UnloadAndLoad
  PROVE  IInv'
<1>1. /\ stack = <<>> /\ list' = [l \in Lists |-> <<>>] /\ lookup' = [k \in Keys |-> Blank]
      /\ owed' = {} /\ UNCHANGED <<stack, conf, gone, aborted>> /\ sockUp' = TRUE
  BY DEF UnloadAndLoad
<1>2. Good(list', lookup', stack', owed')
  BY <1>1, GoodEmpty
<1>3. Len(list'["cached"]) = 0
  BY <1>1 DEF Lists
<1> QED
  BY <1>1, <1>2, <1>3, Types DEF IInv, CacheBounded

-----------------------------------------------------------------------------
(* The theorems.                                                           *)

LEMMA InitIInv == Init => IInv
<1> SUFFICES ASSUME Init PROVE IInv
  OBVIOUS
<1>1. Good(list, lookup, stack, owed)
  BY GoodEmpty DEF Init
<1>2. Len(list["cached"]) = 0 /\ conf \in Confs /\ conf.cache \in Nat
  BY ResolverAssumption DEF Init, Lists
<1>3. CacheBounded
  BY <1>2 DEF CacheBounded
<1>4. sockUp \in BOOLEAN /\ gone \subseteq Users /\ aborted \in BOOLEAN
  BY DEF Init
<1> QED
  BY <1>1, <1>2, <1>3, <1>4 DEF IInv

LEMMA StepIInv == IInv /\ [Next]_vars => IInv'
<1> SUFFICES ASSUME IInv, [Next]_vars PROVE IInv'
  OBVIOUS
<1>1. ASSUME NEW ask \in Asks,
             \/ LookupCached(ask[1], ask[2]) \/ LookupPending(ask[1], ask[2])
             \/ LookupNew(ask[1], ask[2])
      PROVE  IInv'
  <2>1. ask[1] \in Users /\ ask[2] \in Keys
    BY ResolverAssumption
  <2> QED
    BY <1>1, <2>1, LookupCachedIInv, LookupPendingIInv, LookupNewIInv
<1>2. CASE UNCHANGED vars
  <2>1. UNCHANGED <<list, lookup, stack, conf, sockUp, owed, gone, aborted>>
    BY <1>2 DEF vars
  <2> QED
    BY <2>1, Types, Rest DEF Lists
<1>3. ASSUME NEW u \in Users, Cancel(u) \/ Callback(u) PROVE IInv'
  BY <1>3, CancelIInv, CallbackIInv
<1>4. ASSUME NEW keep \in BOOLEAN, FinishReturns(keep) PROVE IInv'
  BY <1>4, FinishReturnsIInv
<1>5. ASSUME NEW k \in Keys, NEW zone \in Zones, Reply(k, zone) PROVE IInv'
  BY <1>5, ReplyIInv
<1>6. ASSUME NEW k \in Keys, ReplyAgain(k) \/ CacheExpires(k) \/ TimesOut(k) PROVE IInv'
  BY <1>6, ReplyAgainIInv, CacheExpiresIInv, TimesOutIInv
<1>7. ASSUME NEW c \in Confs, NEW ok \in BOOLEAN, Reload(c, ok) PROVE IInv'
  BY <1>7, ReloadIInv
<1>8. CASE DrainStep \/ SocketReady \/ ReadDone \/ UnloadAndLoad
  BY <1>8, DrainStepIInv, SocketReadyIInv, ReadDoneIInv, UnloadAndLoadIInv
<1> QED
  BY <1>1, <1>2, <1>3, <1>4, <1>5, <1>6, <1>7, <1>8 DEF Next

\* The invariant of every execution.
THEOREM InductiveInvariant == Spec => []IInv
  BY InitIInv, StepIInv, PTL DEF Spec

\* dns/lookup.c, dns/packet.c, dns/dns.c: the lists hold lookups, and no hook
\* is removed that was not there.
THEOREM TypeCorrect == Spec => []TypeOK
<1>1. IInv => TypeOK
  BY DEF IInv, Good, Fits, Sound, TypeOK
<1> QED
  BY <1>1, InductiveInvariant, PTL

\* dns/lookup.c: however callbacks, retries, late replies and reloads
\* interleave, a key has one lookup on one list; the active and the cached
\* ones have timers; the cache keeps to its size.
THEOREM LookupsStaySound == Spec => []LookupsSound
<1>1. IInv => LookupsSound
  <2> SUFFICES ASSUME IInv PROVE LookupsSound
    OBVIOUS
  <2>1. Sound(list) /\ Timed(list, lookup, Ends(stack)) /\ CacheBounded
    BY Types DEF IInv, Good
  <2>2. Finishing = Ends(stack) /\ Live = Pend(list) \cup ToSet(list["cached"])
    BY DEF Finishing, Ends, Live, Pend, On
  <2>3. OneLookupPerKey
    BY <2>1 DEF Sound, OneLookupPerKey, On
  <2>4. TimersMatchLookups
    BY <2>1, <2>2 DEF Timed, TimersMatchLookups, On
  <2> QED
    BY <2>1, <2>3, <2>4 DEF LookupsSound
<1> QED
  BY <1>1, InductiveInvariant, PTL

\* dns/lookup.c, dns/packet.c: whoever has asked is hooked to a pending lookup
\* until it is called, and a lookup is finished once.
THEOREM CallersAreHeard == Spec => []CallersHeard
<1>1. IInv => CallersHeard
  <2> SUFFICES ASSUME IInv PROVE CallersHeard
    OBVIOUS
  <2>1. Hooked(list, lookup, stack, owed) /\ EndsOnce(list, stack)
    BY Types DEF Fits
  <2>2. Finishing = Ends(stack) /\ Pend(list) = On("active") \cup On("waiting")
    BY DEF Finishing, Ends, Pend, On
  <2>3. CallersStayHooked
    BY <2>1, <2>2 DEF Hooked, CallersStayHooked
  <2>4. FinishedOnce
    BY <2>1, <2>2 DEF EndsOnce, FinishedOnce
  <2> QED
    BY <2>3, <2>4 DEF CallersHeard
<1> QED
  BY <1>1, InductiveInvariant, PTL
=============================================================================
