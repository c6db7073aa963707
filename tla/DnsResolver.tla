---------------------------- MODULE DnsResolver ----------------------------
(***************************************************************************)
(* The asynchronous resolver of modules/dns: lookup.c (the lists and the   *)
(* calls other modules make), packet.c (queries, replies, the end of a     *)
(* lookup) and the hooks of dns.c (socket, timer, configuration).          *)
(*                                                                         *)
(* A lookup is known by its key, the class, type and data asked for.  A    *)
(* key is on at most one of the three lists; dns.pending.acount and        *)
(* dns.cache.count, which dns_lookup_move alone changes, are their         *)
(* lengths.  A callback may call dns_lookup again before it returns, so    *)
(* the C stack is a variable: a frame for each loop of dns_lookup_send     *)
(* calls ("drain"), each read loop of the socket hook ("read") and each    *)
(* dns_lookup_finish ("finish") that is in progress.                       *)
(*                                                                         *)
(* Time is left out: a timer that is set may go off at any moment.         *)
(***************************************************************************)
EXTENDS Integers, Sequences, FiniteSets, SequencesExt, Queues

CONSTANTS
  Keys,      \* what is looked up
  SixKeys,   \* the reverse lookups of IPv6 addresses, asked in two zones
  BadKeys,   \* those whose address does not parse when the query is built
  Users,     \* the callbacks other modules pass to dns_lookup
  Confs,     \* configurations: lookup-retries, lookup-concurrent-max, cache-size
  Asks,      \* bound: who asks for what, pairs of a user and a key
  MaxHooks   \* bound: times one callback may be added to one lookup

ASSUME ResolverAssumption ==
  /\ SixKeys \subseteq Keys /\ BadKeys \subseteq SixKeys
  /\ Confs \subseteq [retries : Nat, max : Nat \ {0}, cache : Nat]
  /\ Confs # {}
  /\ Asks \subseteq Users \X Keys
  /\ MaxHooks \in Nat \ {0}

Lists == {"waiting", "active", "cached"}
Zones == {"name", "arpa", "int"}

VARIABLES
  list,     \* dns.pending.wlist, dns.pending.alist and dns.cache.list
  lookup,   \* the dns_lookup_t of each key that is on a list
  stack,    \* the calls in progress, innermost last
  conf,     \* dns.pending.retries, dns.pending.max, dns.cache.max
  sockUp,   \* dns.sock is open
  owed,     \* who has asked what and has not been called back or cancelled
  gone,     \* callbacks whose module has cancelled them and been unloaded
  aborted   \* an assertion has failed

vars == <<list, lookup, stack, conf, sockUp, owed, gone, aborted>>

NoHooks == [u \in Users |-> 0]

LookupType ==
  [retry : Nat, timer : BOOLEAN, again : BOOLEAN, asked : SUBSET Zones,
   hooks : [Users -> Nat]]

Frame ==
  [op : {"read", "drain"}] \cup
  [op : {"finish"}, key : Keys, todo : [Users -> Nat], user : SUBSET Users]

\* Types: no list holds what is not a key, and no hook of a lookup is
\* removed that was not there.
TypeOK ==
  /\ list \in [Lists -> Seq(Keys)]
  /\ lookup \in [Keys -> LookupType]
  /\ stack \in Seq(Frame)
  /\ conf \in Confs
  /\ sockUp \in BOOLEAN
  /\ owed \subseteq Users \X Keys
  /\ gone \subseteq Users
  /\ aborted \in BOOLEAN

On(l) == ToSet(list[l])
Live == On("waiting") \cup On("active") \cup On("cached")
Top == Last(stack)
Calls(op) == stack # <<>> /\ Top.op = op
Finishing == {stack[i].key : i \in {j \in DOMAIN stack : stack[j].op = "finish"}}

Drain == [op |-> "drain"]
Reading == [op |-> "read"]

\* hook_event takes the hooks there are when it starts.
Finish(k, q) == [op |-> "finish", key |-> k, todo |-> q[k].hooks, user |-> {}]

Blank == [retry |-> 0, timer |-> FALSE, again |-> FALSE, asked |-> {},
          hooks |-> NoHooks]

\* dns_lookup_move: off the list it is on, and to the head or tail of another.
Move(ls, k, to, head) ==
  [l \in Lists |->
     LET rest == Without(ls[l], {k})
     IN IF l # to THEN rest ELSE IF head THEN Cons(k, rest) ELSE Append(rest, k)]

Nowhere == "none"

\* destroy_dns_lookup, on the lists and on the lookups.
Unlist(ls, k) == Move(ls, k, Nowhere, FALSE)
Destroyed(q, k) == [q EXCEPT ![k] = Blank]

Init ==
  /\ list = [l \in Lists |-> <<>>]
  /\ lookup = [k \in Keys |-> Blank]
  /\ stack = <<>>
  /\ conf \in Confs
  /\ sockUp = TRUE
  /\ owed = {}
  /\ gone = {}
  /\ aborted = FALSE

-----------------------------------------------------------------------------
(* dns_lookup_send.                                                        *)

Zone(k, q) == IF k \notin SixKeys THEN "name" ELSE IF q[k].again THEN "int" ELSE "arpa"

\* Mutant of Activated: the query is built before the lookup is moved.
NotMoved(ls, k) == ls

Activated(ls, k) == Move(ls, k, "active", FALSE)


\* The query has been written: the lookup gets its timer.
Queried(q, k) ==
  [q EXCEPT ![k].again = FALSE, ![k].timer = TRUE,
            ![k].asked = @ \cup {Zone(k, q)}]

\* One call, from lists ls and lookups q: back to the stack `zero' when it
\* returns 0, to the stack `one' when it returns 1.  A query that could not be
\* written goes back to the head of the waiting list, its "again" flag gone.
Send(ls, q, zero, one) ==
  LET k == Head(ls["waiting"])
      moved == Activated(ls, k)
  IN \/ /\ Len(ls["active"]) = conf.max \/ ls["waiting"] = <<>>
        /\ list' = ls /\ lookup' = q /\ stack' = zero
        /\ UNCHANGED aborted
     \/ /\ Len(ls["active"]) # conf.max /\ ls["waiting"] # <<>>
        /\ \/ /\ k \in BadKeys
              /\ list' = moved /\ lookup' = q
              /\ stack' = Append(one, Finish(k, q))
              /\ UNCHANGED aborted
           \/ /\ k \notin BadKeys
              /\ list' = Move(moved, k, "waiting", TRUE)
              /\ lookup' = [q EXCEPT ![k].again = FALSE]
              /\ stack' = zero
              /\ UNCHANGED aborted
           \/ /\ k \notin BadKeys
              /\ sockUp
              /\ list' = moved
              /\ lookup' = Queried(q, k)
              /\ stack' = one
              /\ aborted' = (q[k].retry > conf.retries)

\* while (dns_lookup_send());
DrainStep ==
  /\ ~aborted
  /\ Calls("drain")
  /\ Send(list, lookup, Front(stack), stack)
  /\ UNCHANGED <<conf, sockUp, owed, gone>>

-----------------------------------------------------------------------------
(* What other modules call.                                                *)

\* A module calls from the main loop, or from its callback in progress.  Bound:
\* one call from each callback.  None looks up again what it is being told.
MayCall(u) ==
  /\ ~aborted
  /\ u \notin gone
  /\ \/ stack = <<>>
     \/ Calls("finish") /\ Top.user = {u}

\* The stack when the call returns: the callback makes no other.
CallReturns ==
  IF stack = <<>> THEN stack ELSE Append(Front(stack), [Top EXCEPT !.user = {}])

\* dns_lookup finds the lookup in the cache: the callback is called at once.
LookupCached(u, k) ==
  /\ MayCall(u)
  /\ k \in On("cached")
  /\ list' = Move(list, k, "cached", TRUE)
  /\ stack' = CallReturns
  /\ UNCHANGED <<lookup, conf, sockUp, owed, gone, aborted>>

\* Mutant of Pending: find_dns_lookup forgets the waiting list.
PendingActive(k) == k \in On("active")

Pending(k) == k \in On("active") \cup On("waiting")

\* dns_lookup finds it pending: the callback is added to the event.
LookupPending(u, k) ==
  /\ MayCall(u)
  /\ k \notin On("cached") /\ Pending(k)
  /\ k \notin Finishing
  /\ lookup[k].hooks[u] < MaxHooks
  /\ lookup' = [lookup EXCEPT ![k].hooks[u] = @ + 1]
  /\ owed' = owed \cup {<<u, k>>}
  /\ stack' = CallReturns
  /\ UNCHANGED <<list, conf, sockUp, gone, aborted>>

\* dns_lookup makes a new lookup, which is on no list, puts it last on the
\* waiting list and tries to send the first one there.
LookupNew(u, k) ==
  /\ MayCall(u)
  /\ k \notin On("cached") /\ ~Pending(k)
  /\ LET new == [Blank EXCEPT !.retry = conf.retries, !.hooks[u] = 1]
     IN Send([list EXCEPT !["waiting"] = Append(@, k)], [lookup EXCEPT ![k] = new],
             CallReturns, CallReturns)
  /\ owed' = owed \cup {<<u, k>>}
  /\ UNCHANGED <<conf, sockUp, gone>>

\* Mutant of Unhooked: a lookup without the callback counts a hook less too.
UnhookedTwice(u) ==
  [k \in Keys |->
     IF Pending(k) THEN [lookup[k] EXCEPT !.hooks[u] = @ - 1] ELSE lookup[k]]

\* remove_hook on each pending lookup: one hook of the callback, if it has any.
Unhooked(u) ==
  [k \in Keys |->
     IF Pending(k) /\ lookup[k].hooks[u] > 0
       THEN [lookup[k] EXCEPT !.hooks[u] = @ - 1] ELSE lookup[k]]

\* Mutant of Idle: a lookup that others wait for is destroyed too.
IdleFor(q) == {k \in On("waiting") : q[k] # lookup[k]}

Idle(q) == {k \in On("waiting") : q[k].hooks = NoHooks}

\* dns_lookup_cancel, called by the unloader of a module.  A waiting lookup
\* that nobody waits for any more is destroyed; an active one goes on.
Cancel(u) ==
  /\ ~aborted
  /\ stack = <<>>
  /\ u \notin gone
  /\ LET q == Unhooked(u)
     IN /\ list' = [list EXCEPT !["waiting"] =
                      Without(@, Idle(q))]
        /\ lookup' = [k \in Keys |-> IF k \in Idle(q) THEN Blank ELSE q[k]]
  /\ owed' = {o \in owed : o[1] # u}
  /\ gone' = gone \cup {u}
  /\ UNCHANGED <<stack, conf, sockUp, aborted>>

-----------------------------------------------------------------------------
(* dns_lookup_finish.                                                      *)

\* hook_event calls the next hook of the lookup.
Callback(u) ==
  /\ ~aborted
  /\ Calls("finish")
  /\ Top.todo[u] > 0
  /\ stack' = Append(Front(stack), [Top EXCEPT !.todo[u] = @ - 1, !.user = {u}])
  /\ owed' = owed \ {<<u, Top.key>>}
  /\ UNCHANGED <<list, lookup, conf, sockUp, gone, aborted>>

\* Mutant of Evicts: the cache is searched for room one entry too late.
EvictsLate(keep) == keep /\ Len(list["cached"]) > conf.cache

\* The last entry of a full cache makes room.
Evicts(keep) ==
  keep /\ Len(list["cached"]) = conf.cache /\ Len(list["cached"]) > 0

\* Mutant of Retained: the timer of the lookup is stopped and not set again.
RetainedUntimed(q, k) == [q EXCEPT ![k] = Blank]

\* A lookup that goes to the cache: it has its timer set to the time to live.
\* The hooks left on its event are never called again.
Retained(q, k) == [q EXCEPT ![k] = [Blank EXCEPT !.timer = TRUE]]

\* After the hooks: cached (keep stands for a time to live that is not 0 and
\* cache-failures or success), or destroyed.
FinishReturns(keep) ==
  /\ ~aborted
  /\ Calls("finish")
  /\ Top.todo = NoHooks
  /\ LET k == Top.key
         victim == Last(list["cached"])
         ls == IF Evicts(keep) THEN Unlist(list, victim) ELSE list
         q == IF Evicts(keep) THEN Destroyed(lookup, victim) ELSE lookup
     IN IF keep /\ conf.cache > 0
          THEN list' = Move(ls, k, "cached", TRUE) /\ lookup' = Retained(q, k)
          ELSE list' = Unlist(ls, k) /\ lookup' = Destroyed(q, k)
  /\ stack' = Front(stack)
  /\ UNCHANGED <<conf, sockUp, owed, gone, aborted>>

-----------------------------------------------------------------------------
(* The hooks of dns.c.                                                     *)

\* dns_socket_hook: first send what waits, then read until nothing is left.
SocketReady ==
  /\ ~aborted
  /\ stack = <<>>
  /\ stack' = <<Reading, Drain>>
  /\ UNCHANGED <<list, lookup, conf, sockUp, owed, gone, aborted>>

\* dns_packet_parse looks for the id among the active lookups, then among the
\* waiting ones that have been retried.
Expected(k) ==
  \/ k \in On("active")
  \/ k \in On("waiting") /\ lookup[k].retry < conf.retries

\* A reply that ends the lookup: an answer, an error, a truncated packet.
\* Replies may be lost, late or duplicated.
Reply(k, zone) ==
  /\ ~aborted
  /\ Calls("read") /\ sockUp
  /\ Expected(k) /\ zone \in lookup[k].asked
  /\ stack' = Append(stack, Finish(k, lookup))
  /\ UNCHANGED <<list, lookup, conf, sockUp, owed, gone, aborted>>

\* NXDOMAIN from ip6.arpa: the lookup waits again, to be sent to ip6.int.
ReplyAgain(k) ==
  /\ ~aborted
  /\ Calls("read") /\ sockUp
  /\ Expected(k) /\ "arpa" \in lookup[k].asked
  /\ lookup' = [lookup EXCEPT ![k].again = TRUE]
  /\ list' = Move(list, k, "waiting", TRUE)
  /\ UNCHANGED <<stack, conf, sockUp, owed, gone, aborted>>

ReadDone ==
  /\ ~aborted
  /\ Calls("read")
  /\ stack' = Front(stack)
  /\ UNCHANGED <<list, lookup, conf, sockUp, owed, gone, aborted>>

\* dns_timer_hook for a lookup in the cache.
CacheExpires(k) ==
  /\ ~aborted
  /\ stack = <<>>
  /\ lookup[k].timer /\ k \in On("cached")
  /\ list' = Unlist(list, k)
  /\ lookup' = Destroyed(lookup, k)
  /\ UNCHANGED <<stack, conf, sockUp, owed, gone, aborted>>

\* dns_timer_hook for a pending lookup: the assertion, then failure when no
\* retry is left, else the head of the waiting list.
TimesOut(k) ==
  /\ ~aborted
  /\ stack = <<>>
  /\ lookup[k].timer /\ k \notin On("cached")
  /\ aborted' = (lookup[k].retry > conf.retries)
  /\ IF lookup[k].retry = 0
       THEN /\ stack' = <<Drain, Finish(k, lookup)>>
            /\ lookup' = [lookup EXCEPT ![k].timer = FALSE]
            /\ UNCHANGED list
       ELSE /\ stack' = <<Drain>>
            /\ lookup' = [lookup EXCEPT ![k].timer = FALSE, ![k].retry = @ - 1]
            /\ list' = Move(list, k, "waiting", TRUE)
  /\ UNCHANGED <<conf, sockUp, owed, gone>>

Flushed(ls) == [ls EXCEPT !["cached"] = <<>>]

\* dns_parse_conf on a reload: a new socket, so the replies to what the old
\* one sent are lost, and an empty cache.  When the socket cannot be set up
\* the new limits hold already and the cache stays.
Reload(c, ok) ==
  /\ ~aborted
  /\ stack = <<>>
  /\ conf' = c
  /\ sockUp' = ok
  /\ list' = IF ok THEN Flushed(list) ELSE list
  /\ lookup' = [k \in Keys |->
                  IF ok /\ k \in On("cached") THEN Blank
                  ELSE [lookup[k] EXCEPT !.asked = {}]]
  /\ UNCHANGED <<stack, owed, gone, aborted>>

\* The unloader destroys every lookup; the module is loaded afresh.
UnloadAndLoad ==
  /\ ~aborted
  /\ stack = <<>>
  /\ list' = [l \in Lists |-> <<>>]
  /\ lookup' = [k \in Keys |-> Blank]
  /\ owed' = {}
  /\ sockUp' = TRUE
  /\ UNCHANGED <<stack, conf, gone, aborted>>

Next ==
  \/ \E ask \in Asks :
       \/ LookupCached(ask[1], ask[2])
       \/ LookupPending(ask[1], ask[2])
       \/ LookupNew(ask[1], ask[2])
  \/ \E u \in Users : Cancel(u) \/ Callback(u)
  \/ \E keep \in BOOLEAN : FinishReturns(keep)
  \/ DrainStep
  \/ SocketReady
  \/ \E k \in Keys, zone \in Zones : Reply(k, zone)
  \/ \E k \in Keys : ReplyAgain(k) \/ CacheExpires(k) \/ TimesOut(k)
  \/ ReadDone
  \/ \E c \in Confs, ok \in BOOLEAN : Reload(c, ok)
  \/ UnloadAndLoad

Spec == Init /\ [][Next]_vars

\* A call to dns_lookup_send, in its loop, that returns 1.
SendsOne == DrainStep /\ stack' # Front(stack)

\* What is on the stack returns; the main loop comes back to the socket and to
\* the timers that are due; a socket neither refuses every write for ever nor
\* has data to read without end.
FairSpec ==
  /\ Spec
  /\ WF_vars(DrainStep) /\ SF_vars(ReadDone)
  /\ \A u \in Users : WF_vars(Callback(u))
  /\ WF_vars(\E keep \in BOOLEAN : FinishReturns(keep))
  /\ SF_vars(SocketReady) /\ SF_vars(SendsOne)
  /\ \A k \in Keys : SF_vars(TimesOut(k))

-----------------------------------------------------------------------------
(* Properties.                                                             *)

\* There is one lookup of a key at most, on one list at one place: however
\* callbacks, retries, late replies and reloads interleave, dns_lookup finds
\* every lookup and no list holds a lookup twice.
OneLookupPerKey ==
  /\ \A l \in Lists : IsInjective(list[l])
  /\ \A l, m \in Lists : l # m => On(l) \cap On(m) = {}

\* An active lookup has a timer, or it would take a place for ever when its
\* reply is lost; a cached one has, or it would never expire.  (Not while it
\* is being finished, which its timer may have started.)  No timer is left
\* behind by a lookup that has been destroyed.
TimersMatchLookups ==
  /\ \A k \in (On("active") \cup On("cached")) \ Finishing : lookup[k].timer
  /\ \A k \in Keys : lookup[k].timer => k \in Live

\* The cache never holds more than cache-size entries, unless a reload has
\* failed before it emptied the cache.
CacheBounded == sockUp => Len(list["cached"]) <= conf.cache

\* The lists, the timers and the cache fit each other.
LookupsSound == OneLookupPerKey /\ TimersMatchLookups /\ CacheBounded

\* No answer is lost: who has asked and not been called back is still hooked
\* to a pending lookup, or is about to be called by the one that finishes.
CallersStayHooked ==
  \A o \in owed :
    /\ o[2] \in On("active") \cup On("waiting")
    /\ lookup[o[2]].hooks[o[1]] > 0
    /\ \A i \in DOMAIN stack :
         stack[i].op = "finish" /\ stack[i].key = o[2] => stack[i].todo[o[1]] > 0

\* A lookup is finished at most once: none is on the stack twice, and what
\* is being finished has not been destroyed or cached by a nested call.
FinishedOnce ==
  /\ \A i, j \in DOMAIN stack :
       stack[i].op = "finish" /\ stack[j].op = "finish"
         /\ stack[i].key = stack[j].key => i = j
  /\ Finishing \subseteq On("active") \cup On("waiting")

\* Whoever asks is called back by one answer, not by none and not by two.
CallersHeard == CallersStayHooked /\ FinishedOnce

=============================================================================
