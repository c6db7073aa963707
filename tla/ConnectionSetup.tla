-------------------------- MODULE ConnectionSetup --------------------------
(***************************************************************************)
(* The first two stages of a connection (modules/ircd/connection.c): the   *)
(* stage 1 access check when it is accepted, its reverse and forward name  *)
(* lookups and its ident request, the stage 2 access check, and the        *)
(* protocol it is given then.                                              *)
(*                                                                         *)
(* The resolver and the ident module (modules/ident/ident.c) answer later, *)
(* or before the call returns: a cached name, a refused ident connection.  *)
(* The C calls in progress are on the stack: connection_init_lookups       *)
(* ("init"), connection_lookup_hook ("walk"), which walks the list of      *)
(* connections and keeps pointers into it, and the resolver calling the    *)
(* hooks of a lookup that is finished ("finish").                          *)
(*                                                                         *)
(* One thing the resolver can do is left out.  A lookup that waits for     *)
(* its turn, of an address that does not parse, may be finished when the   *)
(* one of another connection is made (dns_lookup_send takes the first that *)
(* waits); here only the resolver's own events finish it.  A walk may then *)
(* lose its place: README says what comes of it.                           *)
(***************************************************************************)
EXTENDS Integers, Sequences, FiniteSets, SequencesExt, Queues

CONSTANTS
  Conns,     \* connection_t structures, each used for one connection
  Ips,       \* addresses
  BadIps,    \* addresses that do not parse when the query is built: "fe80::1%eth0"
  Hosts,     \* names
  BadHosts   \* names with characters that are not allowed in a host

None == "none"

ASSUME SetupAssumption ==
  /\ BadHosts \subseteq Hosts /\ BadIps \subseteq Ips /\ Hosts \cap Ips = {}
  /\ None \notin Conns \cup Hosts \cup Ips

PTR == "ptr"     \* IRCD_CONNFL_DNS_PTR
ADDR == "addr"   \* IRCD_CONNFL_DNS_ADDR
IDENT == "ident" \* IRCD_CONNFL_IDENT
DNS == {PTR, ADDR}

Lookups == [type : {"PTR"}, name : Ips] \cup [type : {"A"}, name : Hosts]
Answers == [host : Hosts \cup {None}, ips : SUBSET Ips]
AnswersTo(l) ==
  {a \in Answers : IF l.type = "PTR" THEN a.ips = {} /\ (l.name \in BadIps => a.host = None)
                                    ELSE a.host = None}
Failed == [host |-> None, ips |-> {}]

VARIABLES
  stage1,    \* ircd.connections.stage1
  stage2,    \* ircd.connections.stage2
  conn,      \* the fields of each connection
  freed,     \* structures that have been freed
  hooks,     \* times connection_lookup_hook is on the event of a lookup
  cache,     \* the cached answer to each lookup, a set of one or none
  ident,     \* requests of the ident module: not sent, sent
  stack,     \* calls in progress, innermost last
  fault      \* freed memory has been used

vars == <<stage1, stage2, conn, freed, hooks, cache, ident, stack, fault>>

\* proto: a protocol has been set.  proven: names whose forward lookup has
\* returned the address.
ConnType ==
  [ip : Ips, host : Ips \cup Hosts, flags : SUBSET (DNS \cup {IDENT}),
   proto : BOOLEAN, proven : SUBSET Hosts]

Frame ==
  [op : {"init"}, c : Conns, step : {"dns", "ident", "end"}] \cup
  [op : {"walk"}, l : Lookups, a : Answers, cur : Conns \cup {None},
   nxt : Conns \cup {None}, step : {"visit", "done"}] \cup
  [op : {"finish"}, l : Lookups, a : Answers, left : Nat]

\* Types: a connection has a host that is an address or a name, only
\* structures in use are freed, and one answer at most is cached for a lookup.
TypeOK ==
  /\ stage1 \in Seq(Conns) /\ stage2 \in Seq(Conns)
  /\ DOMAIN conn \subseteq Conns /\ conn \in [DOMAIN conn -> ConnType]
  /\ freed \subseteq DOMAIN conn
  /\ hooks \in [Lookups -> Nat]
  /\ cache \in [Lookups -> SUBSET Answers]
  /\ \A l \in Lookups : cache[l] \subseteq AnswersTo(l) /\ Cardinality(cache[l]) <= 1
  /\ ident \in [Conns -> {"no", "connecting", "asked"}]
  /\ stack \in Seq(Frame)
  /\ fault \in BOOLEAN

Top == Last(stack)
Calling(op) == ~fault /\ stack # <<>> /\ Top.op = op
Idle == ~fault /\ stack = <<>>
Alive(c) == c \notin freed
Replace(f) == Append(Front(stack), f)

\* LIST_NEXT, on whichever list c is now; None at its end.
NextIn(list, c) ==
  LET i == CHOOSE j \in DOMAIN list : list[j] = c
  IN IF i < Len(list) THEN list[i + 1] ELSE None
Next1(c) == IF Contains(stage1, c) THEN NextIn(stage1, c) ELSE NextIn(stage2, c)
Head1 == IF stage1 = <<>> THEN None ELSE Head(stage1)

\* connection_lookup_hook called with the answer of a lookup.
Walk(l, a) == [op |-> "walk", l |-> l, a |-> a, cur |-> Head1, nxt |-> None,
               step |-> "visit"]

\* IRCD_CONN_DONE, and IRCD_CONN_NEED_STAGE2: its flag is set nowhere.
Done(flags) == DNS \cup {IDENT} \subseteq flags

Init ==
  /\ stage1 = <<>> /\ stage2 = <<>>
  /\ conn = [c \in {} |-> None]
  /\ freed = {}
  /\ hooks = [l \in Lookups |-> 0]
  /\ cache = [l \in Lookups |-> {}]
  /\ ident = [c \in Conns |-> "no"]
  /\ stack = <<>>
  /\ fault = FALSE

-----------------------------------------------------------------------------
(* connection_stage2_done and destroy_connection.                          *)

\* Mutant of Moved: the connection is not taken off the list it is on.
MovedTwice(c) == /\ stage1' = stage1
                 /\ stage2' = Cons(c, Without(stage2, {c}))

Moved(c) == /\ stage1' = Without(stage1, {c})
            /\ stage2' = Cons(c, Without(stage2, {c}))

Destroy(c) == /\ stage1' = Without(stage1, {c})
              /\ stage2' = Without(stage2, {c})
              /\ freed' = freed \cup {c}

\* connection_stage2_done(c) for the fields cn: the stage2_connect hooks
\* refuse it, or it goes to stage 2 and gets the default protocol.
Stage2Done(c, cn) ==
  \/ /\ Destroy(c)
     /\ conn' = [conn EXCEPT ![c] = cn]
  \/ /\ Moved(c)
     /\ conn' = [conn EXCEPT ![c] = [cn EXCEPT !.proto = TRUE]]
     /\ UNCHANGED freed

\* The end of each hook: stage 2 if everything is there.
Proceed(c, cn) ==
  IF Done(cn.flags)
    THEN Stage2Done(c, cn)
    ELSE conn' = [conn EXCEPT ![c] = cn] /\ UNCHANGED <<stage1, stage2, freed>>

-----------------------------------------------------------------------------
(* ircd_listen_hook and connection_init_lookups.                           *)

\* Mutant of Accepted: the address is not written to the host.
AcceptedUnnamed(ip, skip) ==
  [ip |-> ip, host |-> None, flags |-> skip, proto |-> FALSE,
   proven |-> {}]

Accepted(ip, skip) ==
  [ip |-> ip, host |-> ip, flags |-> skip, proto |-> FALSE,
   proven |-> {}]

\* A connection the stage 1 check lets in; an ACL may skip the DNS lookup or
\* the ident request.  (One it refuses is destroyed at once.)
Accept(c, ip, skip) ==
  /\ Idle
  /\ c \notin DOMAIN conn
  /\ conn' = [d \in DOMAIN conn \cup {c} |->
                IF d = c THEN Accepted(ip, skip) ELSE conn[d]]
  /\ stage1' = Cons(c, stage1)
  /\ stack' = <<[op |-> "init", c |-> c, step |-> "dns"]>>
  /\ UNCHANGED <<stage2, freed, hooks, cache, ident, fault>>

\* dns_lookup(l, connection_lookup_hook), from the stack st: the hook is called
\* now, for a cached answer or because the query cannot be built, or later.
\* Where a failure is not kept, CacheExpires ends it at once.
DnsLookup(l, st) ==
  \/ \E a \in cache[l] : stack' = Append(st, Walk(l, a)) /\ UNCHANGED <<hooks, cache>>
  \/ /\ l.type = "PTR" /\ l.name \in BadIps /\ cache[l] = {} /\ hooks[l] = 0
     /\ stack' = Append(st, Walk(l, Failed))
     /\ cache' = [cache EXCEPT ![l] = {Failed}]
     /\ UNCHANGED hooks
  \/ /\ cache[l] = {}
     /\ stack' = st /\ hooks' = [hooks EXCEPT ![l] = @ + 1]
     /\ UNCHANGED cache

InitDns ==
  /\ Calling("init") /\ Top.step = "dns"
  /\ LET st == Replace([Top EXCEPT !.step = "ident"])
         cn == conn[Top.c]
     IN IF cn.flags \cap DNS = {}
          THEN DnsLookup([type |-> "PTR", name |-> cn.host], st)
          ELSE stack' = st /\ UNCHANGED <<hooks, cache>>
  /\ UNCHANGED <<stage1, stage2, conn, freed, ident, fault>>

\* What connection_ident_hook sets, with a user name or without.
Identified(cn, answered) == [cn EXCEPT !.flags = @ \cup {IDENT}]

\* check_ident: a request is made, or fails at once and connection_ident_hook
\* is called before check_ident returns.
InitIdent ==
  /\ Calling("init") /\ Top.step = "ident"
  /\ Alive(Top.c)
  /\ stack' = Replace([Top EXCEPT !.step = "end"])
  /\ LET cn == conn[Top.c]
     IN \/ /\ IDENT \in cn.flags
           /\ UNCHANGED <<stage1, stage2, conn, freed, ident>>
        \/ /\ IDENT \notin cn.flags
           /\ ident' = [ident EXCEPT ![Top.c] = "connecting"]
           /\ UNCHANGED <<stage1, stage2, conn, freed>>
        \/ /\ IDENT \notin cn.flags
           /\ IF Contains(stage1, Top.c)
                THEN Proceed(Top.c, Identified(cn, FALSE))
                ELSE UNCHANGED <<stage1, stage2, conn, freed>>
           /\ UNCHANGED ident
  /\ UNCHANGED <<hooks, cache, fault>>

InitEnd ==
  /\ Calling("init") /\ Top.step = "end"
  /\ Alive(Top.c)
  /\ Proceed(Top.c, conn[Top.c])
  /\ stack' = Front(stack)
  /\ UNCHANGED <<hooks, cache, ident, fault>>

-----------------------------------------------------------------------------
(* connection_lookup_hook.                                                 *)

\* The loop ends.
WalkEnds ==
  /\ Calling("walk") /\ Top.step = "visit" /\ Top.cur = None
  /\ stack' = Front(stack)
  /\ UNCHANGED <<stage1, stage2, conn, freed, hooks, cache, ident, fault>>

\* The connection the answer is for: it still waits for this kind of answer,
\* under this name.
Matches(l, cn) ==
  /\ cn.host = l.name
  /\ (l.type = "PTR") = (cn.flags \cap DNS = {})

Visiting == Calling("walk") /\ Top.step = "visit" /\ Top.cur # None /\ Alive(Top.cur)

Skip ==
  /\ Visiting
  /\ ~Matches(Top.l, conn[Top.cur])
  /\ stack' = Replace([Top EXCEPT !.cur = Next1(Top.cur)])
  /\ UNCHANGED <<stage1, stage2, conn, freed, hooks, cache, ident, fault>>

\* Mutant of Unnamed: the forward lookup is not marked as done.
UnnamedHalf(cn) == [cn EXCEPT !.flags = @ \cup {PTR}]

Unnamed(cn) == [cn EXCEPT !.flags = @ \cup DNS]

\* A reverse answer: no name and nothing more to look up, or a name whose
\* addresses are looked up next.
ReverseAnswer ==
  /\ Visiting
  /\ Top.l.type = "PTR" /\ Matches(Top.l, conn[Top.cur])
  /\ LET c == Top.cur
         st == Replace([Top EXCEPT !.nxt = Next1(c), !.step = "done"])
     IN IF Top.a.host = None
          THEN /\ conn' = [conn EXCEPT ![c] = Unnamed(@)]
               /\ stack' = st
               /\ UNCHANGED <<hooks, cache>>
          ELSE /\ conn' = [conn EXCEPT ![c].flags = @ \cup {PTR},
                                       ![c].host = Top.a.host]
               /\ DnsLookup([type |-> "A", name |-> Top.a.host], st)
  /\ UNCHANGED <<stage1, stage2, freed, ident, fault>>

\* Mutant of Confirms: the addresses of the answer are not compared.
ConfirmsAny(a, cn) == a.ips # {}

Confirms(a, cn) == cn.ip \in a.ips

\* A forward answer: the name stays if it leads back to the address and has
\* no bad character; otherwise the host is the address.
ForwardAnswer ==
  /\ Visiting
  /\ Top.l.type = "A" /\ Matches(Top.l, conn[Top.cur])
  /\ LET c == Top.cur
         cn == conn[c]
         host == IF Confirms(Top.a, cn) /\ cn.host \notin BadHosts
                   THEN cn.host ELSE cn.ip
         proven == IF cn.ip \in Top.a.ips THEN {Top.l.name} ELSE {}
     IN /\ conn' = [conn EXCEPT ![c].host = host,
                                ![c].flags = @ \cup (IF Confirms(Top.a, cn)
                                                     THEN {ADDR} ELSE DNS),
                                ![c].proven = @ \cup proven]
        /\ stack' = Replace([Top EXCEPT !.nxt = Next1(c), !.step = "done"])
  /\ UNCHANGED <<stage1, stage2, freed, hooks, cache, ident, fault>>

\* The end of the loop's body, after a nested hook has returned.
VisitEnds ==
  /\ Calling("walk") /\ Top.step = "done"
  /\ Alive(Top.cur)
  /\ Proceed(Top.cur, conn[Top.cur])
  /\ stack' = Replace([Top EXCEPT !.cur = Top.nxt, !.nxt = None, !.step = "visit"])
  /\ UNCHANGED <<hooks, cache, ident, fault>>

-----------------------------------------------------------------------------
(* The resolver, the ident module and the rest of the program.             *)

\* dns_lookup_finish: every hook on the lookup is called, ...
DnsFinish(l, a) ==
  /\ Idle
  /\ hooks[l] > 0
  /\ stack' = <<[op |-> "finish", l |-> l, a |-> a, left |-> hooks[l]]>>
  /\ UNCHANGED <<stage1, stage2, conn, freed, hooks, cache, ident, fault>>

DnsHook ==
  /\ Calling("finish") /\ Top.left > 0
  /\ stack' = Append(Replace([Top EXCEPT !.left = @ - 1]), Walk(Top.l, Top.a))
  /\ UNCHANGED <<stage1, stage2, conn, freed, hooks, cache, ident, fault>>

\* ... and the answer is kept or not.
DnsReturns(keep) ==
  /\ Calling("finish") /\ Top.left = 0
  /\ hooks' = [hooks EXCEPT ![Top.l] = 0]
  /\ cache' = [cache EXCEPT ![Top.l] = IF keep THEN {Top.a} ELSE {}]
  /\ stack' = Front(stack)
  /\ UNCHANGED <<stage1, stage2, conn, freed, ident, fault>>

CacheExpires(l) ==
  /\ Idle
  /\ cache[l] # {}
  /\ cache' = [cache EXCEPT ![l] = {}]
  /\ UNCHANGED <<stage1, stage2, conn, freed, hooks, ident, stack, fault>>

\* ident_socket_hook writes the ports of the connection, which it reads from
\* the addresses of its socket.
IdentWrite(c) ==
  /\ Idle
  /\ ident[c] = "connecting"
  /\ ident' = [ident EXCEPT ![c] = "asked"]
  /\ fault' = ~Alive(c)
  /\ UNCHANGED <<stage1, stage2, conn, freed, hooks, cache, stack>>

\* An answer, an error or ident_timer_hook: connection_ident_hook looks for the
\* connection in stage 1.
IdentEnds(c, answered) ==
  /\ Idle
  /\ ident[c] # "no" /\ (answered => ident[c] = "asked")
  /\ ident' = [ident EXCEPT ![c] = "no"]
  /\ IF Contains(stage1, c)
       THEN Proceed(c, Identified(conn[c], answered))
       ELSE UNCHANGED <<stage1, stage2, conn, freed>>
  /\ UNCHANGED <<hooks, cache, stack, fault>>

\* destroy_connection, for an operator, a module reload or a time-out, and the
\* registration that takes a connection out of stage 2.
Leaves(c) ==
  /\ Idle
  /\ Contains(stage1, c) \/ Contains(stage2, c)
  /\ Destroy(c)
  /\ UNCHANGED <<conn, hooks, cache, ident, stack, fault>>

\* A call in progress uses the connection it kept a pointer to.
UseAfterFree ==
  /\ \/ Calling("init") /\ ~Alive(Top.c)
     \/ Calling("walk") /\ Top.cur # None /\ ~Alive(Top.cur)
  /\ fault' = TRUE
  /\ UNCHANGED <<stage1, stage2, conn, freed, hooks, cache, ident, stack>>

CallStep ==
  \/ InitDns \/ InitIdent \/ InitEnd
  \/ WalkEnds \/ Skip \/ ReverseAnswer \/ ForwardAnswer \/ VisitEnds
  \/ DnsHook \/ (\E keep \in BOOLEAN : DnsReturns(keep))
  \/ UseAfterFree

Next ==
  \/ \E c \in Conns, ip \in Ips, skip \in SUBSET {"dns", "ident"} :
       Accept(c, ip, UNION {IF s = "dns" THEN DNS ELSE {IDENT} : s \in skip})
  \/ CallStep
  \/ \E l \in Lookups : CacheExpires(l) \/ \E a \in AnswersTo(l) : DnsFinish(l, a)
  \/ \E c \in Conns : 
       IdentWrite(c) \/ (\E answered \in BOOLEAN : IdentEnds(c, answered)) \/ Leaves(c)

Spec == Init /\ [][Next]_vars

-----------------------------------------------------------------------------
(* Properties.                                                             *)

\* A connection is on one of the two lists at most, once, and not when it has
\* been freed: whatever calls its hooks make before they return.
OnOneList ==
  /\ IsInjective(stage1) /\ IsInjective(stage2)
  /\ ToSet(stage1) \cap ToSet(stage2) = {}
  /\ (ToSet(stage1) \cup ToSet(stage2)) \cap freed = {}

\* connection_lookup_hook's comment: a connection whose lookups are done has
\* its address for a host, or a name that leads back to its address, though
\* answers meant for others of the same name pass over it too.
HostIsProven ==
  \A c \in DOMAIN conn :
    DNS \subseteq conn[c].flags =>
      conn[c].host = conn[c].ip \/ conn[c].host \in conn[c].proven

\* Stage 1 has no time-out of its own.  So between events each connection in
\* it waits for a lookup that its hook is on, or for an ident request.
NobodyForgotten ==
  Idle => \A c \in ToSet(stage1) :
    LET cn == conn[c]
    IN /\ cn.flags \cap DNS = {} => hooks[[type |-> "PTR", name |-> cn.ip]] > 0
       /\ cn.flags \cap DNS = {PTR} =>
            cn.host \in Hosts /\ hooks[[type |-> "A", name |-> cn.host]] > 0
       /\ IDENT \notin cn.flags => ident[c] # "no"
       /\ ~Done(cn.flags)

\* The lists of the stages have each connection where it is looked for,
\* stage 1 has none that nobody will take out of it, and a connection's host is
\* its address or a name that has been shown to lead back to it.
StagesSound == OnOneList /\ NobodyForgotten /\ HostIsProven
=============================================================================
