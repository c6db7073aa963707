------------------------------ MODULE Network ------------------------------
(***************************************************************************)
(* The tree of servers of an IRC network (modules/ircd: server.c, send.c,  *)
(* commands/server.c, commands/squit.c): every server keeps its own list   *)
(* of the servers it knows, with the parent of each, and the network is    *)
(* held together by SERVER and SQUIT messages alone.  Links come and go    *)
(* while the messages about earlier links are still under way.             *)
(*                                                                         *)
(* All links speak ithildin1, so all servers support NOQUIT and a split    *)
(* is announced by one SQUIT.  Names are distinct and are no masks.        *)
(***************************************************************************)
EXTENDS Integers, Sequences, FiniteSets, SequencesExt, Queues

CONSTANTS
    Servers,    \* the servers
    Peers,      \* Peers[s]: those s has a connect block for
    Hubs,       \* servers whose own configuration says "hub"
    Hubbings,   \* possible values of hubbed
    None,       \* no prefix on a message
    MaxConns    \* bound: connections made in a behaviour

ASSUME NetworkAssumption ==
    /\ Peers \in [Servers -> SUBSET Servers] /\ \A s \in Servers : s \notin Peers[s]
    /\ Hubs \subseteq Servers /\ Hubbings \subseteq SUBSET Servers
    /\ None \notin Servers
    /\ MaxConns \in Nat

VARIABLES
    made,   \* how many connections were made so far; they are numbered
    ends,   \* ends[s][c]: state of the end of connection c that s holds
    list,   \* list[s]: ircd.lists.servers at s, its head first
    wire,   \* wire[s][c]: what is on its way to s over c
    hubbed, \* servers others have a "hub" entry for: they may introduce servers
    opered  \* not in the code: the servers that an operator has split from afar, by their `via'
vars == <<made, ends, list, wire, hubbed, opered>>

Conns == 1..MaxConns

(* A server of the list: `conn' is its connection when it is linked to the *)
(* keeper of the list, 0 otherwise.  `via' is not in the code: it is the   *)
(* connection by which it joined its parent, which tells the incarnations  *)
(* of a server apart.                                                      *)
Entry == [name : Servers, parent : Servers, conn : 0..MaxConns, via : Conns]

(* `from' is the prefix; `via' is not on the wire: it says which           *)
(* incarnation is meant.                                                   *)
Message ==
    [cmd : {"SERVER", "SQUIT"}, from : Servers \cup {None}, name : Servers,
     via : Conns]
    \cup [cmd : {"OPERSQUIT"}, from : Servers, name : Servers]
    \cup [cmd : {"EOF"}]

EndStates == {"none", "accepted", "introduced", "registered", "closed"}

-----------------------------------------------------------------------------
(* Reading the list of a server s.  l is the list.                         *)

Names(l) == {l[i].name : i \in DOMAIN l}
EntryOf(l, x) == l[CHOOSE i \in DOMAIN l : l[i].name = x]

(* find_server *)
Finds(s, l, x) == x = s \/ x \in Names(l)

(* srv_uplink: the connection on the way to x *)
Uplink(s, l, x) ==
    LET up[y \in Names(l)] ==
            LET e == EntryOf(l, y) IN IF e.parent = s THEN e.conn ELSE up[e.parent]
    IN  up[x]

(* x and all behind it: what destroy_server removes *)
Behind(s, l, x) ==
    LET below[y \in Names(l)] ==
            \/ y = x
            \/ LET p == EntryOf(l, y).parent IN p # s /\ below[p]
    IN  {y \in Names(l) : below[y]}

(* server_sendnicks: the servers in the order of a walk from us outwards *)
Burst(s, l) ==
    LET after[x \in Names(l) \cup {s}] ==
            FlattenSeq([i \in DOMAIN l |->
                IF l[i].parent = x THEN <<l[i]>> \o after[l[i].name] ELSE <<>>])
    IN  after[s]

-----------------------------------------------------------------------------
(* What a handler at s does is computed on the part of the state that s    *)
(* owns, here: its list, its ends, and what it sends over each connection. *)

Here(s) == [list |-> list[s], ends |-> ends[s], out |-> [c \in Conns |-> <<>>]]

Registered(h) == {c \in Conns : h.ends[c] = "registered"}

SendTo(h, cs, m) == [h EXCEPT !.out = [c \in Conns |-> IF c \in cs THEN Append(@[c], m) ELSE @[c]]]

ServerMsg(from, e) == [cmd |-> "SERVER", from |-> from, name |-> e.name, via |-> e.via]
SquitMsg(from, e) == [cmd |-> "SQUIT", from |-> from, name |-> e.name, via |-> e.via]
EOF == [cmd |-> "EOF"]

Close(h, c) == [SendTo(h, {c}, EOF) EXCEPT !.ends[c] = "closed"]

\* Mutant of Dropped: the connection stays open.
NotDropped(h, e) == h

Dropped(h, e) == IF e.conn # 0 THEN Close(h, e.conn) ELSE h

(* destroy_server for a registered server: one SQUIT to everyone but the   *)
(* direction it lies in, and its connection is closed if it is ours        *)
Destroy(s, h, x) ==
    LET e == EntryOf(h.list, x)
        gone == Behind(s, h.list, x)
        told == SendTo(h, Registered(h) \ {Uplink(s, h.list, x)}, SquitMsg(None, e))
    IN  Dropped([told EXCEPT !.list = Without(@, {y \in ToSet(@) : y.name \in gone})], e)

\* Mutant of Listed: the server is put at the tail of the list.
ListedLast(l, e) == Append(l, e)

Listed(l, e) == <<e>> \o l

(* server_register *)
Register(s, h, e, c) ==
    [SendTo(h, Registered(h) \ {c}, ServerMsg(e.parent, e))
        EXCEPT !.list = Listed(@, e), !.ends[c] = "registered"]

(* server_introduce and server_establish on connection c *)
Introduce(s, h, c) ==
    SendTo(h, {c}, [cmd |-> "SERVER", from |-> None, name |-> s, via |-> c])
Establish(s, h, c) ==
    LET b == Burst(s, h.list)
    IN  [h EXCEPT !.out[c] = @ \o [i \in DOMAIN b |-> ServerMsg(b[i].parent, b[i])]]

(* The sender of a message, and the check for a "fake direction"           *)
Other(s, c) == CHOOSE t \in Servers \ {s} : ends[t][c] # "none"
Sender(s, c, m) == IF m.from = None THEN Other(s, c) ELSE m.from

\* Mutant of RightDirection: the sender has to be known, from wherever.
AnyDirection(s, h, c, m) == Finds(s, h.list, Sender(s, c, m))

RightDirection(s, h, c, m) ==
    LET o == Sender(s, c, m) IN o \in Names(h.list) /\ Uplink(s, h.list, o) = c

-----------------------------------------------------------------------------
(* The commands.  Each gives the part of the state that s owns afterwards. *)

\* Mutant of NewLink: the new server gets no parent.
Orphan(s, m, c) == [name |-> m.name, parent |-> None, conn |-> c, via |-> c]

NewLink(s, m, c) == [name |-> m.name, parent |-> s, conn |-> c, via |-> c]

(* SERVER from a link that has not registered yet *)
ServerNew(s, h, c, m) ==
    IF \/ Finds(s, h.list, m.name)
       \/ Cardinality(Registered(h)) > 1 /\ s \notin Hubs
    THEN Close(h, c)
    ELSE LET hello == IF h.ends[c] = "accepted" THEN Introduce(s, h, c) ELSE h
         IN  Register(s, Establish(s, hello, c), NewLink(s, m, c), c)

\* Mutant of AlreadyThere: the message is passed over.
PassedOver(s, h, c) == h

(* a server is introduced that is on the network: the link has to go *)
AlreadyThere(s, h, c) == Destroy(s, h, Other(s, c))

(* SERVER about one further away *)
ServerBehind(s, h, c, m) ==
    LET o == Sender(s, c, m) IN
    IF o = Other(s, c) /\ o \notin hubbed THEN Destroy(s, h, o)
    ELSE IF Finds(s, h.list, m.name) THEN AlreadyThere(s, h, c)
    ELSE Register(s, h, [name |-> m.name, parent |-> o, conn |-> 0, via |-> m.via], c)

\* Mutant of Towards: also when the target is linked to us.
TowardsTarget(s, h, e, m) == SendTo(h, {Uplink(s, h.list, e.name)}, m)

(* A SQUIT is passed on in the direction of its target. *)
Towards(s, h, e, m) ==
    IF e.conn # 0 THEN h ELSE SendTo(h, {Uplink(s, h.list, e.name)}, m)

(* SQUIT from a server *)
Squit(s, h, c, m) ==
    IF m.name \notin Names(h.list) THEN h
    ELSE LET e == EntryOf(h.list, m.name)
         IN  Destroy(s, Towards(s, h, e, SquitMsg(Sender(s, c, m), e)), m.name)

(* SQUIT from an operator, here or elsewhere: home is his server *)
OperSquit(s, h, home, x) ==
    LET m == [cmd |-> "OPERSQUIT", from |-> home, name |-> x]
    IN  Destroy(s, Towards(s, h, EntryOf(h.list, x), m), x)

(* the end of a connection, found by reading it: destroy_connection *)
Ended(s, h, c) ==
    IF h.ends[c] = "registered"
    THEN LET i == CHOOSE i \in DOMAIN h.list : h.list[i].conn = c
         IN  Destroy(s, h, h.list[i].name)
    ELSE Close(h, c)

(* packet_parse, command_exec_server and command_exec_client *)
Handle(s, h, c, m) ==
    CASE m.cmd = "EOF" -> Ended(s, h, c)
      [] m.cmd # "EOF" /\ h.ends[c] # "registered" ->
            IF m.cmd = "SERVER" /\ m.from = None THEN ServerNew(s, h, c, m) ELSE h
      [] m.cmd # "EOF" /\ h.ends[c] = "registered" ->
            IF ~RightDirection(s, h, c, m) THEN h
            ELSE CASE m.cmd = "SERVER" -> ServerBehind(s, h, c, m)
                   [] m.cmd = "SQUIT" -> Squit(s, h, c, m)
                   [] m.cmd = "OPERSQUIT" ->
                        IF m.name \in Names(h.list) THEN OperSquit(s, h, m.from, m.name) ELSE h

-----------------------------------------------------------------------------
(* Steps *)

(* The new state of s, and what it sent on the wires; what is sent to an   *)
(* end that is closed is lost, and an end that closes reads no more.       *)
Become(s, h, read) ==
    /\ list' = [list EXCEPT ![s] = h.list]
    /\ ends' = [ends EXCEPT ![s] = h.ends]
    /\ wire' = [t \in Servers |-> [c \in Conns |->
            IF t = s
            THEN IF h.ends[c] = "closed" THEN <<>>
                 ELSE IF c = read THEN Tail(wire[s][c]) ELSE wire[s][c]
            ELSE IF ends[t][c] \in {"none", "closed"} THEN wire[t][c]
                 ELSE wire[t][c] \o h.out[c]]]

Init ==
    /\ made = 0
    /\ ends = [s \in Servers |-> [c \in Conns |-> "none"]]
    /\ list = [s \in Servers |-> <<>>]
    /\ wire = [s \in Servers |-> [c \in Conns |-> <<>>]]
    /\ hubbed \in Hubbings
    /\ opered = {}

(* server_connect and, once connected, server_connecting_hook: by the      *)
(* timer or by CONNECT, for a server that is not on the network.  The      *)
(* other side has accepted the connection and waits for a name.            *)
Connect(s, t) ==
    /\ made < MaxConns
    /\ t \in Peers[s]
    /\ ~Finds(s, list[s], t)
    /\ LET c == made + 1 IN
       /\ made' = c
       /\ ends' = [ends EXCEPT ![s][c] = "introduced", ![t][c] = "accepted"]
       /\ wire' = [wire EXCEPT ![t][c] =
                        Introduce(s, Here(s), c).out[c]]
    /\ UNCHANGED <<list, hubbed, opered>>

(* the data hook reads the next message *)
Receive(s, c) ==
    /\ wire[s][c] # <<>>
    /\ Become(s, Handle(s, Here(s), c, Head(wire[s][c])), c)
    /\ UNCHANGED <<made, hubbed, opered>>

(* a read error, a ping timeout, a full send queue, SQUIT of one of ours *)
LinkFails(s, c) ==
    /\ ends[s][c] \in {"accepted", "introduced", "registered"}
    /\ Become(s, Ended(s, Here(s), c), 0)
    /\ UNCHANGED <<made, hubbed, opered>>

(* what was sent before a connection closed may not arrive *)
Lose(s, c) ==
    LET n == Len(wire[s][c]) IN
    /\ n > 1 /\ wire[s][c][n] = EOF
    /\ wire' = [wire EXCEPT ![s][c] = SubSeq(@, 1, n - 2) \o <<EOF>>]
    /\ UNCHANGED <<made, ends, list, hubbed, opered>>

(* an operator of s splits a server that is not linked to s *)
RemoteSquit(s, x) ==
    /\ x \in Names(list[s]) /\ EntryOf(list[s], x).conn = 0
    /\ Become(s, OperSquit(s, Here(s), s, x), 0)
    /\ opered' = opered \cup {EntryOf(list[s], x).via}
    /\ UNCHANGED <<made, hubbed>>

Next ==
    \/ \E s, t \in Servers : Connect(s, t) \/ RemoteSquit(s, t)
    \/ \E s \in Servers, c \in Conns : Receive(s, c) \/ LinkFails(s, c) \/ Lose(s, c)

Spec == Init /\ [][Next]_vars

-----------------------------------------------------------------------------
(* Properties *)

TypeOK ==
    /\ made \in 0..MaxConns
    /\ ends \in [Servers -> [Conns -> EndStates]]
    /\ list \in [Servers -> Seq(Entry)]
    /\ wire \in [Servers -> [Conns -> Seq(Message)]]
    /\ hubbed \in Hubbings /\ opered \subseteq Conns

(* A server is listed once and never at itself, and behind its parent:     *)
(* destroy_server keeps the next element while it removes all behind one,  *)
(* which is safe only if none of them is further down the list.            *)
ParentsLaterInList ==
    \A s \in Servers : \A i \in DOMAIN list[s] :
        LET e == list[s][i] IN
        /\ e.name # s
        /\ \A j \in DOMAIN list[s] : list[s][j].name = e.name => i = j
        /\ \/ e.parent = s /\ e.conn # 0
           \/ e.conn = 0 /\ \E j \in i + 1 .. Len(list[s]) : list[s][j].name = e.parent

(* A connection of ircd.connections.servers belongs to exactly one server  *)
(* of the list, and every server of the list with a connection to one.     *)
LinksAreListed ==
    \A s \in Servers, c \in Conns :
        ends[s][c] = "registered" <=>
            \E i \in DOMAIN list[s] : list[s][i].conn = c

(* When nothing is under way every server knows exactly the servers it is  *)
(* linked with over others, and they form a tree: as many links as servers *)
(* less one.                                                               *)
Quiet == \A s \in Servers, c \in Conns : wire[s][c] = <<>>
Linked(s, t) == \E c \in Conns : s # t /\ ends[s][c] = "registered" /\ ends[t][c] = "registered"
Links(ts) == {c \in Conns : \E t \in ts : ends[t][c] = "registered"}
QuietAgrees == Quiet =>
    \A s \in Servers :
        /\ \A c \in Conns : ends[s][c] \in {"none", "registered", "closed"}
        /\ \A t \in Servers : Linked(s, t) => t \in Names(list[s])
        /\ Cardinality(Links(Names(list[s]) \cup {s})) = Cardinality(Names(list[s]))
        /\ \A t \in Names(list[s]) :
              /\ Names(list[t]) \cup {t} = Names(list[s]) \cup {s}
              /\ Linked(EntryOf(list[s], t).parent, t)
              /\ EntryOf(list[s], t).via = EntryOf(list[t], EntryOf(list[s], t).parent).via

(* A SQUIT that is acted upon removes the server it was sent about and not *)
(* one of the same name that linked again since, unless it is about the very   *)
(* server that an operator elsewhere has split, whose SQUIT overtakes it.  *)
Accepted(s, c, m) ==
    ends[s][c] = "registered" /\ m.cmd # "EOF" /\ RightDirection(s, Here(s), c, m)
SquitsAreCurrent ==
    \A s \in Servers, c \in Conns : wire[s][c] # <<>> =>
        LET m == Head(wire[s][c]) IN
        Accepted(s, c, m) /\ m.cmd = "SQUIT" /\ m.via \notin opered /\ m.name \in Names(list[s])
            => EntryOf(list[s], m.name).via = m.via

(* An operator's SQUIT never reaches the server it names: the handler would*)
(* destroy the server's own structure.                                     *)
NeverSplitsItself ==
    \A s \in Servers, c \in Conns : wire[s][c] # <<>> =>
        LET m == Head(wire[s][c]) IN
        ~(Accepted(s, c, m) /\ m.cmd = "OPERSQUIT" /\ m.name = s)

(* The list is the tree that destroy_server, which removes what is behind  *)
(* a server, and the senders, which ask for uplinks, take it for.          *)
TreeSound ==
    /\ ParentsLaterInList
    /\ LinksAreListed
    /\ NeverSplitsItself

(* What is removed from a list is what somebody meant, and when all is     *)
(* delivered the servers have one view of the network.                     *)
ViewsAgree == SquitsAreCurrent /\ QuietAgrees
=============================================================================
