------------------------------ MODULE Streams ------------------------------
(***************************************************************************)
(* What goes through the sockets of registered connections: the sockets    *)
(* and the poller of source/socket.c and source/poller_poll.c, the main    *)
(* loop of source/main.c around them, and in modules/ircd the send queues, *)
(* the data hook and the writer of connection.c, and the functions of      *)
(* send.c that send to many.                                               *)
(*                                                                         *)
(* A connection and its socket have one name, an element of Socks: the     *)
(* structure isocket_t, that outlives the connection until it is reaped.   *)
(* A message is its number among those queued for the connection, and is   *)
(* Size units long; the peer takes as many units as there is room.  How a  *)
(* connection gets registered is in ConnectionSetup, SSL is left out.      *)
(***************************************************************************)
EXTENDS Integers, Sequences, FiniteSets, SequencesExt, FiniteSetsExt

CONSTANTS
    Socks,         \* isocket_t structures of connections
    Oldest,        \* the two of them that are open at the start
    Listener,      \* that of the listener, that accepts them
    None,          \* NULL
    Fds,           \* descriptors below maxsockets
    NoFd,          \* -1
    Size,          \* units of a message
    Window,        \* units that fit on the way to a peer
    Limit,         \* class_t.sendq
    Burst,         \* messages of the burst to a server
    MaxArrivals,   \* connections accepted in a run
    MaxInput,      \* commands and departures of peers in a run
    MaxReloads     \* reloads of a run

ASSUME StreamsAssumption ==
    /\ Oldest \in Socks \X Socks /\ Oldest[1] # Oldest[2]
    /\ Fds \subseteq Nat /\ NoFd \notin Fds /\ Listener \notin Socks /\ None \notin Socks \cup {Listener}
    /\ Size \in Nat \ {0} /\ Window \in Nat \ {0} /\ Limit \in Nat /\ Burst \in Nat
    /\ MaxArrivals \in Nat /\ MaxInput \in Nat /\ MaxReloads \in Nat

VARIABLES
    all,       \* allsockets
    sock,      \* the isocket_t of each name
    pollfds,   \* by fd: what is monitored, and what the last poll found
    conn,      \* the connection_t of each name that is in clients or servers
    order,     \* the lists ircd.connections.clients and .servers
    sends,     \* ircd.sends
    peer,      \* what the other side of a socket has and does
    phase,     \* where the main loop is, the socket it visits, those poll was asked about
    count,     \* how much of the bounds of the run is used
    due        \* messages that a connection should have got

vars == <<all, sock, pollfds, conn, order, sends, peer, phase, count, due>>

Kinds == {"client", "server"}
Message == [no : Nat, offset : 0 .. Size - 1]
Sock == [state : {"free", "open", "dead"}, fd : Fds \cup {NoFd}, want : SUBSET {"read", "write"},
         pending : SUBSET {"read", "write", "error"}]
Command == {"say", "mask", "topic", "quit", "kill"}

Open(s) == sock[s].state = "open"

NoSock == [state |-> "free", fd |-> NoFd, want |-> {}, pending |-> {}]
NoConn == [sendq |-> <<>>, sent |-> 0, writeable |-> FALSE, nosendq |-> FALSE]
NoPeer == [got |-> <<>>, read |-> 0, gone |-> TRUE, input |-> <<>>]
Nothing ==
    [all |-> <<>>, sock |-> [s \in Socks |-> NoSock],
     pollfds |-> [fd \in Fds |-> [events |-> {}, revents |-> {}]],
     conn |-> [s \in Socks |-> NoConn], order |-> [clients |-> <<>>, servers |-> <<>>],
     sends |-> [fd \in Fds |-> FALSE], peer |-> [s \in Socks |-> NoPeer], due |-> [s \in Socks |-> 0]]

-----------------------------------------------------------------------------
(* socket.c.  A handler works on a record h of the state so far            *)

Here == [all |-> all, sock |-> sock, pollfds |-> pollfds, conn |-> conn, order |-> order,
         sends |-> sends, peer |-> peer, due |-> due]
Becomes(h) ==
    /\ all' = h.all /\ sock' = h.sock /\ pollfds' = h.pollfds /\ conn' = h.conn
    /\ order' = h.order /\ sends' = h.sends /\ peer' = h.peer /\ due' = h.due

(* socket_monitor, socket_unmonitor, as their callers outside call them    *)
Monitor(h, s, mask) ==
    [h EXCEPT !.sock[s].want = @ \cup mask, !.pollfds[h.sock[s].fd].events = @ \cup mask]
Unmonitor(h, s, mask) ==
    [h EXCEPT !.sock[s].want = @ \ mask, !.pollfds[h.sock[s].fd].events = @ \ mask]

(* socket_accept and create_socket: at the head of allsockets              *)
\* Mutant: at the end.
CreateLast(h, s, fd) ==
    [h EXCEPT !.all = Append(@, s),
              !.sock[s] = [state |-> "open", fd |-> fd, want |-> {}, pending |-> {}]]
Create(h, s, fd) ==
    [h EXCEPT !.all = <<s>> \o @,
              !.sock[s] = [state |-> "open", fd |-> fd, want |-> {}, pending |-> {}]]

(* destroy_socket and close_socket: reaped later, but the fd is free now   *)
\* Mutant: not closed.
Leaked(h, s) == [Unmonitor(h, s, {"read", "write"}) EXCEPT !.sock[s].state = "dead"]
Destroy(h, s) == [Unmonitor(h, s, {"read", "write"}) EXCEPT !.sock[s].fd = NoFd, !.sock[s].state = "dead"]

(* socket_write of n units: how many are taken, and the state afterwards   *)
Taken(h, s, n) == IF h.peer[s].gone THEN 0 ELSE Min({n, Window - Len(h.peer[s].got) + h.peer[s].read})
Written(h, s, units) ==
    LET n == Taken(h, s, Len(units))
        w == [h EXCEPT !.peer[s].got = @ \o SubSeq(units, 1, n)]
        again == Monitor([w EXCEPT !.sock[s].pending = @ \ {"write"}], s, {"write"})
    IN IF h.peer[s].gone THEN [h EXCEPT !.sock[s].pending = @ \cup {"error"}]
       ELSE IF n < Len(units) /\ "write" \in h.sock[s].want THEN again
       ELSE w

-----------------------------------------------------------------------------
(* Send queues                                                             *)

Units(m) == [i \in 1 .. Size - m.offset |-> <<m.no, m.offset + i>>]

(* sendq_push                                                              *)
Push(h, c) ==
    [h EXCEPT !.conn[c].sendq = Append(@, [no |-> h.conn[c].sent + 1, offset |-> 0]),
              !.conn[c].sent = @ + 1]

(* The loop of sendq_flush: a message that was not taken whole stays, with *)
(* an offset                                                               *)
\* Mutant: it is taken off the queue.
Popped(h, c, n) == [h EXCEPT !.conn[c].sendq = Tail(@)]
\* Mutant: the connection is not writeable any more.
Stalled(h, c, n) ==
    IF n = Size - Head(h.conn[c].sendq).offset THEN [h EXCEPT !.conn[c].sendq = Tail(@)]
    ELSE [h EXCEPT !.conn[c].sendq[1].offset = @ + n, !.conn[c].writeable = FALSE]
Kept(h, c, n) ==
    IF n = Size - Head(h.conn[c].sendq).offset THEN [h EXCEPT !.conn[c].sendq = Tail(@)]
    ELSE [h EXCEPT !.conn[c].sendq[1].offset = @ + n]
WriteHead(g, c) ==
    LET h == g.state
        units == Units(Head(h.conn[c].sendq))
        n == Taken(h, c, Len(units))
        w == Written(h, c, units)
    IN IF g.stop \/ h.conn[c].sendq = <<>> THEN g
       ELSE [state |-> IF n = 0 THEN w ELSE Kept(w, c, n), stop |-> n < Len(units)]
Pushed(h, c) ==
    IF ~h.conn[c].writeable THEN h
    ELSE FoldLeft(LAMBDA g, i : WriteHead(g, c), [state |-> h, stop |-> FALSE],
                  [i \in 1 .. Len(h.conn[c].sendq) |-> i]).state

(* ... and its end: the limit, which a burst may exceed until it is sent   *)
\* Mutant: it may for ever.
Unlimited(h, c) == h
Relimited(h, c) == [h EXCEPT !.conn[c].nosendq = @ /\ h.conn[c].sendq # <<>>]
Exceeded(h, c) == ~h.conn[c].nosendq /\ Len(h.conn[c].sendq) > Limit

-----------------------------------------------------------------------------
(* send.c.  Everyone is in one channel, with two users behind a server     *)

All(h) == ToSet(h.order.clients) \cup ToSet(h.order.servers)
Users(h) == h.order.clients \o h.order.servers \o h.order.servers

\* CLEAR_SEND_TEMPS
Clear(h) == [h EXCEPT !.sends = [fd \in Fds |-> FALSE]]

(* sendto_serv_butone                                                      *)
ToServers(h, one) ==
    LET to == SelectSeq(h.order.servers, LAMBDA d : d # one)
    IN Clear(FoldLeft(LAMBDA g, d : [Push(g, d) EXCEPT !.due[d] = @ + 1], h, to))

(* The walk of sendto_channel_butone and sendto_common_channels: once for  *)
(* each fd, however many users are behind it                               *)
\* Mutant: the fd is not marked.
Unmarked(h, c) == Push(h, c)
Marked(h, c) == [Push(h, c) EXCEPT !.sends[h.sock[c].fd] = TRUE]
ToUsers(h, users) ==
    LET d == [h EXCEPT !.due = [c \in Socks |-> h.due[c] + IF c \in ToSet(users) THEN 1 ELSE 0]]
    IN Clear(FoldLeft(LAMBDA g, c : IF g.sends[g.sock[c].fd] THEN g ELSE Marked(g, c), d, users))

ToChannelBut(h, one) == ToUsers(h, SelectSeq(Users(h), LAMBDA c : c # one))
ToOne(h, c) == [Push(h, c) EXCEPT !.due[c] = @ + 1]

(* sendto_match_butone, of a mask that all match.  The callers except      *)
(* nobody, and so it goes back where it came from, too                     *)
ToMatch(h) == ToUsers(h, Users(h))

(* sendto_channel_local, that marks nothing                                *)
ToLocal(h) == Clear(FoldLeft(LAMBDA g, c : ToOne(g, c), h, h.order.clients))

-----------------------------------------------------------------------------
(* Destruction                                                             *)

(* The end of destroy_connection: an ERROR if nothing waits before it      *)
\* Mutant: an ERROR in any case.
Interrupts(h, c) == TRUE
MaySay(h, c) == h.conn[c].sendq = <<>>
Freed(h, c) ==
    LET w == IF MaySay(h, c) THEN Written(h, c, <<"ERROR">>) ELSE h
        gone == SelectSeq(h.order.clients, LAMBDA d : d # c)
    IN [Destroy(w, c) EXCEPT !.order = [clients |-> gone,
                                        servers |-> SelectSeq(@.servers, LAMBDA d : d # c)],
                             !.conn[c].sendq = <<>>]

(* destroy_client, of a client with a connection; one server may know      *)
(* already.  Then the last flush, and it goes whether or not that finds    *)
(* the queue too long                                                      *)
ClientGone(h, c, one) ==
    LET q == ToServers(h, one)
        m == [q EXCEPT !.sends[q.sock[c].fd] = TRUE]
        u == ToUsers(m, SelectSeq(m.order.clients, LAMBDA d : d # c))
    IN Freed(Relimited(Pushed(u, c), c), c)

(* destroy_server, of one that supports NOQUIT as all others do: its users *)
(* quit, then it is split                                                  *)
ServerGone(h, c) ==
    LET quit(g) == ToUsers(Clear(g), g.order.clients)
        s == ToServers(quit(quit(h)), c)
    IN Freed(Relimited(Pushed(s, c), c), c)

(* destroy_connection                                                      *)
Gone(h, c) == IF c \in ToSet(h.order.clients) THEN ClientGone(h, c, None) ELSE ServerGone(h, c)

(* sendq_flush                                                             *)
Flush(h, c) ==
    LET f == Relimited(Pushed(h, c), c)
    IN IF Exceeded(Pushed(h, c), c) THEN Gone(f, c) ELSE f

-----------------------------------------------------------------------------
(* Events                                                                  *)

(* packet_parse: a command of c, or of a user behind it                    *)
Killed(h, c) ==
    LET victims == SelectSeq(h.order.clients, LAMBDA d : d # c)
    IN FoldLeft(LAMBDA g, d : ClientGone(ToOne(g, d), d, c), h, victims)
Execute(h, c, command) ==
    CASE command = "say" -> ToChannelBut(h, c)
      [] command = "mask" -> ToMatch(h)
      [] command = "topic" -> ToServers(ToLocal(h), c)
      [] command = "quit" -> Gone(h, c)
      [] command = "kill" -> Killed(h, c)

(* The protocol's input function: all that has come is read, unless a      *)
(* command closes the connection; at the end of it the peer may be gone    *)
Input(h, c) ==
    LET r == FoldLeft(LAMBDA g, command : IF g.sock[c].state = "open" THEN Execute(g, c, command) ELSE g,
                      h, h.peer[c].input)
    IN [r EXCEPT !.peer[c].input = <<>>,
                 !.sock[c].pending = IF h.peer[c].gone THEN @ \cup {"error"} ELSE @]

(* ircd_connection_datahook, then the end of socket_event                  *)
DataHook(h, c) ==
    LET i == IF "read" \in h.sock[c].pending THEN Input(h, c) ELSE h
        w == IF "write" \in i.sock[c].pending THEN [i EXCEPT !.conn[c].writeable = TRUE] ELSE i
        told == IF c \in ToSet(w.order.servers) THEN ToServers(w, c) ELSE w
        e == IF "error" \in w.sock[c].pending THEN Gone(told, c) ELSE w
    IN [(IF i.sock[c].state = "open" THEN e ELSE i) EXCEPT !.sock[c].pending = {}]

(* ircd_listen_hook, up to the registration of the connection; a server    *)
(* has its burst to be sent                                                *)
Registered(h, s, fd, kind) ==
    LET burst == IF kind = "server" THEN Burst ELSE 0
        r == [Monitor(Create(h, s, fd), s, {"read", "write"})
                EXCEPT !.conn[s] = [sendq |-> [i \in 1 .. burst |-> [no |-> i, offset |-> 0]], sent |-> burst,
                                    writeable |-> FALSE, nosendq |-> kind = "server"],
                       !.due[s] = burst,
                       !.peer[s] = [got |-> <<>>, read |-> 0, gone |-> FALSE, input |-> <<>>]]
    IN IF kind = "client" THEN [r EXCEPT !.order.clients = <<s>> \o @]
       ELSE [r EXCEPT !.order.servers = <<s>> \o @]

-----------------------------------------------------------------------------
(* The main loop                                                           *)

(* poll_sockets: what is ready of what is monitored; or poll returns       *)
(* early, and nobody is visited                                            *)
Ready(s) ==
    (IF peer[s].input # <<>> \/ peer[s].gone THEN {"read"} ELSE {})
        \cup (IF Len(peer[s].got) - peer[s].read < Window THEN {"write"} ELSE {})
Found(fd) ==
    LET on == {s \in Socks : Open(s) /\ sock[s].fd = fd}
        failed(s) == IF peer[s].gone /\ pollfds[fd].events # {} THEN {"error"} ELSE {}
    IN UNION {(Ready(s) \cap pollfds[fd].events) \cup failed(s) : s \in on}
Poll ==
    /\ phase.at = "poll"
    /\ pollfds' = [fd \in Fds |-> [pollfds[fd] EXCEPT !.revents = Found(fd)]]
    /\ phase' = [at |-> "walk", next |-> Head(all), asked |-> {s \in Socks : Open(s)}]
    /\ UNCHANGED <<all, sock, conn, order, sends, peer, count, due>>
Interrupted ==
    /\ phase.at = "poll" /\ phase' = [phase EXCEPT !.at = "reap"]
    /\ UNCHANGED <<all, sock, pollfds, conn, order, sends, peer, count, due>>

(* The walk goes on to the socket that is next in the list by now          *)
After(list, s) ==
    LET i == CHOOSE i \in DOMAIN list : list[i] = s
    IN IF i = Len(list) THEN None ELSE list[i + 1]
Onward ==
    phase' = IF After(all', phase.next) = None THEN [at |-> "reap", next |-> None, asked |-> {}]
             ELSE [phase EXCEPT !.next = After(all', phase.next)]

(* One socket of the walk: what is pending is what poll found, and what a  *)
(* write left since                                                        *)
Revents(s) == pollfds[sock[s].fd].revents
Visit(s) ==
    /\ phase.at = "walk" /\ phase.next = s
    /\ IF ~Open(s) \/ sock[s].pending \cup Revents(s) = {} THEN Becomes(Here)
       ELSE LET p == [Here EXCEPT !.sock[s].pending = @ \cup Revents(s)]
                u == IF "write" \in Revents(s) THEN Unmonitor(p, s, {"write"}) ELSE p
            IN Becomes(DataHook(u, s))
    /\ Onward
    /\ UNCHANGED count

(* The listener's hook, for one connection of those that wait, and when it *)
(* returns.  The new fd is the first that is not used, perhaps one that    *)
(* was closed a moment ago                                                 *)
Accept(s, kind) ==
    /\ phase.at = "walk" /\ phase.next = Listener
    /\ sock[s].state = "free" /\ count.arrivals < MaxArrivals
    /\ LET unused == {fd \in Fds : \A t \in Socks : sock[t].fd # fd}
       IN unused # {} /\ Becomes(Registered(Here, s, Min(unused), kind))
    /\ count' = [count EXCEPT !.arrivals = @ + 1]
    /\ UNCHANGED phase
Accepted ==
    /\ phase.at = "walk" /\ phase.next = Listener
    /\ Becomes(Here) /\ Onward
    /\ UNCHANGED count

(* reap_dead_sockets                                                       *)
Reap ==
    LET dead == {s \in Socks : sock[s].state = "dead"}
    IN /\ phase.at = "reap"
       /\ all' = SelectSeq(all, LAMBDA s : s \notin dead)
       /\ sock' = [s \in Socks |-> IF s \in dead THEN NoSock ELSE sock[s]]
       /\ conn' = [s \in Socks |-> IF s \in dead THEN NoConn ELSE conn[s]]
       /\ peer' = [s \in Socks |-> IF s \in dead THEN NoPeer ELSE peer[s]]
       /\ due' = [s \in Socks |-> IF s \in dead THEN 0 ELSE due[s]]
       /\ phase' = [phase EXCEPT !.at = "write"]
       /\ UNCHANGED <<pollfds, order, sends, count>>

(* ircd_writer_hook, the hook of me.events.afterpoll                       *)
Write ==
    /\ phase.at = "write"
    /\ Becomes(FoldLeft(LAMBDA h, c : Flush(h, c), Here, order.clients \o order.servers))
    /\ phase' = [phase EXCEPT !.at = "poll"]
    /\ UNCHANGED count

(* ircd_reload_hook: the new sends is not cleared                          *)
Reload(garbage) ==
    /\ phase.at = "poll" /\ count.reloads < MaxReloads
    /\ sends' = garbage
    /\ count' = [count EXCEPT !.reloads = @ + 1]
    /\ UNCHANGED <<all, sock, pollfds, conn, order, peer, phase, due>>

-----------------------------------------------------------------------------
(* The other side                                                          *)

Sends(s, command) ==
    /\ Open(s) /\ ~peer[s].gone /\ count.input < MaxInput /\ phase.at = "poll"
    /\ peer' = [peer EXCEPT ![s].input = Append(@, command)]
    /\ count' = [count EXCEPT !.input = @ + 1]
    /\ UNCHANGED <<all, sock, pollfds, conn, order, sends, phase, due>>
Reads(s) ==
    /\ Open(s) /\ peer[s].read < Len(peer[s].got) /\ phase.at = "poll"
    /\ peer' = [peer EXCEPT ![s].read = Len(peer[s].got)]
    /\ UNCHANGED <<all, sock, pollfds, conn, order, sends, phase, count, due>>
Leaves(s) ==
    /\ Open(s) /\ ~peer[s].gone /\ count.input < MaxInput /\ phase.at = "poll"
    /\ peer' = [peer EXCEPT ![s].gone = TRUE]
    /\ count' = [count EXCEPT !.input = @ + 1]
    /\ UNCHANGED <<all, sock, pollfds, conn, order, sends, phase, due>>

(* Two connections, one of them older than the listener, that a rehash     *)
(* opened                                                                  *)
Started(kinds) ==
    LET fd == Min(Fds)
        older == Registered(Nothing, Oldest[1], fd, kinds[1])
    IN [Registered(older, Oldest[2], Min(Fds \ {fd}), kinds[2])
          EXCEPT !.all = <<Oldest[2], Listener, Oldest[1]>>]

Init ==
    /\ \E h \in {Started(kinds) : kinds \in Kinds \X Kinds} :
        /\ all = h.all /\ sock = h.sock /\ pollfds = h.pollfds /\ conn = h.conn
        /\ order = h.order /\ sends = h.sends /\ peer = h.peer /\ due = h.due
    /\ phase = [at |-> "poll", next |-> None, asked |-> {}]
    /\ count = [arrivals |-> 0, input |-> 0, reloads |-> 0]

Next ==
    \/ Poll \/ Interrupted \/ Accepted \/ Reap \/ Write
    \/ \E s \in Socks :
        \/ Visit(s)
        \/ \E kind \in Kinds : Accept(s, kind)
        \/ \E command \in Command : Sends(s, command)
        \/ Reads(s) \/ Leaves(s)
    \/ \E garbage \in [Fds -> BOOLEAN] : Reload(garbage)

Spec == Init /\ [][Next]_vars

-----------------------------------------------------------------------------
(* Properties                                                              *)

(* Types of the structures; a connection in the lists has an open socket,  *)
(* the only one with its fd.                                               *)
TypeOK ==
    /\ sock \in [Socks -> Sock] /\ sends \in [Fds -> BOOLEAN]
    /\ \A c \in Socks : ToSet(conn[c].sendq) \subseteq Message
    /\ All(Here) = {s \in Socks : Open(s)} /\ IsInjective(all)
    /\ \A s \in Socks : Open(s) <=> sock[s].fd # NoFd
    /\ \A s, t \in Socks : Open(s) /\ Open(t) /\ s # t => sock[s].fd # sock[t].fd

(* What a peer has got is the messages queued for it, each whole and once, *)
(* in order, and the last perhaps in part; what is yet to come is in the   *)
(* queue.  A closing ERROR comes after a whole message only.               *)
InOrder ==
    \A c \in Socks :
        LET got == peer[c].got
            text == IF got # <<>> /\ Last(got) = "ERROR" THEN Front(got) ELSE got
        IN /\ \A i \in DOMAIN text : text[i] = <<1 + ((i - 1) \div Size), 1 + ((i - 1) % Size)>>
           /\ text # got => Len(text) = conn[c].sent * Size
           /\ Open(c) => conn[c].sent * Size = Len(got)
                  + FoldLeft(LAMBDA n, m : n + Size - m.offset, 0, conn[c].sendq)

(* The events that the walk finds for a socket are the socket's own: none  *)
(* is told those of another whose fd it has got since poll, though they    *)
(* stay in pollfds until the next.                                         *)
EventsAreOwn ==
    \A s \in Socks : phase.at = "walk" /\ phase.next = s /\ Open(s) /\ Revents(s) # {} => s \in phase.asked

(* After the writer, no queue is longer than its class allows, but for the *)
(* quits of connections that the writer closed after it came to this one,  *)
(* and that of a server whose burst has never been sent to the end.        *)
QueuesBounded ==
    LET closed == Cardinality({s \in Socks : sock[s].state = "dead"})
    IN phase.at = "poll" => \A c \in All(Here) :
        /\ Len(conn[c].sendq) > Limit + 2 * closed => conn[c].nosendq
        /\ conn[c].nosendq => conn[c].sendq # <<>>

(* A message for many goes once to each connection it is meant for, with   *)
(* one user behind it or more; only the first one after a reload may be    *)
(* lost, and that in part.                                                 *)
OneCopyEach == \A c \in All(Here) : due[c] - conn[c].sent \in 0 .. count.reloads

(* No wakeup is lost: when the loop goes to poll, a connection with a queue *)
(* is one that the writer tries at every turn, or one whose fd is watched  *)
(* for room.  The poller stops watching when it has found room once.       *)
NoLostWakeup ==
    phase.at = "poll" => \A c \in All(Here) :
        conn[c].sendq # <<>> => conn[c].writeable \/ "write" \in pollfds[sock[c].fd].events

(* The peers get what is meant for them, in order, all and once.           *)
Delivered == InOrder /\ OneCopyEach

(* Sockets are told what is theirs, and queues stay within their limits    *)
(* and are worked off.                                                     *)
LoopSound == EventsAreOwn /\ QueuesBounded /\ NoLostWakeup
=============================================================================
