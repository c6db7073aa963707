------------------------------ MODULE Clients ------------------------------
(***************************************************************************)
(* Clients of a network of ithildin servers (modules/ircd/client.c and the *)
(* commands NICK, USER, QUIT, KILL, SVSNICK and SVSKILL): registration,    *)
(* nicknames and their hash, collisions, and the history of nicknames that *)
(* a KILL is chased through.                                               *)
(*                                                                         *)
(* Servers 1 .. N are linked in a line.  A message names its sender and its*)
(* victim by nickname, and each server looks them up when it arrives, so   *)
(* nicknames that change hands meanwhile can mislead it.  The fields "user"*)
(* of messages say who was meant; no step of a server depends on them but  *)
(* the introduction of a client.  Splits, which Network and Channels model,*)
(* do not happen here: a structure is used for one client, once.           *)
(***************************************************************************)
EXTENDS Integers, Sequences, FiniteSets, SequencesExt

CONSTANTS
    N,             \* number of servers
    Users,         \* clients of the network
    Home,          \* the server each connects to
    Nicks,         \* nicknames
    Times,         \* timestamps
    NoNick,        \* the nickname of a client that has sent none
    HistorySize,   \* slots of the tables of clients and of their history
    Starts,        \* who is online at first: functions to [nick, ts]
    MaxWork        \* commands of clients and services

ASSUME ClientsAssumption ==
    /\ N \in Nat \ {0} /\ HistorySize \in Nat \ {0} /\ MaxWork \in Nat
    /\ Home \in [Users -> 1 .. N] /\ NoNick \notin Nicks /\ Times \subseteq Nat \ {0}

VARIABLES
    cli,       \* the client_t of each user at each server
    hash,      \* ircd.hashes.client: the clients found by a nick, first in front
    hist,      \* ircd.lists.client_history, newest first
    unk,       \* ircd.stats.serv.unkclients
    up,        \* ircd.connections.servers: the neighbours that are linked
    wire,      \* messages to a server from a neighbour
    work,      \* commands so far
    seen       \* what has happened that servers may come to disagree by

vars == <<cli, hash, hist, unk, up, wire, work, seen>>

Servers == 1 .. N
Services == 0  \* a services server, linked to server 1, that sends SVSNICK

(* "unknown" is not registered; "history" has IRCD_CLIENT_HISTORY: it is   *)
(* kept for the entry of ircd.lists.client_history that points to it.      *)
NoClient == [st |-> "none", nick |-> NoNick, ts |-> 0, user |-> FALSE]
Structure == [st : {"none", "unknown", "online", "history", "freed"},
              nick : Nicks \cup {NoNick}, ts : Times \cup {0}, user : BOOLEAN]
Entry == [nick : Nicks, cli : Users]

-----------------------------------------------------------------------------
(* A server and what its handler has done to it so far                     *)

Here(s) == [me |-> s, cli |-> cli[s], hash |-> hash[s], hist |-> hist[s], unk |-> unk[s],
            up |-> up[s], out |-> [t \in Servers |-> <<>>], why |-> {}]

(* srv_server_uplink, cli_server_uplink: the neighbour towards a server    *)
Toward(s, p) == IF p = s THEN s ELSE IF p < s THEN s - 1 ELSE s + 1
Uplink(h, u) == Toward(h.me, Home[u])
Mine(h, u) == Home[u] = h.me
Registered(h, u) == h.cli[u].st = "online"
Live(h, u) == h.cli[u].st \in {"unknown", "online"}

(* find_client_any, find_client, client_find_history                       *)
\* Mutant: clients that have not registered are not found.
FindRegistered(h, n) ==
    IF n \notin Nicks \/ h.hash[n] = <<>> THEN {} ELSE {Head(h.hash[n])} \cap {u \in Users : Registered(h, u)}
FindAny(h, n) == IF n \notin Nicks \/ h.hash[n] = <<>> THEN {} ELSE {Head(h.hash[n])}
Find(h, n) == {u \in FindAny(h, n) : Registered(h, u)}
FindHistory(h, n) == {e.cli : e \in {f \in ToSet(h.hist) : f.nick = n}}

(* client_get_history: he who has the nick, or had it and is still online  *)
GetHistory(h, n) ==
    IF Find(h, n) # {} THEN Find(h, n)
    ELSE {u \in FindHistory(h, n) : h.cli[u].st # "history"}

(* sendto_serv_butone, sendto_serv_from                                    *)
SendBut(h, t, m) == [h EXCEPT !.out = [p \in Servers |-> IF p \in h.up \ {t} THEN Append(@[p], m) ELSE @[p]]]
SendTo(h, t, m) == IF t \in h.up THEN [h EXCEPT !.out[t] = Append(@, m)] ELSE h

Insert(h, u) == [h EXCEPT !.hash[h.cli[u].nick] = <<u>> \o @]
Delete(h, u) ==
    IF h.cli[u].nick = NoNick THEN h
    ELSE [h EXCEPT !.hash[h.cli[u].nick] = SelectSeq(@, LAMBDA v : v # u)]

Freed == [NoClient EXCEPT !.st = "freed"]

(* client_remove_history frees a client that was kept for its entry        *)
RemoveHistory(h, us) ==
    [h EXCEPT !.hist = SelectSeq(@, LAMBDA e : e.cli \notin us),
              !.cli = [u \in Users |-> IF u \in us /\ @[u].st = "history" THEN Freed ELSE @[u]]]

\* Mutant: the older entry for the nick stays.
AddHistoryAgain(h, u) ==
    LET a == RemoveHistory(h, {u})
        c == IF Len(a.hist) >= HistorySize THEN RemoveHistory(a, {Last(a.hist).cli}) ELSE a
    IN  [c EXCEPT !.hist = <<[nick |-> h.cli[u].nick, cli |-> u]>> \o @]

(* client_add_history: one entry for a client and for a nick, and no more  *)
(* than the table has slots                                                *)
AddHistory(h, u) ==
    LET n == h.cli[u].nick
        a == RemoveHistory(h, {u})
        b == RemoveHistory(a, FindHistory(a, n))
        c == IF Len(b.hist) >= HistorySize THEN RemoveHistory(b, {Last(b.hist).cli}) ELSE b
    IN  [c EXCEPT !.hist = <<[nick |-> n, cli |-> u]>> \o @]

\* Mutant: ircd.stats.serv.unkclients is not raised.
CreatedUncounted(h, u, n, ts) ==
    [h EXCEPT !.cli[u] = [st |-> "unknown", nick |-> n, ts |-> ts, user |-> n # NoNick]]

(* create_client, and the fields that the caller fills in                  *)
Created(h, u, n, ts) ==
    [h EXCEPT !.cli[u] = [st |-> "unknown", nick |-> n, ts |-> ts, user |-> n # NoNick],
              !.unk = @ + 1]

(* destroy_client; the flag IRCD_CLIENT_KILLED keeps the QUIT off the wires*)
Destroyed(h, u, killed) ==
    LET c == h.cli[u]
        a == IF killed THEN h
             ELSE SendBut(h, Uplink(h, u), [cmd |-> "QUIT", by |-> c.nick, user |-> u])
        b == AddHistory(Delete(a, u), u)
    IN  IF c.st = "online"
        THEN [b EXCEPT !.cli[u] = [NoClient EXCEPT !.st = "history"],
                       !.unk = IF Mine(h, u) THEN @ ELSE @ - 1]
        ELSE [Delete(h, u) EXCEPT !.cli[u] = Freed, !.unk = @ - 1]

(* client_change_nick                                                      *)
Changed(h, u, n) ==
    LET a == IF h.cli[u].nick = NoNick THEN h
             ELSE IF Registered(h, u) THEN AddHistory(Delete(h, u), u) ELSE Delete(h, u)
    IN  Insert([a EXCEPT !.cli[u].nick = n], u)

(* register_client, of a client that came from t, without its refusals.    *)
(* IRCD_CLIENT_UNKNOWN is cleared, and no longer counted, for our clients. *)
Register(h, t, u, ts) ==
    LET a == IF Mine(h, u) THEN [h EXCEPT !.cli[u].ts = ts, !.unk = @ - 1] ELSE Insert(h, u)
        c == a.cli[u]
    IN  SendBut([a EXCEPT !.cli[u].st = "online"], t,
                [cmd |-> "CLIENT", by |-> h.me, user |-> u, nick |-> c.nick, ts |-> c.ts])

Kill(by, n, us) == [cmd |-> "KILL", by |-> by, nick |-> n, users |-> us]

-----------------------------------------------------------------------------
(* Collisions *)

(* check_collision: known has the nick that unknown, who is new or changes *)
(* his nick, is about to take on the word of t.                            *)
UnknownWins(h, known, unknown) ==
    \/ Mine(h, known) /\ ~Registered(h, known)
    \/ h.cli[unknown].ts < h.cli[known].ts
\* Mutant: clients of one age do not both go.
NeverEqual(h, known, unknown) == FALSE
Equal(h, known, unknown) == h.cli[known].ts = h.cli[unknown].ts
Collided(g, t, known, unknown, new) ==
    LET h == [g EXCEPT !.why = @ \cup {"collided"}]
        old == Kill(h.me, h.cli[unknown].nick, {unknown})
        nick == Kill(h.me, h.cli[known].nick, {known})
        both == Kill(h.me, h.cli[known].nick, IF new THEN {known, unknown} ELSE {known})
    IN  IF Mine(h, known) /\ ~Registered(h, known) THEN Destroyed(h, known, FALSE)
        ELSE IF Equal(h, known, unknown)
        THEN LET a == SendBut(IF new THEN h ELSE SendBut(h, 0, old), 0, both)
             IN  Destroyed(Destroyed(a, known, TRUE), unknown, TRUE)
        ELSE IF UnknownWins(h, known, unknown)
        THEN Destroyed(SendBut(h, t, nick), known, TRUE)
        ELSE Destroyed(IF new THEN h ELSE SendBut(h, t, old), unknown, TRUE)

-----------------------------------------------------------------------------
(* Commands of clients and servers; t is the neighbour a message is from.  *)

(* The server's NICK: a client of another server                           *)
ServerNick(h, t, m) ==
    LET a == Created(h, m.user, m.nick, m.ts)
        known == FindAny(a, m.nick)
        k == CHOOSE u \in known : TRUE
    IN  IF known = {} THEN Register(a, t, m.user, m.ts)
        ELSE IF UnknownWins(a, k, m.user)
        THEN Register(Collided(a, t, k, m.user, TRUE), t, m.user, m.ts)
        ELSE Collided(a, t, k, m.user, TRUE)

(* The rest of a registered client's NICK, when he may have it             *)
Renamed(h, t, u, n, ts) ==
    Changed(SendBut([h EXCEPT !.cli[u].ts = ts], t,
                    [cmd |-> "NICK", by |-> h.cli[u].nick, user |-> u, nick |-> n, ts |-> ts]), u, n)

(* Whether it would be decided otherwise with the timestamp of the change  *)
Stale(h, known, u, ts) ==
    LET g == [h EXCEPT !.cli[u].ts = ts] IN
    IF /\ UnknownWins(h, known, u) = UnknownWins(g, known, u)
       /\ Equal(h, known, u) = Equal(g, known, u)
    THEN {} ELSE {"stale"}

(* The NICK of a remote client.  A collision is decided with the timestamp *)
(* that he had before.                                                     *)
RemoteNick(h, t, u, m) ==
    LET known == FindAny(h, m.nick)
        k == CHOOSE v \in known : TRUE
        a == Collided([h EXCEPT !.why = @ \cup Stale(h, k, u, m.ts)], t, k, u, FALSE)
    IN  IF h.cli[u].nick = m.nick THEN h
        ELSE IF known = {} THEN Renamed(h, t, u, m.nick, m.ts)
        ELSE IF UnknownWins(h, k, u) THEN Renamed(a, t, u, m.nick, m.ts)
        ELSE a

(* KILL of a nick.  A victim found through history is killed by the nick   *)
(* that he has now, on the wire the KILL came from too.                    *)
Killed(h, t, m) ==
    LET victims == GetHistory(h, m.nick)
        v == CHOOSE u \in victims : TRUE
        k == Kill(m.by, h.cli[v].nick, m.users)
        a == SendBut([h EXCEPT !.why = @ \cup (IF v \in m.users THEN {} ELSE {"misfired"})], t, k)
        b == IF Find(h, m.nick) = {} THEN SendTo(a, t, k) ELSE a
    IN  IF victims = {} THEN h ELSE Destroyed(b, v, TRUE)

(* do_svsnick sends KILLs when somebody has the new nick, and leaves him   *)
(* here.  pass_command sends it on to the server of the client.            *)
SvsNick(h, t, m) ==
    LET has == Find(h, m.to)
        c == CHOOSE u \in has : TRUE
        k == Kill(m.by, m.to, {c})
        whom == Find(h, m.nick)
        u == CHOOSE v \in whom : TRUE
        a == SendBut(h, 0, [cmd |-> "NICK", by |-> m.nick, user |-> u, nick |-> m.to, ts |-> h.cli[u].ts])
    IN  IF has # {}
        THEN [SendTo(SendBut(h, t, k), Uplink(h, c), k) EXCEPT !.why = @ \cup {"svscollide"}]
        ELSE IF whom = {} THEN h
        ELSE IF Mine(h, u)
        THEN Changed([a EXCEPT !.why = @ \cup (IF FindAny(h, m.to) = {} THEN {} ELSE {"svsdouble"})], u, m.to)
        ELSE SendTo(h, Uplink(h, u), m)

(* do_svskill: our client is destroyed, others are left to their server    *)
SvsKill(h, t, m) ==
    LET whom == Find(h, m.nick)
        u == CHOOSE v \in whom : TRUE
    IN  IF whom = {} THEN h
        ELSE IF Mine(h, u) THEN Destroyed(h, u, FALSE)
        ELSE IF Uplink(h, u) = t THEN h
        ELSE SendTo(h, Uplink(h, u), m)

(* Who a message of t is from, and whether it may come from there          *)
\* Mutant: nothing is said of directions.
FromAnywhere(h, t, m) == Find(h, m.by)
From(h, t, m) == {u \in Find(h, m.by) : Uplink(h, u) = t}
Accepted(h, t, m) == IF m.by \in Nicks THEN From(h, t, m) # {} ELSE Toward(h.me, m.by) = t

Handled(h, t, m) ==
    LET u == CHOOSE v \in From(h, t, m) : TRUE
    IN  CASE ~Accepted(h, t, m) ->
                [h EXCEPT !.why = @ \cup (IF m.cmd = "KILL" THEN {"unheard"} ELSE {})]
          [] m.cmd = "CLIENT" -> ServerNick(h, t, m)
          [] m.cmd = "NICK" -> RemoteNick(h, t, u, m)
          [] m.cmd = "QUIT" -> Destroyed(h, u, FALSE)
          [] m.cmd = "KILL" -> Killed(h, t, m)
          [] m.cmd = "SVSNICK" -> SvsNick(h, t, m)
          [] m.cmd = "SVSKILL" -> SvsKill(h, t, m)

-----------------------------------------------------------------------------
(* Steps *)

Delivered ==
    \A s, t \in Servers : wire[s][t] = <<>> /\ (t \in up[s] <=> s \in up[t])

(* Something is done while servers have not heard all yet: the ends of a   *)
(* link that both introduce their clients, and clients who register, do not*)
(* count.                                                                  *)
Crossing ==
    IF work' > work THEN ~Delivered
    ELSE \E s, t \in Servers : \E m \in ToSet(wire[s][t]) : m.cmd # "CLIENT"

(* The new state of s, and what it sent on the wires                       *)
Become(s, h, from) ==
    /\ cli' = [cli EXCEPT ![s] = h.cli] /\ hash' = [hash EXCEPT ![s] = h.hash]
    /\ hist' = [hist EXCEPT ![s] = h.hist] /\ unk' = [unk EXCEPT ![s] = h.unk]
    /\ up' = [up EXCEPT ![s] = h.up]
    /\ wire' = [t \in Servers |-> [p \in Servers |->
            IF t = s THEN IF p = from THEN Tail(wire[s][p]) ELSE wire[s][p]
            ELSE IF p = s THEN wire[t][s] \o h.out[t] ELSE wire[t][p]]]
    /\ seen' = seen \cup h.why \cup IF from = 0 /\ Crossing THEN {"crossed"} ELSE {}

Init ==
    /\ \E b \in Starts, linked \in BOOLEAN :
        LET At(s) == {u \in DOMAIN b : linked \/ Home[u] = s}
        IN  /\ cli = [s \in Servers |-> [u \in Users |->
                    IF u \in At(s) THEN [st |-> "online", nick |-> b[u].nick, ts |-> b[u].ts, user |-> TRUE]
                    ELSE NoClient]]
            /\ hash = [s \in Servers |-> [n \in Nicks |-> SetToSeq({u \in At(s) : b[u].nick = n})]]
            /\ unk = [s \in Servers |-> Cardinality({u \in At(s) : Home[u] # s})]
            /\ up = [s \in Servers |-> IF linked THEN {s - 1, s + 1} \cap Servers ELSE {}]
            /\ linked => \A u, v \in DOMAIN b : b[u].nick = b[v].nick => u = v
    /\ hist = [s \in Servers |-> <<>>]
    /\ wire = [s \in Servers |-> [t \in Servers |-> <<>>]]
    /\ work = 0 /\ seen = {}

(* A connection gets its client_t                                          *)
Connect(u) ==
    LET s == Home[u] IN
    /\ cli[s][u].st = "none"
    /\ UNCHANGED work
    /\ Become(s, Created(Here(s), u, NoNick, 0), 0)

(* register_client, of a local client; the hooks of stage3_connect may not *)
(* let him on                                                              *)
Registers(s, h, u, ts) ==
    \/ Become(s, Register(h, s, u, ts), 0)
    \/ Become(s, Destroyed(h, u, FALSE), 0)

(* NICK of a local client                                                  *)
Nick(u, n, ts) ==
    LET s == Home[u]
        h == Here(s)
        c == cli[s][u]
    IN  /\ Live(h, u) /\ FindAny(h, n) = {} /\ ts >= c.ts
        /\ \/ c.st = "unknown" /\ c.user /\ UNCHANGED work /\ Registers(s, Changed(h, u, n), u, ts)
           \/ c.st = "unknown" /\ ~c.user /\ UNCHANGED work /\ Become(s, Changed(h, u, n), 0)
           \/ c.st = "online" /\ work < MaxWork /\ work' = work + 1 /\ Become(s, Renamed(h, s, u, n, ts), 0)

(* USER of a local client                                                  *)
User(u, ts) ==
    LET s == Home[u]
        h == [Here(s) EXCEPT !.cli[u].user = TRUE]
    IN  /\ cli[s][u].st = "unknown" /\ ~cli[s][u].user
        /\ UNCHANGED work
        /\ IF cli[s][u].nick # NoNick THEN Registers(s, h, u, ts) ELSE Become(s, h, 0)

(* QUIT, or the end of the connection                                      *)
Quit(u) ==
    LET s == Home[u] IN
    /\ Live(Here(s), u)
    /\ work < MaxWork /\ work' = work + 1
    /\ Become(s, Destroyed(Here(s), u, FALSE), 0)

(* KILL by an operator: as that of another server but with nobody to send  *)
(* it back to                                                              *)
KillCommand(o, n) ==
    LET s == Home[o]
        h == Here(s)
    IN  /\ Registered(h, o) /\ GetHistory(h, n) # {}
        /\ work < MaxWork /\ work' = work + 1
        /\ Become(s, Killed(h, s, Kill(h.cli[o].nick, n, GetHistory(h, n))), 0)

ServicesCommand(m) ==
    /\ work < MaxWork /\ work' = work + 1
    /\ Become(1, Handled(Here(1), Services, m), 0)

(* One end of a link is ready, and sends what clients it knows             *)
LinkUp(s, t) ==
    LET us == {u \in Users : Registered(Here(s), u)}
        ms == [i \in DOMAIN SetToSeq(us) |->
                LET u == SetToSeq(us)[i]
                IN  [cmd |-> "CLIENT", by |-> s, user |-> u, nick |-> cli[s][u].nick, ts |-> cli[s][u].ts]]
    IN  /\ t \notin up[s]
        /\ UNCHANGED work
        /\ Become(s, [Here(s) EXCEPT !.up = @ \cup {t}, !.out[t] = ms], 0)

(* packet_parse and the handlers of the command                            *)
Receive(s, t) ==
    /\ t \in up[s] /\ wire[s][t] # <<>>
    /\ UNCHANGED work
    /\ Become(s, Handled(Here(s), t, Head(wire[s][t])), t)

Next ==
    \/ \E u \in Users : Connect(u) \/ Quit(u)
    \/ \E u \in Users, n \in Nicks, ts \in Times : Nick(u, n, ts)
    \/ \E u \in Users, ts \in Times : User(u, ts)
    \/ \E o \in Users, n \in Nicks : KillCommand(o, n)
    \/ \E n, to \in Nicks : ServicesCommand([cmd |-> "SVSNICK", by |-> Services, nick |-> n, to |-> to])
    \/ \E n \in Nicks : ServicesCommand([cmd |-> "SVSKILL", by |-> Services, nick |-> n])
    \/ \E s \in Servers : \E t \in {s - 1, s + 1} \cap Servers : LinkUp(s, t) \/ Receive(s, t)

Spec == Init /\ [][Next]_vars

-----------------------------------------------------------------------------
(* Properties *)

TypeOK ==
    /\ cli \in [Servers -> [Users -> Structure]]
    /\ hash \in [Servers -> [Nicks -> Seq(Users)]]
    /\ hist \in [Servers -> Seq(Entry)]
    /\ unk \in [Servers -> Nat]
    /\ up \in [Servers -> SUBSET Servers]
    /\ work \in 0 .. MaxWork
    /\ seen \subseteq {"collided", "crossed", "stale", "unheard", "misfired", "svscollide", "svsdouble"}

(* The hash finds every client by the nick that it has and no other, and   *)
(* nobody has a nick twice, unless SVSNICK has given one away that a       *)
(* client who had not registered yet was using.                            *)
NicksAreUnique ==
    \A s \in Servers, n \in Nicks :
        /\ ToSet(hash[s][n]) = {u \in Users : cli[s][u].st \in {"unknown", "online"} /\ cli[s][u].nick = n}
        /\ IsInjective(hash[s][n])
        /\ "svsdouble" \in seen \/ Len(hash[s][n]) <= 1

(* The history has one entry for a nick and for a client, no more than its *)
(* slots, and keeps exactly the clients that are gone and not yet freed:   *)
(* none is lost, and none that has been freed is still found.              *)
HistoryKeepsTheGone ==
    \A s \in Servers :
        LET h == hist[s] IN
        /\ Len(h) <= HistorySize
        /\ \A i, j \in DOMAIN h : (h[i].nick = h[j].nick \/ h[i].cli = h[j].cli) => i = j
        /\ {u \in Users : cli[s][u].st = "history"} \subseteq {e.cli : e \in ToSet(h)}
        /\ \A e \in ToSet(h) : cli[s][e.cli].st \in {"history", "online"}

(* A message that names its sender by a nick is taken for his, and not for *)
(* that of somebody who has the nick now (unless two had the nick at once, *)
(* see NicksAreUnique).                                                    *)
SendersAreMeant ==
    "svsdouble" \notin seen =>
    \A s \in Servers : \A t \in up[s] :
        wire[s][t] # <<>> =>
            LET m == Head(wire[s][t]) IN
            m.cmd \in {"NICK", "QUIT"} /\ Accepted(Here(s), t, m) => From(Here(s), t, m) = {m.user}

(* A nick finds its client, and nobody else and nobody who is gone, for     *)
(* commands and for messages from afar.                                    *)
NicksSound == NicksAreUnique /\ HistoryKeepsTheGone /\ SendersAreMeant

Quiet ==
    /\ \A s \in Servers : up[s] = {s - 1, s + 1} \cap Servers
    /\ Delivered

(* When all is delivered, every server knows the same clients by the same  *)
(* nicks and timestamps, unless a change of nick collided, a KILL found    *)
(* another client than it was meant for, or SVSNICK met its target's nick. *)
ServersAgree ==
    Quiet /\ seen \in {{}, {"collided"}, {"crossed"}} =>
        \A s, t \in Servers : \A u \in Users :
            LET Known(p) == IF Registered(Here(p), u) THEN cli[p][u] ELSE NoClient
            IN  Known(s) = Known(t)
=============================================================================
