------------------------------ MODULE Channels ------------------------------
(***************************************************************************)
(* One channel on a line of servers 1..N (modules/ircd: channel.c,         *)
(* commands/{join,sjoin,part,kick,mode,topic,invite,quit,kill,ping,pong}.c,*)
(* addons/core.c, protocols/shared/sjoin_sync_channel.c).  Every server    *)
(* keeps its own copy of the channel.  The copies are kept equal by the    *)
(* messages about each change, and made equal by timestamps when links     *)
(* come up that were down while both sides changed theirs.                 *)
(*                                                                         *)
(* All links speak ithildin1: SJOIN, TSMODE.  Names are never changed and  *)
(* users do not come back once they have left.                             *)
(***************************************************************************)
EXTENDS Integers, Sequences, FiniteSets

CONSTANTS
    N,          \* number of servers; s is linked to s - 1 and s + 1
    Users,
    Home,       \* Home[u]: the server of u
    Keys,       \* keys and limits are numbers, compared as such
    Limits,
    Masks,      \* what may be banned
    Matched,    \* Matched[u]: the masks that u matches
    Changes,    \* changes of modes that operators may ask for
    Texts, Times,   \* topics, and timestamps: clocks of servers may differ
    NoText,
    MaxBans, MaxInvites,    \* MAX_BANS_PER_CHANNEL, MAX_INVITES_PER_CHANNEL
    Starts,     \* channels that exist when all links are up
    MaxWork, MaxLinks       \* bounds: commands of users, connections made

ASSUME ChannelsAssumption ==
    /\ N \in Nat \ {0} /\ Home \in [Users -> 1..N] /\ IsFiniteSet(Users)
    /\ Keys \subseteq Nat \ {0} /\ Limits \subseteq Nat \ {0} /\ Times \subseteq Nat
    /\ Matched \in [Users -> SUBSET Masks] /\ NoText \notin Texts
    /\ Starts \subseteq [users : SUBSET Users, op : Users, created : Times]
    /\ MaxBans \in Nat /\ MaxInvites \in Nat \ {0} /\ MaxWork \in Nat /\ MaxLinks \in Nat

Servers == 1..N

VARIABLES
    chan,   \* chan[s]: the channel as s has it
    known,  \* known[s]: the clients that find_client at s finds
    link,   \* link[s][t]: the end that s has of the connection to t
    wire,   \* wire[s][t]: what is on its way to s from t
    work, links,    \* for the bounds
    seen    \* not in the code: what has happened that excuses a difference
vars == <<chan, known, link, wire, work, links, seen>>

Peers(s) == {s - 1, s + 1} \cap Servers
Behind(s, t) == {u \in Users : IF t > s THEN Home[u] >= t ELSE Home[u] <= t}

(* Modes with their arguments, 0 where there is none                       *)
Modes == ({"i"} \X {0}) \cup ({"k"} \X Keys) \cup ({"l"} \X Limits) \cup ({"b"} \X Masks)
Change == [on : BOOLEAN, mode : {"i", "k", "l", "b", "o"}, arg : {0} \cup Keys \cup Limits \cup Masks \cup Users]

Channel ==
    [exists : BOOLEAN, created : Times \cup {0}, users : SUBSET Users, onchannel : Nat,
     ops : SUBSET Users, bans : SUBSET Users,   \* whose chanlink.bans is not 0
     modes : SUBSET Modes, text : Texts \cup {NoText}, set : Times \cup {0},
     invites : Seq(Users)]

NoChannel ==
    [exists |-> FALSE, created |-> 0, users |-> {}, onchannel |-> 0, ops |-> {}, bans |-> {},
     modes |-> {}, text |-> NoText, set |-> 0, invites |-> <<>>]

-----------------------------------------------------------------------------
(* channel.c *)

Create(ts) == [NoChannel EXCEPT !.exists = TRUE, !.created = ts]
FoundOr(c, ts) == IF c.exists THEN c ELSE Create(ts)

\* Mutant of Add: the link is not counted twice when it is there already.
AddUncounted(c, u) == [c EXCEPT !.users = @ \cup {u}, !.ops = @ \ {u}, !.bans = @ \ {u}]

(* add_to_channel does not look whether u is on the channel                *)
Add(c, u) == [c EXCEPT !.users = @ \cup {u}, !.ops = @ \ {u}, !.bans = @ \ {u}, !.onchannel = @ + 1]

\* Mutant of Del: an empty channel stays.
DelKeeping(c, u) ==
    IF u \notin c.users THEN c
    ELSE [c EXCEPT !.users = @ \ {u}, !.ops = @ \ {u}, !.bans = @ \ {u}, !.onchannel = @ - 1]

(* del_from_channel, and destroy_channel with the last of its users        *)
Del(c, u) ==
    IF u \notin c.users THEN c
    ELSE IF c.onchannel = 1 THEN NoChannel
    ELSE [c EXCEPT !.users = @ \ {u}, !.ops = @ \ {u}, !.bans = @ \ {u}, !.onchannel = @ - 1]

(* the same for all of us, in whatever order *)
Without(c, us) ==
    LET gone == c.users \cap us
        n == c.onchannel - Cardinality(gone)
    IN  IF gone # {} /\ n = 0 THEN NoChannel
        ELSE [c EXCEPT !.users = @ \ gone, !.ops = @ \ gone, !.bans = @ \ gone, !.onchannel = n]

-----------------------------------------------------------------------------
(* addons/core.c: what the functions of the modes do to the channel, and   *)
(* whether they report success.  mine: a client of this server asks.       *)

Args(c, mode) == {m[2] : m \in {x \in c.modes : x[1] = mode}}
With(c, mode, args) ==
    [c EXCEPT !.modes = {x \in @ : x[1] # mode} \cup ({mode} \X args)]

Banned(c, u) == Matched[u] \cap Args(c, "b") # {}

\* Mutant of Recounted: the bans are counted for new bans only.
RecountedUp(c) == [c EXCEPT !.bans = @ \cup {u \in c.users : Banned(c, u)}]

Recounted(c) == [c EXCEPT !.bans = {u \in c.users : Banned(c, u)}]

(* a mask that is not found is not taken off, and nobody is counted again  *)
Ban(c, x) ==
    IF x.on THEN Recounted(With(c, "b", Args(c, "b") \cup {x.arg}))
    ELSE IF x.arg \in Args(c, "b") THEN Recounted(With(c, "b", Args(c, "b") \ {x.arg}))
    ELSE c

(* of two keys that servers disagree on the lesser one stays               *)
Key(c, x, mine) ==
    IF ~x.on THEN With(c, "k", {})
    ELSE IF ~mine /\ \E k \in Args(c, "k") : k < x.arg THEN c
    ELSE With(c, "k", {x.arg})

Limit(c, x) == With(c, "l", IF x.on THEN {x.arg} ELSE {})
Flag(c, x) == With(c, x.mode, IF x.on THEN {0} ELSE {})
Op(c, x) == [c EXCEPT !.ops = IF x.on THEN @ \cup {x.arg} ELSE @ \ {x.arg}]

(* chanmode_set and chanmode_unset                                         *)
Succeeds(c, x, mine) ==
    CASE x.mode = "o" -> x.arg \in c.users
      [] x.mode = "b" -> x.on => /\ x.arg \notin Args(c, "b")
                                 /\ mine => Cardinality(Args(c, "b")) <= MaxBans
      [] OTHER -> TRUE

Apply(c, x, mine) ==
    IF ~Succeeds(c, x, mine) THEN c
    ELSE CASE x.mode = "o" -> Op(c, x)
           [] x.mode = "b" -> Ban(c, x)
           [] x.mode = "k" -> Key(c, x, mine)
           [] x.mode = "l" -> Limit(c, x)
           [] x.mode = "i" -> Flag(c, x)

(* can_join_channel: the hooks of the modes for a client that has been     *)
(* added to the channel; an invitation is as good as all of them           *)
Invited(c, u) == \E i \in DOMAIN c.invites : c.invites[i] = u
KeyFits(c, key) == Args(c, "k") \subseteq {key}
HasRoom(c) == \A l \in Args(c, "l") : c.onchannel <= l
Admitted(c, u, key) ==
    Invited(c, u) \/ (Args(c, "i") = {} /\ ~Banned(c, u) /\ KeyFits(c, key) /\ HasRoom(c))

-----------------------------------------------------------------------------
(* commands/mode.c: channel_mode *)

Reverted(c, ts) == Recounted([c EXCEPT !.created = ts, !.ops = {}, !.modes = {}])

\* Mutant of Merged: the later channel wins.
MergedLater(c, ts) == IF ts > c.created THEN Reverted(c, ts) ELSE c

(* their timestamp is older: our modes go *)
Merged(c, ts) == IF ts < c.created THEN Reverted(c, ts) ELSE c

(* the changes one after the other, and those that took *)
ApplyAll(c, xs, mine) ==
    LET after[i \in 0..Len(xs)] == IF i = 0 THEN c ELSE Apply(after[i-1], xs[i], mine)
        took == {i \in DOMAIN xs : Succeeds(after[i-1], xs[i], mine)}
        did[i \in 0..Len(xs)] ==
            IF i = 0 THEN <<>> ELSE IF i \in took THEN Append(did[i-1], xs[i]) ELSE did[i-1]
    IN  [chan |-> after[Len(xs)], did |-> did[Len(xs)]]

-----------------------------------------------------------------------------
(* A handler at s works on the part of the state that s owns.              *)

Here(s) == [chan |-> chan[s], known |-> known[s], link |-> link[s],
            out |-> [t \in Servers |-> <<>>]]

Linked(h) == {t \in Servers : h.link[t] = "up"}
SendTo(h, ts, m) == [h EXCEPT !.out = [t \in Servers |-> IF t \in ts THEN Append(@[t], m) ELSE @[t]]]

(* members of the channel in the direction of t; sync_channel sends the    *)
(* others, and what chanmode_query finds                                   *)
SJoin(c, us) == [cmd |-> "SJOIN", ts |-> c.created, users |-> us, ops |-> us \cap c.ops]
Mode(c, xs) == [cmd |-> "MODE", ts |-> c.created, by |-> {}, changes |-> xs]
Orders(S) == {q \in [1..Cardinality(S) -> S] : {q[i] : i \in DOMAIN q} = S}
AllModes(c) ==
    LET q == CHOOSE q \in Orders(c.modes) : TRUE
    IN  [i \in DOMAIN q |-> [on |-> TRUE, mode |-> q[i][1], arg |-> q[i][2]]]

SyncChannel(s, c, t) ==
    LET us == c.users \ Behind(s, t)
    IN  (IF us = {} THEN <<>> ELSE <<SJoin(c, us)>>)
        \o (IF c.modes = {} THEN <<>> ELSE <<Mode(c, AllModes(c))>>)

(* server_establish: nicks, channels, and a PING whose PONG asks for the   *)
(* topics                                                                  *)
Establish(s, h, t) ==
    [h EXCEPT !.link[t] = "up",
              !.out[t] = @ \o <<[cmd |-> "NICKS", users |-> h.known \ Behind(s, t)]>>
                           \o SyncChannel(s, h.chan, t) \o <<[cmd |-> "PING"]>>]

EstablishMisc(h, t) ==
    IF h.chan.text = NoText THEN h
    ELSE SendTo(h, {t}, [cmd |-> "TOPIC", by |-> {}, text |-> h.chan.text, set |-> h.chan.set])

(* clients that leave the network, for s *)
Lost(h, us) == [h EXCEPT !.known = @ \ us, !.chan = Without(@, us)]

(* the connection to t has ended: destroy_server *)
Drop(s, h, t) ==
    LET us == h.known \cap Behind(s, t)
        told == SendTo(Lost(h, us), Linked(h) \ {t}, [cmd |-> "SQUIT", users |-> us])
    IN  [told EXCEPT !.link[t] = "down"]

(* SJOIN of a server.  Whether its operators count is decided before the   *)
(* timestamps are merged; a name that is not known is passed over.         *)
ServerSJoin(h, t, m) ==
    LET old == FoundOr(h.chan, m.ts)
        c == Merged(old, m.ts)
        us == m.users \cap h.known
        d == [c EXCEPT !.users = @ \cup us, !.onchannel = @ + Cardinality(us),
                       !.ops = (@ \ us) \cup (IF m.ts > old.created THEN {} ELSE m.ops \cap us),
                       !.bans = @ \ us]
    IN  SendTo([h EXCEPT !.chan = d], Linked(h) \ {t}, SJoin(d, us))

(* SJOIN of a client: the timestamp counts only when there is no channel   *)
ClientSJoin(h, t, m) ==
    LET c == Add(FoundOr(h.chan, m.ts), m.user)
    IN  SendTo([h EXCEPT !.chan = c], Linked(h) \ {t}, [m EXCEPT !.ts = c.created])

(* MODE of a server, or of a client elsewhere: both as from a server *)
RemoteMode(h, t, m) ==
    IF ~h.chan.exists \/ m.ts > h.chan.created THEN h
    ELSE LET r == ApplyAll(Merged(h.chan, m.ts), m.changes, FALSE)
             g == [h EXCEPT !.chan = r.chan]
         IN  IF r.did = <<>> THEN g
             ELSE SendTo(g, Linked(h) \ {t}, [m EXCEPT !.ts = r.chan.created, !.changes = r.did])

(* TOPIC: a server's, in a burst, is taken only if it is newer *)
RemoteTopic(h, t, m) ==
    IF ~h.chan.exists \/ (m.by = {} /\ h.chan.set >= m.set /\ h.chan.text # NoText) THEN h
    ELSE SendTo([h EXCEPT !.chan.text = m.text, !.chan.set = m.set], Linked(h) \ {t}, m)

(* PART and KICK: a remote client need not be an operator to kick, but has *)
(* to be on the channel                                                    *)
RemoteDel(h, t, m) ==
    IF ~(m.by \cup {m.user} \subseteq h.chan.users) THEN h
    ELSE SendTo([h EXCEPT !.chan = Del(@, m.user)], Linked(h) \ {t}, m)

(* QUIT, KILL and SQUIT *)
RemoteLost(h, t, m) == SendTo(Lost(h, m.users), Linked(h) \ {t}, m)

(* INVITE goes towards its user, and is kept where he is *)
MaxedInvites(q) == IF Len(q) >= MaxInvites THEN SubSeq(q, 1, Len(q) - 1) ELSE q
Keep(c, u) == IF Invited(c, u) THEN c ELSE [c EXCEPT !.invites = <<u>> \o MaxedInvites(@)]
Towards(s, u) == IF Home[u] > s THEN s + 1 ELSE s - 1
Invitation(s, h, u, m) ==
    IF ~h.chan.exists \/ u \in h.chan.users \/ u \notin h.known \/ m.by \cap h.chan.ops = {} THEN h
    ELSE IF Home[u] = s THEN [h EXCEPT !.chan = Keep(@, u)]
    ELSE SendTo(h, {Towards(s, u)}, m)

(* packet_parse and the commands.  A message of a client that is not known *)
(* is not processed.                                                       *)
Handle(s, h, t, m) ==
    CASE m.cmd = "SERVER" ->
            (* its SERVER has been answered by ours, or is the answer *)
            Establish(s, IF h.link[t] = "accepted" THEN SendTo(h, {t}, m) ELSE h, t)
      [] m.cmd = "EOF" -> Drop(s, h, t)
      [] m.cmd = "NICKS" ->
            SendTo([h EXCEPT !.known = @ \cup m.users], Linked(h) \ {t}, m)
      [] m.cmd = "PING" -> SendTo(h, {t}, [cmd |-> "PONG"])
      [] m.cmd = "PONG" -> EstablishMisc(h, t)
      [] m.cmd = "SQUIT" \/ m.cmd = "KILL" \/ m.cmd = "QUIT" -> RemoteLost(h, t, m)
      [] m.cmd = "SJOIN" -> ServerSJoin(h, t, m)
      [] m.cmd \in {"CSJOIN", "PART", "KICK", "MODE", "TOPIC", "INVITE"} ->
            IF ~(m.by \subseteq h.known) THEN h
            ELSE CASE m.cmd = "CSJOIN" -> ClientSJoin(h, t, m)
                   [] m.cmd \in {"PART", "KICK"} -> RemoteDel(h, t, m)
                   [] m.cmd = "MODE" -> RemoteMode(h, t, m)
                   [] m.cmd = "TOPIC" -> RemoteTopic(h, t, m)
                   [] m.cmd = "INVITE" -> Invitation(s, h, m.user, m)

-----------------------------------------------------------------------------
(* Steps *)

(* The new state of s, and what it sent on the wires.  What is sent to an  *)
(* end that is closed is lost.                                             *)
Become(s, h, from) ==
    /\ chan' = [chan EXCEPT ![s] = h.chan]
    /\ known' = [known EXCEPT ![s] = h.known]
    /\ link' = [link EXCEPT ![s] = h.link]
    /\ wire' = [t \in Servers |-> [p \in Servers |->
            IF t = s
            THEN IF h.link[p] = "down" THEN <<>>
                 ELSE IF p = from THEN Tail(wire[s][p]) ELSE wire[s][p]
            ELSE IF p # s \/ link[t][s] = "down" THEN wire[t][p]
                 ELSE wire[t][s] \o h.out[t]]]

(* Either no server is linked yet, or all are and have the same channel.   *)
Apart ==
    /\ chan = [s \in Servers |-> NoChannel]
    /\ known = [s \in Servers |-> {u \in Users : Home[u] = s}]
    /\ link = [s \in Servers |-> [t \in Servers |-> "down"]]
Together ==
    /\ \E b \in Starts : chan = [s \in Servers |->
            [Create(b.created) EXCEPT !.users = b.users, !.ops = {b.op}, !.onchannel = Cardinality(b.users)]]
    /\ known = [s \in Servers |-> Users]
    /\ link = [s \in Servers |-> [t \in Servers |-> IF t \in Peers(s) THEN "up" ELSE "down"]]
Init ==
    /\ Apart \/ Together
    /\ wire = [s \in Servers |-> [t \in Servers |-> <<>>]]
    /\ work = 0 /\ links = 0 /\ seen = {}

Quiet == \A s, t \in Servers : wire[s][t] = <<>>

(* A command of a client of s: its handler leaves h, and sends all servers *)
(* but those of the sender (there is none) the message m.                  *)
Command(s, c, ms, why) ==
    /\ work < MaxWork /\ work' = work + 1
    /\ LET h == [Here(s) EXCEPT !.chan = c]
       IN  Become(s, [h EXCEPT !.out = [t \in Servers |-> IF t \in Linked(h) THEN ms ELSE <<>>]], 0)
    /\ seen' = seen \cup why \cup (IF Quiet THEN {} ELSE {"crossed"})
    /\ UNCHANGED links

Present(u) == u \in known[Home[u]]

(* JOIN of a channel that does not exist: its user becomes operator        *)
JoinNew(u, ts) ==
    /\ Present(u) /\ ~chan[Home[u]].exists
    /\ LET c == Op(Add(Create(ts), u), [on |-> TRUE, arg |-> u])
       IN  Command(Home[u], c, <<SJoin(c, {u})>>, {})

(* JOIN of one that does.  He is added before he is checked, taken off     *)
(* again if refused; his invitation is used up either way.                 *)
Join(u, key) ==
    LET s == Home[u]
        c == Add(chan[s], u)
        d == [c EXCEPT !.invites = SelectSeq(@, LAMBDA v : v # u)]
    IN  /\ Present(u) /\ chan[s].exists /\ u \notin chan[s].users
        /\ IF Admitted(c, u, key)
           THEN Command(s, d, <<[cmd |-> "CSJOIN", ts |-> c.created, by |-> {u}, user |-> u]>>, {})
           ELSE Command(s, Del(d, u), <<>>, {})

Part(u) ==
    LET s == Home[u] IN
    /\ u \in chan[s].users
    /\ Command(s, Del(chan[s], u), <<[cmd |-> "PART", by |-> {u}, user |-> u]>>, {})

Kick(u, v) ==
    LET s == Home[u] IN
    /\ u \in chan[s].ops /\ v \in chan[s].users
    /\ Command(s, Del(chan[s], v), <<[cmd |-> "KICK", by |-> {u}, user |-> v]>>,
               IF Home[v] = s THEN {} ELSE {"kicked"})

(* MODE with one change *)
SetMode(u, x) ==
    LET s == Home[u]
        r == ApplyAll(chan[s], <<x>>, TRUE)
    IN  /\ u \in chan[s].ops
        /\ Command(s, r.chan,
               IF r.did = <<>> THEN <<>>
               ELSE <<[Mode(chan[s], r.did) EXCEPT !.by = {u}]>>,
               IF x.mode = "k" /\ x.on /\ Args(chan[s], "k") # {} THEN {"rekeyed"} ELSE {})

SetTopic(u, text, ts) ==
    LET s == Home[u] IN
    /\ u \in chan[s].users
    /\ Command(s, [chan[s] EXCEPT !.text = text, !.set = ts],
               <<[cmd |-> "TOPIC", by |-> {u}, text |-> text, set |-> ts]>>, {})

Invite(u, v) ==
    LET s == Home[u]
        h == Invitation(s, Here(s), v, [cmd |-> "INVITE", by |-> {u}, user |-> v])
    IN  /\ u \in chan[s].ops /\ v \in known[s] \ chan[s].users
        /\ work < MaxWork /\ work' = work + 1
        /\ Become(s, h, 0)
        /\ seen' = seen \cup (IF Quiet THEN {} ELSE {"crossed"})
        /\ UNCHANGED links

(* QUIT, or the end of a client's connection; a KILL by an operator of s   *)
Leave(s, u, cmd) ==
    /\ work < MaxWork /\ work' = work + 1
    /\ u \in known[s]
    /\ LET h == Here(s) IN Become(s, SendTo(Lost(h, {u}), Linked(h), [cmd |-> cmd, users |-> {u}]), 0)
    /\ seen' = seen \cup (IF cmd = "KILL" THEN {"killed"} ELSE {}) \cup (IF Quiet THEN {} ELSE {"crossed"})
    /\ UNCHANGED links
Quit(u) == Leave(Home[u], u, "QUIT")
Kill(s, u) == Home[u] # s /\ Leave(s, u, "KILL")

(* When a link is made: two copies as old as each other have limits, but   *)
(* not the same, which the bursts swap; or topics, but not the same, that  *)
(* are as old as each other, of which each side keeps its own.             *)
Irreconcilable ==
    LET Some(Differ(_, _)) == \E s, t \in Servers :
            chan[s].exists /\ chan[t].exists /\ Differ(chan[s], chan[t])
    IN  (IF Some(LAMBDA c, d : /\ c.created = d.created /\ Args(c, "l") # Args(d, "l")
                               /\ Args(c, "l") # {} /\ Args(d, "l") # {})
         THEN {"relimited"} ELSE {})
        \cup (IF Some(LAMBDA c, d : c.set = d.set /\ c.text # d.text) THEN {"retitled"} ELSE {})

(* a server connects to another and introduces itself *)
Connect(s, t) ==
    /\ links < MaxLinks /\ links' = links + 1
    /\ t \in Peers(s)
    /\ link[s][t] = "down" /\ link[t][s] = "down" /\ wire[s][t] = <<>> /\ wire[t][s] = <<>>
    /\ link' = [link EXCEPT ![s][t] = "introduced", ![t][s] = "accepted"]
    /\ wire' = [wire EXCEPT ![t][s] = <<[cmd |-> "SERVER"]>>]
    /\ seen' = seen \cup Irreconcilable
    /\ UNCHANGED <<chan, known, work>>

Receive(s, t) ==
    /\ wire[s][t] # <<>>
    /\ Become(s, Handle(s, Here(s), t, Head(wire[s][t])), t)
    /\ UNCHANGED <<work, links, seen>>

(* the connection breaks: what has not been read by then is lost from its  *)
(* tail on, and the other end reads EOF                                    *)
Split(s, t) ==
    /\ link[s][t] # "down"
    /\ LET h == Drop(s, Here(s), t) IN
       /\ chan' = [chan EXCEPT ![s] = h.chan]
       /\ known' = [known EXCEPT ![s] = h.known]
       /\ link' = [link EXCEPT ![s] = h.link]
       /\ \E n \in 0..Len(wire[t][s]) :
            wire' = [p \in Servers |-> [q \in Servers |->
                IF <<p, q>> = <<s, t>> THEN <<>>
                ELSE IF <<p, q>> = <<t, s>>
                THEN IF link[t][s] = "down" THEN <<>>
                     ELSE SubSeq(wire[t][s], 1, n) \o <<[cmd |-> "EOF"]>>
                ELSE IF q = s /\ link[p][s] # "down" THEN wire[p][s] \o h.out[p]
                ELSE wire[p][q]]]
    /\ UNCHANGED <<work, links, seen>>

Next ==
    \/ \E u \in Users, ts \in Times : JoinNew(u, ts)
    \/ \E u \in Users, key \in Keys \cup {0} : Join(u, key)
    \/ \E u \in Users : Part(u) \/ Quit(u)
    \/ \E u, v \in Users : Kick(u, v) \/ Invite(u, v)
    \/ \E u \in Users, x \in Changes : SetMode(u, x)
    \/ \E u \in Users, text \in Texts, ts \in Times : SetTopic(u, text, ts)
    \/ \E s \in Servers, u \in Users : Kill(s, u)
    \/ \E s, t \in Servers : Connect(s, t) \/ Receive(s, t) \/ Split(s, t)

Spec == Init /\ [][Next]_vars

-----------------------------------------------------------------------------
(* Properties *)

Message ==
    [cmd : {"SERVER", "PING", "PONG", "EOF"}]
    \cup [cmd : {"NICKS", "SQUIT", "KILL", "QUIT"}, users : SUBSET Users]
    \cup [cmd : {"SJOIN"}, ts : Times, users : SUBSET Users, ops : SUBSET Users]
    \cup [cmd : {"CSJOIN"}, ts : Times, by : SUBSET Users, user : Users]
    \cup [cmd : {"PART", "KICK", "INVITE"}, by : SUBSET Users, user : Users]
    \cup [cmd : {"MODE"}, ts : Times, by : SUBSET Users, changes : Seq(Change)]
    \cup [cmd : {"TOPIC"}, by : SUBSET Users, text : Texts, set : Times]

TypeOK ==
    /\ chan \in [Servers -> Channel]
    /\ known \in [Servers -> SUBSET Users]
    /\ link \in [Servers -> [Servers -> {"down", "accepted", "introduced", "up"}]]
    /\ wire \in [Servers -> [Servers -> Seq(Message)]]
    /\ work \in 0..MaxWork /\ links \in 0..MaxLinks
    /\ seen \subseteq {"crossed", "kicked", "killed", "rekeyed", "relimited", "retitled"}

(* add_to_channel adds whoever it is given, and channels are freed by a    *)
(* counter: nobody is ever added twice, whatever SJOINs, kicks and splits  *)
(* cross, all users are clients this server knows, and a channel without   *)
(* any remains only where a KILL has crossed a server's SJOIN.             *)
MembersCounted ==
    \A s \in Servers : LET c == chan[s] IN
        /\ c.onchannel = Cardinality(c.users)
        /\ c.users \subseteq known[s] /\ c.ops \subseteq c.users
        /\ c.exists \/ c = NoChannel
        /\ c.exists /\ c.users = {} => "killed" \in seen

(* Whether a client may speak is read from chanlink.bans, which is kept    *)
(* beside the list of bans: a client of this server is held to be banned   *)
(* only if a ban matches him.                                              *)
BansCounted ==
    \A s \in Servers : \A u \in chan[s].bans : Banned(chan[s], u)

(* What is kept beside the lists, counters and caches, agrees with them.   *)
Counted == MembersCounted /\ BansCounted

(* When nothing is under way linked servers have the same users on the     *)
(* channel, unless a user was kicked or killed elsewhere while a command of*)
(* his was under way.                                                      *)
Pairs == {p \in Servers \X Servers : link[p[1]][p[2]] = "up"}
UsersAgree == Quiet /\ ~({"kicked", "killed"} \cap seen # {} /\ "crossed" \in seen) =>
    \A p \in Pairs : chan[p[1]].users = chan[p[2]].users

(* ... and, if no two commands crossed, the same timestamp, operators and  *)
(* modes: whatever either side did to its copy while they were apart, the  *)
(* burst has merged it.  Excepted are a key that a client put in the place *)
(* of another, and limits and topics that were irreconcilable when a link  *)
(* was made.                                                               *)
StateAgrees == Quiet /\ "crossed" \notin seen =>
    \A p \in Pairs : LET c == chan[p[1]]  d == chan[p[2]] IN
        /\ c.created = d.created /\ c.ops = d.ops /\ c.set = d.set
        /\ Args(c, "i") = Args(d, "i") /\ Args(c, "b") = Args(d, "b")
        /\ Args(c, "k") = Args(d, "k") \/ "rekeyed" \in seen
        /\ Args(c, "l") = Args(d, "l") \/ "relimited" \in seen
        /\ c.text = d.text \/ "retitled" \in seen

(* The copies of a channel that linked servers have are equal, as far as   *)
(* the protocol can make them.  For N = 2: with a server in between a JOIN *)
(* may cross the SQUIT that has emptied the channel there, and make it     *)
(* anew without its modes, and a KILL may cross the burst that brings its  *)
(* user back, who then stays on the servers that the KILL has passed.      *)
CopiesAgree == UsersAgree /\ StateAgrees
=============================================================================
