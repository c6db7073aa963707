----------------------------- MODULE Admission -----------------------------
(***************************************************************************)
(* Who may connect, and in which class: the access control lists of        *)
(* modules/ircd/addons/acl.c with the commands ACL and AKILL, the throttle *)
(* of addons/throttle.c that adds entries to them, and the connection      *)
(* classes of class.c, whose members the lists count.                      *)
(*                                                                         *)
(* ConnectionSetup models what a connection waits for between the stages   *)
(* and Clients what a client does afterwards; here a stage is one step.    *)
(* What an entry is matched with (user, host, address, info, password) is  *)
(* a set of addresses.                                                     *)
(***************************************************************************)
EXTENDS Integers, Sequences, FiniteSets, SequencesExt, FiniteSetsExt, Queues

CONSTANTS
    Slots,         \* connections at one time
    Hosts,         \* addresses
    Default,       \* the class first created, LIST_FIRST(ircd.lists.classes)
    Others,        \* the other classes
    NoClass,       \* conn->cls == NULL
    Configs,       \* configurations: records [max, acls]
    TriggerCount,  \* throttle.conns
    TriggerTime,   \* throttle.span
    Lengths,       \* throttle.lengths
    Cache,         \* throttle.cache
    Masks,         \* what entries made by commands match
    Times,         \* how long they hold, 0: for ever
    LastTime,      \* seconds of a run
    MaxWork        \* connections, commands, reloads and links of a run

ASSUME AdmissionAssumption ==
    /\ Default \notin Others /\ NoClass \notin Others \cup {Default}
    /\ TriggerCount \in Nat \ {0} /\ TriggerTime \in Nat /\ Cache \in Nat \ {0}
    /\ Lengths \in Seq(Nat \ {0}) /\ Lengths # <<>> /\ Masks \subseteq SUBSET Hosts /\ Times \subseteq Nat
    /\ LastTime \in Nat /\ MaxWork \in Nat /\ IsFiniteSet(Slots)

VARIABLES
    now,        \* me.now
    class,      \* the class_t of each name
    conn,       \* the connection_t in each slot
    list,       \* ircd.connections: stage1, stage2, clients, servers
    acls,       \* acl.stage1_list, acl.stage2_list, acl.stage3_list
    throttle,   \* throttle.table: the record of an address, or none
    links,      \* connections made by server_connect so far
    tries,      \* the times of the connections from an address so far
    work        \* connections, commands, reloads and links so far

vars == <<now, class, conn, list, acls, throttle, links, tries, work>>

Classes == Others \cup {Default}
Stages == 1 .. 3
Lists == {"stage1", "stage2", "clients", "servers"}
Waiting == <<"stage1", "stage2", "clients">>   \* the list that a stage's entries are checked against
Start == 100                                   \* a time much greater than any length
Far == 1000                                    \* a time that does not come

Class == [here : BOOLEAN, dead : BOOLEAN, clients : Int, max : Nat]
Connection == [cls : Classes \cup {NoClass}, host : Hosts, kind : {"client", "connecting", "introduced"}]
Acl == [deny : BOOLEAN, mask : SUBSET Hosts, type : {"acl", "command", "akill", "throttle"},
        rule : Nat, cls : Classes, conf : {"none", "temp", "conf"}, expire : Nat]
ConfAcl == {a \in Acl : a.type = "acl" /\ a.conf = "conf"}
Throttle == [first : Nat, count : Nat, banned : Nat, stage : 0 .. Len(Lengths), timer : Nat]

\* A configuration limits the classes that it has and lists entries of type acl, each
\* with its place in the configuration.
ASSUME ConfigsAssumption ==
    \A cfg \in Configs :
        /\ \E named \in SUBSET Classes : cfg.max \in [named -> Nat]
        /\ \A s \in Stages : cfg.acls[s] \in Seq(ConfAcl)

Free(c) == conn[c].cls = NoClass
Unused == [cls |-> NoClass, host |-> CHOOSE host \in Hosts : TRUE, kind |-> "client"]
Members(cs, k) == {c \in Slots : cs[c].cls = k}

-----------------------------------------------------------------------------
(* class.c, on a record h of what a handler has done so far                *)

Here == [class |-> class, conn |-> conn, list |-> list]

(* destroy_class: the default class stays, a class with clients only dies  *)
DestroyClass(cl, k) ==
    IF k = Default THEN cl
    ELSE [cl EXCEPT ![k].dead = TRUE, ![k].here = cl[k].clients # 0]

(* del_from_class, add_to_class                                            *)
DelFromClass(h, c) ==
    LET k == h.conn[c].cls
        cl == [h.class EXCEPT ![k].clients = @ - 1]
    IN [h EXCEPT !.class = IF cl[k].clients = 0 /\ cl[k].dead THEN DestroyClass(cl, k) ELSE cl,
                 !.conn[c].cls = NoClass]
AddToClass(h, k, c) ==
    IF h.conn[c].cls = k THEN h
    ELSE LET d == IF h.conn[c].cls = NoClass THEN h ELSE DelFromClass(h, c)
         IN [d EXCEPT !.conn[c].cls = k, !.class[k].clients = @ + 1]

(* LIST_INSERT_HEAD of the connection, and LIST_REMOVE                     *)
Listed(h, l, c) == [h EXCEPT !.list[l] = <<c>> \o @]
\* Mutant: it remains in the list that it was in.
StaysListed(h, c) == h
Unlisted(h, c) == [h EXCEPT !.list = [l \in DOMAIN @ |-> Without(@[l], {c})]]

(* destroy_connection, as far as the class and the lists go                *)
Destroyed(h, c) == [Unlisted(DelFromClass(h, c), c) EXCEPT !.conn[c] = Unused]

Becomes(h) == class' = h.class /\ conn' = h.conn /\ list' = h.list

-----------------------------------------------------------------------------
(* The entries, in the order of their rules                                *)

CommandRule == 1   \* acl.default_rule
Entry(deny, mask, type) ==
    [deny |-> deny, mask |-> mask, type |-> type, rule |-> CommandRule, cls |-> Default,
     conf |-> "none", expire |-> 0]

(* find_acl                                                                *)
Same(a, b) == a.deny = b.deny /\ a.mask = b.mask /\ a.type = b.type /\ a.rule = b.rule
FindAcl(l, a) == {i \in DOMAIN l : Same(l[i], a)}

(* create_acl: one like it is replaced; it goes after those of its rule    *)
CreateAcl(l, a) ==
    LET old == FindAcl(l, a)
        kept == IF old = {} THEN l ELSE RemoveAt(l, Min(old))
        after == {i \in DOMAIN kept : kept[i].rule > a.rule}
    IN IF after = {} THEN Append(kept, a) ELSE InsertAt(kept, Min(after), a)

(* acl_stage1_hook, acl_stage2_hook, acl_stage3_hook: the first entry that *)
(* denies, or admits to a class with room, decides                         *)
HasRoom(h, s, k) ==
    \/ s = 1
    \/ h.class[k].max > h.class[k].clients
    \/ s = 3 /\ h.class[k].max < 1
Deciding(h, l, s, c) ==
    {i \in DOMAIN l : h.conn[c].host \in l[i].mask /\ (l[i].deny \/ HasRoom(h, s, l[i].cls))}
RefusedBy(h, l, s, c) ==
    LET d == Deciding(h, l, s, c)
    IN IF d = {} THEN s = 3 /\ l # <<>> ELSE l[Min(d)].deny
Placed(h, s, c) ==
    LET d == Deciding(h, acls[s], s, c)
    IN IF d = {} THEN h ELSE AddToClass(h, acls[s][Min(d)].cls, c)

(* acl_force_check: each connection at the stage is asked about again      *)
\* Mutant: the walk ends with the first connection that it destroys.
CheckedOnce(h, l, s) ==
    LET refused == SelectSeq(h.list[Waiting[s]], LAMBDA c : RefusedBy(h, l, s, c))
    IN IF refused = <<>> THEN h ELSE Destroyed(h, Head(refused))
Asked(h, l, s, c) == IF RefusedBy(h, l, s, c) THEN Destroyed(h, c) ELSE h
Checked(h, l, s) ==
    LET q == h.list[Waiting[s]]
        after[n \in 0 .. Len(q)] == IF n = 0 THEN h ELSE Asked(after[n - 1], l, s, q[n])
    IN after[Len(q)]

-----------------------------------------------------------------------------
(* The throttle                                                            *)

NewThrottle == [first |-> 0, count |-> 0, banned |-> 0, stage |-> 0, timer |-> now + Cache]

(* throttle_stage1_hook: one more connection from the address of t.  The   *)
(* record afterwards, and whether the address is (again) to be banned      *)
\* Mutant: connections are counted although long ago.
NoWindow(t) == IF t.first = 0 THEN [t EXCEPT !.first = now, !.count = 0] ELSE t
Window(t) == IF now - t.first > TriggerTime THEN [t EXCEPT !.first = now, !.count = 0] ELSE t
Released(t) ==
    IF t.banned # 0 /\ t.banned + Lengths[t.stage] < now
    THEN [t EXCEPT !.banned = 0, !.first = now, !.count = 0, !.timer = now + Cache]
    ELSE t
Counted(t) == [Released(Window(t)) EXCEPT !.count = @ + 1]
Banned(t) ==
    LET stage == IF t.banned = 0 THEN 1 ELSE Min({t.stage + 1, Len(Lengths)})
    IN [first |-> 0, count |-> 0, banned |-> IF t.banned = 0 THEN now ELSE t.banned, stage |-> stage,
        timer |-> IF Lengths[stage] > Cache THEN now + Lengths[stage] ELSE t.timer]
Hit(t) == Counted(t).count >= TriggerCount
Refuses(t) == Hit(t) \/ Counted(t).banned # 0
Following(t) == IF Hit(t) THEN Banned(Counted(t)) ELSE Counted(t)

(* ... and the entry that it makes, or whose time it sets again            *)
BanEntry(l, host, t) ==
    LET a == [Entry(TRUE, {host}, "throttle") EXCEPT !.conf = "temp", !.expire = now + Lengths[t.stage]]
    IN IF FindAcl(l, a) = {} THEN CreateAcl(l, a) ELSE [l EXCEPT ![Min(FindAcl(l, a))] = a]
Bans(t) == Hit(t) /\ Following(t).banned + Lengths[Following(t).stage] >= now


-----------------------------------------------------------------------------
(* The steps of a connection                                               *)

Works == work < MaxWork /\ work' = work + 1

(* ircd_listen_hook: the default class, then the hooks of stage 1; both    *)
(* are called whatever the first says                                      *)
Accept(c, host) ==
    LET t == IF throttle[host] = <<>> THEN NewThrottle ELSE throttle[host][1]
        l == IF Bans(t) THEN BanEntry(acls[1], host, Following(t)) ELSE acls[1]
        h == AddToClass([Here EXCEPT !.conn[c].host = host, !.conn[c].kind = "client"], Default, c)
    IN /\ Free(c) /\ Works
       /\ throttle' = [throttle EXCEPT ![host] = <<Following(t)>>]
       /\ acls' = [acls EXCEPT ![1] = l]
       /\ Becomes(IF Refuses(t) \/ RefusedBy(h, l, 1, c) THEN Destroyed(h, c) ELSE Listed(h, "stage1", c))
       /\ tries' = [tries EXCEPT ![host] = Append(@, now)]
       /\ UNCHANGED <<now, links>>

(* connection_stage2_done                                                  *)
Stage2(c) ==
    /\ c \in ToSet(list.stage1)
    /\ Becomes(IF RefusedBy(Here, acls[2], 2, c) THEN Destroyed(Here, c)
               ELSE Listed(Unlisted(Placed(Here, 2, c), c), "stage2", c))
    /\ UNCHANGED <<now, acls, throttle, links, tries, work>>

(* register_client                                                         *)
Register(c) ==
    /\ c \in ToSet(list.stage2) /\ conn[c].kind = "client"
    /\ Becomes(IF RefusedBy(Here, acls[3], 3, c) THEN Destroyed(Here, c)
               ELSE Listed(Unlisted(Placed(Here, 3, c), c), "clients", c))
    /\ UNCHANGED <<now, acls, throttle, links, tries, work>>

(* It quits, is killed, times out or fails: destroy_connection             *)
Leave(c) ==
    /\ ~Free(c)
    /\ Becomes(Destroyed(Here, c))
    /\ UNCHANGED <<now, acls, throttle, links, tries, work>>

(* server_connect: the class is set, but its clients are not counted       *)
ServerConnect(c, host) ==
    /\ Free(c) /\ Works
    /\ Becomes(Listed([Here EXCEPT !.conn[c] = [cls |-> Default, host |-> host, kind |-> "connecting"]],
                      "stage2", c))
    /\ links' = links + 1
    /\ UNCHANGED <<now, acls, throttle, tries>>

(* server_introduce, called when the connection is made or answers one:    *)
(* the class of the configuration, or the default one                      *)
Introduce(c, k) ==
    /\ c \in ToSet(list.stage2) /\ conn[c].kind # "introduced" /\ class[k].here
    /\ conn[c].kind = "client" => Works
    /\ conn[c].kind = "connecting" => UNCHANGED work
    /\ Becomes(AddToClass([Here EXCEPT !.conn[c].kind = "introduced"], k, c))
    /\ UNCHANGED <<now, acls, throttle, links, tries>>

(* server_register                                                         *)
ServerRegister(c) ==
    /\ c \in ToSet(list.stage2) /\ conn[c].kind = "introduced"
    /\ Becomes(Listed(Unlisted(Here, c), "servers", c))
    /\ UNCHANGED <<now, acls, throttle, links, tries, work>>

-----------------------------------------------------------------------------
(* Commands, reloads and timers                                            *)

(* OPER: the class of the operator's entry, which may be a dead one        *)
Oper(c, k) ==
    /\ c \in ToSet(list.clients) /\ class[k].here /\ Works
    /\ Becomes(AddToClass(Here, k, c))
    /\ UNCHANGED <<now, acls, throttle, links, tries>>

(* ACL ADD, KLINE and ZLINE.  They may destroy the connection of the       *)
(* operator whose command it is                                            *)
AclAdd(c, s, deny, mask, time) ==
    LET a == [Entry(deny, mask, "command") EXCEPT !.conf = IF time = 0 THEN "none" ELSE "temp",
                                                  !.expire = IF time = 0 THEN 0 ELSE now + time]
        l == CreateAcl(acls[s], a)
    IN /\ c \in ToSet(list.clients) /\ FindAcl(acls[s], a) = {} /\ Works
       /\ acls' = [acls EXCEPT ![s] = l]
       /\ Becomes(Checked(Here, l, s))
       /\ UNCHANGED <<now, throttle, links, tries>>

(* ACL DEL, UNKLINE and UNZLINE, of an operator; RAKILL and UNSGLINE, of   *)
(* services, which concern stage 3: nobody is asked about again            *)
AclDel(s, i) ==
    /\ i \in DOMAIN acls[s] /\ Works
    /\ \/ acls[s][i].type = "command" /\ acls[s][i].conf # "conf" /\ list.clients # <<>>
       \/ acls[s][i].type = "akill" /\ s = 3
    /\ acls' = [acls EXCEPT ![s] = RemoveAt(@, i)]
    /\ UNCHANGED <<now, class, conn, list, throttle, links, tries>>

(* AKILL and SGLINE, for stage 3, from services; SZLINE for stage 1, and   *)
(* UNSZLINE too: it leaves op at ACL_ADD, so that it adds an entry instead *)
(* of deleting one.  Only an AKILL has a time                              *)
Akill(s, mask, time) ==
    LET a == [Entry(TRUE, mask, "akill") EXCEPT !.conf = "temp",
                                                !.expire = IF time = 0 THEN 0 ELSE now + time]
        l == CreateAcl(acls[s], a)
    IN /\ s \in {1, 3} /\ Works /\ (s = 1 => time = 0)
       /\ acls' = [acls EXCEPT ![s] = l]
       /\ Becomes(Checked(Here, l, s))
       /\ UNCHANGED <<now, throttle, links, tries>>

(* ircd_parse_classes: all die, those in the configuration are revived.    *)
(* The default class is marked dead too, but stays where it is             *)
Revived(cfg) ==
    [k \in Classes |->
        LET d == DestroyClass([class EXCEPT ![k].dead = TRUE], k)[k]
        IN IF k \notin DOMAIN cfg.max THEN d
           ELSE [here |-> TRUE, dead |-> FALSE, clients |-> d.clients, max |-> cfg.max[k]]]

(* acl_conf_hook: what has a conf goes, the configured entries come; one   *)
(* for a class that is not to be found, or dead, gets the default class    *)
\* Mutant: a dead class that is found is taken.
FoundClass(cl, k) == IF cl[k].here THEN k ELSE Default
ClassOf(cl, k) == IF cl[k].here /\ ~cl[k].dead THEN k ELSE Default
Configured(l, cl, entries) ==
    LET kept == Without(l, {a \in ToSet(l) : a.conf # "none"})
        with[n \in 0 .. Len(entries)] ==
            IF n = 0 THEN kept
            ELSE CreateAcl(with[n - 1], [entries[n] EXCEPT !.cls = ClassOf(cl, entries[n].cls)])
    IN with[Len(entries)]

(* The hooks of read_conf: ircd, then acl, then throttle                   *)
Reload(cfg) ==
    /\ Works
    /\ class' = Revived(cfg)
    /\ acls' = [s \in Stages |-> Configured(acls[s], class', cfg.acls[s])]
    /\ throttle' = [host \in Hosts |-> <<>>]
    /\ UNCHANGED <<now, conn, list, links, tries>>

(* acl_timer_hook                                                          *)
Due(a) == a.expire # 0 /\ a.expire <= now
AclExpires(s, i) ==
    /\ i \in DOMAIN acls[s] /\ Due(acls[s][i])
    /\ acls' = [acls EXCEPT ![s] = RemoveAt(@, i)]
    /\ UNCHANGED <<now, class, conn, list, throttle, links, tries, work>>

(* throttle_timer_hook looks up the length of the stage after its own;     *)
(* after the last one, what lies behind the array is read                  *)
ThrottleExpires(host) ==
    /\ throttle[host] # <<>> /\ throttle[host][1].timer <= now
    /\ LET t == throttle[host][1]
           again == IF t.stage < Len(Lengths) THEN {now + Lengths[t.stage + 1]} ELSE {Far}
       IN \/ /\ t.stage < Len(Lengths) => now - t.banned > Lengths[t.stage + 1]
             /\ throttle' = [throttle EXCEPT ![host] = <<>>]
          \/ /\ t.stage < Len(Lengths) => now - t.banned <= Lengths[t.stage + 1]
             /\ \E u \in again : throttle' = [throttle EXCEPT ![host][1].timer = u]
    /\ UNCHANGED <<now, class, conn, list, acls, links, tries, work>>

(* Timers run before time passes                                           *)
Tick ==
    /\ now < Start + LastTime
    /\ \A s \in Stages : \A i \in DOMAIN acls[s] : ~Due(acls[s][i])
    /\ \A host \in Hosts : \A t \in ToSet(throttle[host]) : t.timer > now
    /\ now' = now + 1
    /\ UNCHANGED <<class, conn, list, acls, throttle, links, tries, work>>

\* A client of the default class has been online for long.
Init ==
    /\ now = Start
    /\ \E cfg \in {g \in Configs : Default \in DOMAIN g.max} :
        /\ class = [k \in Classes |-> [here |-> k \in DOMAIN cfg.max, dead |-> FALSE,
                                       clients |-> IF k = Default THEN 1 ELSE 0,
                                       max |-> IF k \in DOMAIN cfg.max THEN cfg.max[k] ELSE 0]]
        /\ acls = [s \in Stages |-> Configured(<<>>, class, cfg.acls[s])]
    /\ \E c \in Slots, host \in Hosts :
        /\ conn = [d \in Slots |-> IF d = c THEN [Unused EXCEPT !.cls = Default, !.host = host] ELSE Unused]
        /\ list = [l \in Lists |-> IF l = "clients" THEN <<c>> ELSE <<>>]
    /\ throttle = [host \in Hosts |-> <<>>]
    /\ links = 0 /\ tries = [host \in Hosts |-> <<>>] /\ work = 0

Next ==
    \/ \E c \in Slots :
        \/ \E host \in Hosts : Accept(c, host) \/ ServerConnect(c, host)
        \/ Stage2(c) \/ Register(c) \/ Leave(c) \/ ServerRegister(c)
        \/ \E k \in Classes : Introduce(c, k) \/ Oper(c, k)
        \/ \E s \in Stages, deny \in BOOLEAN, mask \in Masks, time \in Times : AclAdd(c, s, deny, mask, time)
    \/ \E s \in Stages :
        \/ \E mask \in Masks, time \in Times : Akill(s, mask, time)
        \/ \E i \in 1 .. Len(acls[s]) : AclExpires(s, i) \/ AclDel(s, i)
    \/ \E cfg \in Configs : Reload(cfg)
    \/ \E host \in Hosts : ThrottleExpires(host)
    \/ Tick

Spec == Init /\ [][Next]_vars

-----------------------------------------------------------------------------
(* Properties                                                              *)

(* Types, of the records as of the lists: a connection is in one list, and *)
(* those in none have no class.                                            *)
TypeOK ==
    /\ now \in Start .. Start + LastTime /\ links \in Nat /\ work \in 0 .. MaxWork
    /\ class \in [Classes -> Class] /\ conn \in [Slots -> Connection]
    /\ \A s \in Stages : ToSet(acls[s]) \subseteq Acl
    /\ \A host \in Hosts : Len(throttle[host]) <= 1 /\ ToSet(throttle[host]) \subseteq Throttle
    /\ \A c \in Slots :
        Cardinality({l \in DOMAIN list : c \in ToSet(list[l])}) = IF Free(c) THEN 0 ELSE 1

(* The clients of a class are the connections that point to it, but for    *)
(* the connections made by server_connect, each of which leaves the count  *)
(* of the default class one short for good; a class is freed when it is    *)
(* dead and has no connections, not earlier and not later; and no entry of *)
(* the access lists points to a class that is freed, or may yet be.        *)
ClassesCounted ==
    /\ \A k \in Others :
        /\ class[k].here => class[k].clients = Cardinality(Members(conn, k))
        /\ Members(conn, k) # {} => class[k].here
        /\ class[k].here /\ class[k].dead => Members(conn, k) # {}
    /\ class[Default].here
    /\ class[Default].clients = Cardinality(Members(conn, Default)) - links
    /\ \A s \in Stages : \A a \in ToSet(acls[s]) : a.cls \in Others => class[a.cls].here /\ ~class[a.cls].dead

(* After a command has added an entry and had the connections of its stage *)
(* checked, none is left that the lists refuse, although each destroyed    *)
(* makes room in a class that others were refused for.                     *)
CheckIsFinal ==
    [][\A s \in Stages :
        (\E a \in ToSet(acls'[s]) \ ToSet(acls[s]) : a.type \in {"command", "akill"}) =>
            ~\E c \in ToSet(list'[Waiting[s]]) :
                RefusedBy([class |-> class', conn |-> conn', list |-> list'], acls'[s], s, c)]_vars

(* An address is banned only if it has connected throttle.conns times      *)
(* within throttle.span; until the ban ends, an entry of stage 1 keeps it  *)
(* out, however the record and the entry are set and expire by timers of   *)
(* their own.                                                              *)
ThrottledForCause ==
    \A host \in Hosts : \A t \in ToSet(throttle[host]) :
           /\ t.banned # 0 =>
                Cardinality({i \in DOMAIN tries[host] :
                    tries[host][i] \in t.banned - TriggerTime .. t.banned}) >= TriggerCount
           /\ t.banned # 0 /\ now < t.banned + Lengths[t.stage] =>
                \E a \in ToSet(acls[1]) : a.type = "throttle" /\ a.mask = {host} /\ a.expire > now
=============================================================================
