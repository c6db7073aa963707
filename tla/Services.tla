----------------------------- MODULE Services -----------------------------
(***************************************************************************)
(* The services module (src/modules/services): registered nicknames with   *)
(* their mail contacts, links and access lists (nick.c), the commands of   *)
(* NickServ and OperServ, the database file that is written by a timer, on *)
(* request and at exit, and read at the start (db.c), and the connection   *)
(* that registration mails go out on (mail.c).                             *)
(*                                                                         *)
(* A registered nickname is a structure at an address, clients hold the    *)
(* address (services_client_data.nick), and an address is used again after *)
(* its structure is freed.  The low bits of flags and the activation key   *)
(* are one number in the code: the key is rand() << 32, so the bits below  *)
(* are free, and flags here is that pair.  A step that touches freed       *)
(* memory, or a NULL pointer, ends the process (the outcome of the C       *)
(* library's checks); writing to freed memory may also go unnoticed.       *)
(* Clients are remote ones, as the hooks ignore local clients; passwords   *)
(* given are right ones, others change nothing.                            *)
(***************************************************************************)
EXTENDS Integers, FiniteSets, SequencesExt

CONSTANTS Clients, Names, Addr, Emails, Masks, None,
          Matches,       \* [Clients -> SUBSET Masks], the masks that match a client
          Admins,        \* the administrators section of the configuration
          MailNicks, LinkedNicks, NickAcclist,   \* services.limits
          Expires,       \* services.expires.nick
          Files,         \* the database files to begin with
          MaxNow, MaxCommands, MaxStarts         \* bounds of the model

ASSUME ServicesAssumption ==
  /\ Matches \in [Clients -> SUBSET Masks] /\ Admins \subseteq Names
  /\ {MailNicks, LinkedNicks, NickAcclist, Expires, MaxNow, MaxCommands, MaxStarts} \subseteq Nat \ {0}
  /\ None \notin Names \cup Emails \cup Addr

VARIABLES
  up,        \* the process runs
  now,       \* me.now
  mem,       \* the regnick structure at an address
  nicks,     \* services.db.list.nicks, newest first
  contacts,  \* services.db.list.mail: nicks of the contact of an address
  online,    \* the nickname a client uses
  scdp,      \* services_client_data.nick
  file,      \* services.db.file
  mail,      \* the mail connection: sock, out(buf), freed (outbuf is dangling)
  got,       \* mails that have reached the mail server
  lost,      \* mails that waited and were lost to an event that loses mails
  saved,     \* what the last write was to keep
  commands,  \* arrivals and commands so far, bounded by MaxCommands
  starts     \* starts of the process, bounded by MaxStarts

books == <<mem, nicks, contacts>>
mailing == <<mail, got, lost>>
disk == <<file, saved, starts>>
users == <<online, scdp>>
vars == <<up, now, books, users, disk, mailing, commands>>

Junk == [name |-> None, flags |-> None]   \* bytes realloc added and nobody wrote
NoFlags == [key |-> None, bits |-> {}]
\* NOSAVE without the flags of an access level
NoSaveForgets == {"ADMIN", "SYNCED"}
NOSAVE == {"ADMIN", "SYNCED", "MASKACCESS", "IDACCESS"}

Live == ToSet(nicks)
Found(n) == {a \in Live : mem[a].name = n}              \* db_find_nick
Links(a) == {b \in Live : mem[b].parent = a}
HasId(c, a) == scdp[c] = a /\ "IDACCESS" \in mem[a].intflags
Activated(r) == "ACTIVATED" \in r.intflags

NoMem == [a \in Addr |-> None]
Closed == [sock |-> "none", out |-> <<>>, freed |-> FALSE]

\* mails in the buffer
Waiting == ToSet(mail.out) \ {Junk}

(***************************************************************************)
(* The process ends: memory is gone, clients split off, the file stays.    *)
(***************************************************************************)
Ends ==
  /\ up' = FALSE
  /\ mem' = NoMem /\ nicks' = <<>> /\ contacts' = [e \in Emails |-> None]
  /\ online' = [c \in Clients |-> None] /\ scdp' = [c \in Clients |-> None]
  /\ mail' = Closed
  /\ lost' = lost \cup Waiting

Dies == Ends /\ UNCHANGED <<now, got, disk>>

Running == up
Commanding == up /\ commands < MaxCommands /\ commands' = commands + 1

(***************************************************************************)
(* Nicknames                                                               *)
(***************************************************************************)
\* regnick_create, with the fields its callers fill in
Created(a, r) ==
  /\ mem' = [mem EXCEPT ![a] = r]
  /\ nicks' = <<a>> \o nicks
  /\ contacts' = [contacts EXCEPT ![r.email] = @ + 1]

\* Family, of a regnick_destroy that leaves the links
NoFamily(a) == {a}

\* a nickname and the children regnick_destroy goes down to
Family(a) ==
  LET Under[i \in 0..Cardinality(Addr)] ==
        IF i = 0 THEN {a} ELSE Under[i - 1] \cup UNION {Links(b) : b \in Under[i - 1]}
  IN  Under[Cardinality(Addr)]

Released(e, gone) ==
  LET n == Cardinality({a \in gone : mem[a].email = e})
  IN  IF n > 0 /\ contacts[e] = n THEN None
      ELSE IF n > 0 THEN contacts[e] - n ELSE contacts[e]

Destroyed(gone) ==
  /\ mem' = [a \in Addr |-> IF a \in gone THEN None ELSE mem[a]]
  /\ nicks' = SelectSeq(nicks, LAMBDA a : a \notin gone)
  /\ contacts' = [e \in Emails |-> Released(e, gone)]

(***************************************************************************)
(* Clients come and go (nick_register_hook); a change of nickname tells    *)
(* services nothing.                                                       *)
(***************************************************************************)
Free(n) == \A c \in Clients : online[c] # n

Arrive(c, n) ==
  /\ Commanding /\ online[c] = None /\ Free(n)
  /\ online' = [online EXCEPT ![c] = n]
  /\ LET np == {a \in Found(n) : mem[a].alist \cap Matches[c] # {}}
     IN  /\ scdp' = [scdp EXCEPT ![c] = IF np = {} THEN None ELSE CHOOSE a \in np : TRUE]
         /\ mem' = [a \in Addr |-> IF a \in np
                                   THEN [mem[a] EXCEPT !.flags.bits = @ \cup {"MASKACCESS"}]
                                   ELSE mem[a]]
  /\ UNCHANGED <<up, now, nicks, contacts, disk, mailing>>

Leave(c) ==
  /\ Running /\ online[c] # None
  /\ online' = [online EXCEPT ![c] = None]
  /\ scdp' = [scdp EXCEPT ![c] = None]
  /\ mem' = [a \in Addr |->
               IF a = scdp[c] /\ a \in Live
               THEN [mem[a] EXCEPT !.last = now,
                                   !.flags.bits = @ \ {"MASKACCESS", "IDACCESS"}]
               ELSE mem[a]]
  /\ UNCHANGED <<up, now, nicks, contacts, disk, mailing, commands>>

ChangeNick(c, n) ==
  /\ Commanding /\ online[c] # None /\ Free(n)
  /\ online' = [online EXCEPT ![c] = n]
  /\ UNCHANGED <<up, now, books, scdp, disk, mailing>>

(***************************************************************************)
(* The commands of the nickname service                                    *)
(***************************************************************************)
Says(c) == Commanding /\ online[c] # None

ns_identify(c) ==
  /\ Says(c)
  /\ \E a \in Live :
       /\ scdp' = [scdp EXCEPT ![c] = a]
       /\ mem' = [b \in Addr |->
            IF b = a THEN [mem[b] EXCEPT !.intflags = @ \cup {"IDACCESS"}]
            ELSE IF b = scdp[c] /\ b \in Live
            THEN [mem[b] EXCEPT !.intflags = @ \ {"MASKACCESS", "IDACCESS"}]
            ELSE mem[b]]
  /\ UNCHANGED <<up, now, nicks, contacts, online, disk, mailing>>

\* AUTH, with a key some mail for that nickname told
ns_auth(c) ==
  /\ Says(c)
  /\ \E a \in Live :
       /\ ~Activated(mem[a])
       /\ [name |-> mem[a].name, flags |-> mem[a].flags] \in got
       /\ mem' = [mem EXCEPT ![a].flags = NoFlags,
                             ![a].intflags = (@ \cup {"ACTIVATED"}) \ {"MAILED"}]
  /\ UNCHANGED <<up, now, nicks, contacts, users, disk, mailing>>

\* clears the pointer of the client that drops, and nobody else's
ns_drop(c) ==
  /\ Says(c)
  /\ \E a \in Live :
       /\ HasId(c, a)
       /\ Destroyed(Family(a))
  /\ scdp' = [scdp EXCEPT ![c] = None]
  /\ UNCHANGED <<up, now, online, disk, mailing>>

ns_access(c) ==
  /\ Says(c)
  /\ \E a \in Found(online[c]) :
       /\ HasId(c, a)
       /\ \/ \E m \in Masks \ mem[a].alist :                                  \* ADD
               /\ Cardinality(mem[a].alist) < NickAcclist
               /\ mem' = [mem EXCEPT ![a].alist = @ \cup {m}]
          \/ \E m \in mem[a].alist : mem' = [mem EXCEPT ![a].alist = @ \ {m}]  \* DEL
          \/ mem' = [mem EXCEPT ![a].alist = {}]                              \* WIPE
  /\ UNCHANGED <<up, now, nicks, contacts, users, disk, mailing>>

\* the record both forms of REGISTER fill in
Registered(c, e, parent, flags, intflags) ==
  [name |-> online[c], email |-> e, parent |-> parent, flags |-> flags,
   intflags |-> intflags, last |-> now, alist |-> {}]

\* srand() is seeded with the addresses of the client and the nickname
RegisterMail(c) ==
  /\ Says(c) /\ Found(online[c]) = {}
  /\ \E e \in Emails :
       \/ /\ contacts[e] = None /\ Dies           \* np->email is NULL
       \/ /\ contacts[e] # None /\ contacts[e] < MailNicks
          /\ \E a \in Addr \ Live :
               Created(a, Registered(c, e, None, [key |-> <<c, a>>, bits |-> {}], {}))
          /\ UNCHANGED <<up, now, users, disk, mailing>>

RegisterLink(c) ==
  /\ Says(c) /\ Found(online[c]) = {}
  /\ \E p \in Live, a \in Addr \ Live :
       /\ HasId(c, p)
       /\ Cardinality(Links(p)) < LinkedNicks
       /\ Created(a, Registered(c, mem[p].email, p, NoFlags, {"ACTIVATED"}))
  /\ UNCHANGED <<up, now, users, disk, mailing>>

ns_register(c) == RegisterMail(c) \/ RegisterLink(c)

\* SET PROTECT, of the nickname identified for or, with ON, of that one by
\* name; EMAIL is another bit like it
ns_set(c) ==
  /\ Says(c)
  /\ \E a \in Live :
       /\ HasId(c, a)
       /\ \/ mem' = [mem EXCEPT ![a].flags.bits = @ \cup {"PROTECT"}]
          \/ mem' = [mem EXCEPT ![a].flags.bits = @ \ {"PROTECT"}]
  /\ UNCHANGED <<up, now, nicks, contacts, users, disk, mailing>>

\* a command that follows a pointer to a nickname that was freed
Stray(c) ==
  /\ Says(c) /\ scdp[c] # None /\ scdp[c] \notin Live
  /\ Dies

(***************************************************************************)
(* The database (db.c).  A file is its contacts, written first, and a      *)
(* line per nickname, a parent before the child it was found by.           *)
(***************************************************************************)
\* Written, in the order of the list
WrittenInOrder == nicks

Written ==
  LET Once(lines, a) == IF a \in ToSet(lines) THEN lines ELSE Append(lines, a)
      Write(lines, a) == Once(IF mem[a].parent = None THEN lines
                              ELSE Once(lines, mem[a].parent), a)
  IN  FoldLeft(Write, <<>>, nicks)

db_write_nick(a) ==
  [mem[a] EXCEPT !.parent = IF @ = None THEN None ELSE mem[@].name,
                 !.intflags = @ \ NOSAVE]

\* expiry frees the nickname and goes on from it, or waits for its links
\* to be gone
Expiring == \E a \in Live : now - mem[a].last >= Expires

\* what a restart is to give back
Account(r, parent) ==
  [name |-> r.name, email |-> r.email, parent |-> parent, flags |-> r.flags,
   does |-> r.intflags \cap {"ACTIVATED", "MAILED"}, last |-> r.last, alist |-> r.alist]
Accounts(list, at) ==
  {Account(at[a], IF at[a].parent = None THEN None ELSE at[at[a].parent].name) :
     a \in ToSet(list)}

Wrote ==
  /\ ~Expiring
  /\ file' = [mail |-> {e \in Emails : contacts[e] # None},
              nicks |-> [i \in 1..Len(nicks) |-> db_write_nick(Written[i])]]
  /\ saved' = Accounts(nicks, mem)
  /\ UNCHANGED starts

\* db_sync that does not come back: expiry, or the file cannot be opened
Stuck == Dies

DbSync ==
  /\ Running
  /\ \/ Wrote /\ UNCHANGED <<up, now, books, users, mailing>>
     \/ Stuck
  /\ UNCHANGED commands

\* db_read_file
LineOf(n) == {i \in DOMAIN file.nicks : file.nicks[i].name = n}
Readable ==
  \A i \in DOMAIN file.nicks :
    /\ file.nicks[i].email \in file.mail
    /\ file.nicks[i].parent = None \/ \E j \in LineOf(file.nicks[i].parent) : j < i
ReadMem ==
  [a \in Addr |->
    IF a \notin DOMAIN file.nicks THEN None
    ELSE [file.nicks[a] EXCEPT
            !.parent = IF @ = None THEN None ELSE CHOOSE j \in LineOf(@) : TRUE,
            !.intflags = IF file.nicks[a].name \in Admins THEN @ \cup {"ADMIN"} ELSE @]]
ReadNicks == Reverse([i \in DOMAIN file.nicks |-> i])
ReadContacts ==
  [e \in Emails |-> IF e \notin file.mail THEN None
                    ELSE Cardinality({i \in DOMAIN file.nicks : file.nicks[i].email = e})]

Start ==
  /\ ~up /\ Readable
  /\ starts < MaxStarts /\ starts' = starts + 1
  /\ up' = TRUE
  /\ mem' = ReadMem /\ nicks' = ReadNicks /\ contacts' = ReadContacts
  /\ mail' = [Closed EXCEPT !.sock = "connecting"]
  /\ UNCHANGED <<now, users, file, saved, got, lost, commands>>

(***************************************************************************)
(* Registration mails (mail.c)                                             *)
(***************************************************************************)
Mailed(a) == "MAILED" \in mem[a].intflags
Mails ==
  LET due == SelectSeq(nicks, LAMBDA a : ~Activated(mem[a]) /\ ~Mailed(a))
  IN  [i \in DOMAIN due |-> [name |-> mem[due[i]].name, flags |-> mem[due[i]].flags]]

\* the buffer grows by a mail, and the mail is copied to its beginning
Pushed(out, m) == IF out = <<>> THEN <<m>> ELSE <<m>> \o Tail(out) \o <<Junk>>
Overwritten(out) == IF out = <<>> THEN {} ELSE {Head(out)} \ {Junk}

\* mail_send that keeps nothing a closed socket did not take
mail_send_forgets(open) ==
  /\ mem' = [a \in Addr |-> IF a \in Live
                            THEN [mem[a] EXCEPT !.intflags = @ \cup {"MAILED"}]
                            ELSE mem[a]]
  /\ Mails # <<>> => mail.sock # "none" /\ ~mail.freed
  /\ got' = IF open THEN got \cup ToSet(Mails) ELSE got
  /\ UNCHANGED <<mail, lost>>

\* mail_send, to a server that takes everything (open) or nothing
mail_send(open) ==
  /\ mem' = [a \in Addr |-> IF a \in Live
                            THEN [mem[a] EXCEPT !.intflags = @ \cup {"MAILED"}]
                            ELSE mem[a]]
  /\ IF Mails = <<>> THEN UNCHANGED mailing
     ELSE /\ mail.sock # "none" /\ ~mail.freed
          /\ LET first == Pushed(mail.out, Head(Mails))
             IN  IF open
                 THEN /\ mail' = [mail EXCEPT !.out = <<>>]
                      /\ got' = got \cup ((ToSet(first) \cup ToSet(Mails)) \ {Junk})
                      /\ lost' = lost \cup Overwritten(mail.out)
                 ELSE /\ mail' = [mail EXCEPT !.out = FoldLeft(Pushed, mail.out, Mails)]
                      /\ got' = got
                      /\ lost' = lost \cup Overwritten(mail.out)
                                      \cup ToSet(Front(Mails))
\* realloc of the freed buffer, or a write to no socket
MailDies == Mails # <<>> /\ (mail.sock = "none" \/ mail.freed) /\ Dies

MailTimer ==
  /\ Running
  /\ \/ /\ \E open \in BOOLEAN : mail_send(open)
        /\ UNCHANGED <<up, now, nicks, contacts, users, disk>>
     \/ MailDies
  /\ UNCHANGED commands

\* mail_socket_hook on a socket that can be written to
MailWritable ==
  /\ Running /\ mail.sock # "none"
  /\ IF mail.sock = "connecting"
     THEN /\ mail' = [mail EXCEPT !.sock = "greeted"]
          /\ UNCHANGED <<up, now, books, users, disk, got, lost>>
     ELSE \/ /\ ~mail.freed
             /\ \E k \in 1..Len(mail.out) :
                  /\ mail' = [mail EXCEPT !.out = SubSeq(@, k + 1, Len(@))]
                  /\ got' = got \cup (ToSet(SubSeq(mail.out, 1, k)) \ {Junk})
             /\ UNCHANGED <<up, now, books, users, disk, lost>>
          \/ mail.freed /\ Dies      \* the empty buffer is freed once more
  /\ UNCHANGED commands

\* the connection breaks, and mail_connect makes another or cannot
MailBreaks ==
  /\ Running /\ mail.sock # "none"
  /\ \/ /\ ~mail.freed
        /\ mail' = [sock |-> "connecting", out |-> <<>>, freed |-> mail.out # <<>>]
        /\ lost' = lost \cup Waiting
        /\ UNCHANGED <<up, now, books, users, disk, got>>
     \/ Dies
  /\ UNCHANGED commands

(***************************************************************************)
(* The operator service, operators and the process                         *)
(***************************************************************************)
Admin(c) == scdp[c] \in Live /\ "ADMIN" \in mem[scdp[c]].intflags

\* SYNC writes the file and then sends the mails
os_sync(c) ==
  /\ Says(c) /\ Admin(c)
  /\ \/ /\ Wrote
        /\ \E open \in BOOLEAN : mail_send(open)
        /\ UNCHANGED <<up, now, nicks, contacts, users>>
     \/ /\ Wrote /\ Mails # <<>> /\ (mail.sock = "none" \/ mail.freed)
        /\ Ends /\ UNCHANGED <<now, got>>
     \/ Stuck

\* DIE by an administrator, or a signal: the unloader writes the file
Exit ==
  /\ Running
  /\ \/ Wrote /\ Ends /\ UNCHANGED <<now, got>>
     \/ Stuck
  /\ UNCHANGED commands

\* MODULE RELOAD: the unloader writes the file and destroys the clients'
\* data; the database is handed over, the mail connection is not
Reload ==
  /\ Commanding
  /\ \/ /\ Wrote
        /\ scdp' = [c \in Clients |-> None]
        /\ mail' = Closed
        /\ lost' = lost \cup Waiting
        /\ UNCHANGED <<up, now, books, online, got>>
     \/ Stuck

Crash == Running /\ Dies /\ UNCHANGED commands

Tick ==
  /\ now < MaxNow
  /\ now' = now + 1
  /\ UNCHANGED <<up, books, users, disk, mailing, commands>>

Init ==
  /\ up = FALSE /\ now = 0
  /\ mem = NoMem /\ nicks = <<>> /\ contacts = [e \in Emails |-> None]
  /\ online = [c \in Clients |-> None] /\ scdp = [c \in Clients |-> None]
  /\ file \in Files
  /\ saved = Accounts(ReadNicks, ReadMem)
  /\ mail = Closed /\ got = {} /\ lost = {}
  /\ commands = 0 /\ starts = 0

Client(c) ==
  \/ \E n \in Names : Arrive(c, n) \/ ChangeNick(c, n)
  \/ Leave(c)
  \/ ns_identify(c) \/ ns_auth(c) \/ ns_drop(c) \/ ns_access(c)
  \/ ns_register(c) \/ ns_set(c) \/ Stray(c) \/ os_sync(c)

Next ==
  \/ \E c \in Clients : Client(c)
  \/ Start \/ DbSync \/ MailTimer \/ MailWritable \/ MailBreaks
  \/ Exit \/ Reload \/ Crash \/ Tick

Spec == Init /\ [][Next]_vars

(***************************************************************************)
(* Properties                                                              *)
(***************************************************************************)
Flags == [key : {None} \cup (Clients \X Addr),
          bits : SUBSET {"PROTECT", "MASKACCESS"}]
Lasting == {"MAILED", "ACTIVATED"}
Nick(parents, intflags) ==
  [name : Names, email : Emails, parent : parents \cup {None}, flags : Flags,
   intflags : SUBSET intflags, last : 0..MaxNow, alist : SUBSET Masks]
Letter == [name : Names, flags : Flags] \cup {Junk}

\* The types of the variables.
TypeOK ==
  /\ up \in BOOLEAN /\ now \in 0..MaxNow /\ commands \in 0..MaxCommands /\ starts \in 0..MaxStarts
  /\ \A a \in Addr : mem[a] = None \/ mem[a] \in Nick(Addr, Lasting \cup {"ADMIN", "IDACCESS"})
  /\ nicks \in Seq(Addr) /\ contacts \in [Emails -> Nat \cup {None}]
  /\ online \in [Clients -> Names \cup {None}] /\ scdp \in [Clients -> Addr \cup {None}]
  /\ file.mail \subseteq Emails /\ file.nicks \in Seq(Nick(Names, Lasting))
  /\ mail.sock \in {"none", "connecting", "greeted"} /\ mail.freed \in BOOLEAN
  /\ mail.out \in Seq(Letter) /\ got \subseteq Letter /\ lost \subseteq Letter

\* The list of nicknames, the contacts and the links agree with each other
\* through registrations, drops of whole families and restarts: the count of a
\* contact, which regnick_destroy frees it by (nick.c:44-47), is the number of
\* nicknames that point at it, a link shares the contact of its parent, and no
\* limit of services.limits is passed.
AccountsAgree ==
  /\ IsInjective(nicks) /\ Live = {a \in Addr : mem[a] # None}
  /\ \A n \in Names : Cardinality(Found(n)) <= 1
  /\ \A e \in Emails :
       LET mine == {a \in Live : mem[a].email = e}
       IN  /\ contacts[e] = None => mine = {}
           /\ contacts[e] # None => contacts[e] = Cardinality(mine)
           /\ Cardinality({a \in mine : mem[a].parent = None}) <= MailNicks
  /\ \A a \in Live :
       /\ mem[a].parent # None => /\ mem[a].parent \in Live
                                  /\ mem[mem[a].parent].email = mem[a].email
       /\ Cardinality(Links(a)) <= LinkedNicks
       /\ Cardinality(mem[a].alist) <= NickAcclist

\* What db_read_file makes of the file (db.c:67-141) is what the last write
\* that ended was given, at whatever point the process stops, and it can be
\* read: the line of a parent stands before the lines of its links
\* (db.c:126-130), unless a link has links of its own.
RestartGivesBack ==
  /\ Readable \/ \E r, p \in saved : r.parent = p.name /\ p.parent # None
  /\ Readable => saved = Accounts(ReadNicks, ReadMem)

\* The registration mail of a nickname that is marked as mailed is in the
\* buffer, has reached the server, or waited and was lost to one of four: the
\* end of the process, a broken connection, a reload, or the next mail, which is
\* copied over the one that waits (mail.c:107-115, 184-190).
MailsAccounted ==
  \A a \in Live :
    Mailed(a) /\ ~Activated(mem[a]) =>
      \E m \in got \cup Waiting \cup lost :
        m.name = mem[a].name /\ m.flags.key = mem[a].flags.key

\* Nicknames, contacts, links and mails account for each other.
BooksBalance == AccountsAgree /\ MailsAccounted

=============================================================================
