---------------------------- MODULE ModuleLoader ----------------------------
(***************************************************************************)
(* The module loader (source/module.c).  Modules are shared libraries with *)
(* a file of the modules they need.  Loading one loads those first;        *)
(* unloading one unloads its dependants first; a reload does both and      *)
(* hands data from the old code to the new.  Loaders and unloaders create  *)
(* and destroy module data extensions (ModuleData), and ircd hooks every   *)
(* load to keep its tables of commands and protocols.  All of it happens   *)
(* in one thread: a stack of calls.                                        *)
(***************************************************************************)
EXTENDS ModuleData, SequencesExt, Queues

CONSTANTS
  Modules,    \* names of modules
  Needs,      \* the .deps file of each
  Owner,      \* the module that creates each item; none creates two
  SizeOf,     \* the size of each item
  Keeps,      \* modules that save their item over a reload (the others do not)
  Tables,     \* what others keep pointers to: a "command", a "protocol" or a "symbol"
  Core,       \* the module that keeps the tables: ircd
  Guarded,    \* modules that the MODULE command does not unload
  Conf,       \* modules of the "modules" section, in its order
  Exported,   \* those of them with "export"
  Uses,       \* bound: pairs of a structure and an item that is used in it
  MaxOpens, MaxDeps,  \* bounds of what is open and listed when a load is asked for
  Changes     \* bound of the changes of files on disk

ASSUME LoaderAssumption ==
  /\ Needs \in [Modules -> Seq(Modules)]
  /\ Owner \in [Items -> Modules] /\ SizeOf \in [Items -> Sizes]
  /\ \A i, j \in Items : Owner[i] = Owner[j] => i = j
  /\ Keeps \subseteq Modules
  /\ DOMAIN Tables \subseteq Modules /\ Core \in Modules /\ Guarded \subseteq Modules
  /\ Conf \in Seq(Modules) /\ Exported \subseteq ToSet(Conf)

VARIABLES
  list,     \* me.modules
  mod,      \* the module structures and the libraries behind them
  entry,    \* the pointers in the tables of commands, protocols and symbols
  stack,    \* calls in progress, the innermost first
  ret,      \* what the last of them has returned
  reloads,  \* me.reloads
  file,     \* the libraries on disk
  left,     \* changes that files may still have
  up,       \* FALSE: the process has exited
  given,    \* modules given up, ever, because one that they need was not loaded
  stopped,  \* modules that were not loaded, ever, for their own library or loader
  faulty,   \* memory or code that is gone has been used
  meant     \* what ran when do_module_reloads began

loader == <<list, mod, entry, stack, ret, reloads, file, left, up, given, stopped, faulty, meant>>
lvars == <<loader, vars>>

Flags == {"loaded", "depend", "autoload", "reloading", "create"}
Places == {"load", "needs", "needed", "open", "depart", "conf", "walk", "again", "protocol",
           "unload", "drop", "call", "exit", "destroy"}

Fresh == [flags |-> {}, opens |-> 0, opencalls |-> 0, deps |-> <<>>, saved |-> <<>>,
          item |-> "null", code |-> FALSE, running |-> FALSE]

\* Types, with those of the data extensions.
LoaderTypeOK ==
  /\ TypeOK
  /\ list \in Seq(Modules)
  /\ mod \in [Modules ->
       [flags : SUBSET Flags, opens : Nat, opencalls : Nat, deps : Seq(Modules),
        saved : Seq({"null", "item"}), item : {"null", "item"}, code : BOOLEAN,
        running : BOOLEAN]]
  /\ entry \in [DOMAIN Tables -> {"none", "good", "stale"}]
  /\ stack \in Seq([at : Places, of : Modules, flags : SUBSET Flags, todo : Seq(Modules)])
  /\ ret \in BOOLEAN /\ reloads \in BOOLEAN /\ up \in BOOLEAN
  /\ file \in [Modules -> {"good", "missing", "broken", "refuses"}]

LoaderInit ==
  /\ Init
  /\ list = <<>>
  /\ mod = [m \in Modules |-> Fresh]
  /\ entry = [m \in DOMAIN Tables |-> "none"]
  /\ stack = <<>> /\ ret = TRUE /\ reloads = FALSE /\ up = TRUE
  /\ file = [m \in Modules |-> "good"] /\ left = Changes
  /\ given = {} /\ stopped = {} /\ faulty = FALSE /\ meant = {}

-----------------------------------------------------------------------------
(* Calls.                                                                  *)

Frame(at, m, fl, todo) == [at |-> at, of |-> m, flags |-> fl, todo |-> todo]
Top == Head(stack)
At(place) == stack # <<>> /\ Top.at = place
Has(m, f) == f \in mod[m].flags

Goto(at, todo) == stack' = <<[Top EXCEPT !.at = at, !.todo = todo]>> \o Tail(stack) /\ UNCHANGED ret
Call(f, at, todo) ==
  stack' = <<f, [Top EXCEPT !.at = at, !.todo = todo]>> \o Tail(stack) /\ UNCHANGED ret
\* The result of the outermost call is of no consequence.
Return(v) == stack' = Tail(stack) /\ ret' = (v \/ Len(stack) = 1)

\* find_module.
Known(m) == m \in ToSet(list)

\* Mutant of Close: dlclose is called on a library that is not open.
CloseBlindly(r, n) == [r EXCEPT !.opens = @ - n, !.item = "null"]

\* n calls of dlclose.  A library that is no longer open takes its variables
\* with it and leaves pointers into it behind.
Close(r, n) ==
  IF r.opens > n THEN [r EXCEPT !.opens = @ - n] ELSE [r EXCEPT !.opens = 0, !.item = "null"]
Left(table, m, n) ==
  [x \in DOMAIN table |->
     IF x = m /\ table[x] = "good" /\ mod[m].opens <= n THEN "stale" ELSE table[x]]

-----------------------------------------------------------------------------
(* load_module.                                                            *)

Fails == Return(FALSE) /\ stopped' = stopped \cup {Top.of}

\* The module's structure is made if the caller asks for it.  While its needs
\* are looked after it counts as loaded.
Load ==
  /\ At("load")
  /\ LET m == Top.of
         knows == Known(m) \/ ("create" \in Top.flags /\ file[m] # "missing")
         asks == Needs[m] # <<>> /\ ~Has(m, "loaded")
     IN /\ list' = IF knows /\ ~Known(m) THEN Append(list, m) ELSE list
        /\ mod' = IF knows /\ asks THEN [mod EXCEPT ![m].flags = @ \cup {"loaded"}] ELSE mod
        /\ IF ~knows THEN Fails
           ELSE /\ Goto(IF asks THEN "needs" ELSE "open", Needs[m])
                /\ UNCHANGED stopped
  /\ UNCHANGED <<entry, reloads, file, left, up, given, faulty, meant, vars>>

\* Mutant of Noted: the module is not noted as a dependant.
NotNoted(m, n) == [mod EXCEPT ![n].flags = @]

\* The module is put on the list of a module that it needs.
Noted(m, n) == [mod EXCEPT ![n].deps = <<m>> \o @]

\* The next module that it needs: loaded here unless it is a dependency
\* already.
LoadNeeds ==
  /\ At("needs")
  /\ LET m == Top.of
         n == Head(Top.todo)
     IN IF Top.todo = <<>>
        THEN mod' = [mod EXCEPT ![m].flags = @ \ {"loaded"}] /\ Goto("open", <<>>)
        ELSE IF Known(n) /\ Has(n, "depend")
             THEN mod' = Noted(m, n) /\ Goto("needs", Tail(Top.todo))
             ELSE /\ Call(Frame("load", n, Top.flags \cup {"depend", "create"}, <<>>),
                          "needed", Top.todo)
                  /\ UNCHANGED mod
  /\ UNCHANGED <<list, entry, reloads, file, left, up, given, stopped, faulty, meant, vars>>

\* It has been loaded, or the module is given up, still marked as loaded.
Needed ==
  /\ At("needed")
  /\ IF ret THEN mod' = Noted(Top.of, Head(Top.todo)) /\ Goto("needs", Tail(Top.todo))
            ELSE Return(FALSE) /\ UNCHANGED mod
  /\ given' = IF ret THEN given ELSE given \cup {Top.of}
  /\ UNCHANGED <<list, entry, reloads, file, left, up, stopped, faulty, meant, vars>>

\* The dynamic linker has the library, or finds it and every symbol it uses.
Links(m) ==
  \/ mod[m].opens > 0
  \/ file[m] \in {"good", "refuses"} /\ \A n \in ToSet(Needs[m]) : mod[n].opens > 0

\* Code whose version is not accepted, or whose loader gives up: a load of such
\* a library may end in either way.
Refuses(m) == mod[m].opens = 0 /\ file[m] = "refuses"

\* add_command: a command that is known keeps its pointers.
AddsCommand(m) == Tables[m] = "command" /\ entry[m] = "none"

\* update_protocol: the pointers of a known protocol are fetched again.
UpdatesProtocol(m) == Tables[m] = "protocol" /\ entry[m] # "none"

\* ircd's hook on load_module.
Hooked(m) ==
  [x \in DOMAIN entry |->
     IF x = m /\ mod[Core].running /\ (AddsCommand(m) \/ UpdatesProtocol(m))
     THEN "good" ELSE entry[x]]

\* The symbols that others import from the module are looked up.
Resolved(m) ==
  [x \in DOMAIN entry |-> IF x = m /\ Tables[m] = "symbol" THEN "good" ELSE Hooked(m)[x]]

ItemsOf(m) == {i \in Items : Owner[i] = m}

\* Mutant of Restores: the loader does not look for saved data.
RestoresNothing(r) == FALSE

\* The loader finds the pointer that the old code has saved.
Restores(r) == r.saved # <<>>

\* The loader: takes over its item or creates it.
Loader(m, r) ==
  IF Restores(r) \/ ItemsOf(m) = {}
  THEN UNCHANGED <<vars, faulty>>
  ELSE \E i \in ItemsOf(m) :
         IF i \in DOMAIN items THEN faulty' = TRUE /\ UNCHANGED vars
         ELSE CreateItem(i, SizeOf[i]) /\ UNCHANGED faulty

\* Mutant of Loaded: what has been restored stays on the list of saved data.
StillSaved(m, r) ==
  [r EXCEPT !.running = TRUE,
            !.item = IF ItemsOf(m) = {} THEN @ ELSE IF Restores(r) THEN Head(r.saved) ELSE "item"]

\* The module as its loader leaves it.
Loaded(m, r) ==
  [r EXCEPT !.running = TRUE, !.saved = <<>>,
            !.item = IF ItemsOf(m) = {} THEN @ ELSE IF Restores(r) THEN Head(r.saved) ELSE "item"]

\* dlopen, the version, the hook and the loader.  A version that is not accepted
\* leaves no flags, and the hook does not see it.  After a reload the dependants
\* follow.
Open ==
  /\ At("open")
  /\ LET m == Top.of
         dep == "depend" \in Top.flags
         r == [mod[m] EXCEPT !.flags = IF dep THEN @ \cup {"depend"} ELSE @, !.opencalls = @ + 1]
         opened == [r EXCEPT !.opens = @ + 1]
         ready == [opened EXCEPT !.flags = @ \cup {"loaded"} \cup Top.flags, !.code = TRUE]
         reload == "reloading" \in ready.flags
     IN \/ /\ dep /\ Has(m, "depend") /\ Has(m, "loaded")
           /\ Return(TRUE)
           /\ UNCHANGED <<mod, entry, given, stopped, faulty, vars>>
        \/ /\ ~(dep /\ Has(m, "depend") /\ Has(m, "loaded")) /\ ~Links(m)
           /\ mod' = [mod EXCEPT ![m] = r]
           /\ Fails
           /\ UNCHANGED <<entry, faulty, vars>>
        \/ /\ ~(dep /\ Has(m, "depend")) /\ Links(m) /\ Has(m, "loaded")
           /\ mod' = [mod EXCEPT ![m] = opened]
           /\ Return(TRUE)
           /\ UNCHANGED <<entry, given, stopped, faulty, vars>>
        \/ /\ Links(m) /\ ~Has(m, "loaded") /\ Refuses(m)
           /\ mod' = [mod EXCEPT ![m] = Close([opened EXCEPT !.opencalls = 0, !.code = TRUE], 1)]
           /\ Fails
           /\ UNCHANGED <<entry, faulty, vars>>
        \/ /\ Links(m) /\ ~Has(m, "loaded") /\ Refuses(m)
           /\ mod' = [mod EXCEPT ![m] = Close([ready EXCEPT !.opencalls = 0,
                                                 !.flags = @ \ {"loaded"}], 1)]
           /\ entry' = Left(Hooked(m), m, 0)
           /\ Fails
           /\ UNCHANGED <<faulty, vars>>
        \/ /\ Links(m) /\ ~Has(m, "loaded") /\ ~Refuses(m)
           /\ Loader(m, r)
           /\ mod' = [mod EXCEPT ![m] = [Loaded(m, ready) EXCEPT !.flags = @ \ {"reloading"}]]
           /\ entry' = Resolved(m)
           /\ IF reload THEN Goto("depart", mod[m].deps) ELSE Return(TRUE)
           /\ UNCHANGED stopped
  /\ UNCHANGED <<list, reloads, file, left, up, given, meant>>

\* The dependants of a reloaded module, whatever becomes of each.
LoadDependants ==
  /\ At("depart")
  /\ IF Top.todo = <<>> THEN Return(TRUE)
     ELSE LET d == Head(Top.todo)
          IN Call(Frame("load", d, mod[d].flags \cup {"depend"}, <<>>), "depart", Tail(Top.todo))
  /\ UNCHANGED <<list, mod, entry, reloads, file, left, up, given, stopped, faulty, meant, vars>>

-----------------------------------------------------------------------------
(* unload_module.                                                          *)

\* A reload walks the dependants once and marks them; otherwise the first of
\* the list goes until none is left.
Unload ==
  /\ At("unload")
  /\ LET m == Top.of
     IN IF ~Known(m) \/ ~Has(m, "loaded")
        THEN Return(Known(m)) /\ UNCHANGED mod
        ELSE /\ mod' = [mod EXCEPT ![m].flags = @ \ {"loaded", "depend"}]
             /\ Goto("drop", mod[m].deps)
  /\ UNCHANGED <<list, entry, reloads, file, left, up, given, stopped, faulty, meant, vars>>

\* Mutant of Marked: a dependant of a reload is not marked.
Unmarked(d) == mod

\* A dependant that a reload takes down is marked to come back.
Marked(d) == [mod EXCEPT ![d].flags = @ \cup {"reloading"}]

UnloadDependants ==
  /\ At("drop")
  /\ LET m == Top.of
         reload == Has(m, "reloading")
         todo == IF reload THEN Top.todo ELSE mod[m].deps
         d == Head(todo)
     IN /\ faulty' = (faulty \/ (todo # <<>> /\ ~Known(d)))
        /\ IF todo = <<>> THEN Goto("call", <<>>) /\ UNCHANGED mod
           ELSE IF ~Has(d, "loaded")
           THEN /\ mod' = IF reload THEN mod ELSE [mod EXCEPT ![m].deps = Tail(todo)]
                /\ Goto("drop", Tail(todo))
           ELSE /\ mod' = IF reload THEN Marked(d) ELSE mod
                /\ Call(Frame("unload", d, {}, <<>>), "drop", Tail(todo))
  /\ UNCHANGED <<list, entry, reloads, file, left, up, given, stopped, meant, vars>>

\* The module leaves the lists of what it needs, except for a reload.
Unlisted(m, r) ==
  [x \in Modules |->
     LET s == IF x = m THEN r ELSE mod[x]
     IN IF "reloading" \in r.flags \/ ~Known(x) THEN s
        ELSE [s EXCEPT !.deps = Without(@, {m})]]

\* remove_command, at every unload.
RemovesCommand(m) == Tables[m] = "command"

\* remove_protocol, with its connections: not for a reload.
RemovesProtocol(m) == Tables[m] = "protocol" /\ ~Has(m, "reloading")

\* Symbols become NULL; commands and protocols go by ircd's hook on
\* unload_module.
Unhooked(m) ==
  [x \in DOMAIN entry |->
     IF /\ x = m
        /\ \/ Tables[m] = "symbol"
           \/ mod[Core].running /\ (RemovesCommand(m) \/ RemovesProtocol(m))
     THEN "none" ELSE entry[x]]

\* A reload's unloader saves the pointer of its item.
Saves(m) == Has(m, "reloading") /\ m \in Keeps

\* The unloader: unless it saves the item, it destroys it.
Unloader(m) ==
  LET r == mod[m]
      destroys == r.code /\ ItemsOf(m) # {} /\ ~Saves(m)
  IN IF (r.code /\ r.opens = 0) \/ (destroys /\ r.item = "null")
     THEN faulty' = TRUE /\ UNCHANGED vars
     ELSE /\ IF destroys THEN \E i \in ItemsOf(m) : DestroyItem(i) ELSE UNCHANGED vars
          /\ UNCHANGED faulty

CallUnloader ==
  /\ At("call")
  /\ LET m == Top.of
         r == mod[m]
         saves == r.code /\ ItemsOf(m) # {} /\ Saves(m)
     IN /\ Unloader(m)
        /\ mod' = Unlisted(m, Close([r EXCEPT !.running = FALSE, !.opencalls = 0,
                                      !.item = IF saves THEN @ ELSE "null",
                                      !.saved = IF saves THEN <<r.item>> \o @ ELSE @],
                                    r.opencalls))
        /\ entry' = Left(Unhooked(m), m, r.opencalls)
  /\ Return(TRUE)
  /\ UNCHANGED <<list, reloads, file, left, up, given, stopped, meant>>

-----------------------------------------------------------------------------
(* What calls them: the configuration, operators, the main loop, the exit. *)

Idle == up /\ stack = <<>> /\ ~faulty
Room == \A m \in Modules : mod[m].opencalls <= MaxOpens /\ Len(mod[m].deps) <= MaxDeps
Begin(f) == stack' = <<f>> /\ UNCHANGED ret

\* build_module_list, at start-up and on a rehash: new modules go in front, in
\* the order of the section; whatever "load" says they are loaded.
Configure ==
  /\ Idle /\ Room
  /\ LET new == Without(Conf, ToSet(list) \cup {m \in Modules : file[m] = "missing"})
         here == ToSet(new) \cup ToSet(list)
     IN /\ list' = new \o list
        /\ mod' = [m \in Modules |->
             IF m \notin ToSet(Conf) \cap here THEN mod[m]
             ELSE [mod[m] EXCEPT !.flags = @ \cup {"autoload"} \cup
                                   (IF m \in Exported THEN {"depend"} ELSE {})]]
        /\ Begin(Frame("conf", Core, {}, new \o list))
  /\ UNCHANGED <<entry, reloads, file, left, up, given, stopped, faulty, meant, vars>>

ConfNext ==
  /\ At("conf")
  /\ LET m == Head(Top.todo)
     IN IF Top.todo = <<>> THEN Return(TRUE)
        ELSE IF Has(m, "autoload") /\ ~Has(m, "loaded")
        THEN Call(Frame("load", m, mod[m].flags, <<>>), "conf", Tail(Top.todo))
        ELSE Goto("conf", Tail(Top.todo))
  /\ UNCHANGED <<list, mod, entry, reloads, file, left, up, given, stopped, faulty, meant, vars>>

\* MODULE LOAD and the commands of the configuration; its addons are exported.
Wanted(m) ==
  /\ Idle /\ Room
  /\ list # <<>>
  /\ \E fl \in {{"create"}} \cup (IF m \in DOMAIN Tables THEN {} ELSE {{"create", "depend"}}) :
       Begin(Frame("load", m, fl, <<>>))
  /\ UNCHANGED <<list, mod, entry, reloads, file, left, up, given, stopped, faulty, meant, vars>>

\* add_protocol, for a protocol of the configuration that has no entry.
AddProtocol(m) ==
  /\ Idle /\ Room
  /\ mod[Core].running /\ Tables[m] = "protocol" /\ entry[m] = "none"
  /\ stack' = <<Frame("load", m, {"create"}, <<>>), Frame("protocol", m, {}, <<>>)>>
  /\ UNCHANGED <<list, mod, entry, ret, reloads, file, left, up, given, stopped, faulty, meant, vars>>

Protocol ==
  /\ At("protocol")
  /\ entry' = IF ret /\ mod[Top.of].opens > 0 THEN [entry EXCEPT ![Top.of] = "good"] ELSE entry
  /\ Return(ret)
  /\ UNCHANGED <<list, mod, reloads, file, left, up, given, stopped, faulty, meant, vars>>

\* MODULE UNLOAD.
OperUnload(m) ==
  /\ Idle
  /\ Known(m) /\ m \notin Guarded
  /\ Begin(Frame("unload", m, {}, <<>>))
  /\ UNCHANGED <<list, mod, entry, reloads, file, left, up, given, stopped, faulty, meant, vars>>

\* MODULE RELOAD: reload_module only takes a note.
Reload(m) ==
  /\ Idle /\ Room
  /\ Known(m) /\ ~Has(m, "reloading")
  /\ mod' = [mod EXCEPT ![m].flags = @ \cup {"reloading"}]
  /\ reloads' = TRUE
  /\ UNCHANGED <<list, entry, stack, ret, file, left, up, given, stopped, faulty, meant, vars>>

\* do_module_reloads, at the end of a turn of the main loop.
DoReloads ==
  /\ Idle
  /\ reloads
  /\ reloads' = FALSE
  /\ meant' = {m \in Modules : mod[m].running}
  /\ Begin(Frame("walk", Core, {}, list))
  /\ UNCHANGED <<list, mod, entry, file, left, up, given, stopped, faulty, vars>>

ReloadNext ==
  /\ At("walk")
  /\ LET m == Head(Top.todo)
     IN /\ meant' = IF Top.todo = <<>> THEN {} ELSE meant
        /\ IF Top.todo = <<>> THEN Return(TRUE)
           ELSE IF ~Has(m, "reloading") THEN Goto("walk", Tail(Top.todo))
           ELSE IF Has(m, "loaded")
           THEN Call(Frame("unload", m, {}, <<>>), "again", Top.todo)
           ELSE Goto("again", Top.todo)
  /\ UNCHANGED <<list, mod, entry, reloads, file, left, up, given, stopped, faulty, vars>>

LoadAgain ==
  /\ At("again")
  /\ LET m == Head(Top.todo)
     IN Call(Frame("load", m, mod[m].flags, <<>>), "walk", Tail(Top.todo))
  /\ UNCHANGED <<list, mod, entry, reloads, file, left, up, given, stopped, faulty, meant, vars>>

\* exit_process, once the main loop has ended and has made the reloads:
\* unload_all_modules takes the first of the list each time.
Exit ==
  /\ Idle
  /\ ~reloads /\ list # <<>>
  /\ Begin(Frame("exit", Core, {}, <<>>))
  /\ UNCHANGED <<list, mod, entry, reloads, file, left, up, given, stopped, faulty, meant, vars>>

ExitNext ==
  /\ At("exit")
  /\ up' = (list # <<>>)
  /\ IF list = <<>> THEN Return(TRUE)
     ELSE /\ stack' = <<Frame("unload", Head(list), {}, <<>>), Frame("destroy", Head(list), {}, <<>>)>>
                        \o stack
          /\ UNCHANGED ret
  /\ UNCHANGED <<list, mod, entry, reloads, file, left, given, stopped, faulty, meant, vars>>

DestroyModule ==
  /\ At("destroy")
  /\ list' = Without(list, {Top.of})
  /\ mod' = [mod EXCEPT ![Top.of] = Fresh]
  /\ Return(TRUE)
  /\ UNCHANGED <<entry, reloads, file, left, up, given, stopped, faulty, meant, vars>>

\* An administrator replaces a library: with one that is not there (to a module
\* that is known, one that does not link), or whose version or loader refuses.
Replace(m, f) ==
  /\ Idle
  /\ left > 0 /\ file[m] # f /\ (f = "missing" => ~Known(m))
  /\ left' = left - 1
  /\ file' = [file EXCEPT ![m] = f]
  /\ UNCHANGED <<list, mod, entry, stack, ret, reloads, up, given, stopped, faulty, meant, vars>>

\* Structures come and go and modules use their items.
Data ==
  /\ Idle
  /\ \/ \E o \in Objects : CreateObject(o) \/ DestroyObject(o)
     \/ \E o \in Objects, i \in Items, v \in {"clear", "set"} :
          <<o, i>> \in Uses /\ mod[Owner[i]].running /\ Write(o, i, v)
  /\ UNCHANGED loader

Calls ==
  \/ Load \/ LoadNeeds \/ Needed \/ Open \/ LoadDependants
  \/ Unload \/ UnloadDependants \/ CallUnloader
  \/ ConfNext \/ Protocol \/ ReloadNext \/ LoadAgain \/ ExitNext \/ DestroyModule

LoaderNext ==
  \/ Calls /\ ~faulty
  \/ Configure \/ DoReloads \/ Exit \/ Data
  \/ \E m \in Modules : Wanted(m) \/ OperUnload(m) \/ Reload(m)
  \/ \E m \in DOMAIN Tables : AddProtocol(m)
  \/ \E m \in Modules, f \in {"good", "missing", "broken", "refuses"} : Replace(m, f)

LoaderSpec == LoaderInit /\ [][LoaderNext]_lvars

-----------------------------------------------------------------------------
(* Properties.                                                             *)

\* A module runs only while every module that it needs runs, at every step of
\* loads, unloads and reloads; except on one that was given up: it keeps the
\* flag, so a later load opens it, does not call its loader, and reports success.
DependenciesRun ==
  \A m \in Modules : mod[m].running =>
    \A n \in ToSet(Needs[m]) : mod[n].running \/ n \in given

\* The module, or one that it needs, has failed to load some time.
Blamed(m) == ({m} \cup ToSet(Needs[m])) \cap (stopped \cup given) # {}

\* A reload brings back all that ran, except what some library stops.
ReloadsComplete ==
  At("walk") /\ Top.todo = <<>> => \A m \in meant : mod[m].running \/ Blamed(m)

\* No command, protocol or symbol points into a library that is closed.
EntriesLive ==
  Idle /\ ~reloads => \A m \in DOMAIN entry : entry[m] = "stale" => Blamed(m)

\* Code and structures that are gone are used only after some module was given up
\* or not loaded.
NoStaleCode == faulty => given \cup stopped # {}

\* What runs has what it needs and its code; and when do_module_reloads is done
\* everything that ran runs again and can be reached, unless a library does not load.
Restored == DependenciesRun /\ NoStaleCode /\ ReloadsComplete /\ EntriesLive

\* Between calls flags, libraries and loaders agree; a module that was given up
\* keeps the flag and may be opened without its loader being called.
FlagsTell ==
  Idle => \A m \in Modules : m \notin given =>
    (mod[m].running <=> Has(m, "loaded")) /\ (mod[m].running <=> mod[m].opens > 0)

\* An item exists as long as the code or the saved data that knows it.
DataSurvives ==
  \A i \in Items : LET m == Owner[i] IN
    m \in given \/ ~Known(m) \/ (i \in DOMAIN items <=> mod[m].item = "item" \/ mod[m].saved # <<>>)

\* What the loader notes about modules agrees with their libraries and their data.
LoaderSound == FlagsTell /\ DataSurvives
=============================================================================
