------------------------------- MODULE Events -------------------------------
(***************************************************************************)
(* Events and their hooks (source/event.c, include/ithildin/event.h).      *)
(*                                                                         *)
(* hook_event walks the list of an event and calls its hooks.  A hook may  *)
(* add and remove hooks, on the event that is being called too, and may    *)
(* call an event: calls in progress are on the stack, innermost last.      *)
(* While a call is in progress a removed hook is only marked (DEFERRED),   *)
(* and an added one too (NEW); the call clears the marks when it ends.     *)
(*                                                                         *)
(* The values an ordinary event returns are in hookreturns, which all      *)
(* events share: a nested call overwrites them and a hook that is added    *)
(* may move the array while the outer call, or its caller, still has the   *)
(* pointer.  Here only the size of the array is kept, so nothing is said   *)
(* of those values; the result of a conditional event is a local.          *)
(***************************************************************************)
EXTENDS Integers, Sequences, FiniteSets, SequencesExt, Queues

CONSTANTS
  Events,       \* events
  Once,         \* those created with EVENT_FL_HOOKONCE
  Cond,         \* those created with EVENT_FL_CONDITIONAL
  OneHook,      \* those created with EVENT_FL_ONEHOOK
  Funcs,        \* hook functions
  Values,       \* what hook functions return
  Structs,      \* memory for hooks (struct hook)
  FirstMax,     \* the first size of hookreturns
  MaxDepth,     \* bound: calls of hook_event in progress
  MaxNum        \* bound of numhooks

None == "none"

ASSUME EventsAssumption ==
  /\ Once \subseteq Events /\ Cond \subseteq Events /\ OneHook \subseteq Events
  /\ Values \subseteq {"alwaysok", "ok", "neverok", "notok", "neutral", "text"}
  /\ FirstMax \in Nat \ {0}
  /\ None \notin Structs

VARIABLES
  hooks,     \* the list of each event
  numhooks,  \* numhooks of each event
  calling,   \* EVENT_FL_CALLING of each event
  maxhooks,  \* the cells of hookreturns
  stack      \* calls in progress

vars == <<hooks, numhooks, calling, maxhooks, stack>>

Hook == [id : Structs, fn : Funcs, deferred : BOOLEAN, new : BOOLEAN]

\* cur: hp, whose function runs.  left: the hooks that were on the list when
\* the call began and have not been called; none when a value has ended it.
\* late: a hook was called that was not among them.  i: the values stored.
\* returned, econd, need: the locals of hook_event.  seen: the values a
\* conditional event got.  nested: a hook has called this event again.
Frame ==
  [ev : Events, cur : Structs \cup {None}, left : SUBSET Structs,
   late : BOOLEAN, i : Nat, seen : SUBSET Values,
   returned : {"pass", "fail", "spass"}, econd : {"text", None},
   need : BOOLEAN, nested : BOOLEAN]

Top == Last(stack)
Ids(e) == {hooks[e][i].id : i \in DOMAIN hooks[e]}
InCall(e) == \E i \in DOMAIN stack : stack[i].ev = e
Marked(h) == h.deferred \/ h.new

\* No memory is used for two hooks of a list.
Distinct(list) == \A i, j \in DOMAIN list : list[i].id = list[j].id => i = j

\* Types, and what the flags mean: no hook is counted off that was not counted,
\* and EVENT_FL_CALLING is set while the event is being called, but for what
\* follows a nested call of it, and not after.
TypeOK ==
  /\ hooks \in [Events -> Seq(Hook)]
  /\ numhooks \in [Events -> Nat]
  /\ calling \in [Events -> BOOLEAN]
  /\ maxhooks \in Nat
  /\ stack \in Seq(Frame)
  /\ \A e \in Events :
       /\ Distinct(hooks[e])
       /\ calling[e] => InCall(e)
       /\ (\E i \in DOMAIN stack : stack[i].ev = e /\ ~stack[i].nested) => calling[e]

\* Code outside hook_event runs: the main program, or a hook.
Free == stack # <<>> => Top.cur # None
Ends == stack # <<>> /\ Top.cur = None

Init ==
  /\ hooks = [e \in Events |-> <<>>]
  /\ numhooks = [e \in Events |-> 0]
  /\ calling = [e \in Events |-> FALSE]
  /\ maxhooks = FirstMax
  /\ stack = <<>>

-----------------------------------------------------------------------------
(* add_hook_after, add_hook_before, remove_hook.                           *)

\* The first of the places that a loop over a list stops at, or the last place.
FirstOf(places, list) ==
  IF places = {} THEN Len(list) ELSE CHOOSE i \in places : \A j \in places : i <= j

\* The place of the hook to insert after; 0 for the head of the list.
After(list, f) == FirstOf({i \in DOMAIN list : list[i].fn = f}, list)

Before(list, f) ==
  IF f = None \/ list = <<>> \/ list[1].fn = f
    THEN 0
    ELSE FirstOf({i \in 1..(Len(list) - 1) : list[i + 1].fn = f}, list)

\* Mutant of Flags: an added hook is never NEW.
FlagsNone(e) == FALSE

\* HOOK_FL_NEW of an added hook.
Flags(e) == calling[e]

\* The size of hookreturns when an event has count hooks.
Room(size, count) == IF size <= count THEN 2 * size ELSE size

\* add_hook_really, in memory that no call in progress points to.
AddHook(e, f, at) ==
  /\ Free
  /\ ~(e \in OneHook /\ numhooks[e] # 0)
  /\ numhooks[e] < MaxNum
  /\ \E id \in Structs :
       /\ \A d \in Events : id \notin Ids(d)
       /\ \A i \in DOMAIN stack : stack[i].cur # id
       /\ hooks' = [hooks EXCEPT ![e] = InsertAt(@, at + 1,
                      [id |-> id, fn |-> f, deferred |-> FALSE, new |-> Flags(e)])]
  /\ numhooks' = [numhooks EXCEPT ![e] = @ + 1]
  /\ maxhooks' = Room(maxhooks, numhooks[e] + 1)
  /\ UNCHANGED <<calling, stack>>

\* Mutant of Defers: a hook is always taken off the list at once.
DefersNever(e) == FALSE

Defers(e) == calling[e]

\* Assumed of the callers: a hook that is DEFERRED is not removed again.
RemoveHook(e, f) ==
  /\ Free
  /\ \E i \in DOMAIN hooks[e] :
       /\ hooks[e][i].fn = f
       /\ \A j \in 1..(i - 1) : hooks[e][j].fn # f
       /\ ~hooks[e][i].deferred
       /\ hooks' = [hooks EXCEPT ![e] =
                      IF Defers(e) THEN [@ EXCEPT ![i].deferred = TRUE]
                      ELSE RemoveAt(@, i)]
  /\ numhooks' = [numhooks EXCEPT ![e] = @ - 1]
  /\ UNCHANGED <<calling, maxhooks, stack>>

\* destroy_event, and create_event for the next one; nobody destroys an event
\* that is being called.
DestroyEvent(e) ==
  /\ Free /\ ~InCall(e)
  /\ hooks[e] # <<>>
  /\ hooks' = [hooks EXCEPT ![e] = <<>>]
  /\ numhooks' = [numhooks EXCEPT ![e] = 0]
  /\ UNCHANGED <<calling, maxhooks, stack>>

-----------------------------------------------------------------------------
(* hook_event.                                                             *)

\* The loop goes on from a place of the list to the next hook it calls.
Moved(fr, list, from) ==
  LET rest == from..Len(list)
      live == {i \in rest : ~Marked(list[i])}
      next == CHOOSE i \in live : \A j \in live : i <= j
  IN IF live = {}
       THEN [fr EXCEPT !.cur = None, !.need = @ \/ rest # {}]
       ELSE [fr EXCEPT !.cur = list[next].id, !.need = @ \/ next > from,
                       !.left = @ \ {list[next].id},
                       !.late = @ \/ list[next].id \notin fr.left]

Call(e) ==
  /\ Free
  /\ Len(stack) < MaxDepth
  /\ calling' = [calling EXCEPT ![e] = TRUE]
  /\ LET live == {hooks[e][i].id : i \in {j \in DOMAIN hooks[e] : ~Marked(hooks[e][j])}}
         fr == [ev |-> e, cur |-> None, left |-> live, late |-> FALSE, i |-> 0,
                seen |-> {}, returned |-> "pass", econd |-> None,
                need |-> FALSE, nested |-> FALSE]
         around == [i \in DOMAIN stack |-> [stack[i] EXCEPT !.nested = @ \/ stack[i].ev = e]]
     IN stack' = Append(around, Moved(fr, hooks[e], 1))
  /\ UNCHANGED <<hooks, numhooks, maxhooks>>

\* HOOK_COND_NOTOK and HOOK_COND_NEVEROK are the same number.
Number(v) == CASE v = "alwaysok" -> -4 [] v = "ok" -> -3 [] v = "neverok" -> -2
               [] v = "notok" -> -2 [] v = "neutral" -> 0 [] OTHER -> 1

Stops(e, v) == e \in Cond /\ Number(v) \in {Number("alwaysok"), Number("neverok")}

\* Mutant of Judged: a later success takes back a failure.
JudgedLast(fr, v) ==
  CASE Number(v) = Number("alwaysok") -> [fr EXCEPT !.returned = "spass"]
    [] Number(v) = Number("neverok") -> [fr EXCEPT !.returned = "fail"]
    [] Number(v) \in {Number("ok"), Number("neutral")} -> [fr EXCEPT !.returned = "pass"]
    [] OTHER -> [fr EXCEPT !.returned = "fail", !.econd = v]

\* What a value does to the result of a conditional event.
Judged(fr, v) ==
  CASE Number(v) = Number("alwaysok") -> [fr EXCEPT !.returned = "spass"]
    [] Number(v) = Number("neverok") -> [fr EXCEPT !.returned = "fail"]
    [] Number(v) \in {Number("ok"), Number("neutral")} -> fr
    [] OTHER -> [fr EXCEPT !.returned = "fail", !.econd = v]

\* The values of a conditional event are remembered.
Stored(fr, v) ==
  IF fr.ev \in Cond
    THEN [Judged(fr, v) EXCEPT !.i = @ + 1, !.seen = @ \cup {v}]
    ELSE [fr EXCEPT !.i = @ + 1]

\* What hook_event uses when a function has returned: the hook, unless the
\* call stops there, and a cell for the value.  Nothing is said of a program
\* that goes on without them.
Sound(fr) == fr.cur # None => fr.cur \in Ids(fr.ev) /\ fr.i < maxhooks

\* The function of the hook returns v.
Return(v) ==
  /\ stack # <<>> /\ Top.cur # None
  /\ Sound(Top)
  /\ LET e == Top.ev
         fr == Stored(Top, v)
         at == CHOOSE i \in DOMAIN hooks[e] : hooks[e][i].id = Top.cur
         list == IF e \in Once THEN [hooks[e] EXCEPT ![at].deferred = TRUE] ELSE hooks[e]
     IN \/ /\ Stops(e, v)
           /\ stack' = Append(Front(stack), [fr EXCEPT !.cur = None, !.left = {}])
           /\ UNCHANGED hooks
        \/ /\ ~Stops(e, v)
           /\ hooks' = [hooks EXCEPT ![e] = list]
           /\ stack' = Append(Front(stack),
                         Moved([fr EXCEPT !.need = @ \/ e \in Once], list, at + 1))
  /\ UNCHANGED <<numhooks, calling, maxhooks>>

\* Mutant of Ended: the flag stays set.
StillCalling(flags, e) == flags

Ended(flags, e) == [flags EXCEPT ![e] = FALSE]

\* The places of the hooks of a list that are not to be removed.
Kept(list) == {i \in DOMAIN list : ~list[i].deferred}

\* The list without the hooks to be removed, and without marks.
Swept(list) ==
  [n \in 1..Cardinality(Kept(list)) |-> [list[Nth(Kept(list), n)] EXCEPT !.new = FALSE]]

\* hook_event ends: it clears the flag, and the marks if it has met any.
Finish ==
  /\ Ends
  /\ LET e == Top.ev
     IN /\ calling' = Ended(calling, e)
        /\ hooks' = IF Top.need THEN [hooks EXCEPT ![e] = Swept(@)] ELSE hooks
  /\ stack' = Front(stack)
  /\ UNCHANGED <<numhooks, maxhooks>>

Next ==
  \/ \E e \in Events, f \in Funcs :
       \/ \E g \in Funcs \cup {None} :
            AddHook(e, f, After(hooks[e], g)) \/ AddHook(e, f, Before(hooks[e], g))
       \/ RemoveHook(e, f)
  \/ \E e \in Events : Call(e) \/ DestroyEvent(e)
  \/ \E v \in Values : Return(v)
  \/ Finish

Spec == Init /\ [][Next]_vars

-----------------------------------------------------------------------------
(* Properties.                                                             *)

\* hook_event never uses a hook that has been freed and never writes past the
\* end of hookreturns: removals are deferred while it walks, and the array has
\* room for every hook it can call.  (Calls whose event is not called again by
\* one of their own hooks: a nested call ends what the flag protects.)
NoFault == \A i \in DOMAIN stack : Sound(stack[i]) \/ stack[i].nested

\* A call that is not stopped calls each hook that was on its event when it
\* began, but for those removed before their turn, and no hook added since.
CalledFromStart ==
  \A i \in DOMAIN stack :
    LET fr == stack[i]
        removed == {h.id : h \in {g \in ToSet(hooks[fr.ev]) : g.deferred}}
    IN ~fr.nested =>
         /\ ~fr.late
         /\ fr.cur = None => fr.left \subseteq removed

\* The result that the values of a conditional event should have.
Verdict(seen) ==
  IF "alwaysok" \in seen THEN "spass"
  ELSE IF seen \cap {"neverok", "notok", "text"} # {} THEN "fail" ELSE "pass"

\* event.h's account of conditional events: a failure is not taken back by a
\* later success, an error code is what the caller gets, and only
\* HOOK_COND_ALWAYSOK, which ends the call, overrides it.
ConditionalResult ==
  \A i \in DOMAIN stack :
    LET fr == stack[i]
    IN fr.ev \in Cond /\ fr.cur = None =>
         /\ fr.returned = Verdict(fr.seen)
         /\ fr.econd # None <=> "text" \in fr.seen

\* A call uses what is there, calls whom it should and returns what they said.
CallsSound == NoFault /\ CalledFromStart /\ ConditionalResult
=============================================================================
