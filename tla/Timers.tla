------------------------------- MODULE Timers -------------------------------
(***************************************************************************)
(* The timer list of source/timer.c and the part of the main loop of       *)
(* source/main.c that drives it: one pass is poll_sockets, the handlers of *)
(* the sockets that are ready, exec_timers, and the afterpoll hook with    *)
(* the module reloads.  Every handler, callback and hook may create,       *)
(* destroy and adjust timers.                                              *)
(*                                                                         *)
(* A timer_event_t is a record; me.timers is the sequence of them.  The    *)
(* pointers exec_timers keeps (tep, and tep2 saved before the callback)    *)
(* are the references of the timers they point to, or Dangling once the    *)
(* timer they point to has been freed.                                     *)
(***************************************************************************)
EXTENDS Integers, Sequences, SequencesExt

CONSTANTS
  Intervals,     \* the intervals callers ask for
  RepCounts,     \* the repeat counts callers ask for; negative is forever
  RefMod,        \* number of values of a timer_ref_t (2^64 in the code)
  MaxTimers,     \* bound: timers alive at once
  MaxClock       \* bound: seconds of wall clock

ASSUME TimerAssumption ==
  /\ Intervals \subseteq Nat
  /\ RepCounts \subseteq Int
  /\ RefMod \in Nat /\ RefMod > 1
  /\ MaxTimers \in Nat
  /\ MaxClock \in Nat

TIMER_REPEAT == -2
TIMER_DEAD == -1
TIMER_INVALID == RefMod - 1

Ref == 0..(RefMod - 1)
None == -1                \* the null pointer
Dangling == -2            \* a pointer to a timer that has been freed
Forever == -1             \* poll() without a time limit
LongSleep == 2147483      \* INT_MAX milliseconds, in seconds

VARIABLES
  timers,    \* me.timers, the list of timer_event_t
  refcnt,    \* timer_refcnt
  rollover,  \* timer_rollover
  now,       \* me.now, the time the program last read
  clock,     \* the wall clock, what time(NULL) would return
  pc,        \* where the main loop is
  tep,       \* exec_timers: the timer looked at
  tep2,      \* exec_timers: the timer to look at next, saved before a callback
  next,      \* main: what exec_timers returned
  wake       \* when the poll in progress gives up waiting

vars == <<timers, refcnt, rollover, now, clock, pc, tep, tep2, next, wake>>

Timer == [ref : Ref, reps : Int, interval : Nat, next : Nat,
          asked : Int, ran : Nat]

\* Types: a reference is a number that fits a timer_ref_t, and me.now is never
\* ahead of the clock.
TypeOK ==
  /\ timers \in Seq(Timer)
  /\ refcnt \in Ref
  /\ rollover \in BOOLEAN
  /\ now \in Nat /\ clock \in Nat /\ now <= clock
  /\ pc \in {"poll", "handlers", "exec", "callback", "after", "fault"}
  /\ tep \in Ref \cup {None, Dangling}
  /\ tep2 \in Ref \cup {None, Dangling}
  /\ next \in Int
  /\ wake \in Nat \cup {Forever}

LiveRefs == {timers[i].ref : i \in DOMAIN timers}
IndexOf(r) == CHOOSE i \in DOMAIN timers : timers[i].ref = r
TimerOf(r) == timers[IndexOf(r)]
Unlinked(r) == RemoveAt(timers, IndexOf(r))
RefAt(i) == IF i \in DOMAIN timers THEN timers[i].ref ELSE None

\* Mutant of InsertTimer: the list is not kept in order.
AppendTimer(list, t) == Append(list, t)

\* insert_timer: before the first timer that is to run later, else at the end.
InsertTimer(list, t) ==
  LET later == {i \in DOMAIN list : list[i].next > t.next}
  IN IF later = {}
       THEN Append(list, t)
       ELSE InsertAt(list, CHOOSE i \in later : \A j \in later : i <= j, t)

Reps(rep) == IF rep < 0 THEN TIMER_REPEAT ELSE rep

\* Mutant of Candidate: the reference count does not roll over.
NoWrap(start, k) == start + k

\* The references create_timer's search tries, in the order it tries them.
Candidate(start, k) == (start + k) % RefMod

\* Mutant of FreeFrom: create_timer does not search after a rollover.
NoSearch(start, k) == k = 0

\* The search takes the first one that no live timer has.
FreeFrom(start, k) ==
  /\ Candidate(start, k) \notin LiveRefs
  /\ \A j \in 0..(k - 1) : Candidate(start, j) \in LiveRefs

Init ==
  /\ timers = <<>>
  /\ refcnt = 0
  /\ rollover = FALSE
  /\ now = 0 /\ clock = 0
  /\ pc = "after"
  /\ tep = None /\ tep2 = None
  /\ next = 1
  /\ wake = Forever

-----------------------------------------------------------------------------
(* What a handler, a callback or a hook may call.                          *)

MayCall == pc \in {"handlers", "callback", "after"}

\* create_timer.  The first rollover passes over TIMER_INVALID; from then on
\* the search only looks for a reference that no live timer has.
CreateTimer(rep, interval) ==
  /\ MayCall
  /\ Len(timers) < MaxTimers
  /\ LET searching == rollover \/ refcnt = TIMER_INVALID
         start == IF rollover THEN refcnt ELSE 0
     IN \E k \in Ref :
          /\ IF searching THEN FreeFrom(start, k) ELSE k = refcnt
          /\ LET ref == IF searching THEN Candidate(start, k) ELSE k
             IN /\ refcnt' = (ref + 1) % RefMod
                /\ timers' = InsertTimer(timers,
                     [ref |-> ref, reps |-> Reps(rep), interval |-> interval,
                      next |-> now + interval, asked |-> Reps(rep), ran |-> 0])
          /\ rollover' = searching
  /\ UNCHANGED <<now, clock, pc, tep, tep2, next, wake>>

\* destroy_timer.  No callback destroys the timer that runs it: each of them
\* forgets its reference first.  The timer that follows may be destroyed.
DestroyTimer(r) ==
  /\ MayCall
  /\ r \in LiveRefs
  /\ pc = "callback" => r # tep
  /\ timers' = Unlinked(r)
  /\ tep2' = IF r = tep2 THEN Dangling ELSE tep2
  /\ UNCHANGED <<refcnt, rollover, now, clock, pc, tep, next, wake>>

\* adjust_timer.  A callback adjusts its own timer only to repeat forever.
AdjustTimer(r, rep, interval) ==
  /\ MayCall
  /\ r \in LiveRefs
  /\ pc = "callback" /\ r = tep => rep < 0 /\ TimerOf(r).reps = TIMER_REPEAT
  /\ timers' = InsertTimer(Unlinked(r),
       [TimerOf(r) EXCEPT !.reps = Reps(rep), !.interval = interval,
                          !.next = now + interval,
                          !.asked = Reps(rep), !.ran = 0])
  /\ UNCHANGED <<refcnt, rollover, now, clock, pc, tep, tep2, next, wake>>

-----------------------------------------------------------------------------
(* exec_timers.                                                            *)

ExecTimers ==
  /\ pc = "handlers"
  /\ tep' = RefAt(1)
  /\ now' = clock
  /\ pc' = "exec"
  /\ UNCHANGED <<timers, refcnt, rollover, clock, tep2, next, wake>>

\* The head of the loop: a timer that is due gets its callback called.
RunCallback ==
  /\ pc = "exec"
  /\ tep \in LiveRefs
  /\ TimerOf(tep).next <= now
  /\ tep2' = RefAt(IndexOf(tep) + 1)
  /\ timers' = [timers EXCEPT ![IndexOf(tep)].ran =
                  IF TimerOf(tep).reps = TIMER_REPEAT THEN 0 ELSE @ + 1]
  /\ pc' = "callback"
  /\ UNCHANGED <<refcnt, rollover, now, clock, tep, next, wake>>

\* Mutant of Expires: the repeat count is decremented after the comparison.
ExpiresLate(t) == t.reps # TIMER_REPEAT /\ t.reps = TIMER_DEAD

Expires(t) == t.reps # TIMER_REPEAT /\ t.reps - 1 = TIMER_DEAD

\* Mutant of NextRun: a late timer catches up on the runs it has missed.
CatchUp(t) == t.next + t.interval

\* The next time of a timer that has run: one interval on, unless that is past.
NextRun(t) ==
  IF t.next + t.interval < now THEN now + t.interval ELSE t.next + t.interval

CallbackReturns ==
  /\ pc = "callback"
  /\ LET t == TimerOf(tep)
         repsLeft == IF t.reps = TIMER_REPEAT THEN t.reps ELSE t.reps - 1
     IN timers' = IF Expires(t)
                    THEN Unlinked(tep)
                    ELSE InsertTimer(Unlinked(tep),
                           [t EXCEPT !.reps = repsLeft, !.next = NextRun(t)])
  /\ tep' = tep2
  /\ now' = clock
  /\ pc' = "exec"
  /\ tep2' = None
  /\ UNCHANGED <<refcnt, rollover, clock, next, wake>>

\* The loop ends; the time until the first timer is due goes to poll_sockets.
ExecDone ==
  /\ pc = "exec"
  /\ \/ tep = None
     \/ tep \in LiveRefs /\ TimerOf(tep).next > now
  /\ next' = IF timers = <<>> THEN 0 ELSE timers[1].next - now
  /\ tep' = None
  /\ pc' = "after"
  /\ UNCHANGED <<timers, refcnt, rollover, now, clock, tep2, wake>>

\* The loop reads the timer it saved, which its callback's callees have freed.
UseAfterFree ==
  /\ pc = "exec"
  /\ tep = Dangling
  /\ pc' = "fault"
  /\ UNCHANGED <<timers, refcnt, rollover, now, clock, tep, tep2, next, wake>>

-----------------------------------------------------------------------------
(* poll_sockets and the wall clock.                                        *)

\* poll_sockets(next): no limit for 0, INT_MAX milliseconds for less than 0.
Poll ==
  /\ pc = "after"
  /\ wake' = CASE next = 0 -> Forever
               [] next < 0 -> clock + LongSleep
               [] OTHER -> clock + next
  /\ pc' = "poll"
  /\ UNCHANGED <<timers, refcnt, rollover, now, clock, tep, tep2, next>>

PollTimesOut ==
  /\ pc = "poll"
  /\ wake # Forever /\ clock >= wake
  /\ wake' = Forever
  /\ pc' = "handlers"
  /\ UNCHANGED <<timers, refcnt, rollover, now, clock, tep, tep2, next>>

\* Some socket is ready: its handler runs before the timers do.
PollFindsData ==
  /\ pc = "poll"
  /\ now' = clock
  /\ wake' = Forever
  /\ pc' = "handlers"
  /\ UNCHANGED <<timers, refcnt, rollover, clock, tep, tep2, next>>

\* A signal ends the wait (EINTR), and its hooks run before the timers do.
PollInterrupted ==
  /\ pc = "poll"
  /\ wake' = Forever
  /\ pc' = "handlers"
  /\ UNCHANGED <<timers, refcnt, rollover, now, clock, tep, tep2, next>>

Tick ==
  /\ pc # "fault"
  /\ clock < MaxClock
  /\ clock' = clock + 1
  /\ UNCHANGED <<timers, refcnt, rollover, now, pc, tep, tep2, next, wake>>

LoopStep ==
  ExecTimers \/ RunCallback \/ CallbackReturns \/ ExecDone \/ Poll \/ PollTimesOut

Next ==
  \/ \E rep \in RepCounts, i \in Intervals : CreateTimer(rep, i)
  \/ \E r \in Ref : DestroyTimer(r)
  \/ \E r \in Ref, rep \in RepCounts, i \in Intervals : AdjustTimer(r, rep, i)
  \/ LoopStep
  \/ UseAfterFree
  \/ PollFindsData \/ PollInterrupted
  \/ Tick

Spec == Init /\ [][Next]_vars

\* The loop goes on by itself; a handler, callback or hook returns.
FairSpec == Spec /\ WF_vars(LoopStep) /\ WF_vars(Tick)

\* The peers of the daemon keep sending: poll never waits for ever for data.
TrafficSpec == FairSpec /\ WF_vars(PollFindsData)

-----------------------------------------------------------------------------
(* Properties.                                                             *)

\* exec_timers stops at the first timer that is not due, and main sleeps for
\* the time left of the first one: both need the list ordered by next.
Sorted == \A i, j \in DOMAIN timers : i < j => timers[i].next <= timers[j].next

\* destroy_timer and adjust_timer find a timer by its reference: no two live
\* timers share one, also after timer_refcnt has rolled over.
UniqueRefs ==
  \A i, j \in DOMAIN timers : timers[i].ref = timers[j].ref => i = j

\* The list holds each live timer once and in order: exec_timers, destroy_timer
\* and adjust_timer rely on both.
ListSound == Sorted /\ UniqueRefs

\* A timer that exec_timers retires has run one time more than the repeat
\* count it was last given, whatever was done to the list meanwhile.
CompletesItsRuns ==
  [][pc = "callback" /\ pc' = "exec" /\ tep \notin LiveRefs'
       => TimerOf(tep).ran = TimerOf(tep).asked + 1]_vars

\* A repeating timer that is late skips the runs it has missed: it is never
\* put back into the list with a time that has already passed.
NoBacklog ==
  [][pc = "callback" /\ pc' = "exec"
       => \A t \in ToSet(timers') : t.ref = tep => t.next >= now]_vars

\* Provided the sockets stay busy, a timer that is due gets run (or is
\* adjusted or destroyed), unless the loop has come to a freed timer: exec_timers
\* passes over no timer for ever.
Due(r) == r \in LiveRefs /\ TimerOf(r).next <= clock
DueTimersRun == \A r \in Ref : Due(r) ~> ~Due(r) \/ tep = Dangling
=============================================================================
