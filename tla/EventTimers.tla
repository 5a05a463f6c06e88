----------------------------- MODULE EventTimers -----------------------------
(***************************************************************************)
(* The timers of EventRouter (Events/EventRouter.cc:52-152): a vector of   *)
(* pointers to TimerEntry, kept sorted by the time they go off.            *)
(* processTimers() copies the pointers of the timers that are due, calls   *)
(* their listeners one after the other, and those may add, reset and       *)
(* remove timers.  A pointer is a slot of the heap; memory that was freed  *)
(* keeps its contents until new TimerEntry takes it again.                 *)
(***************************************************************************)
EXTENDS Integers, Sequences, SequencesExt, FiniteSetsExt

CONSTANTS
  Listeners, SourceIDs,
  Delays,          \* the delays that addTimer() is called with
  Slots,           \* the heap cells a TimerEntry can be in
  Never,           \* (unsigned int)-1
  MaxTime,         \* bound on the clock
  MaxCalls,        \* bound on the calls that the program makes
  TouchesPending   \* whether a listener resets or removes a timer whose own
                   \* listener is still to be called in the same round

ASSUME TimesAssumption ==
  /\ MaxTime \in Nat /\ Never \in Nat /\ MaxTime + 1 < Never
  /\ Delays \subseteq 0 .. Never - 1
ASSUME TimersAssumption ==
  /\ MaxCalls \in Nat /\ TouchesPending \in BOOLEAN
  /\ IsFiniteSet(Slots)

VARIABLES
  now,        \* get_time()
  entry,      \* what is in each heap cell
  allocated,  \* the cells that hold a TimerEntry
  timers,     \* the vector of pointers
  process,    \* what is left of processTimers()' copy
  phase,      \* where processTimers() is
  event,      \* the TimerEvent being sent
  \* history
  calls,
  armed,      \* the timers that were added, and neither removed nor used up
  due         \* the earliest time each of them may go off

vars == <<now, entry, allocated, timers, process, phase, event, calls, armed, due>>

Keys == Listeners \X SourceIDs
Times == 0 .. Never
NoEvent == [key |-> <<>>, duration |-> 0]

\* Unsigned arithmetic
Wrapped(n) == n % (Never + 1)

Blank == [key |-> <<>>, delay |-> 0, next |-> 0, repeat |-> FALSE]

Init ==
  /\ now = 0
  /\ entry = [s \in Slots |-> Blank]
  /\ allocated = {}
  /\ timers = <<>>
  /\ process = <<>>
  /\ phase = "idle"
  /\ event = NoEvent
  /\ calls = 0
  /\ armed = {}
  /\ due = [key \in Keys |-> 0]

-----------------------------------------------------------------------------
(* Keeping the vector sorted; mem is the heap in which the times are *)

\* lower_bound and upper_bound: how many pointers of a sorted vector are before t,
\* and how many are not after it
Earlier(mem, pointers, t) ==
  Cardinality({n \in DOMAIN pointers : mem[pointers[n]].next < t})
NotLater(mem, pointers, t) ==
  Cardinality({n \in DOMAIN pointers : mem[pointers[n]].next <= t})

InsertBefore(mem, pointers, s) ==
  InsertAt(pointers, Earlier(mem, pointers, mem[s].next) + 1, s)
InsertAfter(mem, pointers, s) ==
  InsertAt(pointers, NotLater(mem, pointers, mem[s].next) + 1, s)

\* Mutant: a timer that is reset stays where it is.
RepositionForgotten(mem, n) == timers

\* addTimer() of the n-th timer, which exists: the two rotates
Reposition(mem, n) ==
  LET s == timers[n]
      others == RemoveAt(timers, n)
      early == n > 1 /\ mem[s].next < mem[timers[n - 1]].next
      late == n < Len(timers) /\ mem[s].next > mem[timers[n + 1]].next
  IN  CASE early -> InsertAfter(mem, others, s)
        [] ~early /\ late -> InsertBefore(mem, others, s)
        [] OTHER -> timers

\* What is left of the vector without some of its places, in the same order
Without(pointers, places) ==
  LET kept == DOMAIN pointers \ places
      rank(i) == Cardinality({j \in kept : j <= i})
  IN  [k \in 1 .. Cardinality(kept) |-> pointers[CHOOSE i \in kept : rank(i) = k]]

\* processTimers(): sort of the timers that were due, which may put equal times in
\* any order, and inplace_merge with the rest, which is sorted and stays behind those
\* of the same time.  place says which pointer of the two ranges goes where.
Resorts(mem, first, rest) ==
  LET both == first \o rest
      time(i) == mem[both[i]].next
      InOrder(place) ==
        \A m, n \in DOMAIN both : m < n =>
          \/ time(place[m]) < time(place[n])
          \/ /\ time(place[m]) = time(place[n])
             /\ place[m] > Len(first) => place[m] < place[n]
  IN  {[n \in DOMAIN both |-> both[place[n]]] :
         place \in {p \in Bijection(DOMAIN both, DOMAIN both) : InOrder(p)}}

-----------------------------------------------------------------------------
(* What the program calls, between rounds and from the listeners of one *)

PendingKeys == {entry[process[n]].key : n \in DOMAIN process}

Call(keys) ==
  /\ phase # "next"
  /\ keys \cap PendingKeys # {} => TouchesPending
  /\ calls < MaxCalls
  /\ calls' = calls + 1
  /\ UNCHANGED <<now, process, phase, event>>

Having(keys) == {n \in DOMAIN timers : entry[timers[n]].key \in keys}

Arm(key, delay) ==
  /\ armed' = armed \cup {key}
  /\ due' = [due EXCEPT ![key] = Wrapped(now + delay)]

Entry(key, delay, repeat) ==
  [key |-> key, delay |-> delay, next |-> Wrapped(now + delay), repeat |-> repeat]

\* addTimer(): Set() on the timer of this listener and source, or a new one
addTimer(key, delay, repeat) ==
  /\ Call({key})
  /\ Arm(key, delay)
  /\ \/ \E n \in Having({key}) :
          LET mem == [entry EXCEPT ![timers[n]] = Entry(key, delay, repeat)]
          IN  /\ entry' = mem
              /\ timers' = Reposition(mem, n)
              /\ UNCHANGED allocated
     \/ /\ Having({key}) = {}
        /\ \E s \in Slots \ allocated :
             LET mem == [entry EXCEPT ![s] = Entry(key, delay, repeat)]
             IN  /\ entry' = mem
                 /\ timers' = InsertBefore(mem, timers, s)
                 /\ allocated' = allocated \cup {s}

\* removeTimer(el, sid), removeTimer(el) and removeAllTimers(); addTimer() with
\* a delay of -1U is the first.
removeTimers(keys) ==
  /\ Call(keys)
  /\ Having(keys) # {}
  /\ allocated' = allocated \ {timers[n] : n \in Having(keys)}
  /\ timers' = Without(timers, Having(keys))
  /\ armed' = armed \ keys
  /\ UNCHANGED <<entry, due>>

removeTimer(key) == removeTimers({key})
removeTimersOf(el) == removeTimers({el} \X SourceIDs)
removeAllTimers == removeTimers(Keys)

-----------------------------------------------------------------------------
(* processTimers() *)

Tick ==
  /\ now < MaxTime
  /\ now' = now + 1
  /\ UNCHANGED <<entry, allocated, timers, process, phase, event, calls, armed, due>>

\* When a timer that is due goes off again: periods are added, in unsigned
\* arithmetic, until the time is after now.
Advanced(e) ==
  LET after(k) == Wrapped(e.next + k * e.delay)
  IN  [e EXCEPT !.next =
         IF ~e.repeat THEN Never
         ELSE IF e.delay = 0 THEN now + 1
         ELSE after(Min({k \in 1 .. Never : after(k) > now}))]

\* Mutant: the timers of the next millisecond are taken for due.
BeginEarly ==
  /\ phase = "idle"
  /\ LET last == NotLater(entry, timers, now + 1)
         dueNow == SubSeq(timers, 1, last)
         mem == [s \in Slots |-> IF Contains(dueNow, s) THEN Advanced(entry[s]) ELSE entry[s]]
     IN  /\ last > 0
         /\ process' = dueNow
         /\ entry' = mem
         /\ timers' \in Resorts(mem, dueNow, SubSeq(timers, last + 1, Len(timers)))
  /\ phase' = "next"
  /\ UNCHANGED <<now, allocated, event, calls, armed, due>>

\* A round in which nothing is due does nothing.
Begin ==
  /\ phase = "idle"
  /\ LET last == NotLater(entry, timers, now)
         dueNow == SubSeq(timers, 1, last)
         mem == [s \in Slots |-> IF Contains(dueNow, s) THEN Advanced(entry[s]) ELSE entry[s]]
     IN  /\ last > 0
         /\ process' = dueNow
         /\ entry' = mem
         /\ timers' \in Resorts(mem, dueNow, SubSeq(timers, last + 1, Len(timers)))
  /\ phase' = "next"
  /\ UNCHANGED <<now, allocated, event, calls, armed, due>>

\* The next listener is called, whatever has become of its timer ...
CallListener ==
  /\ phase = "next" /\ process # <<>>
  /\ LET e == entry[Head(process)]
     IN  /\ event' = [key |-> e.key, duration |-> Wrapped(e.next - e.delay)]
         /\ armed' = IF e.repeat THEN armed ELSE armed \ {e.key}
         /\ due' = IF e.repeat THEN [due EXCEPT ![e.key] = @ + e.delay] ELSE due
  /\ process' = Tail(process)
  /\ phase' = "listener"
  /\ UNCHANGED <<now, entry, allocated, timers, calls>>

\* ... and then those who listen to every timer event.
Broadcast ==
  /\ phase = "listener"
  /\ phase' = "broadcast"
  /\ UNCHANGED <<now, entry, allocated, timers, process, event, calls, armed, due>>

Broadcasted ==
  /\ phase = "broadcast"
  /\ phase' = "next"
  /\ event' = NoEvent
  /\ UNCHANGED <<now, entry, allocated, timers, process, calls, armed, due>>

\* Mutant: the timers that do not repeat are deleted, set again or not.
EndOfOneShots ==
  /\ phase = "next" /\ process = <<>>
  /\ timers' = SelectSeq(timers, LAMBDA s : entry[s].repeat)
  /\ allocated' = ToSet(timers')
  /\ phase' = "idle"
  /\ UNCHANGED <<now, entry, process, event, calls, armed, due>>

\* The timers that were to go off once, and were not set again, are deleted: they are
\* the last.
End ==
  /\ phase = "next" /\ process = <<>>
  /\ LET alive == Earlier(entry, timers, Never)
     IN  /\ timers' = SubSeq(timers, 1, alive)
         /\ allocated' = allocated \ {timers[n] : n \in alive + 1 .. Len(timers)}
  /\ phase' = "idle"
  /\ UNCHANGED <<now, entry, process, event, calls, armed, due>>

processTimers == Begin \/ CallListener \/ Broadcast \/ Broadcasted \/ End

Program ==
  \/ \E key \in Keys :
       \/ \E delay \in Delays, repeat \in BOOLEAN : addTimer(key, delay, repeat)
       \/ removeTimer(key)
  \/ \E el \in Listeners : removeTimersOf(el)
  \/ removeAllTimers

Next == Tick \/ processTimers \/ Program

Spec == Init /\ [][Next]_vars

\* The clock runs, and the main loop calls processTimers() again and again.
FairSpec == Spec /\ WF_vars(Tick) /\ WF_vars(processTimers)

-----------------------------------------------------------------------------
(* Properties *)

Entries == [key : Keys \cup {<<>>}, delay : Times, next : Times, repeat : BOOLEAN]

TypeOK ==
  /\ now \in 0 .. MaxTime
  /\ entry \in [Slots -> Entries]
  /\ allocated \subseteq Slots
  /\ timers \in Seq(Slots) /\ process \in Seq(Slots)
  /\ phase \in {"idle", "next", "listener", "broadcast"}
  /\ event \in [key : Keys \cup {<<>>}, duration : Times]
  /\ calls \in 0 .. MaxCalls
  /\ armed \subseteq Keys /\ due \in [Keys -> Nat]

\* chkTimers() (EventRouter.h:385-395): the vector stays sorted by the time the
\* timers go off, which upper_bound() and lower_bound() rely on, whatever
\* listeners do to it in the middle of a round.
TimersSorted ==
  \A m, n \in DOMAIN timers : m < n => entry[timers[m]].next <= entry[timers[n]].next

\* "Timers are unique by EventListener and source ID" (EventRouter.cc:101), the
\* vector owns each TimerEntry that is allocated, and nothing else: there is no
\* leak, no entry is deleted twice, and the copy of processTimers() points to none
\* that was deleted.
OneEntryPerTimer ==
  /\ \A m, n \in DOMAIN timers :
       entry[timers[m]].key = entry[timers[n]].key => m = n
  /\ ToSet(timers) = allocated
  /\ ToSet(process) \subseteq allocated

\* The clean-up at the end of a round deletes exactly the timers that are used up:
\* one that its listener set again in the round is kept, and between rounds the
\* vector has the timers that the program still expects (EventRouter.h:245-253).
RightTimersPending ==
  LET pending == {entry[s].key : s \in ToSet(timers)}
  IN  /\ armed \subseteq pending
      /\ phase = "idle" => pending = armed

\* The vector is sound, in the middle of a round too, and has the right timers.
VectorIsSound == TypeOK /\ TimersSorted /\ OneEntryPerTimer /\ RightTimersPending

Fires == phase = "next" /\ phase' = "listener"

\* A listener is called only for a timer that it was given, that was not removed
\* since ("clears any pending timers", EventRouter.h:251-252) and, if it was not to
\* repeat, has not gone off since (EventRouter.cc:108); and never before the delay
\* it was last given is over, for addTimer() "resets the timer if it already exists"
\* (EventRouter.h:246), nor more than once in a period.
FiresOnlyWhenDue ==
  [][Fires => event'.key \in armed /\ due[event'.key] <= now]_vars

\* A timer that is to go off once does so, unless it is removed or put off past the
\* end of the clock: no change of the vector, in a round or between two, loses it.
OneShot(key) == \E s \in allocated : entry[s].key = key /\ ~entry[s].repeat

TimerGoesOff ==
  \A key \in Keys :
    key \in armed /\ OneShot(key) /\ due[key] <= MaxTime ~>
      \/ phase = "listener" /\ event.key = key
      \/ key \notin armed
      \/ due[key] > MaxTime
=============================================================================
