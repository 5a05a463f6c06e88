------------------------------ MODULE ListMemBuf ------------------------------
(***************************************************************************)
(* ListMemBuf<T, MAX> (IPC/ListMemBuf.h): the allocator of the structures  *)
(* that are in shared memory.  An array of MAX entries holds two chains,   *)
(* the entries in use, linked both ways, and the free ones, a queue linked *)
(* by next alone.  Links that are not needed are "purposely sloppy": they  *)
(* keep what was last stored in them.  An operator gives the buffer after  *)
(* the call; the index that new_*() return is NewIndex before the call.    *)
(***************************************************************************)
EXTENDS Integers, Sequences, FiniteSets

CONSTANT MAX_ENTRIES

ASSUME MaxEntriesAssumption == MAX_ENTRIES \in Nat \ {0}

Entries == 0 .. MAX_ENTRIES - 1
end == -1   \* (index_t)-1
Indices == Entries \cup {end}

Buffers ==
  [next : [Entries -> Indices], prev : [Entries -> Indices],
   activeBegin : Indices, activeBack : Indices,
   freeBegin : Indices, freeBack : Indices, cursize : 0 .. MAX_ENTRIES]

NewBuffer ==
  [next |-> [x \in Entries |-> IF x + 1 < MAX_ENTRIES THEN x + 1 ELSE end],
   prev |-> [x \in Entries |-> end],
   activeBegin |-> end, activeBack |-> end,
   freeBegin |-> 0, freeBack |-> MAX_ENTRIES - 1, cursize |-> 0]

next(b, x) == IF x = end THEN b.activeBegin ELSE b.next[x]
prev(b, x) == IF x = end THEN b.activeBack ELSE b.prev[x]

NewIndex(b) == b.freeBegin

pop_free(b) ==
  [b EXCEPT !.freeBegin = IF @ = b.freeBack THEN end ELSE b.next[@],
            !.freeBack = IF b.freeBegin = @ THEN end ELSE @,
            !.cursize = @ + 1]

push_free(b, x) ==
  [b EXCEPT !.freeBegin = IF b.freeBack = end THEN x ELSE @,
            !.next = IF b.freeBack = end THEN @ ELSE [@ EXCEPT ![b.freeBack] = x],
            !.freeBack = x,
            !.cursize = @ - 1]

\* One link each: entries[x].next = y, which is activeBegin for the entry before
\* the first, and entries[x].prev = y, which is activeBack for the one after the last.
SetNext(b, x, y) ==
  IF x = end THEN [b EXCEPT !.activeBegin = y] ELSE [b EXCEPT !.next[x] = y]
SetPrev(b, x, y) ==
  IF x = end THEN [b EXCEPT !.activeBack = y] ELSE [b EXCEPT !.prev[x] = y]

\* x between the neighbours before and after
Link(b, before, x, after) ==
  LET linked == [b EXCEPT !.next[x] = after, !.prev[x] = before]
  IN  SetPrev(SetNext(linked, before, x), after, x)

new_front(b) ==
  IF NewIndex(b) = end THEN b ELSE Link(pop_free(b), end, NewIndex(b), b.activeBegin)

new_back(b) ==
  IF NewIndex(b) = end THEN b ELSE Link(pop_free(b), b.activeBack, NewIndex(b), end)

\* Mutant: the neighbour before x is not told.
new_before_oneway(b, x) ==
  IF x = end \/ prev(b, x) = end \/ NewIndex(b) = end THEN b
  ELSE SetPrev([pop_free(b) EXCEPT !.next[NewIndex(b)] = x,
                                   !.prev[NewIndex(b)] = prev(b, x)], x, NewIndex(b))

\* Mutant: the new entry comes behind x.
new_before_behind(b, x) ==
  CASE x = end -> new_back(b)
    [] x # end /\ next(b, x) = end -> new_back(b)
    [] OTHER -> IF NewIndex(b) = end THEN b
                ELSE Link(pop_free(b), x, NewIndex(b), next(b, x))

new_before(b, x) ==
  CASE x = end -> new_back(b)
    [] x # end /\ prev(b, x) = end -> new_front(b)
    [] OTHER -> IF NewIndex(b) = end THEN b
                ELSE Link(pop_free(b), prev(b, x), NewIndex(b), x)

pop_front(b) ==
  LET first == b.activeBegin
      second == b.next[first]
  IN  push_free(SetPrev([b EXCEPT !.activeBegin = second], second, end), first)

pop_back(b) ==
  LET last == b.activeBack
      lastButOne == b.prev[last]
  IN  push_free(SetNext([b EXCEPT !.activeBack = lastButOne], lastButOne, end), last)

erase(b, x) ==
  CASE x = b.activeBegin -> pop_front(b)
    [] x # b.activeBegin /\ x = b.activeBack -> pop_back(b)
    [] OTHER -> push_free(SetNext(SetPrev(b, b.next[x], b.prev[x]), b.prev[x], b.next[x]), x)

\* The chain in use is put behind the free one.
clear(b) ==
  IF b.cursize = 0 THEN b
  ELSE [b EXCEPT !.freeBegin = IF b.freeBack = end THEN b.activeBegin ELSE @,
                 !.next = IF b.freeBack = end THEN @
                          ELSE [@ EXCEPT ![b.freeBack] = b.activeBegin],
                 !.freeBack = b.activeBack,
                 !.activeBegin = end, !.activeBack = end,
                 !.cursize = 0]

\* swap() exchanges the links of x and y, each of which may be the other's
\* neighbour, and then tells the neighbours.
swap(b, x, y) ==
  IF x = y \/ x = end \/ y = end THEN b
  ELSE LET to(z) == CASE z = x -> y [] z = y -> x [] OTHER -> z
           exchanged ==
             [b EXCEPT !.next = [@ EXCEPT ![x] = to(b.next[y]), ![y] = to(b.next[x])],
                       !.prev = [@ EXCEPT ![x] = to(b.prev[y]), ![y] = to(b.prev[x])]]
           tell(c, z) == SetPrev(SetNext(c, c.prev[z], z), c.next[z], z)
       IN  tell(tell(exchanged, x), y)

-----------------------------------------------------------------------------
(* What the links stand for: the entries met from the beginning of a chain to *)
(* its end, in order.  A chain that does not end is cut.                      *)

Visited(step, first, last) ==
  LET at[n \in 0 .. MAX_ENTRIES] ==
        IF n = 0 THEN first
        ELSE IF at[n - 1] \in {end, last} THEN end ELSE step[at[n - 1]]
  IN  at

Following(step, first, last) ==
  LET at == Visited(step, first, last)
      length == Cardinality({n \in DOMAIN at : at[n] # end})
  IN  [n \in 1 .. length |-> at[n - 1]]

InUse(b) == Following(b.next, b.activeBegin, b.activeBack)
InUseBackwards(b) == Following(b.prev, b.activeBack, b.activeBegin)
Free(b) == Following(b.next, b.freeBegin, b.freeBack)

=============================================================================
