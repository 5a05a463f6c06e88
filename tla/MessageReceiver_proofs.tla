------------------------ MODULE MessageReceiver_proofs ------------------------
(***************************************************************************)
(* Proofs about ListMemBuf and MemBuf, for any number of entries, and then *)
(* about MessageReceiver, the queue of which keeps its messages in one,    *)
(* for any senders and receivers and any number of messages.               *)
(* The inductive invariant of the buffer is that the links stand for a     *)
(* list and a queue that have all the entries between them, each once; the *)
(* lemmas say what each operator of ListMemBuf makes of the two.           *)
(* About the queue, first for every policy: the list and the free queue    *)
(* stay those of the buffer, every iterator is at a place that leads to an *)
(* end (Base), and so peekNextMessage() ends.  Then for the policies that  *)
(* drop no message that was sent: what each receiver has read is a         *)
(* beginning of the queue, and where its thread is tells how long a        *)
(* beginning (Orderly).                                                    *)
(* u and f are the list and the free queue, as sequences of entries; q is  *)
(* a queue, and p with v and g the queue after a call.                     *)
(***************************************************************************)
EXTENDS MessageReceiver, MemBuf, SequencesExt, FiniteSetTheorems, SequenceTheorems, TLAPS

\* The i-th of a sequence of entries, and end on either side of it.
Nth(s, i) == IF i \in 1 .. Len(s) THEN s[i] ELSE end

Distinct(s) == \A i, j \in 1 .. Len(s) : s[i] = s[j] => i = j

-----------------------------------------------------------------------------
(* What Following meets *)

\* The walk goes through the sequence and then stays at the end.
LEMMA VisitedIs ==
  ASSUME NEW step, NEW first, NEW last, NEW s \in Seq(Entries), Distinct(s),
         first = Nth(s, 1), last = Nth(s, Len(s)),
         \A i \in 1 .. Len(s) - 1 : step[s[i]] = s[i + 1]
  PROVE  Visited(step, first, last) = [n \in 0 .. MAX_ENTRIES |-> Nth(s, n + 1)]
<1> DEFINE at(w) == [n \in 0 .. MAX_ENTRIES |->
                       IF n = 0 THEN first
                       ELSE IF w[n - 1] \in {end, last} THEN end ELSE step[w[n - 1]]]
           W == [n \in 0 .. MAX_ENTRIES |-> Nth(s, n + 1)]
           V == Visited(step, first, last)
<1>0. MAX_ENTRIES \in Nat /\ Len(s) \in Nat
  BY MaxEntriesAssumption, LenProperties
<1>1. \A i \in 1 .. Len(s) : s[i] \in Entries /\ s[i] # end
  <2> TAKE i \in 1 .. Len(s)
  <2>1. s[i] \in Entries
    BY ElementOfSeq
  <2> QED
    BY <2>1, <1>0 DEF Entries, end
<1>2. ASSUME NEW n \in 1 .. MAX_ENTRIES
      PROVE  Nth(s, n + 1) = IF Nth(s, n) \in {end, last} THEN end ELSE step[Nth(s, n)]
  <2>1. CASE n > Len(s)
    BY <2>1, <1>0 DEF Nth
  <2>2. CASE n = Len(s)
    BY <2>2, <1>0 DEF Nth
  <2>3. CASE n < Len(s)
    <3>1. n \in 1 .. Len(s) /\ n + 1 \in 1 .. Len(s) /\ n \in 1 .. Len(s) - 1 /\ Len(s) \in 1 .. Len(s)
      BY <2>3, <1>0
    <3>2. Nth(s, n) = s[n] /\ Nth(s, n + 1) = s[n + 1] /\ last = s[Len(s)]
      BY <3>1 DEF Nth
    <3>3. s[n] # last
      BY <3>1, <3>2, <2>3, <1>0 DEF Distinct
    <3> QED
      BY <3>1, <3>2, <3>3, <1>1
  <2> QED
    BY <2>1, <2>2, <2>3, <1>0
<1>3. W = at(W)
  <2>1. ASSUME NEW n \in 0 .. MAX_ENTRIES
        PROVE  W[n] = IF n = 0 THEN first
                      ELSE IF W[n - 1] \in {end, last} THEN end ELSE step[W[n - 1]]
    <3>1. CASE n = 0
      BY <3>1, <1>0
    <3>2. CASE n # 0
      <4>1. n \in 1 .. MAX_ENTRIES /\ n - 1 \in 0 .. MAX_ENTRIES /\ (n - 1) + 1 = n
        BY <3>2, <1>0
      <4>2. W[n] = Nth(s, n + 1) /\ W[n - 1] = Nth(s, n)
        BY <4>1
      <4> QED
        BY <4>1, <4>2, <1>2, <3>2
    <3> QED
      BY <3>1, <3>2
  <2> QED
    BY <2>1
<1>4. V = at(V)
  BY <1>3, Zenon DEF Visited
<1> HIDE DEF V
<1>5. \A n \in 0 .. MAX_ENTRIES : V[n] = W[n]
  <2> DEFINE wrong == {n \in 0 .. MAX_ENTRIES : V[n] # W[n]}
  <2> SUFFICES ASSUME wrong # {} PROVE FALSE
    OBVIOUS
  <2>1. wrong \subseteq Nat
    BY <1>0
  <2>2. PICK n \in wrong : \A m \in wrong : ~(<<m, n>> \in OpToRel(<, Nat))
    BY <2>1, NatLessThanWellFounded, WFMin, Zenon
  <2>3. V[n] = IF n = 0 THEN first
               ELSE IF V[n - 1] \in {end, last} THEN end ELSE step[V[n - 1]]
    BY <1>4
  <2>4. W[n] = IF n = 0 THEN first
               ELSE IF W[n - 1] \in {end, last} THEN end ELSE step[W[n - 1]]
    BY <1>3
  <2>5. CASE n = 0
    BY <2>3, <2>4, <2>5
  <2>6. CASE n # 0
    <3>1. n - 1 \in 0 .. MAX_ENTRIES /\ n - 1 < n /\ n \in Nat /\ n - 1 \in Nat
      BY <1>0, <2>6
    <3>2. n - 1 \notin wrong
      BY <3>1, <2>2 DEF OpToRel
    <3>3. V[n - 1] = W[n - 1]
      BY <3>1, <3>2
    <3> QED
      BY <3>3, <2>3, <2>4, <2>6
  <2> QED
    BY <2>5, <2>6
<1>6. V = [n \in 0 .. MAX_ENTRIES |-> V[n]]
  BY <1>4
<1>7. V = W
  BY <1>5, <1>6
<1> QED
  BY <1>7 DEF V

\* So that is what Following gives, whatever else the links say.
LEMMA FollowingIs ==
  ASSUME NEW step, NEW first, NEW last, NEW s \in Seq(Entries), Distinct(s),
         Len(s) <= MAX_ENTRIES, first = Nth(s, 1), last = Nth(s, Len(s)),
         \A i \in 1 .. Len(s) - 1 : step[s[i]] = s[i + 1]
  PROVE  Following(step, first, last) = s
<1> DEFINE at == Visited(step, first, last)
           met == {n \in DOMAIN at : at[n] # end}
           length == Cardinality(met)
<1>0. MAX_ENTRIES \in Nat /\ Len(s) \in Nat
  BY MaxEntriesAssumption, LenProperties
<1>1. at = [n \in 0 .. MAX_ENTRIES |-> Nth(s, n + 1)]
  BY VisitedIs
<1>2. \A i \in 1 .. Len(s) : s[i] # end
  <2> TAKE i \in 1 .. Len(s)
  <2>1. s[i] \in Entries
    BY ElementOfSeq
  <2> QED
    BY <2>1, <1>0 DEF Entries, end
<1> HIDE DEF at
<1>3. met = 0 .. Len(s) - 1
  <2>1. ASSUME NEW n \in 0 .. MAX_ENTRIES PROVE at[n] # end <=> n \in 0 .. Len(s) - 1
    <3>1. at[n] = Nth(s, n + 1)
      BY <1>1
    <3>2. n + 1 \in 1 .. Len(s) <=> n \in 0 .. Len(s) - 1
      BY <1>0
    <3> QED
      BY <3>1, <3>2, <1>2 DEF Nth
  <2>2. DOMAIN at = 0 .. MAX_ENTRIES /\ 0 .. Len(s) - 1 \subseteq 0 .. MAX_ENTRIES
    BY <1>1, <1>0
  <2> QED
    BY <2>1, <2>2
<1>4. length = Len(s)
  <2>1. Cardinality(0 .. Len(s) - 1) = IF 0 > Len(s) - 1 THEN 0 ELSE (Len(s) - 1) - 0 + 1
    <3>1. 0 \in Int /\ Len(s) - 1 \in Int
      BY <1>0
    <3> QED
      BY <3>1, FS_Interval, Zenon
  <2>2. length = Cardinality(0 .. Len(s) - 1)
    BY <1>3
  <2> QED
    BY <2>1, <2>2, <1>0
<1>5. [n \in 1 .. length |-> at[n - 1]] = [n \in 1 .. Len(s) |-> s[n]]
  <2>1. ASSUME NEW n \in 1 .. Len(s) PROVE at[n - 1] = s[n]
    <3>1. n - 1 \in 0 .. MAX_ENTRIES /\ (n - 1) + 1 = n
      BY <1>0
    <3> QED
      BY <3>1, <1>1 DEF Nth
  <2> QED
    BY <2>1, <1>4
<1>6. s = [n \in 1 .. Len(s) |-> s[n]]
  BY LenProperties
<1>7. Following(step, first, last) = [n \in 1 .. length |-> at[n - 1]]
  BY DEF Following, at
<1> QED
  BY <1>5, <1>6, <1>7

-----------------------------------------------------------------------------
(* What a buffer stands for *)

\* u is linked both ways, in a ring through end.
Linked(b, u) ==
  \A i \in 0 .. Len(u) :
    next(b, Nth(u, i)) = Nth(u, i + 1) /\ prev(b, Nth(u, i + 1)) = Nth(u, i)

\* f is linked forward.
Queued(b, f) ==
  /\ b.freeBegin = Nth(f, 1) /\ b.freeBack = Nth(f, Len(f))
  /\ \A i \in 1 .. Len(f) - 1 : b.next[f[i]] = f[i + 1]

\* u and f have no entry twice, none in common, and none of out.
Apart(u, f, out) ==
  /\ u \in Seq(Entries) /\ f \in Seq(Entries)
  /\ Distinct(u) /\ Distinct(f)
  /\ \A i \in 1 .. Len(u), j \in 1 .. Len(f) : u[i] # f[j]
  /\ \A i \in 1 .. Len(u) : u[i] \notin out
  /\ \A j \in 1 .. Len(f) : f[j] \notin out

\* All the others are in one of them.
Covers(u, f, out) ==
  \A x \in Entries \ out :
    (\E i \in 1 .. Len(u) : u[i] = x) \/ (\E j \in 1 .. Len(f) : f[j] = x)

\* Between two calls the buffer b stands for the list u and the free queue f;
Is(b, u, f) ==
  /\ b \in Buffers
  /\ Apart(u, f, {}) /\ Covers(u, f, {})
  /\ b.cursize = Len(u) /\ Len(u) + Len(f) = MAX_ENTRIES
  /\ Linked(b, u) /\ Queued(b, f)

\* within one, the entry x may be counted and in neither.
IsBut(b, u, f, x) ==
  /\ b \in Buffers /\ x \in Entries
  /\ Apart(u, f, {x}) /\ Covers(u, f, {x})
  /\ b.cursize = Len(u) + 1 /\ Len(u) + 1 + Len(f) = MAX_ENTRIES
  /\ Linked(b, u) /\ Queued(b, f)

\* The links are those of the chains, so the chains are what is met.
LEMMA ChainsAre ==
  ASSUME NEW b, NEW u, NEW f, Is(b, u, f)
  PROVE  InUse(b) = u /\ Free(b) = f /\ InUseBackwards(b) = [i \in 1 .. Len(u) |-> u[Len(u) + 1 - i]]
<1>0. /\ MAX_ENTRIES \in Nat /\ Len(u) \in Nat /\ Len(f) \in Nat
      /\ u \in Seq(Entries) /\ f \in Seq(Entries) /\ Distinct(u) /\ Distinct(f)
      /\ Len(u) <= MAX_ENTRIES /\ Len(f) <= MAX_ENTRIES
  <2>1. u \in Seq(Entries) /\ f \in Seq(Entries) /\ Distinct(u) /\ Distinct(f) /\ Len(u) + Len(f) = MAX_ENTRIES
    BY DEF Is, Apart
  <2> QED
    BY <2>1, MaxEntriesAssumption, LenProperties
<1>1. \A i \in 1 .. Len(u) : u[i] \in Entries /\ u[i] # end
  <2> TAKE i \in 1 .. Len(u)
  <2>1. u[i] \in Entries
    BY <1>0, ElementOfSeq
  <2> QED
    BY <2>1, <1>0 DEF Entries, end
<1>2. InUse(b) = u
  <2>1. \A i \in 1 .. Len(u) - 1 : b.next[u[i]] = u[i + 1]
    <3> TAKE i \in 1 .. Len(u) - 1
    <3>1. i \in 0 .. Len(u) /\ i \in 1 .. Len(u) /\ i + 1 \in 1 .. Len(u)
      BY <1>0
    <3>2. next(b, Nth(u, i)) = Nth(u, i + 1)
      BY <3>1 DEF Is, Linked
    <3> QED
      BY <3>1, <3>2, <1>1 DEF next, Nth
  <2>2. b.activeBegin = Nth(u, 1) /\ b.activeBack = Nth(u, Len(u))
    <3>1. 0 \in 0 .. Len(u) /\ Len(u) \in 0 .. Len(u) /\ 0 + 1 = 1
      BY <1>0
    <3>2. next(b, Nth(u, 0)) = Nth(u, 1) /\ prev(b, Nth(u, Len(u) + 1)) = Nth(u, Len(u))
      BY <3>1 DEF Is, Linked
    <3>3. Nth(u, 0) = end /\ Nth(u, Len(u) + 1) = end
      BY <1>0 DEF Nth
    <3> QED
      BY <3>2, <3>3 DEF next, prev
  <2> QED
    BY <2>1, <2>2, <1>0, FollowingIs DEF InUse
<1>3. Free(b) = f
  BY <1>0, FollowingIs DEF Is, Queued, Free
<1>4. InUseBackwards(b) = [i \in 1 .. Len(u) |-> u[Len(u) + 1 - i]]
  <2> DEFINE r == [i \in 1 .. Len(u) |-> u[Len(u) + 1 - i]]
  <2>1. \A i \in 1 .. Len(u) : Len(u) + 1 - i \in 1 .. Len(u)
    BY <1>0
  <2>2. r \in Seq(Entries) /\ Len(r) = Len(u)
    BY <2>1, <1>0, <1>1
  <2>3. Distinct(r)
    <3> SUFFICES ASSUME NEW i \in 1 .. Len(r), NEW j \in 1 .. Len(r), r[i] = r[j] PROVE i = j
      BY DEF Distinct
    <3>1. Len(u) + 1 - i = Len(u) + 1 - j
      BY <2>1, <2>2, <1>0 DEF Distinct
    <3> QED
      BY <3>1, <1>0, <2>2
  <2>4. \A i \in 0 .. Len(u) + 1 : Nth(r, i) = Nth(u, Len(u) + 1 - i)
    <3> TAKE i \in 0 .. Len(u) + 1
    <3>1. i \in 1 .. Len(r) <=> Len(u) + 1 - i \in 1 .. Len(u)
      BY <2>2, <1>0
    <3> QED
      BY <3>1, <2>2 DEF Nth
  <2>5. \A i \in 0 .. Len(u) : prev(b, Nth(r, i)) = Nth(r, i + 1)
    <3> TAKE i \in 0 .. Len(u)
    <3> DEFINE j == Len(u) - i
    <3>1. j \in 0 .. Len(u) /\ j + 1 = Len(u) + 1 - i /\ j = Len(u) + 1 - (i + 1) /\ i \in 0 .. Len(u) + 1 /\ i + 1 \in 0 .. Len(u) + 1
      BY <1>0
    <3>2. prev(b, Nth(u, j + 1)) = Nth(u, j)
      BY <3>1 DEF Is, Linked
    <3> QED
      BY <3>1, <3>2, <2>4
  <2>6. b.activeBack = Nth(r, 1)
    <3>1. 0 \in 0 .. Len(u) /\ Nth(r, 0) = end /\ 0 + 1 = 1
      BY <1>0 DEF Nth
    <3> QED
      BY <3>1, <2>5 DEF prev
  <2>7. b.activeBegin = Nth(r, Len(r))
    <3>1. 0 \in 0 .. Len(u) /\ Nth(u, 0) = end /\ 0 + 1 = 1 /\ Len(u) + 1 - Len(u) = 1 /\ Len(u) \in 0 .. Len(u) + 1
      BY <1>0 DEF Nth
    <3>2. next(b, end) = Nth(u, 1)
      BY <3>1 DEF Is, Linked
    <3> QED
      BY <3>1, <3>2, <2>2, <2>4 DEF next
  <2>8. \A i \in 1 .. Len(r) - 1 : b.prev[r[i]] = r[i + 1]
    <3> TAKE i \in 1 .. Len(r) - 1
    <3>1. i \in 0 .. Len(u) /\ i \in 1 .. Len(r) /\ i + 1 \in 1 .. Len(r) /\ Len(u) + 1 - i \in 1 .. Len(u)
      BY <1>0, <2>2
    <3>2. Nth(r, i) = r[i] /\ Nth(r, i + 1) = r[i + 1]
      BY <3>1 DEF Nth
    <3>3. r[i] # end
      BY <3>1, <1>1, <2>2
    <3> QED
      BY <3>1, <3>2, <3>3, <2>5 DEF prev
  <2> HIDE DEF r
  <2>9. Following(b.prev, b.activeBack, b.activeBegin) = r
    BY <2>2, <2>3, <2>6, <2>7, <2>8, <1>0, FollowingIs
  <2> QED
    BY <2>9 DEF InUseBackwards, r
<1> QED
  BY <1>2, <1>3, <1>4

-----------------------------------------------------------------------------
(* Single links *)

\* Two buffers have the same free entries and count.
SameFree(b, c) ==
  c.freeBegin = b.freeBegin /\ c.freeBack = b.freeBack /\ c.cursize = b.cursize

\* A link forward that is written, or the front of the list
LEMMA SetNextIs ==
  ASSUME NEW b \in Buffers, NEW x \in Indices, NEW y \in Indices
  PROVE  /\ SetNext(b, x, y) \in Buffers /\ SameFree(b, SetNext(b, x, y))
         /\ \A z \in Indices : /\ next(SetNext(b, x, y), z) = IF z = x THEN y ELSE next(b, z)
                               /\ prev(SetNext(b, x, y), z) = prev(b, z)
<1>1. CASE x = end
  BY <1>1 DEF SetNext, Buffers, SameFree, next, prev
<1>2. CASE x # end
  <2>1. x \in Entries
    BY <1>2 DEF Indices
  <2>2. SetNext(b, x, y) = [b EXCEPT !.next[x] = y]
    BY <1>2 DEF SetNext
  <2>3. \A z \in Indices : z # end => z \in Entries
    BY DEF Indices
  <2> QED
    BY <1>2, <2>1, <2>2, <2>3 DEF Buffers, SameFree, next, prev
<1> QED
  BY <1>1, <1>2

\* A link back, or the back of the list
LEMMA SetPrevIs ==
  ASSUME NEW b \in Buffers, NEW x \in Indices, NEW y \in Indices
  PROVE  /\ SetPrev(b, x, y) \in Buffers /\ SameFree(b, SetPrev(b, x, y))
         /\ \A z \in Indices : /\ prev(SetPrev(b, x, y), z) = IF z = x THEN y ELSE prev(b, z)
                               /\ next(SetPrev(b, x, y), z) = next(b, z)
<1>1. CASE x = end
  BY <1>1 DEF SetPrev, Buffers, SameFree, next, prev
<1>2. CASE x # end
  <2>1. x \in Entries
    BY <1>2 DEF Indices
  <2>2. SetPrev(b, x, y) = [b EXCEPT !.prev[x] = y]
    BY <1>2 DEF SetPrev
  <2>3. \A z \in Indices : z # end => z \in Entries
    BY DEF Indices
  <2> QED
    BY <1>2, <2>1, <2>2, <2>3 DEF Buffers, SameFree, next, prev
<1> QED
  BY <1>1, <1>2

\* An entry that is linked between two neighbours
LEMMA LinkIs ==
  ASSUME NEW b \in Buffers, NEW before \in Indices, NEW x \in Entries, NEW after \in Indices,
         before # x, after # x
  PROVE  LET c == Link(b, before, x, after)
         IN  /\ c \in Buffers /\ SameFree(b, c)
             /\ \A z \in Indices :
                  /\ next(c, z) = IF z = x THEN after ELSE IF z = before THEN x ELSE next(b, z)
                  /\ prev(c, z) = IF z = x THEN before ELSE IF z = after THEN x ELSE prev(b, z)
<1> DEFINE linked == [b EXCEPT !.next[x] = after, !.prev[x] = before]
           told == SetNext(linked, before, x)
<1>0. x \in Indices /\ x # end
  BY MaxEntriesAssumption DEF Indices, Entries, end
<1>1. /\ linked \in Buffers /\ SameFree(b, linked)
      /\ \A z \in Indices : /\ next(linked, z) = IF z = x THEN after ELSE next(b, z)
                            /\ prev(linked, z) = IF z = x THEN before ELSE prev(b, z)
  <2>1. \A z \in Indices : z # end => z \in Entries
    BY DEF Indices
  <2> QED
    BY <1>0, <2>1 DEF Buffers, SameFree, next, prev
<1> HIDE DEF linked
<1>2. /\ told \in Buffers /\ SameFree(linked, told)
      /\ \A z \in Indices : /\ next(told, z) = IF z = before THEN x ELSE next(linked, z)
                            /\ prev(told, z) = prev(linked, z)
  BY <1>0, <1>1, SetNextIs
<1> HIDE DEF told
<1>3. LET c == SetPrev(told, after, x)
      IN  /\ c \in Buffers /\ SameFree(told, c)
          /\ \A z \in Indices : /\ prev(c, z) = IF z = after THEN x ELSE prev(told, z)
                                /\ next(c, z) = next(told, z)
  BY <1>0, <1>2, SetPrevIs
<1>4. Link(b, before, x, after) = SetPrev(told, after, x)
  BY DEF Link, told, linked
<1>5. SameFree(b, Link(b, before, x, after))
  BY <1>1, <1>2, <1>3, <1>4 DEF SameFree
<1> QED
  BY <1>1, <1>2, <1>3, <1>4, <1>5

\* A place in the list is where next and prev are those of its neighbours.
LEMMA NthIs ==
  ASSUME NEW s \in Seq(Entries)
  PROVE  /\ Len(s) \in Nat
         /\ \A i \in 1 .. Len(s) : Nth(s, i) = s[i] /\ s[i] \in Entries /\ s[i] # end
         /\ Nth(s, 0) = end /\ Nth(s, Len(s) + 1) = end
         /\ \A i \in Int : Nth(s, i) \in Indices /\ (i \notin 1 .. Len(s) => Nth(s, i) = end)
<1>0. Len(s) \in Nat /\ MAX_ENTRIES \in Nat
  BY LenProperties, MaxEntriesAssumption
<1>1. \A i \in 1 .. Len(s) : s[i] \in Entries
  BY ElementOfSeq
<1>2. \A x \in Entries : x # end
  BY <1>0 DEF Entries, end
<1> QED
  BY <1>0, <1>1, <1>2 DEF Nth, Indices

-----------------------------------------------------------------------------
(* Taking an entry from the free queue, and giving one back *)

\* The first free entry is taken out of the free queue,
LEMMA PopFreeIs ==
  ASSUME NEW b, NEW u, NEW f, Is(b, u, f), f # <<>>
  PROVE  /\ NewIndex(b) = Head(f) /\ Head(f) \in Entries
         /\ IsBut(pop_free(b), u, Tail(f), Head(f))
         /\ pop_free(b).activeBegin = b.activeBegin /\ pop_free(b).activeBack = b.activeBack
         /\ pop_free(b).next = b.next /\ pop_free(b).prev = b.prev
<1> DEFINE c == pop_free(b)
           g == Tail(f)
<1>0. /\ u \in Seq(Entries) /\ f \in Seq(Entries) /\ Distinct(u) /\ Distinct(f)
      /\ b \in Buffers /\ Len(u) \in Nat /\ Len(f) \in Nat /\ Len(f) # 0 /\ MAX_ENTRIES \in Nat
      /\ Len(u) + Len(f) = MAX_ENTRIES /\ b.cursize = Len(u)
  BY MaxEntriesAssumption, LenProperties, EmptySeq DEF Is, Apart
<1>1. /\ g \in Seq(Entries) /\ Len(g) = Len(f) - 1
      /\ \A i \in 1 .. Len(g) : g[i] = f[i + 1]
      /\ Head(f) = f[1] /\ f[1] \in Entries
  BY <1>0, HeadTailProperties
<1> HIDE DEF g
<1>2. b.freeBegin = f[1] /\ b.freeBack = f[Len(f)] /\ \A i \in 1 .. Len(f) - 1 : b.next[f[i]] = f[i + 1]
  BY <1>0, NthIs DEF Is, Queued, Nth
<1>3. /\ c.freeBegin = Nth(g, 1) /\ c.freeBack = Nth(g, Len(g))
  <2>1. CASE Len(f) = 1
    <3>1. c.freeBegin = end /\ c.freeBack = end
      BY <2>1, <1>2, <1>0 DEF pop_free, Buffers
    <3> QED
      BY <3>1, <1>1, <2>1, <1>0 DEF Nth
  <2>2. CASE Len(f) > 1
    <3>1. f[1] # f[Len(f)]
      BY <2>2, <1>0 DEF Distinct
    <3>2. c.freeBegin = f[2] /\ c.freeBack = f[Len(f)]
      BY <3>1, <1>2, <2>2, <1>0 DEF pop_free, Buffers
    <3> QED
      BY <3>2, <1>1, <2>2, <1>0 DEF Nth
  <2>3. Len(f) = 1 \/ Len(f) > 1
    <3>1. Len(f) \in Nat /\ Len(f) # 0
      BY <1>0, Zenon
    <3>2. \A n \in Nat : n # 0 => n = 1 \/ n > 1
      OBVIOUS
    <3> QED
      BY <3>1, <3>2, Zenon
  <2> QED
    BY <2>1, <2>2, <2>3, Zenon
<1>4. c.next = b.next /\ c.prev = b.prev /\ c.activeBegin = b.activeBegin /\ c.activeBack = b.activeBack /\ c.cursize = Len(u) + 1
  BY <1>0 DEF pop_free, Buffers
<1>5. c \in Buffers
  <2>1. b.next[f[1]] \in Indices
    BY <1>0, <1>1 DEF Buffers
  <2>2. Len(u) + 1 \in 0 .. MAX_ENTRIES /\ end \in Indices
    BY <1>0 DEF Indices
  <2>3. c.freeBegin \in Indices /\ c.freeBack \in Indices
    BY <2>1, <2>2, <1>2, <1>0 DEF pop_free, Buffers
  <2>4. c = [b EXCEPT !.freeBegin = c.freeBegin, !.freeBack = c.freeBack, !.cursize = c.cursize]
    BY <1>0 DEF pop_free, Buffers
  <2> HIDE DEF c
  <2> QED
    BY <2>2, <2>3, <2>4, <1>4, <1>0 DEF Buffers
<1> HIDE DEF c
<1>6. Queued(c, g)
  <2>1. \A i \in 1 .. Len(g) - 1 : c.next[g[i]] = g[i + 1]
    <3> TAKE i \in 1 .. Len(g) - 1
    <3>1. i \in 1 .. Len(g) /\ i + 1 \in 1 .. Len(g) /\ i + 1 \in 1 .. Len(f) - 1
      BY <1>1, <1>0
    <3> QED
      BY <3>1, <1>1, <1>2, <1>4
  <2> QED
    BY <1>3, <2>1 DEF Queued
<1>7. Linked(c, u)
  BY <1>4 DEF Is, Linked, next, prev
<1>8. Apart(u, g, {f[1]})
  <2>1. Distinct(g)
    <3> SUFFICES ASSUME NEW i \in 1 .. Len(g), NEW j \in 1 .. Len(g), g[i] = g[j] PROVE i = j
      BY DEF Distinct
    <3>1. i + 1 \in 1 .. Len(f) /\ j + 1 \in 1 .. Len(f) /\ f[i + 1] = f[j + 1]
      BY <1>1, <1>0
    <3>2. i + 1 = j + 1
      BY <3>1, <1>0 DEF Distinct
    <3> QED
      BY <3>2
  <2>2. \A i \in 1 .. Len(u), j \in 1 .. Len(f) : u[i] # f[j]
    BY DEF Is, Apart
  <2>3. \A j \in 1 .. Len(g) : j + 1 \in 1 .. Len(f) /\ g[j] = f[j + 1] /\ f[j + 1] # f[1]
    <3> TAKE j \in 1 .. Len(g)
    <3>1. j + 1 \in 1 .. Len(f) /\ 1 \in 1 .. Len(f) /\ j + 1 # 1
      BY <1>1, <1>0
    <3> QED
      BY <3>1, <1>1, <1>0 DEF Distinct
  <2>4. 1 \in 1 .. Len(f)
    BY <1>0
  <2> QED
    BY <1>0, <1>1, <2>1, <2>2, <2>3, <2>4 DEF Apart
<1>9. Covers(u, g, {f[1]})
  <2> SUFFICES ASSUME NEW x \in Entries, x # f[1], ~(\E i \in 1 .. Len(u) : u[i] = x)
               PROVE  \E j \in 1 .. Len(g) : g[j] = x
    BY DEF Covers
  <2>1. PICK j \in 1 .. Len(f) : f[j] = x
    BY DEF Is, Covers
  <2>2. j - 1 \in 1 .. Len(g) /\ (j - 1) + 1 = j
    BY <2>1, <1>1, <1>0
  <2> QED
    BY <2>1, <2>2, <1>1
<1>10. IsBut(c, u, g, f[1])
  <2>1. Len(u) + 1 + Len(g) = MAX_ENTRIES
    <3>1. Len(u) \in Nat /\ Len(f) \in Nat /\ Len(g) = Len(f) - 1 /\ Len(u) + Len(f) = MAX_ENTRIES
      BY <1>0, <1>1, Zenon
    <3> QED
      BY <3>1
  <2> QED
    BY <2>1, <1>1, <1>4, <1>5, <1>6, <1>7, <1>8, <1>9, Zenon DEF IsBut
<1> QED
  BY <1>1, <1>2, <1>4, <1>10 DEF NewIndex, c, g

\* and one that belongs to no list becomes its last.
LEMMA PushFreeIs ==
  ASSUME NEW b, NEW u, NEW f, NEW x, IsBut(b, u, f, x)
  PROVE  Is(push_free(b, x), u, Append(f, x))
<1> DEFINE c == push_free(b, x)
           g == Append(f, x)
<1>0. /\ u \in Seq(Entries) /\ f \in Seq(Entries) /\ Distinct(u) /\ Distinct(f) /\ x \in Entries
      /\ b \in Buffers /\ Len(u) \in Nat /\ Len(f) \in Nat /\ MAX_ENTRIES \in Nat
      /\ Len(u) + 1 + Len(f) = MAX_ENTRIES /\ b.cursize = Len(u) + 1 /\ x # end
  <2>1. x # end
    BY MaxEntriesAssumption DEF IsBut, Entries, end
  <2> QED
    BY <2>1, MaxEntriesAssumption, LenProperties DEF IsBut, Apart
<1>1. /\ g \in Seq(Entries) /\ Len(g) = Len(f) + 1
      /\ \A i \in 1 .. Len(g) : g[i] = IF i <= Len(f) THEN f[i] ELSE x
  BY <1>0, AppendProperties
<1> HIDE DEF g
<1>2. /\ \A i \in 1 .. Len(u) : u[i] # x
      /\ \A j \in 1 .. Len(f) : f[j] # x
      /\ \A i \in 1 .. Len(u), j \in 1 .. Len(f) : u[i] # f[j]
  BY DEF IsBut, Apart
<1>3. c.freeBegin = Nth(g, 1) /\ c.freeBack = Nth(g, Len(g))
  <2>1. b.freeBegin = Nth(f, 1) /\ b.freeBack = Nth(f, Len(f))
    BY DEF IsBut, Queued
  <2>2. c.freeBack = x /\ c.freeBegin = IF b.freeBack = end THEN x ELSE b.freeBegin
    BY <1>0 DEF push_free, Buffers
  <2>3. b.freeBack = end <=> Len(f) = 0
    BY <2>1, <1>0, NthIs DEF Nth
  <2> QED
    BY <2>1, <2>2, <2>3, <1>0, <1>1 DEF Nth
<1>4. /\ c.prev = b.prev /\ c.activeBegin = b.activeBegin /\ c.activeBack = b.activeBack /\ c.cursize = Len(u)
      /\ c.next = IF Len(f) = 0 THEN b.next ELSE [b.next EXCEPT ![f[Len(f)]] = x]
  <2>1. b.freeBack = Nth(f, Len(f)) /\ (Nth(f, Len(f)) = end <=> Len(f) = 0)
    BY <1>0, NthIs DEF IsBut, Queued, Nth
  <2>2. Len(f) # 0 => Nth(f, Len(f)) = f[Len(f)]
    BY <1>0 DEF Nth
  <2> QED
    BY <2>1, <2>2, <1>0 DEF push_free, Buffers
<1>5. c \in Buffers
  <2>1. b.freeBegin \in Indices /\ x \in Indices /\ Len(u) \in 0 .. MAX_ENTRIES
    BY <1>0 DEF Buffers, Indices
  <2>2. c.next \in [Entries -> Indices]
    BY <1>0, <2>1, <1>4 DEF Buffers
  <2>3. c.freeBegin \in Indices /\ c.freeBack \in Indices
    BY <2>1, <1>0 DEF push_free, Buffers
  <2>4. c = [b EXCEPT !.freeBegin = c.freeBegin, !.freeBack = c.freeBack, !.next = c.next,
                      !.cursize = c.cursize]
    BY <1>0 DEF push_free, Buffers
  <2> HIDE DEF c
  <2> QED
    BY <2>1, <2>2, <2>3, <2>4, <1>4, <1>0 DEF Buffers
<1> HIDE DEF c
<1>6. Queued(c, g)
  <2>1. \A i \in 1 .. Len(g) - 1 : c.next[g[i]] = g[i + 1]
    <3> TAKE i \in 1 .. Len(g) - 1
    <3>1. i \in 1 .. Len(f) /\ i \in 1 .. Len(g) /\ i + 1 \in 1 .. Len(g) /\ f[i] \in Entries /\ Len(f) \in 1 .. Len(f)
      BY <1>1, <1>0, ElementOfSeq
    <3>2. c.next = [b.next EXCEPT ![f[Len(f)]] = x] /\ b.next \in [Entries -> Indices]
      BY <1>4, <3>1, <1>0 DEF Buffers
    <3>3. CASE i = Len(f)
      BY <3>1, <3>2, <3>3, <1>1
    <3>4. CASE i < Len(f)
      <4>1. f[i] # f[Len(f)]
        BY <3>1, <3>4 DEF Distinct, IsBut, Apart
      <4>2. i \in 1 .. Len(f) - 1 /\ i + 1 <= Len(f)
        BY <3>4, <1>0
      <4>3. b.next[f[i]] = f[i + 1]
        BY <4>2 DEF IsBut, Queued
      <4> QED
        BY <3>1, <3>2, <4>1, <4>2, <4>3, <1>1
    <3> QED
      BY <3>1, <3>3, <3>4
  <2> QED
    BY <1>3, <2>1 DEF Queued
<1>7. Linked(c, u)
  <2> SUFFICES ASSUME NEW i \in 0 .. Len(u)
               PROVE  next(c, Nth(u, i)) = Nth(u, i + 1) /\ prev(c, Nth(u, i + 1)) = Nth(u, i)
    BY DEF Linked
  <2>1. next(b, Nth(u, i)) = Nth(u, i + 1) /\ prev(b, Nth(u, i + 1)) = Nth(u, i)
    BY DEF IsBut, Linked
  <2>2. next(c, Nth(u, i)) = next(b, Nth(u, i))
    <3>1. CASE Nth(u, i) = end
      BY <3>1, <1>4 DEF next
    <3>2. CASE Nth(u, i) # end
      <4>1. i \in 1 .. Len(u) /\ Nth(u, i) = u[i] /\ u[i] \in Entries
        BY <3>2, <1>0, NthIs DEF Nth
      <4>2. Len(f) # 0 => f[Len(f)] # u[i]
        BY <4>1, <1>2, <1>0
      <4> QED
        BY <4>1, <4>2, <3>2, <1>4, <1>0 DEF next, Buffers
    <3> QED
      BY <3>1, <3>2
  <2> QED
    BY <2>1, <2>2, <1>4 DEF prev
<1>8. Apart(u, g, {})
  <2>1. Distinct(g)
    <3> SUFFICES ASSUME NEW i \in 1 .. Len(g), NEW j \in 1 .. Len(g), g[i] = g[j] PROVE i = j
      BY DEF Distinct
    <3>1. i <= Len(f) => i \in 1 .. Len(f)
      BY <1>0, <1>1
    <3>2. j <= Len(f) => j \in 1 .. Len(f)
      BY <1>0, <1>1
    <3>3. ~(i <= Len(f)) => i = Len(f) + 1
      BY <1>0, <1>1
    <3>4. ~(j <= Len(f)) => j = Len(f) + 1
      BY <1>0, <1>1
    <3> QED
      BY <3>1, <3>2, <3>3, <3>4, <1>0, <1>1, <1>2 DEF Distinct
  <2>2. \A i \in 1 .. Len(u), j \in 1 .. Len(g) : u[i] # g[j]
    <3> TAKE i \in 1 .. Len(u), j \in 1 .. Len(g)
    <3>1. j <= Len(f) => j \in 1 .. Len(f)
      BY <1>0, <1>1
    <3> QED
      BY <3>1, <1>1, <1>2
  <2> QED
    BY <1>0, <1>1, <2>1, <2>2 DEF Apart
<1>9. Covers(u, g, {})
  <2> SUFFICES ASSUME NEW y \in Entries, ~(\E i \in 1 .. Len(u) : u[i] = y)
               PROVE  \E j \in 1 .. Len(g) : g[j] = y
    BY DEF Covers
  <2>1. CASE y = x
    <3>1. Len(f) + 1 \in 1 .. Len(g) /\ ~(Len(f) + 1 <= Len(f))
      BY <1>0, <1>1
    <3> QED
      BY <3>1, <1>1, <2>1
  <2>2. CASE y # x
    <3>1. PICK j \in 1 .. Len(f) : f[j] = y
      BY <2>2 DEF IsBut, Covers
    <3>2. j \in 1 .. Len(g) /\ j <= Len(f)
      BY <1>0, <1>1
    <3> QED
      BY <3>1, <3>2, <1>1
  <2> QED
    BY <2>1, <2>2
<1>10. Is(c, u, g)
  BY <1>0, <1>1, <1>4, <1>5, <1>6, <1>7, <1>8, <1>9 DEF Is
<1> QED
  BY <1>10 DEF c, g

-----------------------------------------------------------------------------
(* Lists with one entry more or less *)

\* Where the entries are in a list that got one more as its n-th,
LEMMA InsertAtIs ==
  ASSUME NEW S, NEW s \in Seq(S), NEW n \in 1 .. Len(s) + 1, NEW x \in S
  PROVE  LET t == InsertAt(s, n, x)
         IN  /\ t \in Seq(S) /\ Len(t) = Len(s) + 1
             /\ \A j \in 1 .. Len(s) + 1 :
                  t[j] = IF j < n THEN s[j] ELSE IF j = n THEN x ELSE s[j - 1]
<1> DEFINE front == SubSeq(s, 1, n - 1)
           back == SubSeq(s, n, Len(s))
           half == front \o <<x>>
           t == half \o back
<1>0. Len(s) \in Nat /\ \A i \in 1 .. Len(s) : s[i] \in S
  BY ElementOfSeq, LenProperties
<1>1. /\ front \in Seq(S) /\ Len(front) = n - 1
      /\ \A i \in 1 .. n - 1 : front[i] = s[i]
  <2>1. \A i \in 1 .. n - 1 : s[i] \in S
    BY <1>0
  <2>2. /\ SubSeq(s, 1, n - 1) \in Seq(S)
        /\ Len(SubSeq(s, 1, n - 1)) = IF 1 <= n - 1 THEN (n - 1) - 1 + 1 ELSE 0
        /\ \A i \in 1 .. (n - 1) - 1 + 1 : SubSeq(s, 1, n - 1)[i] = s[1 + i - 1]
    BY <2>1, <1>0, SubSeqProperties
  <2> QED
    BY <2>2, <1>0
<1>2. /\ back \in Seq(S) /\ Len(back) = Len(s) + 1 - n
      /\ \A i \in 1 .. Len(s) + 1 - n : back[i] = s[n + i - 1]
  <2>1. \A i \in n .. Len(s) : s[i] \in S
    BY <1>0
  <2>2. /\ SubSeq(s, n, Len(s)) \in Seq(S)
        /\ Len(SubSeq(s, n, Len(s))) = IF n <= Len(s) THEN Len(s) - n + 1 ELSE 0
        /\ \A i \in 1 .. Len(s) - n + 1 : SubSeq(s, n, Len(s))[i] = s[n + i - 1]
    BY <2>1, <1>0, SubSeqProperties
  <2> QED
    BY <2>2, <1>0
<1> HIDE DEF front, back
<1>3. /\ half \in Seq(S) /\ Len(half) = n
      /\ \A i \in 1 .. n : half[i] = IF i <= n - 1 THEN s[i] ELSE x
  <2>1. <<x>> \in Seq(S) /\ Len(<<x>>) = 1 /\ <<x>>[1] = x
    OBVIOUS
  <2> DEFINE one == <<x>>
  <2>2. one \in Seq(S) /\ Len(one) = 1 /\ one[1] = x
    BY <2>1
  <2> HIDE DEF one
  <2>3. /\ front \o one \in Seq(S)
        /\ Len(front \o one) = Len(front) + Len(one)
        /\ \A i \in 1 .. Len(front) + Len(one) :
             (front \o one)[i] = IF i <= Len(front) THEN front[i] ELSE one[i - Len(front)]
    BY <1>1, <2>2, ConcatProperties
  <2>4. half = front \o one
    BY DEF one
  <2> HIDE DEF half
  <2>5. Len(front) + Len(one) = n /\ Len(front) = n - 1
    BY <1>1, <2>2, <1>0
  <2>6. \A i \in 1 .. n : half[i] = IF i <= n - 1 THEN front[i] ELSE one[i - (n - 1)]
    BY <2>3, <2>4, <2>5
  <2>7. ASSUME NEW i \in 1 .. n PROVE half[i] = IF i <= n - 1 THEN s[i] ELSE x
    <3>1. i <= n - 1 => i \in 1 .. n - 1
      BY <1>0
    <3>2. ~(i <= n - 1) => i - (n - 1) = 1
      BY <1>0
    <3> QED
      BY <3>1, <3>2, <2>6, <1>1, <2>2
  <2> QED
    BY <2>3, <2>4, <2>5, <2>7
<1> HIDE DEF half
<1>4. /\ t \in Seq(S) /\ Len(t) = Len(s) + 1
      /\ \A i \in 1 .. Len(s) + 1 : t[i] = IF i <= n THEN half[i] ELSE back[i - n]
  <2>1. /\ half \o back \in Seq(S)
        /\ Len(half \o back) = Len(half) + Len(back)
        /\ \A i \in 1 .. Len(half) + Len(back) :
             (half \o back)[i] = IF i <= Len(half) THEN half[i] ELSE back[i - Len(half)]
    BY <1>2, <1>3, ConcatProperties
  <2>2. Len(half) + Len(back) = Len(s) + 1 /\ Len(half) = n
    BY <1>2, <1>3, <1>0
  <2> QED
    BY <2>1, <2>2
<1> HIDE DEF t
<1>5. ASSUME NEW j \in 1 .. Len(s) + 1
      PROVE  t[j] = IF j < n THEN s[j] ELSE IF j = n THEN x ELSE s[j - 1]
  <2>1. CASE j < n
    <3>1. j \in 1 .. n /\ j <= n - 1 /\ j <= n
      BY <2>1, <1>0
    <3> QED
      BY <3>1, <2>1, <1>3, <1>4
  <2>2. CASE j = n
    <3>1. j \in 1 .. n /\ ~(j <= n - 1) /\ j <= n /\ ~(j < n)
      BY <2>2, <1>0
    <3> QED
      BY <3>1, <2>2, <1>3, <1>4
  <2>3. CASE j > n
    <3>1. ~(j <= n) /\ j - n \in 1 .. Len(s) + 1 - n /\ n + (j - n) - 1 = j - 1 /\ ~(j < n) /\ j # n
      BY <2>3, <1>0
    <3>2. t[j] = back[j - n]
      BY <3>1, <1>4
    <3>3. back[j - n] = s[n + (j - n) - 1]
      BY <3>1, <1>2
    <3> QED
      BY <3>1, <3>2, <3>3
  <2> QED
    BY <2>1, <2>2, <2>3, <1>0
<1>6. InsertAt(s, n, x) = t
  BY DEF InsertAt, t, half, front, back
<1> QED
  BY <1>4, <1>5, <1>6

\* and in one that lost its n-th.
LEMMA RemoveAtIs ==
  ASSUME NEW S, NEW s \in Seq(S), NEW n \in 1 .. Len(s)
  PROVE  LET t == RemoveAt(s, n)
         IN  /\ t \in Seq(S) /\ Len(t) = Len(s) - 1
             /\ \A j \in 1 .. Len(s) - 1 : t[j] = IF j < n THEN s[j] ELSE s[j + 1]
<1> DEFINE front == SubSeq(s, 1, n - 1)
           back == SubSeq(s, n + 1, Len(s))
           t == front \o back
<1>0. Len(s) \in Nat /\ \A i \in 1 .. Len(s) : s[i] \in S
  BY ElementOfSeq, LenProperties
<1>1. /\ front \in Seq(S) /\ Len(front) = n - 1
      /\ \A i \in 1 .. n - 1 : front[i] = s[i]
  <2>1. \A i \in 1 .. n - 1 : s[i] \in S
    BY <1>0
  <2>2. /\ SubSeq(s, 1, n - 1) \in Seq(S)
        /\ Len(SubSeq(s, 1, n - 1)) = IF 1 <= n - 1 THEN (n - 1) - 1 + 1 ELSE 0
        /\ \A i \in 1 .. (n - 1) - 1 + 1 : SubSeq(s, 1, n - 1)[i] = s[1 + i - 1]
    BY <2>1, <1>0, SubSeqProperties
  <2> QED
    BY <2>2, <1>0
<1>2. /\ back \in Seq(S) /\ Len(back) = Len(s) - n
      /\ \A i \in 1 .. Len(s) - n : back[i] = s[n + i]
  <2>1. \A i \in n + 1 .. Len(s) : s[i] \in S
    BY <1>0
  <2>2. /\ SubSeq(s, n + 1, Len(s)) \in Seq(S)
        /\ Len(SubSeq(s, n + 1, Len(s))) = IF n + 1 <= Len(s) THEN Len(s) - (n + 1) + 1 ELSE 0
        /\ \A i \in 1 .. Len(s) - (n + 1) + 1 : SubSeq(s, n + 1, Len(s))[i] = s[n + 1 + i - 1]
    BY <2>1, <1>0, SubSeqProperties
  <2> QED
    BY <2>2, <1>0
<1> HIDE DEF front, back
<1>3. /\ t \in Seq(S) /\ Len(t) = Len(s) - 1
      /\ \A i \in 1 .. Len(s) - 1 : t[i] = IF i <= n - 1 THEN front[i] ELSE back[i - (n - 1)]
  <2>1. /\ front \o back \in Seq(S)
        /\ Len(front \o back) = Len(front) + Len(back)
        /\ \A i \in 1 .. Len(front) + Len(back) :
             (front \o back)[i] = IF i <= Len(front) THEN front[i] ELSE back[i - Len(front)]
    BY <1>1, <1>2, ConcatProperties
  <2>2. Len(front) + Len(back) = Len(s) - 1 /\ Len(front) = n - 1
    BY <1>1, <1>2, <1>0
  <2> QED
    BY <2>1, <2>2
<1> HIDE DEF t
<1>4. ASSUME NEW j \in 1 .. Len(s) - 1 PROVE t[j] = IF j < n THEN s[j] ELSE s[j + 1]
  <2>1. CASE j < n
    <3>1. j \in 1 .. n - 1 /\ j <= n - 1
      BY <2>1, <1>0
    <3> QED
      BY <3>1, <2>1, <1>1, <1>3
  <2>2. CASE ~(j < n)
    <3>1. ~(j <= n - 1) /\ j - (n - 1) \in 1 .. Len(s) - n /\ n + (j - (n - 1)) = j + 1
      BY <2>2, <1>0
    <3>2. t[j] = back[j - (n - 1)]
      BY <3>1, <1>3
    <3>3. back[j - (n - 1)] = s[n + (j - (n - 1))]
      BY <3>1, <1>2
    <3> QED
      BY <3>1, <3>2, <3>3, <2>2
  <2> QED
    BY <2>1, <2>2
<1>5. RemoveAt(s, n) = t
  BY DEF RemoveAt, t, front, back
<1> QED
  BY <1>3, <1>4, <1>5

\* The ring meets no place twice.
LEMMA NthDistinct ==
  ASSUME NEW s \in Seq(Entries), Distinct(s)
  PROVE  /\ \A i, j \in 0 .. Len(s) : Nth(s, i) = Nth(s, j) => i = j
         /\ \A i, j \in 1 .. Len(s) + 1 : Nth(s, i) = Nth(s, j) => i = j
<1>0. /\ Len(s) \in Nat
      /\ \A i \in 1 .. Len(s) : Nth(s, i) = s[i] /\ s[i] # end
      /\ Nth(s, 0) = end /\ Nth(s, Len(s) + 1) = end
  BY NthIs
<1>1. \A i, j \in 1 .. Len(s) : Nth(s, i) = Nth(s, j) => i = j
  BY <1>0 DEF Distinct
<1>2. \A i \in 0 .. Len(s) : i = 0 \/ i \in 1 .. Len(s)
  BY <1>0
<1>3. \A i \in 1 .. Len(s) + 1 : i = Len(s) + 1 \/ i \in 1 .. Len(s)
  BY <1>0
<1> QED
  BY <1>0, <1>1, <1>2, <1>3

\* The free queue does not mind what happens to the other links.
LEMMA QueueKept ==
  ASSUME NEW b, NEW c, NEW f \in Seq(Entries), Queued(b, f), SameFree(b, c),
         \A i \in 1 .. Len(f) : next(c, f[i]) = next(b, f[i])
  PROVE  Queued(c, f)
<1>1. ASSUME NEW i \in 1 .. Len(f) - 1 PROVE c.next[f[i]] = f[i + 1]
  <2>1. i \in 1 .. Len(f)
    BY LenProperties
  <2>2. f[i] # end
    BY <2>1, NthIs
  <2>3. c.next[f[i]] = b.next[f[i]]
    BY <2>1, <2>2 DEF next
  <2> QED
    BY <2>3 DEF Queued
<1> QED
  BY <1>1 DEF Queued, SameFree

-----------------------------------------------------------------------------
(* A new entry *)

\* Linked between two neighbours, the entry is where it is said to be.
LEMMA LinkIn ==
  ASSUME NEW b, NEW u, NEW f, NEW x, IsBut(b, u, f, x), NEW n \in 1 .. Len(u) + 1
  PROVE  Is(Link(b, Nth(u, n - 1), x, Nth(u, n)), InsertAt(u, n, x), f)
<1> DEFINE before == Nth(u, n - 1)
           after == Nth(u, n)
           c == Link(b, before, x, after)
           t == InsertAt(u, n, x)
<1>0. /\ u \in Seq(Entries) /\ f \in Seq(Entries) /\ Distinct(u) /\ Distinct(f)
      /\ x \in Entries /\ x \in Indices /\ x # end
      /\ b \in Buffers /\ Len(u) \in Nat /\ Len(f) \in Nat
  <2>1. u \in Seq(Entries) /\ f \in Seq(Entries) /\ Distinct(u) /\ Distinct(f) /\ x \in Entries /\ b \in Buffers
    BY DEF IsBut, Apart
  <2>2. x \in Indices /\ x # end
    BY <2>1, MaxEntriesAssumption DEF Indices, Entries, end
  <2> QED
    BY <2>1, <2>2, LenProperties
<1>1. /\ t \in Seq(Entries) /\ Len(t) = Len(u) + 1
      /\ \A j \in 1 .. Len(u) + 1 :
           t[j] = IF j < n THEN u[j] ELSE IF j = n THEN x ELSE u[j - 1]
  BY <1>0, InsertAtIs
<1> HIDE DEF t
<1>2. \A i \in 0 .. Len(u) + 2 :
        Nth(t, i) = IF i < n THEN Nth(u, i) ELSE IF i = n THEN x ELSE Nth(u, i - 1)
  <2> TAKE i \in 0 .. Len(u) + 2
  <2>1. CASE i < n
    <3>1. i = 0 \/ (i \in 1 .. Len(u) /\ i \in 1 .. Len(u) + 1)
      BY <2>1, <1>0
    <3> QED
      BY <3>1, <2>1, <1>1 DEF Nth
  <2>2. CASE i = n
    <3>1. i \in 1 .. Len(u) + 1 /\ ~(i < n)
      BY <2>2
    <3> QED
      BY <3>1, <2>2, <1>1 DEF Nth
  <2>3. CASE i > n
    <3>1. /\ ~(i < n) /\ i # n
          /\ i \in 1 .. Len(u) + 1 <=> i - 1 \in 1 .. Len(u)
      BY <2>3, <1>0
    <3> QED
      BY <3>1, <1>1 DEF Nth
  <2> QED
    BY <2>1, <2>2, <2>3, <1>0
<1>3. /\ \A i \in 1 .. Len(u) : u[i] # x
      /\ \A j \in 1 .. Len(f) : f[j] # x
      /\ \A i \in 1 .. Len(u), j \in 1 .. Len(f) : u[i] # f[j]
  BY DEF IsBut, Apart
<1>4. \A i \in Int : Nth(u, i) \in Indices /\ Nth(u, i) # x
  BY <1>0, <1>3, NthIs DEF Nth
<1>5. /\ c \in Buffers /\ SameFree(b, c)
      /\ \A z \in Indices :
           /\ next(c, z) = IF z = x THEN after ELSE IF z = before THEN x ELSE next(b, z)
           /\ prev(c, z) = IF z = x THEN before ELSE IF z = after THEN x ELSE prev(b, z)
  <2>1. before \in Indices /\ after \in Indices /\ before # x /\ after # x
    BY <1>4, <1>0
  <2> HIDE DEF before, after
  <2> QED
    BY <2>1, <1>0, LinkIs
<1> HIDE DEF c
<1>6. \A i \in 0 .. Len(u) :
        next(b, Nth(u, i)) = Nth(u, i + 1) /\ prev(b, Nth(u, i + 1)) = Nth(u, i)
  BY DEF IsBut, Linked
<1>7. /\ \A i, j \in 0 .. Len(u) : Nth(u, i) = Nth(u, j) => i = j
      /\ \A i, j \in 1 .. Len(u) + 1 : Nth(u, i) = Nth(u, j) => i = j
  BY <1>0, NthDistinct
<1>8. Linked(c, t)
  <2> SUFFICES ASSUME NEW i \in 0 .. Len(u) + 1
               PROVE  next(c, Nth(t, i)) = Nth(t, i + 1) /\ prev(c, Nth(t, i + 1)) = Nth(t, i)
    BY <1>1 DEF Linked
  <2>0. i \in 0 .. Len(u) + 2 /\ i + 1 \in 0 .. Len(u) + 2 /\ n - 1 \in 0 .. Len(u)
    BY <1>0
  <2>1. CASE i + 1 < n
    <3>1. i < n /\ i \in 0 .. Len(u) /\ i + 1 \in 1 .. Len(u) + 1 /\ i # n - 1 /\ i + 1 # n
      BY <2>1, <1>0
    <3>2. Nth(t, i) = Nth(u, i) /\ Nth(t, i + 1) = Nth(u, i + 1)
      BY <2>0, <2>1, <3>1, <1>2
    <3>3. Nth(u, i) # before /\ Nth(u, i + 1) # after
      BY <3>1, <2>0, <1>7
    <3>4. /\ Nth(u, i) \in Indices /\ Nth(u, i) # x
          /\ Nth(u, i + 1) \in Indices /\ Nth(u, i + 1) # x
      BY <1>4, <2>0
    <3>5. next(c, Nth(u, i)) = next(b, Nth(u, i)) /\ prev(c, Nth(u, i + 1)) = prev(b, Nth(u, i + 1))
      BY <3>3, <3>4, <1>5
    <3> QED
      BY <3>1, <3>2, <3>5, <1>6
  <2>2. CASE i + 1 = n
    <3>1. i < n /\ i = n - 1 /\ ~(i + 1 < n)
      BY <2>2, <1>0
    <3>2. Nth(t, i) = before /\ Nth(t, i + 1) = x
      BY <2>0, <2>2, <3>1, <1>2
    <3>3. before \in Indices /\ before # x
      BY <1>4, <2>0
    <3> QED
      BY <3>2, <3>3, <1>5, <1>0
  <2>3. CASE i = n
    <3>1. ~(i < n) /\ ~(i + 1 < n) /\ i + 1 # n /\ (i + 1) - 1 = n
      BY <2>3, <1>0
    <3>2. Nth(t, i) = x /\ Nth(t, i + 1) = after
      BY <2>0, <2>3, <3>1, <1>2
    <3>3. after \in Indices /\ after # x
      BY <1>4, <2>0
    <3> QED
      BY <3>2, <3>3, <1>5, <1>0
  <2>4. CASE i > n
    <3>1. /\ ~(i < n) /\ i # n /\ ~(i + 1 < n) /\ i + 1 # n /\ (i + 1) - 1 = i
          /\ i - 1 \in 0 .. Len(u) /\ i \in 1 .. Len(u) + 1 /\ i - 1 # n - 1 /\ (i - 1) + 1 = i
      BY <2>4, <1>0
    <3>2. Nth(t, i) = Nth(u, i - 1) /\ Nth(t, i + 1) = Nth(u, i)
      BY <2>0, <3>1, <1>2
    <3>3. Nth(u, i - 1) # before /\ Nth(u, i) # after
      BY <3>1, <2>0, <1>7
    <3>4. /\ Nth(u, i - 1) \in Indices /\ Nth(u, i - 1) # x
          /\ Nth(u, i) \in Indices /\ Nth(u, i) # x
      BY <1>4, <2>0
    <3>5. next(c, Nth(u, i - 1)) = next(b, Nth(u, i - 1)) /\ prev(c, Nth(u, i)) = prev(b, Nth(u, i))
      BY <3>3, <3>4, <1>5
    <3>6. next(b, Nth(u, i - 1)) = Nth(u, i) /\ prev(b, Nth(u, i)) = Nth(u, i - 1)
      BY <3>1, <1>6
    <3> QED
      BY <3>2, <3>5, <3>6
  <2> QED
    BY <2>1, <2>2, <2>3, <2>4, <1>0
<1>9. Queued(c, f)
  <2>1. ASSUME NEW j \in 1 .. Len(f) PROVE next(c, f[j]) = next(b, f[j])
    <3>1. f[j] \in Indices /\ f[j] # x
      BY <1>0, <1>3, NthIs DEF Indices
    <3>2. f[j] # before
      BY <1>0, <1>3, NthIs DEF Nth
    <3> QED
      BY <3>1, <3>2, <1>5
  <2>2. Queued(b, f)
    BY DEF IsBut
  <2> QED
    BY <2>1, <2>2, <1>0, <1>5, QueueKept
<1>10. Distinct(t)
  <2> SUFFICES ASSUME NEW i \in 1 .. Len(u) + 1, NEW j \in 1 .. Len(u) + 1, t[i] = t[j], i < j
               PROVE  FALSE
    BY <1>1 DEF Distinct
  <2>1. i < n => i \in 1 .. Len(u) /\ t[i] = u[i]
    BY <1>1, <1>0
  <2>2. j > n => j - 1 \in 1 .. Len(u) /\ t[j] = u[j - 1]
    BY <1>1, <1>0
  <2>3. j < n => j \in 1 .. Len(u) /\ t[j] = u[j]
    BY <1>1, <1>0
  <2>4. i > n => i - 1 \in 1 .. Len(u) /\ t[i] = u[i - 1]
    BY <1>1, <1>0
  <2>5. t[n] = x
    BY <1>1, <1>0
  <2>6. \A k, l \in 1 .. Len(u) : u[k] = u[l] => k = l
    BY <1>0 DEF Distinct
  <2>7. i \in Int /\ j \in Int /\ n \in Int
    BY <1>0
  <2>8. CASE j < n
    BY <2>1, <2>3, <2>6, <2>7, <2>8
  <2>9. CASE j = n
    BY <2>1, <2>5, <2>7, <2>9, <1>3
  <2>10. CASE j > n /\ i < n
    BY <2>1, <2>2, <2>6, <2>7, <2>10
  <2>11. CASE j > n /\ i = n
    BY <2>2, <2>5, <2>7, <2>11, <1>3
  <2>12. CASE j > n /\ i > n
    BY <2>2, <2>4, <2>6, <2>7, <2>12
  <2> QED
    BY <2>7, <2>8, <2>9, <2>10, <2>11, <2>12
<1>11. \A i \in 1 .. Len(t) : t[i] = x \/ \E k \in 1 .. Len(u) : t[i] = u[k]
  <2> TAKE i \in 1 .. Len(t)
  <2>1. CASE i < n
    BY <2>1, <1>0, <1>1
  <2>2. CASE i = n
    BY <2>2, <1>0, <1>1
  <2>3. CASE i > n
    <3>1. i - 1 \in 1 .. Len(u) /\ ~(i < n) /\ i # n /\ i \in 1 .. Len(u) + 1
      BY <2>3, <1>0, <1>1
    <3> QED
      BY <3>1, <1>1
  <2> QED
    BY <2>1, <2>2, <2>3, <1>0, <1>1
<1>12. Apart(t, f, {})
  <2>1. \A i \in 1 .. Len(t), j \in 1 .. Len(f) : t[i] # f[j]
    BY <1>3, <1>11
  <2> QED
    BY <2>1, <1>0, <1>1, <1>10 DEF Apart
<1>13. Covers(t, f, {})
  <2> SUFFICES ASSUME NEW y \in Entries, ~(\E j \in 1 .. Len(f) : f[j] = y)
               PROVE  \E i \in 1 .. Len(t) : t[i] = y
    BY DEF Covers
  <2>1. CASE y = x
    BY <2>1, <1>0, <1>1
  <2>2. CASE y # x
    <3>1. PICK i \in 1 .. Len(u) : u[i] = y
      BY <2>2 DEF IsBut, Covers
    <3>2. CASE i < n
      BY <3>1, <3>2, <1>0, <1>1
    <3>3. CASE ~(i < n)
      <4>1. i + 1 \in 1 .. Len(t) /\ ~(i + 1 < n) /\ i + 1 # n /\ (i + 1) - 1 = i /\ i + 1 \in 1 .. Len(u) + 1
        BY <3>3, <1>0, <1>1
      <4> QED
        BY <4>1, <3>1, <1>1
    <3> QED
      BY <3>2, <3>3
  <2> QED
    BY <2>1, <2>2
<1>14. c.cursize = Len(t) /\ Len(t) + Len(f) = MAX_ENTRIES
  <2>1. c.cursize = Len(u) + 1 /\ Len(u) + 1 + Len(f) = MAX_ENTRIES
    BY <1>5 DEF SameFree, IsBut
  <2> QED
    BY <2>1, <1>1, <1>0
<1>15. Is(c, t, f)
  BY <1>5, <1>8, <1>9, <1>12, <1>13, <1>14, Zenon DEF Is
<1> QED
  BY <1>15 DEF c, t

\* The ends of the list are the neighbours of end, and the free queue is empty when
\* it has no first.
LEMMA EndsAre ==
  ASSUME NEW b, NEW u, NEW f, Is(b, u, f)
  PROVE  /\ u \in Seq(Entries) /\ f \in Seq(Entries) /\ Distinct(u) /\ Distinct(f)
         /\ Len(u) \in Nat /\ Len(f) \in Nat /\ b \in Buffers
         /\ Nth(u, 0) = end /\ Nth(u, Len(u) + 1) = end
         /\ b.activeBegin = Nth(u, 1) /\ b.activeBack = Nth(u, Len(u))
         /\ NewIndex(b) = Nth(f, 1) /\ (NewIndex(b) = end <=> f = <<>>)
<1>1. u \in Seq(Entries) /\ f \in Seq(Entries) /\ Distinct(u) /\ Distinct(f) /\ b \in Buffers
  BY DEF Is, Apart
<1>2. Len(u) \in Nat /\ Len(f) \in Nat /\ Nth(u, 0) = end /\ Nth(u, Len(u) + 1) = end
  BY <1>1, NthIs
<1>3. b.activeBegin = Nth(u, 1) /\ b.activeBack = Nth(u, Len(u))
  <2>1. 0 \in 0 .. Len(u) /\ Len(u) \in 0 .. Len(u) /\ 0 + 1 = 1
    BY <1>2
  <2>2. next(b, Nth(u, 0)) = Nth(u, 1) /\ prev(b, Nth(u, Len(u) + 1)) = Nth(u, Len(u))
    BY <2>1 DEF Is, Linked
  <2> QED
    BY <2>2, <1>2 DEF next, prev
<1>4. NewIndex(b) = Nth(f, 1)
  BY DEF NewIndex, Is, Queued
<1>5. NewIndex(b) = end <=> f = <<>>
  <2>1. CASE f = <<>>
    <3>1. ~(1 \in 1 .. Len(f))
      BY <2>1
    <3> QED
      BY <3>1, <2>1, <1>4 DEF Nth
  <2>2. CASE f # <<>>
    <3>1. Len(f) # 0
      BY <2>2, <1>1, EmptySeq
    <3>2. 1 \in 1 .. Len(f)
      BY <3>1, <1>2
    <3>3. Nth(f, 1) # end
      BY <3>2, <1>1, NthIs
    <3> QED
      BY <3>3, <2>2, <1>4
  <2> QED
    BY <2>1, <2>2
<1> QED
  BY <1>1, <1>2, <1>3, <1>4, <1>5

\* The first free entry becomes the n-th of the list, if it gets the neighbours that
\* are there.
LEMMA NewNth ==
  ASSUME NEW b, NEW u, NEW f, Is(b, u, f), f # <<>>, NEW n \in 1 .. Len(u) + 1
  PROVE  Is(Link(pop_free(b), Nth(u, n - 1), NewIndex(b), Nth(u, n)), InsertAt(u, n, Head(f)), Tail(f))
<1>1. NewIndex(b) = Head(f) /\ IsBut(pop_free(b), u, Tail(f), Head(f))
  BY PopFreeIs
<1> QED
  BY <1>1, LinkIn

\* new_front(), new_back() and new_before() put it at the front, at the back and where
\* the given entry is, end being behind all; without a free entry they do nothing.
LEMMA NewIs ==
  ASSUME NEW b, NEW u, NEW f, Is(b, u, f)
  PROVE  /\ f = <<>> => new_front(b) = b /\ new_back(b) = b
         /\ f # <<>> => /\ Is(new_front(b), InsertAt(u, 1, Head(f)), Tail(f))
                        /\ Is(new_back(b), InsertAt(u, Len(u) + 1, Head(f)), Tail(f))
         /\ \A n \in 1 .. Len(u) + 1 :
              /\ f = <<>> => new_before(b, Nth(u, n)) = b
              /\ f # <<>> => Is(new_before(b, Nth(u, n)), InsertAt(u, n, Head(f)), Tail(f))
<1>0. /\ u \in Seq(Entries) /\ f \in Seq(Entries) /\ Distinct(u) /\ Len(u) \in Nat
      /\ Nth(u, 0) = end /\ Nth(u, Len(u) + 1) = end
      /\ b.activeBegin = Nth(u, 1) /\ b.activeBack = Nth(u, Len(u))
      /\ (NewIndex(b) = end <=> f = <<>>)
  BY EndsAre
<1>1. f = <<>> => new_front(b) = b /\ new_back(b) = b
  BY <1>0 DEF new_front, new_back
<1>2. ASSUME f # <<>>
      PROVE  /\ Is(new_front(b), InsertAt(u, 1, Head(f)), Tail(f))
             /\ Is(new_back(b), InsertAt(u, Len(u) + 1, Head(f)), Tail(f))
  <2>1. 1 \in 1 .. Len(u) + 1 /\ Len(u) + 1 \in 1 .. Len(u) + 1 /\ 1 - 1 = 0 /\ (Len(u) + 1) - 1 = Len(u)
    BY <1>0
  <2>2. new_front(b) = Link(pop_free(b), Nth(u, 1 - 1), NewIndex(b), Nth(u, 1))
    BY <1>0, <1>2, <2>1 DEF new_front
  <2>3. new_back(b) = Link(pop_free(b), Nth(u, (Len(u) + 1) - 1), NewIndex(b), Nth(u, Len(u) + 1))
    BY <1>0, <1>2, <2>1 DEF new_back
  <2> QED
    BY <1>2, <2>1, <2>2, <2>3, NewNth
<1>3. ASSUME NEW n \in 1 .. Len(u) + 1
      PROVE  /\ f = <<>> => new_before(b, Nth(u, n)) = b
             /\ f # <<>> => Is(new_before(b, Nth(u, n)), InsertAt(u, n, Head(f)), Tail(f))
  <2> DEFINE x == Nth(u, n)
  <2>1. CASE n = Len(u) + 1
    <3>1. new_before(b, x) = new_back(b)
      BY <2>1, <1>0 DEF new_before
    <3> QED
      BY <3>1, <2>1, <1>1, <1>2
  <2>2. CASE n # Len(u) + 1
    <3>1. n \in 1 .. Len(u) /\ n - 1 \in 0 .. Len(u) /\ (n - 1) + 1 = n /\ 0 \in 0 .. Len(u)
      BY <2>2, <1>0
    <3>2. x # end
      BY <3>1, <1>0, NthIs
    <3>3. prev(b, x) = Nth(u, n - 1)
      BY <3>1 DEF Is, Linked
    <3>4. Nth(u, n - 1) = end <=> n = 1
      <4>1. Nth(u, n - 1) = Nth(u, 0) => n - 1 = 0
        BY <3>1, <1>0, NthDistinct
      <4> QED
        BY <4>1, <1>0
    <3> HIDE DEF x
    <3>5. CASE n = 1
      <4>1. new_before(b, x) = new_front(b)
        BY <3>2, <3>3, <3>4, <3>5 DEF new_before
      <4> QED
        BY <4>1, <1>1, <1>2, <3>5 DEF x
    <3>6. CASE n # 1
      <4>1. new_before(b, x) = IF NewIndex(b) = end THEN b ELSE Link(pop_free(b), Nth(u, n - 1), NewIndex(b), x)
        BY <3>2, <3>3, <3>4, <3>6 DEF new_before
      <4> QED
        BY <4>1, <1>0, NewNth DEF x
    <3> QED
      BY <3>5, <3>6
  <2> QED
    BY <2>1, <2>2
<1> QED
  BY <1>1, <1>2, <1>3

-----------------------------------------------------------------------------
(* An entry that goes *)

\* Once its neighbours are told of each other, the n-th entry is in neither chain.
LEMMA Unlink ==
  ASSUME NEW b, NEW u, NEW f, Is(b, u, f), NEW n \in 1 .. Len(u),
         NEW c \in Buffers, SameFree(b, c),
         \A z \in Indices :
           /\ next(c, z) = IF z = Nth(u, n - 1) THEN Nth(u, n + 1) ELSE next(b, z)
           /\ prev(c, z) = IF z = Nth(u, n + 1) THEN Nth(u, n - 1) ELSE prev(b, z)
  PROVE  IsBut(c, RemoveAt(u, n), f, u[n])
<1> DEFINE before == Nth(u, n - 1)
           after == Nth(u, n + 1)
           t == RemoveAt(u, n)
           x == u[n]
<1>0. /\ u \in Seq(Entries) /\ f \in Seq(Entries) /\ Distinct(u) /\ Distinct(f)
      /\ b \in Buffers /\ Len(u) \in Nat /\ Len(f) \in Nat
  BY EndsAre
<1>1. /\ t \in Seq(Entries) /\ Len(t) = Len(u) - 1
      /\ \A j \in 1 .. Len(u) - 1 : t[j] = IF j < n THEN u[j] ELSE u[j + 1]
  BY <1>0, RemoveAtIs
<1> HIDE DEF t
<1>2. \A i \in 0 .. Len(u) : Nth(t, i) = IF i < n THEN Nth(u, i) ELSE Nth(u, i + 1)
  <2> TAKE i \in 0 .. Len(u)
  <2>1. CASE i < n
    <3>1. i = 0 \/ (i \in 1 .. Len(u) - 1 /\ i \in 1 .. Len(u))
      BY <2>1, <1>0
    <3>2. i = 0 => ~(i \in 1 .. Len(t)) /\ ~(i \in 1 .. Len(u))
      OBVIOUS
    <3> QED
      BY <3>1, <3>2, <2>1, <1>1 DEF Nth
  <2>2. CASE ~(i < n)
    <3>1. i \in 1 .. Len(u) - 1 <=> i + 1 \in 1 .. Len(u)
      BY <2>2, <1>0
    <3> QED
      BY <3>1, <2>2, <1>1 DEF Nth
  <2> QED
    BY <2>1, <2>2
<1>3. \A i, j \in 1 .. Len(u) : u[i] = u[j] => i = j
  BY <1>0 DEF Distinct
<1>4. \A i \in Int : Nth(u, i) \in Indices
  BY <1>0, NthIs
<1>5. \A i \in 0 .. Len(u) :
        next(b, Nth(u, i)) = Nth(u, i + 1) /\ prev(b, Nth(u, i + 1)) = Nth(u, i)
  BY DEF Is, Linked
<1>6. /\ \A i, j \in 0 .. Len(u) : Nth(u, i) = Nth(u, j) => i = j
      /\ \A i, j \in 1 .. Len(u) + 1 : Nth(u, i) = Nth(u, j) => i = j
  BY <1>0, NthDistinct
<1>7. Linked(c, t)
  <2> SUFFICES ASSUME NEW i \in 0 .. Len(u) - 1
               PROVE  next(c, Nth(t, i)) = Nth(t, i + 1) /\ prev(c, Nth(t, i + 1)) = Nth(t, i)
    BY <1>1 DEF Linked
  <2>0. i \in 0 .. Len(u) /\ i + 1 \in 0 .. Len(u) /\ n - 1 \in 0 .. Len(u) /\ n + 1 \in 1 .. Len(u) + 1
    BY <1>0
  <2>1. CASE i + 1 < n
    <3>1. i < n /\ i + 1 \in 1 .. Len(u) + 1 /\ i # n - 1 /\ i + 1 # n + 1
      BY <2>1, <1>0
    <3>2. Nth(t, i) = Nth(u, i) /\ Nth(t, i + 1) = Nth(u, i + 1)
      BY <2>0, <2>1, <3>1, <1>2
    <3>3. Nth(u, i) # before /\ Nth(u, i + 1) # after
      BY <3>1, <2>0, <1>6
    <3>4. Nth(u, i) \in Indices /\ Nth(u, i + 1) \in Indices
      BY <1>4, <2>0
    <3>5. next(c, Nth(u, i)) = next(b, Nth(u, i)) /\ prev(c, Nth(u, i + 1)) = prev(b, Nth(u, i + 1))
      BY <3>3, <3>4
    <3> QED
      BY <2>0, <3>2, <3>5, <1>5
  <2>2. CASE i + 1 = n
    <3>1. i < n /\ i = n - 1 /\ ~(i + 1 < n) /\ (i + 1) + 1 = n + 1
      BY <2>2, <1>0
    <3>2. Nth(t, i) = before /\ Nth(t, i + 1) = after
      BY <2>0, <3>1, <1>2
    <3>3. before \in Indices /\ after \in Indices
      BY <1>4, <2>0
    <3> QED
      BY <3>2, <3>3
  <2>3. CASE i + 1 > n
    <3>1. /\ ~(i < n) /\ ~(i + 1 < n) /\ i + 1 # n - 1 /\ (i + 1) + 1 # n + 1
          /\ (i + 1) + 1 \in 1 .. Len(u) + 1
      BY <2>3, <1>0
    <3>2. Nth(t, i) = Nth(u, i + 1) /\ Nth(t, i + 1) = Nth(u, (i + 1) + 1)
      BY <2>0, <3>1, <1>2
    <3>3. Nth(u, i + 1) # before /\ Nth(u, (i + 1) + 1) # after
      BY <3>1, <2>0, <1>6
    <3>4. Nth(u, i + 1) \in Indices /\ Nth(u, (i + 1) + 1) \in Indices
      BY <1>4, <2>0
    <3>5. /\ next(c, Nth(u, i + 1)) = next(b, Nth(u, i + 1))
          /\ prev(c, Nth(u, (i + 1) + 1)) = prev(b, Nth(u, (i + 1) + 1))
      BY <3>3, <3>4
    <3> QED
      BY <2>0, <3>2, <3>5, <1>5
  <2> QED
    BY <2>1, <2>2, <2>3, <1>0
<1>8. \A i \in 1 .. Len(u), j \in 1 .. Len(f) : u[i] # f[j]
  BY DEF Is, Apart
<1>9. Queued(c, f)
  <2>1. ASSUME NEW j \in 1 .. Len(f) PROVE next(c, f[j]) = next(b, f[j])
    <3>1. f[j] \in Indices
      BY <1>0, NthIs DEF Indices
    <3>2. f[j] # before
      BY <1>0, <1>8, NthIs DEF Nth
    <3> QED
      BY <3>1, <3>2
  <2>2. Queued(b, f)
    BY DEF Is
  <2> QED
    BY <2>1, <2>2, <1>0, QueueKept
<1>10. \A i \in 1 .. Len(t) :
         LET k == IF i < n THEN i ELSE i + 1
         IN  k \in 1 .. Len(u) /\ k # n /\ t[i] = u[k]
  <2> TAKE i \in 1 .. Len(t)
  <2>1. CASE i < n
    BY <2>1, <1>0, <1>1
  <2>2. CASE ~(i < n)
    <3>1. i + 1 \in 1 .. Len(u) /\ i + 1 # n /\ i \in 1 .. Len(u) - 1
      BY <2>2, <1>0, <1>1
    <3> QED
      BY <3>1, <2>2, <1>1
  <2> QED
    BY <2>1, <2>2
<1>11. Distinct(t)
  <2> SUFFICES ASSUME NEW i \in 1 .. Len(t), NEW j \in 1 .. Len(t), t[i] = t[j] PROVE i = j
    BY DEF Distinct
  <2>1. (IF i < n THEN i ELSE i + 1) = IF j < n THEN j ELSE j + 1
    BY <1>3, <1>10
  <2>2. i \in Int /\ j \in Int /\ n \in Int
    BY <1>0, <1>1
  <2> QED
    BY <2>1, <2>2
<1>12. Apart(t, f, {x})
  <2>1. \A i \in 1 .. Len(t) : t[i] # x /\ \A j \in 1 .. Len(f) : t[i] # f[j]
    BY <1>3, <1>8, <1>10
  <2>2. \A j \in 1 .. Len(f) : f[j] # x
    BY <1>8
  <2> QED
    BY <2>1, <2>2, <1>0, <1>1, <1>11 DEF Apart
<1>13. Covers(t, f, {x})
  <2> SUFFICES ASSUME NEW y \in Entries, y # x, ~(\E j \in 1 .. Len(f) : f[j] = y)
               PROVE  \E i \in 1 .. Len(t) : t[i] = y
    BY DEF Covers
  <2>1. PICK i \in 1 .. Len(u) : u[i] = y
    BY DEF Is, Covers
  <2>2. i # n
    BY <2>1
  <2>3. CASE i < n
    BY <2>1, <2>3, <1>0, <1>1
  <2>4. CASE i > n
    <3>1. i - 1 \in 1 .. Len(u) - 1 /\ ~(i - 1 < n) /\ (i - 1) + 1 = i
      BY <2>4, <1>0
    <3> QED
      BY <3>1, <2>1, <1>1
  <2> QED
    BY <2>2, <2>3, <2>4, <1>0
<1>14. x \in Entries
  BY <1>0, ElementOfSeq
<1>15. c.cursize = Len(t) + 1 /\ Len(t) + 1 + Len(f) = MAX_ENTRIES
  <2>1. c.cursize = Len(u) /\ Len(u) + Len(f) = MAX_ENTRIES
    BY DEF SameFree, Is
  <2> QED
    BY <2>1, <1>1, <1>0
<1>16. IsBut(c, t, f, x)
  BY <1>7, <1>9, <1>12, <1>13, <1>14, <1>15, Zenon DEF IsBut
<1> QED
  BY <1>16 DEF t

\* Telling both neighbours, in either order, is what Unlink asks for.
LEMMA TellBoth ==
  ASSUME NEW b \in Buffers, NEW before \in Indices, NEW after \in Indices, NEW c,
         \/ c = SetPrev(SetNext(b, before, after), after, before)
         \/ c = SetNext(SetPrev(b, after, before), before, after)
  PROVE  /\ c \in Buffers /\ SameFree(b, c)
         /\ \A z \in Indices :
              /\ next(c, z) = IF z = before THEN after ELSE next(b, z)
              /\ prev(c, z) = IF z = after THEN before ELSE prev(b, z)
<1>1. CASE c = SetPrev(SetNext(b, before, after), after, before)
  <2> DEFINE a == SetNext(b, before, after)
  <2>1. /\ a \in Buffers /\ SameFree(b, a)
        /\ \A z \in Indices : /\ next(a, z) = IF z = before THEN after ELSE next(b, z)
                              /\ prev(a, z) = prev(b, z)
    BY SetNextIs
  <2>2. c = SetPrev(a, after, before)
    BY <1>1
  <2> HIDE DEF a
  <2>3. /\ c \in Buffers /\ SameFree(a, c)
        /\ \A z \in Indices : /\ prev(c, z) = IF z = after THEN before ELSE prev(a, z)
                              /\ next(c, z) = next(a, z)
    BY <2>1, <2>2, SetPrevIs
  <2>4. SameFree(b, c)
    BY <2>1, <2>3 DEF SameFree
  <2> QED
    BY <2>1, <2>3, <2>4
<1>2. CASE c = SetNext(SetPrev(b, after, before), before, after)
  <2> DEFINE a == SetPrev(b, after, before)
  <2>1. /\ a \in Buffers /\ SameFree(b, a)
        /\ \A z \in Indices : /\ prev(a, z) = IF z = after THEN before ELSE prev(b, z)
                              /\ next(a, z) = next(b, z)
    BY SetPrevIs
  <2>2. c = SetNext(a, before, after)
    BY <1>2
  <2> HIDE DEF a
  <2>3. /\ c \in Buffers /\ SameFree(a, c)
        /\ \A z \in Indices : /\ next(c, z) = IF z = before THEN after ELSE next(a, z)
                              /\ prev(c, z) = prev(a, z)
    BY <2>1, <2>2, SetNextIs
  <2>4. SameFree(b, c)
    BY <2>1, <2>3 DEF SameFree
  <2> QED
    BY <2>1, <2>3, <2>4
<1> QED
  BY <1>1, <1>2

\* The n-th entry goes to the back of the free queue.
LEMMA FreeNth ==
  ASSUME NEW b, NEW u, NEW f, Is(b, u, f), NEW n \in 1 .. Len(u), NEW c,
         \/ c = SetPrev(SetNext(b, Nth(u, n - 1), Nth(u, n + 1)), Nth(u, n + 1), Nth(u, n - 1))
         \/ c = SetNext(SetPrev(b, Nth(u, n + 1), Nth(u, n - 1)), Nth(u, n - 1), Nth(u, n + 1))
  PROVE  Is(push_free(c, u[n]), RemoveAt(u, n), Append(f, u[n]))
<1> DEFINE before == Nth(u, n - 1)
           after == Nth(u, n + 1)
<1>1. b \in Buffers /\ before \in Indices /\ after \in Indices
  <2>1. b \in Buffers /\ u \in Seq(Entries) /\ Len(u) \in Nat
    BY EndsAre
  <2>2. n - 1 \in Int /\ n + 1 \in Int
    BY <2>1
  <2> QED
    BY <2>1, <2>2, NthIs
<1>2. \/ c = SetPrev(SetNext(b, before, after), after, before)
      \/ c = SetNext(SetPrev(b, after, before), before, after)
  OBVIOUS
<1> HIDE DEF before, after
<1>3. /\ c \in Buffers /\ SameFree(b, c)
      /\ \A z \in Indices :
           /\ next(c, z) = IF z = before THEN after ELSE next(b, z)
           /\ prev(c, z) = IF z = after THEN before ELSE prev(b, z)
  BY <1>1, <1>2, TellBoth
<1>4. IsBut(c, RemoveAt(u, n), f, u[n])
  BY <1>3, Unlink DEF before, after
<1> QED
  BY <1>4, PushFreeIs

\* What pop_front(), pop_back() and erase() do to the list
LEMMA EraseIs ==
  ASSUME NEW b, NEW u, NEW f, Is(b, u, f), NEW n \in 1 .. Len(u)
  PROVE  /\ n = 1 => Is(pop_front(b), RemoveAt(u, n), Append(f, u[n]))
         /\ n = Len(u) => Is(pop_back(b), RemoveAt(u, n), Append(f, u[n]))
         /\ Is(erase(b, u[n]), RemoveAt(u, n), Append(f, u[n]))
<1> DEFINE before == Nth(u, n - 1)
           after == Nth(u, n + 1)
           x == u[n]
<1>0. /\ u \in Seq(Entries) /\ f \in Seq(Entries) /\ Distinct(u) /\ Len(u) \in Nat
      /\ b \in Buffers /\ Nth(u, 0) = end /\ Nth(u, Len(u) + 1) = end
      /\ b.activeBegin = Nth(u, 1) /\ b.activeBack = Nth(u, Len(u))
  BY EndsAre
<1>1. Nth(u, n) = x /\ x \in Entries /\ x # end
  BY <1>0, NthIs
<1>2. b.next[x] = after /\ b.prev[x] = before
  <2>1. n \in 0 .. Len(u) /\ n - 1 \in 0 .. Len(u) /\ (n - 1) + 1 = n
    BY <1>0
  <2>2. next(b, Nth(u, n)) = after /\ prev(b, Nth(u, n)) = before
    BY <2>1 DEF Is, Linked
  <2> QED
    BY <2>2, <1>1 DEF next, prev
<1>3. /\ n = 1 <=> x = b.activeBegin
      /\ n = Len(u) <=> x = b.activeBack
  <2>1. 1 \in 0 .. Len(u) /\ Len(u) \in 0 .. Len(u) /\ n \in 0 .. Len(u)
    BY <1>0
  <2>2. \A i, j \in 0 .. Len(u) : Nth(u, i) = Nth(u, j) => i = j
    BY <1>0, NthDistinct
  <2> QED
    BY <2>1, <2>2, <1>0, <1>1
<1>4. ASSUME n = 1 PROVE Is(pop_front(b), RemoveAt(u, n), Append(f, x))
  <2>1. before = end /\ b.activeBegin = x
    BY <1>0, <1>3, <1>4
  <2>2. pop_front(b) = push_free(SetPrev(SetNext(b, before, after), after, before), x)
    BY <2>1, <1>2 DEF pop_front, SetNext
  <2> QED
    BY <2>2, FreeNth
<1>5. ASSUME n = Len(u) PROVE Is(pop_back(b), RemoveAt(u, n), Append(f, x))
  <2>1. after = end /\ b.activeBack = x
    BY <1>0, <1>3, <1>5
  <2>2. pop_back(b) = push_free(SetNext(SetPrev(b, after, before), before, after), x)
    BY <2>1, <1>2 DEF pop_back, SetPrev
  <2> QED
    BY <2>2, FreeNth
<1>6. Is(erase(b, x), RemoveAt(u, n), Append(f, x))
  <2>1. CASE n = 1
    <3>1. erase(b, x) = pop_front(b)
      BY <2>1, <1>3 DEF erase
    <3> QED
      BY <3>1, <2>1, <1>4
  <2>2. CASE n # 1 /\ n = Len(u)
    <3>1. erase(b, x) = pop_back(b)
      BY <2>2, <1>3 DEF erase
    <3> QED
      BY <3>1, <2>2, <1>5
  <2>3. CASE n # 1 /\ n # Len(u)
    <3>1. erase(b, x) = push_free(SetNext(SetPrev(b, b.next[x], b.prev[x]), b.prev[x], b.next[x]), x)
      BY <2>3, <1>3 DEF erase
    <3>2. erase(b, x) = push_free(SetNext(SetPrev(b, after, before), before, after), x)
      BY <3>1, <1>2
    <3> QED
      BY <3>2, FreeNth
  <2> QED
    BY <2>1, <2>2, <2>3
<1> QED
  BY <1>4, <1>5, <1>6

\* clear() puts them all there, in their order.
LEMMA ClearIs ==
  ASSUME NEW b, NEW u, NEW f, Is(b, u, f)
  PROVE  Is(clear(b), <<>>, f \o u)
<1> DEFINE c == clear(b)
           g == f \o u
<1>0. /\ u \in Seq(Entries) /\ f \in Seq(Entries) /\ Distinct(u) /\ Distinct(f) /\ b \in Buffers
      /\ Len(u) \in Nat /\ Len(f) \in Nat /\ MAX_ENTRIES \in Nat
      /\ b.activeBegin = Nth(u, 1) /\ b.activeBack = Nth(u, Len(u))
  BY EndsAre, MaxEntriesAssumption
<1>1. /\ g \in Seq(Entries) /\ Len(g) = Len(f) + Len(u)
      /\ \A i \in 1 .. Len(f) + Len(u) : g[i] = IF i <= Len(f) THEN f[i] ELSE u[i - Len(f)]
  BY <1>0, ConcatProperties
<1> DEFINE none == <<>>
<1>2. none \in Seq(Entries) /\ Len(none) = 0 /\ none = <<>>
  OBVIOUS
<1>3. CASE Len(u) = 0
  <2>1. c = b
    BY <1>3 DEF clear, Is
  <2>2. u = none
    BY <1>0, <1>3, EmptySeq
  <2> HIDE DEF g, none
  <2>3. Len(g) = Len(f) /\ \A i \in 1 .. Len(f) : g[i] = f[i]
    BY <1>0, <1>1, <1>3
  <2>4. g = f
    BY <1>0, <1>1, <2>3, SeqEqual
  <2>5. Is(c, none, g)
    BY <2>1, <2>2, <2>4
  <2> QED
    BY <2>5 DEF g, none
<1>4. CASE Len(u) # 0
  <2> HIDE DEF g, none
  <2>1. /\ b.cursize # 0 /\ 1 \in 1 .. Len(u) /\ Len(u) \in 1 .. Len(u)
        /\ b.cursize = Len(u) /\ Len(u) + Len(f) = MAX_ENTRIES
    BY <1>4, <1>0 DEF Is
  <2>2. b.freeBegin = Nth(f, 1) /\ b.freeBack = Nth(f, Len(f)) /\ (b.freeBack = end <=> Len(f) = 0)
    BY <1>0, NthIs DEF Is, Queued, Nth
  <2>3. /\ c.freeBegin = IF Len(f) = 0 THEN u[1] ELSE Nth(f, 1)
        /\ c.next = IF Len(f) = 0 THEN b.next ELSE [b.next EXCEPT ![f[Len(f)]] = u[1]]
        /\ c.freeBack = u[Len(u)] /\ c.activeBegin = end /\ c.activeBack = end /\ c.cursize = 0
        /\ c.prev = b.prev
    <3>1. b.activeBegin = u[1] /\ b.activeBack = u[Len(u)]
      BY <2>1, <1>0 DEF Nth
    <3>2. Len(f) # 0 => b.freeBack = f[Len(f)]
      BY <2>2, <1>0 DEF Nth
    <3> QED
      BY <2>1, <2>2, <3>1, <3>2, <1>0 DEF clear, Buffers
  <2>4. c \in Buffers
    <3>1. u[1] \in Entries /\ u[Len(u)] \in Entries /\ u[1] \in Indices /\ u[Len(u)] \in Indices /\ end \in Indices
      BY <2>1, <1>0, ElementOfSeq DEF Indices
    <3>2. c.freeBegin \in Indices
      BY <2>2, <2>3, <3>1, <1>0 DEF Buffers
    <3>3. c.next \in [Entries -> Indices]
      BY <2>3, <3>1, <1>0 DEF Buffers
    <3>4. 0 \in 0 .. MAX_ENTRIES
      BY <1>0
    <3>5. c = [b EXCEPT !.freeBegin = c.freeBegin, !.next = c.next, !.freeBack = c.freeBack,
                        !.activeBegin = c.activeBegin, !.activeBack = c.activeBack, !.cursize = c.cursize]
      BY <2>1, <1>0 DEF clear, Buffers
    <3> HIDE DEF c
    <3> QED
      BY <2>3, <3>1, <3>2, <3>3, <3>4, <3>5, <1>0 DEF Buffers
  <2> HIDE DEF c
  <2>5. \A i \in 1 .. Len(u), j \in 1 .. Len(f) : u[i] # f[j]
    BY DEF Is, Apart
  <2>6. Queued(c, g)
    <3>1. c.freeBegin = Nth(g, 1)
      <4>1. 1 \in 1 .. Len(g) /\ 1 \in 1 .. Len(f) + Len(u)
        BY <1>0, <1>1, <2>1
      <4>2. Nth(g, 1) = IF 1 <= Len(f) THEN f[1] ELSE u[1 - Len(f)]
        BY <4>1, <1>1 DEF Nth
      <4>3. CASE Len(f) = 0
        <5>1. 1 - Len(f) = 1 /\ ~(1 <= Len(f))
          BY <4>3
        <5> QED
          BY <4>2, <4>3, <5>1, <2>3
      <4>4. CASE Len(f) # 0
        BY <4>2, <4>4, <2>3, <1>0 DEF Nth
      <4> QED
        BY <4>3, <4>4
    <3>2. c.freeBack = Nth(g, Len(g))
      <4>1. /\ Len(g) \in 1 .. Len(g) /\ Len(g) \in 1 .. Len(f) + Len(u)
            /\ ~(Len(g) <= Len(f)) /\ Len(g) - Len(f) = Len(u)
        BY <1>0, <1>1, <2>1
      <4> QED
        BY <4>1, <1>1, <2>3 DEF Nth
    <3>3. ASSUME NEW i \in 1 .. Len(g) - 1 PROVE c.next[g[i]] = g[i + 1]
      <4>0. /\ i \in 1 .. Len(f) + Len(u) /\ i + 1 \in 1 .. Len(f) + Len(u)
            /\ b.next \in [Entries -> Indices]
        BY <1>0, <1>1 DEF Buffers
      <4>1. CASE i < Len(f)
        <5>1. i \in 1 .. Len(f) - 1 /\ i \in 1 .. Len(f) /\ i + 1 <= Len(f) /\ Len(f) \in 1 .. Len(f) /\ Len(f) # 0
          BY <4>1, <1>0
        <5>2. f[i] # f[Len(f)] /\ f[i] \in Entries /\ f[Len(f)] \in Entries
          BY <5>1, <4>1, <1>0, ElementOfSeq DEF Distinct
        <5>3. b.next[f[i]] = f[i + 1]
          BY <5>1 DEF Is, Queued
        <5>4. c.next[f[i]] = b.next[f[i]]
          BY <5>1, <5>2, <2>3, <4>0
        <5> QED
          BY <5>1, <5>3, <5>4, <4>0, <1>1, <4>1
      <4>2. CASE i = Len(f)
        <5>1. Len(f) \in 1 .. Len(f) /\ Len(f) # 0 /\ i <= Len(f) /\ ~(i + 1 <= Len(f)) /\ (i + 1) - Len(f) = 1
          BY <4>2, <1>0
        <5>2. f[Len(f)] \in Entries
          BY <5>1, <1>0, ElementOfSeq
        <5>3. c.next[f[Len(f)]] = u[1]
          BY <5>1, <5>2, <2>3, <4>0
        <5>4. g[i] = f[Len(f)] /\ g[i + 1] = u[1]
          BY <5>1, <4>0, <4>2, <1>1
        <5> QED
          BY <5>3, <5>4
      <4>3. CASE i > Len(f)
        <5> DEFINE k == i - Len(f)
        <5>1. /\ k \in 1 .. Len(u) /\ k + 1 \in 1 .. Len(u) /\ k \in 0 .. Len(u)
              /\ ~(i <= Len(f)) /\ ~(i + 1 <= Len(f)) /\ (i + 1) - Len(f) = k + 1
          BY <4>3, <1>0, <1>1
        <5> HIDE DEF k
        <5>2. u[k] \in Entries /\ Nth(u, k) = u[k] /\ u[k] # end /\ Nth(u, k + 1) = u[k + 1]
          BY <5>1, <1>0, NthIs
        <5>3. b.next[u[k]] = u[k + 1]
          <6>1. next(b, Nth(u, k)) = Nth(u, k + 1)
            BY <5>1 DEF Is, Linked
          <6> QED
            BY <6>1, <5>2 DEF next
        <5>4. Len(f) # 0 => f[Len(f)] \in Entries /\ f[Len(f)] # u[k]
          <6>1. Len(f) # 0 => Len(f) \in 1 .. Len(f)
            BY <1>0
          <6> QED
            BY <6>1, <5>1, <2>5, <1>0, ElementOfSeq
        <5>5. c.next[u[k]] = b.next[u[k]]
          BY <5>2, <5>4, <2>3, <4>0
        <5>6. g[i] = u[k] /\ g[i + 1] = u[k + 1]
          BY <5>1, <4>0, <1>1 DEF k
        <5> QED
          BY <5>3, <5>5, <5>6
      <4> QED
        BY <4>1, <4>2, <4>3, <1>0
    <3> QED
      BY <3>1, <3>2, <3>3 DEF Queued
  <2>7. Linked(c, none)
    <3>1. Nth(none, 0) = end /\ Nth(none, 0 + 1) = end
      BY <1>2 DEF Nth
    <3>2. \A i \in 0 .. Len(none) : i = 0
      BY <1>2
    <3>3. next(c, end) = end /\ prev(c, end) = end
      BY <2>3 DEF next, prev
    <3> QED
      BY <3>1, <3>2, <3>3 DEF Linked
  <2>8. Apart(none, g, {})
    <3>1. Distinct(g)
      <4> SUFFICES ASSUME NEW i \in 1 .. Len(g), NEW j \in 1 .. Len(g), g[i] = g[j] PROVE i = j
        BY DEF Distinct
      <4>1. i <= Len(f) => i \in 1 .. Len(f)
        BY <1>0, <1>1
      <4>2. j <= Len(f) => j \in 1 .. Len(f)
        BY <1>0, <1>1
      <4>3. ~(i <= Len(f)) => i - Len(f) \in 1 .. Len(u)
        BY <1>0, <1>1
      <4>4. ~(j <= Len(f)) => j - Len(f) \in 1 .. Len(u)
        BY <1>0, <1>1
      <4>5. /\ g[i] = IF i <= Len(f) THEN f[i] ELSE u[i - Len(f)]
            /\ g[j] = IF j <= Len(f) THEN f[j] ELSE u[j - Len(f)]
        BY <1>1
      <4>6. CASE i <= Len(f) /\ j <= Len(f)
        BY <4>1, <4>2, <4>5, <4>6, <1>0 DEF Distinct
      <4>7. CASE ~(i <= Len(f)) /\ ~(j <= Len(f))
        <5>1. i - Len(f) = j - Len(f)
          BY <4>3, <4>4, <4>5, <4>7, <1>0 DEF Distinct
        <5> QED
          BY <5>1, <1>0, <1>1
      <4>8. CASE i <= Len(f) /\ ~(j <= Len(f))
        BY <4>1, <4>4, <4>5, <4>8, <2>5
      <4>9. CASE ~(i <= Len(f)) /\ j <= Len(f)
        BY <4>2, <4>3, <4>5, <4>9, <2>5
      <4> QED
        BY <4>6, <4>7, <4>8, <4>9
    <3>2. Distinct(none) /\ \A i \in 1 .. Len(none) : FALSE
      BY <1>2 DEF Distinct
    <3> QED
      BY <3>1, <3>2, <1>1, <1>2 DEF Apart
  <2>9. Covers(none, g, {})
    <3> SUFFICES ASSUME NEW y \in Entries PROVE \E j \in 1 .. Len(g) : g[j] = y
      BY DEF Covers
    <3>1. CASE \E i \in 1 .. Len(f) : f[i] = y
      <4>1. PICK i \in 1 .. Len(f) : f[i] = y
        BY <3>1
      <4>2. i \in 1 .. Len(g) /\ i <= Len(f)
        BY <1>0, <1>1
      <4> QED
        BY <4>1, <4>2, <1>1
    <3>2. CASE \E i \in 1 .. Len(u) : u[i] = y
      <4>1. PICK i \in 1 .. Len(u) : u[i] = y
        BY <3>2
      <4>2. i + Len(f) \in 1 .. Len(g) /\ ~(i + Len(f) <= Len(f)) /\ (i + Len(f)) - Len(f) = i
        BY <1>0, <1>1
      <4>3. g[i + Len(f)] = u[(i + Len(f)) - Len(f)]
        BY <4>2, <1>1
      <4> QED
        BY <4>1, <4>2, <4>3
    <3> QED
      BY <3>1, <3>2 DEF Is, Covers
  <2>10. c.cursize = Len(none) /\ Len(none) + Len(g) = MAX_ENTRIES
    BY <2>1, <2>3, <1>0, <1>1, <1>2
  <2>11. Is(c, none, g)
    BY <2>4, <2>6, <2>7, <2>8, <2>9, <2>10, Zenon DEF Is
  <2> QED
    BY <2>11 DEF c, g, none
<1> QED
  BY <1>3, <1>4

-----------------------------------------------------------------------------
(* Two entries that change places *)

\* c goes on from the i-th of v to the next one, and back to it.
NextOk(c, v, i) == next(c, Nth(v, i)) = Nth(v, i + 1)
PrevOk(c, v, i) == prev(c, Nth(v, i + 1)) = Nth(v, i)

\* When the k-th entry knows its neighbours and tells them, they know it, and no link
\* that was right is wrong then.
LEMMA TellIs ==
  ASSUME NEW c \in Buffers, NEW v \in Seq(Entries), Distinct(v), NEW k \in 1 .. Len(v),
         NextOk(c, v, k), PrevOk(c, v, k - 1)
  PROVE  LET d == SetPrev(SetNext(c, c.prev[v[k]], v[k]), c.next[v[k]], v[k])
         IN  /\ d \in Buffers /\ SameFree(c, d)
             /\ NextOk(d, v, k - 1) /\ PrevOk(d, v, k)
             /\ \A i \in 0 .. Len(v) : /\ NextOk(c, v, i) => NextOk(d, v, i)
                                       /\ PrevOk(c, v, i) => PrevOk(d, v, i)
             /\ \A z \in Entries : (\A i \in 1 .. Len(v) : v[i] # z) => d.next[z] = c.next[z]
<1> DEFINE x == v[k]
           before == Nth(v, k - 1)
           after == Nth(v, k + 1)
           a == SetNext(c, before, x)
           d == SetPrev(a, after, x)
<1>0. /\ Len(v) \in Nat /\ x \in Entries /\ x # end /\ Nth(v, k) = x /\ x \in Indices
      /\ before \in Indices /\ after \in Indices
      /\ k - 1 \in 0 .. Len(v) /\ k \in 0 .. Len(v) /\ (k - 1) + 1 = k /\ k \in 1 .. Len(v) + 1
      /\ k + 1 \in 1 .. Len(v) + 1
  <2>1. Len(v) \in Nat
    BY LenProperties
  <2>2. x \in Entries /\ x # end /\ Nth(v, k) = x
    BY NthIs
  <2>3. k - 1 \in Int /\ k + 1 \in Int
    BY <2>1
  <2>4. before \in Indices /\ after \in Indices
    BY <2>3, NthIs
  <2> QED
    BY <2>1, <2>2, <2>4 DEF Indices
<1>1. c.next[x] = after /\ c.prev[x] = before
  BY <1>0 DEF NextOk, PrevOk, next, prev
<1> HIDE DEF x, before, after
<1>2. /\ a \in Buffers /\ SameFree(c, a)
      /\ \A z \in Indices : /\ next(a, z) = IF z = before THEN x ELSE next(c, z)
                            /\ prev(a, z) = prev(c, z)
  BY <1>0, SetNextIs
<1>3. SetPrev(SetNext(c, c.prev[x], x), c.next[x], x) = d
  BY <1>1
<1> HIDE DEF a
<1>4. /\ d \in Buffers /\ SameFree(a, d)
      /\ \A z \in Indices : /\ prev(d, z) = IF z = after THEN x ELSE prev(a, z)
                            /\ next(d, z) = next(a, z)
  BY <1>0, <1>2, SetPrevIs
<1> HIDE DEF d
<1>5. /\ d \in Buffers /\ SameFree(c, d)
      /\ \A z \in Indices : /\ next(d, z) = IF z = before THEN x ELSE next(c, z)
                            /\ prev(d, z) = IF z = after THEN x ELSE prev(c, z)
  BY <1>2, <1>4 DEF SameFree
<1>6. /\ \A i, j \in 0 .. Len(v) : Nth(v, i) = Nth(v, j) => i = j
      /\ \A i, j \in 1 .. Len(v) + 1 : Nth(v, i) = Nth(v, j) => i = j
      /\ \A i \in Int : Nth(v, i) \in Indices
  BY NthDistinct, NthIs
<1>7. NextOk(d, v, k - 1) /\ PrevOk(d, v, k)
  BY <1>0, <1>5 DEF NextOk, PrevOk, before, after
<1>8. ASSUME NEW i \in 0 .. Len(v)
      PROVE  /\ NextOk(c, v, i) => NextOk(d, v, i)
             /\ PrevOk(c, v, i) => PrevOk(d, v, i)
  <2>0. i \in Int /\ i + 1 \in Int /\ i + 1 \in 1 .. Len(v) + 1
    BY <1>0
  <2>1. Nth(v, i) \in Indices /\ Nth(v, i + 1) \in Indices
    BY <2>0, <1>6
  <2>2. NextOk(c, v, i) => NextOk(d, v, i)
    <3>1. CASE Nth(v, i) = before
      <4>1. i = k - 1
        BY <3>1, <1>0, <1>6 DEF before
      <4> QED
        BY <4>1, <1>7
    <3>2. CASE Nth(v, i) # before
      <4>1. next(d, Nth(v, i)) = next(c, Nth(v, i))
        BY <2>1, <3>2, <1>5
      <4> QED
        BY <4>1 DEF NextOk
    <3> QED
      BY <3>1, <3>2
  <2>3. PrevOk(c, v, i) => PrevOk(d, v, i)
    <3>1. CASE Nth(v, i + 1) = after
      <4>1. i + 1 = k + 1
        BY <2>0, <3>1, <1>0, <1>6 DEF after
      <4>2. i = k
        BY <4>1, <2>0
      <4> QED
        BY <4>2, <1>7
    <3>2. CASE Nth(v, i + 1) # after
      <4>1. prev(d, Nth(v, i + 1)) = prev(c, Nth(v, i + 1))
        BY <2>1, <3>2, <1>5
      <4> QED
        BY <4>1 DEF PrevOk
    <3> QED
      BY <3>1, <3>2
  <2> QED
    BY <2>2, <2>3
<1>9. ASSUME NEW z \in Entries, \A i \in 1 .. Len(v) : v[i] # z
      PROVE  d.next[z] = c.next[z]
  <2>1. z \in Indices /\ z # end
    BY MaxEntriesAssumption DEF Indices, Entries, end
  <2>2. z # before
    BY <1>9, <2>1 DEF before, Nth
  <2> QED
    BY <2>1, <2>2, <1>5 DEF next
<1> QED
  BY <1>3, <1>5, <1>7, <1>8, <1>9 DEF x

\* swap() exchanges the m-th and the n-th, which may be neighbours.
LEMMA SwapIs ==
  ASSUME NEW b, NEW u, NEW f, Is(b, u, f), NEW m \in 1 .. Len(u), NEW n \in 1 .. Len(u), m # n
  PROVE  Is(swap(b, u[m], u[n]), [u EXCEPT ![m] = u[n], ![n] = u[m]], f)
<1> DEFINE x == u[m]
           y == u[n]
           v == [u EXCEPT ![m] = u[n], ![n] = u[m]]
           to(z) == CASE z = x -> y [] z = y -> x [] OTHER -> z
           e == [b EXCEPT !.next = [@ EXCEPT ![x] = to(b.next[y]), ![y] = to(b.next[x])],
                          !.prev = [@ EXCEPT ![x] = to(b.prev[y]), ![y] = to(b.prev[x])]]
           tell(c, z) == SetPrev(SetNext(c, c.prev[z], z), c.next[z], z)
           d == tell(e, x)
           c == tell(d, y)
<1>0. /\ u \in Seq(Entries) /\ f \in Seq(Entries) /\ Distinct(u) /\ Distinct(f) /\ b \in Buffers
      /\ Len(u) \in Nat /\ Len(f) \in Nat
      /\ x \in Entries /\ y \in Entries /\ x # end /\ y # end /\ x # y
      /\ x \in Indices /\ y \in Indices /\ Nth(u, m) = x /\ Nth(u, n) = y
  <2>1. /\ u \in Seq(Entries) /\ f \in Seq(Entries) /\ Distinct(u) /\ Distinct(f) /\ b \in Buffers
        /\ Len(u) \in Nat /\ Len(f) \in Nat
    BY EndsAre
  <2>2. x \in Entries /\ y \in Entries /\ x # end /\ y # end /\ Nth(u, m) = x /\ Nth(u, n) = y
    BY <2>1, NthIs
  <2>3. x # y
    BY <2>1 DEF Distinct
  <2> QED
    BY <2>1, <2>2, <2>3 DEF Indices
<1>1. /\ v \in Seq(Entries) /\ Len(v) = Len(u)
      /\ v[m] = y /\ v[n] = x /\ \A i \in 1 .. Len(u) : i # m /\ i # n => v[i] = u[i]
  <2>1. u \in [1 .. Len(u) -> Entries]
    BY <1>0, LenProperties, ElementOfSeq
  <2>2. v \in [1 .. Len(u) -> Entries]
    BY <2>1, <1>0
  <2>3. v \in Seq(Entries) /\ Len(v) = Len(u)
    BY <2>2, <1>0
  <2> QED
    BY <2>1, <2>3, <1>0
<1>2. swap(b, x, y) = c
  BY <1>0 DEF swap, to, tell, c, d, e
<1> HIDE DEF v
<1>3. \A i \in 1 .. Len(u) : v[i] = to(u[i]) /\ u[i] = to(v[i])
  <2> TAKE i \in 1 .. Len(u)
  <2>1. CASE i = m
    BY <2>1, <1>0, <1>1
  <2>2. CASE i = n
    BY <2>2, <1>0, <1>1
  <2>3. CASE i # m /\ i # n
    BY <2>3, <1>0, <1>1 DEF Distinct
  <2> QED
    BY <2>1, <2>2, <2>3
<1>4. \A i \in Int : Nth(v, i) = to(Nth(u, i))
  BY <1>0, <1>1, <1>3 DEF Nth
<1>5. \A z \in Indices : to(z) \in Indices
  BY <1>0
<1>6. Distinct(v)
  BY <1>0, <1>1, <1>3 DEF Distinct
<1>7. \A i \in 0 .. Len(u) :
        next(b, Nth(u, i)) = Nth(u, i + 1) /\ prev(b, Nth(u, i + 1)) = Nth(u, i)
  BY DEF Is, Linked
<1> HIDE DEF to
<1>8. /\ e \in Buffers /\ SameFree(b, e)
      /\ \A z \in Indices :
           /\ next(e, z) = IF z = x THEN to(next(b, y)) ELSE IF z = y THEN to(next(b, x)) ELSE next(b, z)
           /\ prev(e, z) = IF z = x THEN to(prev(b, y)) ELSE IF z = y THEN to(prev(b, x)) ELSE prev(b, z)
  <2>0. /\ next(b, x) = b.next[x] /\ next(b, y) = b.next[y] /\ prev(b, x) = b.prev[x] /\ prev(b, y) = b.prev[y]
        /\ b.next \in [Entries -> Indices] /\ b.prev \in [Entries -> Indices]
    BY <1>0 DEF Buffers, next, prev
  <2> DEFINE nx == [b.next EXCEPT ![x] = to(b.next[y]), ![y] = to(b.next[x])]
             pv == [b.prev EXCEPT ![x] = to(b.prev[y]), ![y] = to(b.prev[x])]
  <2>1. nx \in [Entries -> Indices] /\ pv \in [Entries -> Indices]
    BY <2>0, <1>0, <1>5
  <2>2. \A z \in Entries :
          /\ nx[z] = IF z = x THEN to(b.next[y]) ELSE IF z = y THEN to(b.next[x]) ELSE b.next[z]
          /\ pv[z] = IF z = x THEN to(b.prev[y]) ELSE IF z = y THEN to(b.prev[x]) ELSE b.prev[z]
    BY <2>0, <1>0
  <2>3. e = [b EXCEPT !.next = nx, !.prev = pv]
    BY <1>0
  <2> HIDE DEF nx, pv, e
  <2>4. e \in Buffers /\ SameFree(b, e)
    BY <2>1, <2>3, <1>0 DEF Buffers, SameFree
  <2>5. e.next = nx /\ e.prev = pv /\ e.activeBegin = b.activeBegin /\ e.activeBack = b.activeBack
    BY <2>3, <1>0 DEF Buffers
  <2>6. \A z \in Indices : z # end => z \in Entries
    BY DEF Indices
  <2> QED
    BY <2>0, <2>2, <2>4, <2>5, <2>6, <1>0 DEF next, prev
<1> HIDE DEF e
<1>9. /\ \A i, j \in 0 .. Len(u) : Nth(u, i) = Nth(u, j) => i = j
      /\ \A i, j \in 1 .. Len(u) + 1 : Nth(u, i) = Nth(u, j) => i = j
      /\ \A i \in Int : Nth(u, i) \in Indices
  BY <1>0, NthDistinct, NthIs
<1>10. Nth(v, m) = y /\ Nth(v, n) = x /\ \A i \in Int : i # m /\ i # n => Nth(v, i) = Nth(u, i)
  BY <1>0, <1>1 DEF Nth
<1>11. \A i \in 0 .. Len(u) :
         /\ (i = m \/ i = n \/ (i + 1 # m /\ i + 1 # n)) => NextOk(e, v, i)
         /\ (i + 1 = m \/ i + 1 = n \/ (i # m /\ i # n)) => PrevOk(e, v, i)
  <2> TAKE i \in 0 .. Len(u)
  <2>0. /\ i \in Int /\ i + 1 \in Int /\ i + 1 \in 1 .. Len(u) + 1
        /\ m \in 0 .. Len(u) /\ n \in 0 .. Len(u) /\ m \in 1 .. Len(u) + 1 /\ n \in 1 .. Len(u) + 1
    BY <1>0
  <2>1. (i = m \/ i = n \/ (i + 1 # m /\ i + 1 # n)) => NextOk(e, v, i)
    <3>1. CASE i = m
      <4>1. next(e, y) = to(next(b, x)) /\ next(b, x) = Nth(u, i + 1)
        BY <3>1, <1>0, <1>7, <1>8
      <4>2. Nth(v, i) = y /\ Nth(v, i + 1) = to(Nth(u, i + 1))
        BY <3>1, <2>0, <1>4, <1>10
      <4> QED
        BY <4>1, <4>2 DEF NextOk
    <3>2. CASE i = n
      <4>1. next(e, x) = to(next(b, y)) /\ next(b, y) = Nth(u, i + 1)
        BY <3>2, <1>0, <1>7, <1>8
      <4>2. Nth(v, i) = x /\ Nth(v, i + 1) = to(Nth(u, i + 1))
        BY <3>2, <2>0, <1>4, <1>10
      <4> QED
        BY <4>1, <4>2 DEF NextOk
    <3>3. CASE i # m /\ i # n /\ i + 1 # m /\ i + 1 # n
      <4>1. Nth(v, i) = Nth(u, i) /\ Nth(v, i + 1) = Nth(u, i + 1)
        BY <2>0, <3>3, <1>10
      <4>2. Nth(u, i) # x /\ Nth(u, i) # y /\ Nth(u, i) \in Indices
        BY <2>0, <3>3, <1>0, <1>9
      <4>3. next(e, Nth(u, i)) = next(b, Nth(u, i))
        BY <4>2, <1>8
      <4> QED
        BY <4>1, <4>3, <1>7 DEF NextOk
    <3> QED
      BY <3>1, <3>2, <3>3
  <2>2. (i + 1 = m \/ i + 1 = n \/ (i # m /\ i # n)) => PrevOk(e, v, i)
    <3>1. CASE i + 1 = m
      <4>1. prev(e, y) = to(prev(b, x)) /\ prev(b, x) = Nth(u, i)
        BY <3>1, <1>0, <1>7, <1>8
      <4>2. Nth(v, i + 1) = y /\ Nth(v, i) = to(Nth(u, i))
        BY <3>1, <2>0, <1>4, <1>10
      <4> QED
        BY <4>1, <4>2 DEF PrevOk
    <3>2. CASE i + 1 = n
      <4>1. prev(e, x) = to(prev(b, y)) /\ prev(b, y) = Nth(u, i)
        BY <3>2, <1>0, <1>7, <1>8
      <4>2. Nth(v, i + 1) = x /\ Nth(v, i) = to(Nth(u, i))
        BY <3>2, <2>0, <1>4, <1>10
      <4> QED
        BY <4>1, <4>2 DEF PrevOk
    <3>3. CASE i # m /\ i # n /\ i + 1 # m /\ i + 1 # n
      <4>1. Nth(v, i) = Nth(u, i) /\ Nth(v, i + 1) = Nth(u, i + 1)
        BY <2>0, <3>3, <1>10
      <4>2. Nth(u, i + 1) # x /\ Nth(u, i + 1) # y /\ Nth(u, i + 1) \in Indices
        BY <2>0, <3>3, <1>0, <1>9
      <4>3. prev(e, Nth(u, i + 1)) = prev(b, Nth(u, i + 1))
        BY <4>2, <1>8
      <4> QED
        BY <4>1, <4>3, <1>7 DEF PrevOk
    <3> QED
      BY <3>1, <3>2, <3>3
  <2> QED
    BY <2>1, <2>2
<1>12. /\ m \in 0 .. Len(u) /\ n \in 0 .. Len(u) /\ m - 1 \in 0 .. Len(u) /\ n - 1 \in 0 .. Len(u)
       /\ (m - 1) + 1 = m /\ (n - 1) + 1 = n
  BY <1>0
<1>13. /\ d \in Buffers /\ SameFree(e, d)
       /\ NextOk(d, v, n - 1) /\ PrevOk(d, v, n)
       /\ \A i \in 0 .. Len(u) : /\ NextOk(e, v, i) => NextOk(d, v, i)
                                 /\ PrevOk(e, v, i) => PrevOk(d, v, i)
       /\ \A z \in Entries : (\A i \in 1 .. Len(u) : v[i] # z) => d.next[z] = e.next[z]
  <2>1. NextOk(e, v, n) /\ PrevOk(e, v, n - 1)
    BY <1>11, <1>12
  <2>2. n \in 1 .. Len(v) /\ d = SetPrev(SetNext(e, e.prev[v[n]], v[n]), e.next[v[n]], v[n])
    BY <1>1
  <2>3. e \in Buffers /\ SameFree(b, e) /\ v \in Seq(Entries) /\ Len(v) = Len(u) /\ Distinct(v)
    BY <1>1, <1>6, <1>8, Zenon
  <2> HIDE DEF d
  <2>4. /\ d \in Buffers /\ SameFree(e, d)
        /\ NextOk(d, v, n - 1) /\ PrevOk(d, v, n)
        /\ \A i \in 0 .. Len(v) : /\ NextOk(e, v, i) => NextOk(d, v, i)
                                  /\ PrevOk(e, v, i) => PrevOk(d, v, i)
        /\ \A z \in Entries : (\A i \in 1 .. Len(v) : v[i] # z) => d.next[z] = e.next[z]
    BY <2>1, <2>2, <2>3, TellIs
  <2> QED
    BY <2>3, <2>4
<1> HIDE DEF d
<1>14. /\ c \in Buffers /\ SameFree(d, c)
       /\ NextOk(c, v, m - 1) /\ PrevOk(c, v, m)
       /\ \A i \in 0 .. Len(u) : /\ NextOk(d, v, i) => NextOk(c, v, i)
                                 /\ PrevOk(d, v, i) => PrevOk(c, v, i)
       /\ \A z \in Entries : (\A i \in 1 .. Len(u) : v[i] # z) => c.next[z] = d.next[z]
  <2>1. NextOk(d, v, m) /\ PrevOk(d, v, m - 1)
    BY <1>11, <1>12, <1>13
  <2>2. m \in 1 .. Len(v) /\ c = SetPrev(SetNext(d, d.prev[v[m]], v[m]), d.next[v[m]], v[m])
    BY <1>1
  <2>3. d \in Buffers /\ v \in Seq(Entries) /\ Len(v) = Len(u) /\ Distinct(v)
    BY <1>1, <1>6, <1>13, Zenon
  <2> HIDE DEF c
  <2>4. /\ c \in Buffers /\ SameFree(d, c)
        /\ NextOk(c, v, m - 1) /\ PrevOk(c, v, m)
        /\ \A i \in 0 .. Len(v) : /\ NextOk(d, v, i) => NextOk(c, v, i)
                                  /\ PrevOk(d, v, i) => PrevOk(c, v, i)
        /\ \A z \in Entries : (\A i \in 1 .. Len(v) : v[i] # z) => c.next[z] = d.next[z]
    BY <2>1, <2>2, <2>3, TellIs
  <2> QED
    BY <2>3, <2>4
<1> HIDE DEF c
<1>15. Linked(c, v)
  <2>1. ASSUME NEW i \in 0 .. Len(u) PROVE NextOk(c, v, i) /\ PrevOk(c, v, i)
    <3>1. i + 1 = m => i = m - 1
      BY <1>0
    <3>2. i + 1 = n => i = n - 1
      BY <1>0
    <3>3. NextOk(c, v, i)
      BY <3>1, <3>2, <1>11, <1>12, <1>13, <1>14
    <3>4. PrevOk(c, v, i)
      BY <1>11, <1>12, <1>13, <1>14
    <3> QED
      BY <3>3, <3>4
  <2> QED
    BY <2>1, <1>1 DEF Linked, NextOk, PrevOk
<1>16. \A i \in 1 .. Len(u) : \E k \in 1 .. Len(u) : v[i] = u[k] /\ v[k] = u[i]
  <2> TAKE i \in 1 .. Len(u)
  <2>1. CASE i = m
    BY <2>1, <1>1
  <2>2. CASE i = n
    BY <2>2, <1>1
  <2>3. CASE i # m /\ i # n
    BY <2>3, <1>1
  <2> QED
    BY <2>1, <2>2, <2>3
<1>17. \A i \in 1 .. Len(u), j \in 1 .. Len(f) : v[i] # f[j]
  <2>1. \A i \in 1 .. Len(u), j \in 1 .. Len(f) : u[i] # f[j]
    BY DEF Is, Apart
  <2> TAKE i \in 1 .. Len(u), j \in 1 .. Len(f)
  <2>2. PICK k \in 1 .. Len(u) : v[i] = u[k]
    BY <1>16
  <2> QED
    BY <2>1, <2>2
<1>18. Apart(v, f, {})
  BY <1>0, <1>1, <1>6, <1>17 DEF Apart
<1>19. Covers(v, f, {})
  <2> SUFFICES ASSUME NEW z \in Entries, ~(\E j \in 1 .. Len(f) : f[j] = z)
               PROVE  \E i \in 1 .. Len(v) : v[i] = z
    BY DEF Covers
  <2>1. PICK i \in 1 .. Len(u) : u[i] = z
    BY DEF Is, Covers
  <2> QED
    BY <2>1, <1>1, <1>16
<1>20. Queued(c, f)
  <2>1. ASSUME NEW j \in 1 .. Len(f) PROVE next(c, f[j]) = next(b, f[j])
    <3>1. f[j] \in Entries /\ f[j] # end /\ f[j] \in Indices
      BY <1>0, NthIs DEF Indices
    <3>2. c.next[f[j]] = e.next[f[j]]
      BY <3>1, <1>13, <1>14, <1>17
    <3>3. f[j] # x /\ f[j] # y
      BY <1>1, <1>17
    <3>4. next(e, f[j]) = next(b, f[j])
      BY <3>1, <3>3, <1>8
    <3> QED
      BY <3>1, <3>2, <3>4 DEF next
  <2>2. Queued(b, f) /\ SameFree(b, c)
    BY <1>8, <1>13, <1>14 DEF Is, SameFree
  <2> QED
    BY <2>1, <2>2, <1>0, QueueKept
<1>21. c.cursize = Len(v) /\ Len(v) + Len(f) = MAX_ENTRIES
  BY <1>1, <1>8, <1>13, <1>14 DEF Is, SameFree
<1>22. Is(c, v, f)
  BY <1>14, <1>15, <1>18, <1>19, <1>20, <1>21, Zenon DEF Is
<1> QED
  BY <1>2, <1>22 DEF v

-----------------------------------------------------------------------------
(* The new buffer *)

\* The constructor: no entry is in use, and all are free in order.
LEMMA NewBufferIs == Is(NewBuffer, <<>>, [n \in 1 .. MAX_ENTRIES |-> n - 1])
<1> DEFINE f == [n \in 1 .. MAX_ENTRIES |-> n - 1]
           none == <<>>
           b == NewBuffer
<1>0. MAX_ENTRIES \in Nat /\ MAX_ENTRIES > 0
  BY MaxEntriesAssumption
<1>1. none \in Seq(Entries) /\ Len(none) = 0
  OBVIOUS
<1>2. f \in Seq(Entries) /\ Len(f) = MAX_ENTRIES /\ \A i \in 1 .. MAX_ENTRIES : f[i] = i - 1
  <2>1. f \in [1 .. MAX_ENTRIES -> Entries]
    BY <1>0 DEF Entries
  <2> QED
    BY <2>1, <1>0
<1> HIDE DEF f, none
<1>3. b \in Buffers
  BY <1>0 DEF NewBuffer, Buffers, Indices, Entries, end
<1>4. Apart(none, f, {}) /\ Distinct(f)
  <2>1. Distinct(f)
    BY <1>0, <1>2 DEF Distinct
  <2>2. Distinct(none) /\ \A i \in 1 .. Len(none) : FALSE
    BY <1>1 DEF Distinct
  <2> QED
    BY <2>1, <2>2, <1>1, <1>2 DEF Apart
<1>5. Covers(none, f, {})
  <2> SUFFICES ASSUME NEW x \in Entries PROVE \E j \in 1 .. Len(f) : f[j] = x
    BY DEF Covers
  <2>1. x + 1 \in 1 .. Len(f) /\ (x + 1) - 1 = x
    BY <1>0, <1>2 DEF Entries
  <2> QED
    BY <2>1, <1>2
<1>6. Linked(b, none)
  <2>1. Nth(none, 0) = end /\ Nth(none, 0 + 1) = end /\ \A i \in 0 .. Len(none) : i = 0
    BY <1>1 DEF Nth
  <2>2. next(b, end) = end /\ prev(b, end) = end
    BY DEF NewBuffer, next, prev
  <2> QED
    BY <2>1, <2>2 DEF Linked
<1>7. Queued(b, f)
  <2>1. b.freeBegin = Nth(f, 1) /\ b.freeBack = Nth(f, Len(f))
    BY <1>0, <1>2 DEF NewBuffer, Nth
  <2>2. ASSUME NEW i \in 1 .. Len(f) - 1 PROVE b.next[f[i]] = f[i + 1]
    <3>1. f[i] = i - 1 /\ f[i + 1] = i /\ i - 1 \in Entries /\ (i - 1) + 1 < MAX_ENTRIES /\ (i - 1) + 1 = i
      BY <1>0, <1>2 DEF Entries
    <3> QED
      BY <3>1 DEF NewBuffer
  <2> QED
    BY <2>1, <2>2 DEF Queued
<1>8. b.cursize = Len(none) /\ Len(none) + Len(f) = MAX_ENTRIES
  BY <1>0, <1>1, <1>2 DEF NewBuffer
<1>9. Is(b, none, f)
  BY <1>3, <1>4, <1>5, <1>6, <1>7, <1>8, Zenon DEF Is
<1> QED
  BY <1>9 DEF f, none

-----------------------------------------------------------------------------
(* Any sequence of calls *)

\* The chains that are met are chains of a buffer in order.
ChainsInv == Is(buf, InUse(buf), Free(buf))

\* The calls of EntryList, from the list u and the queue f to u2 and f2: c is what is
\* asked and r what is returned.
NewStep(u, f, u2, f2, r, n) ==
  \/ f # <<>> /\ r = Head(f) /\ u2 = InsertAt(u, n, Head(f)) /\ f2 = Tail(f)
  \/ f = <<>> /\ r = end /\ u2 = u /\ f2 = f

GoneStep(u, f, u2, f2, r, n) ==
  u2 = RemoveAt(u, n) /\ f2 = Append(f, u[n]) /\ r = end

SwapStep(u, f, u2, f2, r, m, n) ==
  /\ u2 = IF 0 \in {m, n} THEN u ELSE [u EXCEPT ![m] = u[n], ![n] = u[m]]
  /\ f2 = f /\ r = end

ListStep(u, f, u2, f2, c, r) ==
  \/ c = <<"new_front">> /\ NewStep(u, f, u2, f2, r, 1)
  \/ c = <<"new_back">> /\ NewStep(u, f, u2, f2, r, Len(u) + 1)
  \/ \E n \in 1 .. Len(u) + 1 : c = <<"new_before", Nth(u, n)>> /\ NewStep(u, f, u2, f2, r, n)
  \/ \E n \in 0 .. Len(u) : c = <<"new_after", Nth(u, n)>> /\ NewStep(u, f, u2, f2, r, n + 1)
  \/ c = <<"pop_front">> /\ u # <<>> /\ GoneStep(u, f, u2, f2, r, 1)
  \/ c = <<"pop_back">> /\ u # <<>> /\ GoneStep(u, f, u2, f2, r, Len(u))
  \/ \E n \in 1 .. Len(u) : c = <<"erase", Nth(u, n)>> /\ GoneStep(u, f, u2, f2, r, n)
  \/ c = <<"clear">> /\ u2 = <<>> /\ f2 = f \o u /\ r = end
  \/ \E m, n \in 0 .. Len(u) :
       c = <<"swap", Nth(u, m), Nth(u, n)>> /\ SwapStep(u, f, u2, f2, r, m, n)

-----------------------------------------------------------------------------

\* The buffer is empty at first.
LEMMA InitIs == BufInit => Is(buf, <<>>, [n \in 1 .. MAX_ENTRIES |-> n - 1])
BY NewBufferIs DEF BufInit

\* Whatever is called with an entry in use, or with end where that is allowed, the
\* links stand for a list and a queue again, and these are what EntryList says of the
\* call of that name with those arguments; so is what is returned.
LEMMA CallIs ==
  ASSUME NEW u, NEW f, Is(buf, u, f), u = InUse(buf), BufNext
  PROVE  \E u2, f2 : Is(buf', u2, f2) /\ ListStep(u, f, u2, f2, call', result') /\ odd' = 1 - odd
<1>0. /\ u \in Seq(Entries) /\ f \in Seq(Entries) /\ Len(u) \in Nat /\ DOMAIN u = 1 .. Len(u)
      /\ Nth(u, 0) = end /\ Nth(u, Len(u) + 1) = end
  BY EndsAre, LenProperties
<1>1. \A i \in 1 .. Len(u) : Nth(u, i) = u[i] /\ u[i] # end
  BY <1>0, NthIs
<1>2. \A x \in Used : \E i \in 1 .. Len(u) : x = u[i]
  BY <1>0 DEF Used
<1>3. \A x \in Used \cup {end} : \E i \in 0 .. Len(u) : x = Nth(u, i) /\ (i = 0 <=> x = end)
  <2>1. 0 \in 0 .. Len(u) /\ \A i \in 1 .. Len(u) : i \in 0 .. Len(u) /\ i # 0
    BY <1>0
  <2> QED
    BY <2>1, <1>0, <1>1, <1>2
<1>4. (f = <<>> => NewIndex(buf) = end) /\ (f # <<>> => NewIndex(buf) = Head(f))
  <2>1. NewIndex(buf) = end <=> f = <<>>
    BY EndsAre
  <2>2. CASE f # <<>>
    <3>1. Len(f) # 0 /\ Len(f) \in Nat /\ Head(f) = f[1]
      BY <2>2, <1>0, EmptySeq, HeadTailProperties, LenProperties
    <3>2. 1 \in 1 .. Len(f)
      BY <3>1
    <3>3. Nth(f, 1) = f[1]
      BY <3>2 DEF Nth
    <3>4. buf.freeBegin = Nth(f, 1)
      BY <2>2 DEF Is, Queued
    <3> QED
      BY <3>1, <3>3, <3>4, <2>2 DEF NewIndex
  <2> QED
    BY <2>1, <2>2
<1>5. ASSUME NEW n \in 1 .. Len(u) + 1, result' = NewIndex(buf),
             f = <<>> => buf' = buf,
             f # <<>> => Is(buf', InsertAt(u, n, Head(f)), Tail(f))
      PROVE  \E u2, f2 : Is(buf', u2, f2) /\ NewStep(u, f, u2, f2, result', n)
  <2>1. CASE f = <<>>
    <3>1. Is(buf', u, f) /\ NewStep(u, f, u, f, result', n)
      BY <2>1, <1>5, <1>4 DEF NewStep
    <3> QED
      BY <3>1
  <2>2. CASE f # <<>>
    <3>1. /\ Is(buf', InsertAt(u, n, Head(f)), Tail(f))
          /\ NewStep(u, f, InsertAt(u, n, Head(f)), Tail(f), result', n)
      BY <2>2, <1>5, <1>4 DEF NewStep
    <3> QED
      BY <3>1
  <2> QED
    BY <2>1, <2>2
<1>6. 1 \in 1 .. Len(u) + 1 /\ Len(u) + 1 \in 1 .. Len(u) + 1
  BY <1>0
<1>7. CASE NewFront
  <2>1. PICK u2, f2 : Is(buf', u2, f2) /\ NewStep(u, f, u2, f2, result', 1)
    <3>1. /\ result' = NewIndex(buf)
          /\ f = <<>> => buf' = buf
          /\ f # <<>> => Is(buf', InsertAt(u, 1, Head(f)), Tail(f))
      BY <1>7, NewIs DEF NewFront, Asked
    <3> QED
      BY <3>1, <1>5, <1>6
  <2>2. ListStep(u, f, u2, f2, call', result')
    BY <2>1, <1>7 DEF ListStep, NewFront, Asked
  <2> QED
    BY <2>1, <2>2, <1>7 DEF NewFront, Asked
<1>8. CASE NewBack
  <2>1. PICK u2, f2 : Is(buf', u2, f2) /\ NewStep(u, f, u2, f2, result', Len(u) + 1)
    <3>1. /\ result' = NewIndex(buf)
          /\ f = <<>> => buf' = buf
          /\ f # <<>> => Is(buf', InsertAt(u, Len(u) + 1, Head(f)), Tail(f))
      BY <1>8, NewIs DEF NewBack, Asked
    <3> QED
      BY <3>1, <1>5, <1>6
  <2>2. ListStep(u, f, u2, f2, call', result')
    BY <2>1, <1>8 DEF ListStep, NewBack, Asked
  <2> QED
    BY <2>1, <2>2, <1>8 DEF NewBack, Asked
<1>9. ASSUME NEW x \in Used \cup {end}, NewBefore(x)
      PROVE  \E u2, f2 : Is(buf', u2, f2) /\ ListStep(u, f, u2, f2, call', result') /\ odd' = 1 - odd
  <2>1. PICK n \in 1 .. Len(u) + 1 : x = Nth(u, n)
    <3>1. \A i \in 1 .. Len(u) : i \in 1 .. Len(u) + 1
      BY <1>0
    <3> QED
      BY <3>1, <1>0, <1>1, <1>2, <1>6
  <2>2. /\ buf' = new_before(buf, Nth(u, n)) /\ result' = NewIndex(buf)
        /\ call' = <<"new_before", Nth(u, n)>> /\ odd' = 1 - odd
    BY <2>1, <1>9 DEF NewBefore, Asked
  <2>3. PICK u2, f2 : Is(buf', u2, f2) /\ NewStep(u, f, u2, f2, result', n)
    BY <2>2, <1>5, NewIs
  <2>4. ListStep(u, f, u2, f2, call', result')
    BY <2>2, <2>3 DEF ListStep
  <2> QED
    BY <2>2, <2>3, <2>4
<1>10. ASSUME NEW x \in Used \cup {end}, NewAfter(x)
       PROVE  \E u2, f2 : Is(buf', u2, f2) /\ ListStep(u, f, u2, f2, call', result') /\ odd' = 1 - odd
  <2>1. PICK i \in 0 .. Len(u) : x = Nth(u, i)
    BY <1>3
  <2>2. next(buf, x) = Nth(u, i + 1) /\ i + 1 \in 1 .. Len(u) + 1
    BY <2>1, <1>0 DEF Is, Linked
  <2>3. /\ buf' = new_before(buf, Nth(u, i + 1)) /\ result' = NewIndex(buf)
        /\ call' = <<"new_after", Nth(u, i)>> /\ odd' = 1 - odd
    BY <2>1, <2>2, <1>10 DEF NewAfter, Asked
  <2>4. PICK u2, f2 : Is(buf', u2, f2) /\ NewStep(u, f, u2, f2, result', i + 1)
    BY <2>2, <2>3, <1>5, NewIs
  <2>5. ListStep(u, f, u2, f2, call', result')
    BY <2>3, <2>4 DEF ListStep
  <2> QED
    BY <2>3, <2>4, <2>5
<1>11. CASE PopFront
  <2>1. 1 \in 1 .. Len(u) /\ u # <<>>
    BY <1>11, <1>0 DEF PopFront, Is
  <2> DEFINE u2 == RemoveAt(u, 1)
             f2 == Append(f, u[1])
  <2>2. Is(buf', u2, f2)
    BY <2>1, <1>11, EraseIs DEF PopFront
  <2>3. ListStep(u, f, u2, f2, call', result')
    BY <2>1, <1>11 DEF ListStep, GoneStep, PopFront, Asked
  <2> QED
    BY <2>2, <2>3, <1>11 DEF PopFront, Asked
<1>12. CASE PopBack
  <2>1. Len(u) \in 1 .. Len(u) /\ u # <<>>
    BY <1>12, <1>0 DEF PopBack, Is
  <2> DEFINE u2 == RemoveAt(u, Len(u))
             f2 == Append(f, u[Len(u)])
  <2>2. Is(buf', u2, f2)
    BY <2>1, <1>12, EraseIs DEF PopBack
  <2>3. ListStep(u, f, u2, f2, call', result')
    BY <2>1, <1>12 DEF ListStep, GoneStep, PopBack, Asked
  <2> QED
    BY <2>2, <2>3, <1>12 DEF PopBack, Asked
<1>13. ASSUME NEW x \in Used, Erase(x)
       PROVE  \E u2, f2 : Is(buf', u2, f2) /\ ListStep(u, f, u2, f2, call', result') /\ odd' = 1 - odd
  <2>1. PICK n \in 1 .. Len(u) : x = u[n]
    BY <1>2
  <2> DEFINE u2 == RemoveAt(u, n)
             f2 == Append(f, u[n])
  <2>2. Is(buf', u2, f2)
    BY <2>1, <1>13, EraseIs DEF Erase
  <2>3. call' = <<"erase", Nth(u, n)>> /\ result' = end /\ odd' = 1 - odd
    BY <2>1, <1>1, <1>13 DEF Erase, Asked
  <2>4. ListStep(u, f, u2, f2, call', result')
    BY <2>3 DEF ListStep, GoneStep
  <2> QED
    BY <2>2, <2>3, <2>4
<1>14. CASE Clear
  <2>1. Is(buf', <<>>, f \o u)
    BY <1>14, ClearIs DEF Clear
  <2>2. ListStep(u, f, <<>>, f \o u, call', result')
    BY <1>14 DEF ListStep, Clear, Asked
  <2> QED
    BY <2>1, <2>2, <1>14 DEF Clear, Asked
<1>15. ASSUME NEW x \in Used \cup {end}, NEW y \in Used \cup {end}, Swap(x, y)
       PROVE  \E u2, f2 : Is(buf', u2, f2) /\ ListStep(u, f, u2, f2, call', result') /\ odd' = 1 - odd
  <2>1. PICK m \in 0 .. Len(u) : x = Nth(u, m) /\ (m = 0 <=> x = end)
    BY <1>3
  <2>2. PICK n \in 0 .. Len(u) : y = Nth(u, n) /\ (n = 0 <=> y = end)
    BY <1>3
  <2> DEFINE v == IF 0 \in {m, n} THEN u ELSE [u EXCEPT ![m] = u[n], ![n] = u[m]]
  <2>3. Is(buf', v, f)
    <3>1. CASE x = end \/ y = end
      <4>1. buf' = buf /\ v = u
        BY <3>1, <2>1, <2>2, <1>15 DEF Swap, swap
      <4> QED
        BY <4>1
    <3>2. CASE x # end /\ y # end
      <4>1. m \in 1 .. Len(u) /\ n \in 1 .. Len(u) /\ m # 0 /\ n # 0
        BY <3>2, <2>1, <2>2, <1>0
      <4>2. x = u[m] /\ y = u[n]
        BY <4>1, <2>1, <2>2, <1>1
      <4>3. v = [u EXCEPT ![m] = u[n], ![n] = u[m]]
        BY <4>1
      <4>4. CASE m = n
        <5>1. buf' = buf
          BY <4>4, <4>2, <1>15 DEF Swap, swap
        <5>2. v = u
          <6>1. u = [i \in 1 .. Len(u) |-> u[i]]
            BY <1>0
          <6> QED
            BY <6>1, <4>3, <4>4, <4>1, <1>0
        <5> QED
          BY <5>1, <5>2
      <4>5. CASE m # n
        <5>1. buf' = swap(buf, u[m], u[n])
          BY <4>2, <1>15 DEF Swap
        <5> QED
          BY <5>1, <4>1, <4>3, <4>5, SwapIs
      <4> QED
        BY <4>4, <4>5
    <3> QED
      BY <3>1, <3>2
  <2>4. call' = <<"swap", Nth(u, m), Nth(u, n)>> /\ result' = end /\ odd' = 1 - odd
    BY <2>1, <2>2, <1>15 DEF Swap, Asked
  <2>5. SwapStep(u, f, v, f, result', m, n)
    BY <2>4 DEF SwapStep
  <2> HIDE DEF v
  <2>6. ListStep(u, f, v, f, call', result')
    BY <2>4, <2>5 DEF ListStep
  <2> QED
    BY <2>3, <2>4, <2>6
<1> QED
  BY <1>7, <1>8, <1>9, <1>10, <1>11, <1>12, <1>13, <1>14, <1>15 DEF BufNext

\* The invariant holds of the empty buffer,
LEMMA ChainsInvInit == BufInit => ChainsInv
<1> SUFFICES ASSUME BufInit PROVE ChainsInv
  OBVIOUS
<1> DEFINE all == [n \in 1 .. MAX_ENTRIES |-> n - 1]
<1>1. Is(buf, <<>>, all)
  BY InitIs
<1> HIDE DEF all
<1>2. InUse(buf) = <<>> /\ Free(buf) = all
  BY <1>1, ChainsAre
<1> QED
  BY <1>1, <1>2 DEF ChainsInv

\* The chains that are met after a step are those that it leads to.
LEMMA ChainsInvNext ==
  ASSUME ChainsInv, BufNext
  PROVE  /\ ChainsInv'
         /\ ListStep(InUse(buf), Free(buf), InUse(buf'), Free(buf'), call', result')
         /\ odd' = 1 - odd
<1> DEFINE u == InUse(buf)
           f == Free(buf)
<1>1. Is(buf, u, f)
  BY DEF ChainsInv
<1> HIDE DEF f
<1>2. PICK u2, f2 : Is(buf', u2, f2) /\ ListStep(u, f, u2, f2, call', result') /\ odd' = 1 - odd
  BY <1>1, CallIs
<1>3. InUse(buf') = u2 /\ Free(buf') = f2
  BY <1>2, ChainsAre
<1> QED
  BY <1>2, <1>3 DEF ChainsInv, f

\* and so always.
LEMMA ChainsInvAlways == BufSpec => []ChainsInv
<1>1. ChainsInv /\ [BufNext]_bufVars => ChainsInv'
  <2>1. ChainsInv /\ BufNext => ChainsInv'
    BY ChainsInvNext
  <2>2. ChainsInv /\ UNCHANGED bufVars => ChainsInv'
    BY DEF ChainsInv, bufVars
  <2> QED
    BY <2>1, <2>2
<1> QED
  BY <1>1, ChainsInvInit, PTL DEF BufSpec

-----------------------------------------------------------------------------

\* The chains agree, forwards and backwards, with each other and with the count, after
\* any calls of ListMemBuf with any entries.
THEOREM ChainsAlwaysAgree == BufSpec => []ChainsAgree
<1>1. ChainsInv => ChainsAgree
  <2> SUFFICES ASSUME ChainsInv PROVE ChainsAgree
    OBVIOUS
  <2> DEFINE u == InUse(buf)
             f == Free(buf)
  <2>1. Is(buf, u, f)
    BY DEF ChainsInv
  <2>2. InUseBackwards(buf) = [i \in 1 .. Len(u) |-> u[Len(u) + 1 - i]]
    BY <2>1, ChainsAre
  <2> HIDE DEF u, f
  <2>3. /\ u \in Seq(Entries) /\ f \in Seq(Entries) /\ Len(u) \in Nat /\ Len(f) \in Nat
        /\ DOMAIN u = 1 .. Len(u) /\ DOMAIN f = 1 .. Len(f)
    BY <2>1, EndsAre, LenProperties
  <2>4. BufTypeOK /\ buf.cursize = Len(u) /\ Len(u) + Len(f) = MAX_ENTRIES
    BY <2>1 DEF Is, BufTypeOK
  <2>5. Len(f) = MAX_ENTRIES - buf.cursize
    <3>1. Len(u) \in Nat /\ Len(f) \in Nat /\ buf.cursize = Len(u) /\ Len(u) + Len(f) = MAX_ENTRIES
      BY <2>3, <2>4, Zenon
    <3> QED
      BY <3>1
  <2>6. \A n \in DOMAIN u : InUseBackwards(buf)[Len(u) + 1 - n] = u[n]
    <3> TAKE n \in DOMAIN u
    <3>1. Len(u) + 1 - n \in 1 .. Len(u) /\ Len(u) + 1 - (Len(u) + 1 - n) = n
      BY <2>3
    <3> QED
      BY <3>1, <2>2
  <2>7. {u[n] : n \in DOMAIN u} \cup {f[n] : n \in DOMAIN f} = Entries
    <3>1. \A n \in DOMAIN u : u[n] \in Entries
      BY <2>3, ElementOfSeq
    <3>2. \A n \in DOMAIN f : f[n] \in Entries
      BY <2>3, ElementOfSeq
    <3>3. \A x \in Entries : (\E i \in DOMAIN u : u[i] = x) \/ (\E j \in DOMAIN f : f[j] = x)
      BY <2>1, <2>3 DEF Is, Covers
    <3> QED
      BY <3>1, <3>2, <3>3
  <2> QED
    BY <2>4, <2>5, <2>6, <2>7 DEF ChainsAgree, u, f
<1> QED
  BY <1>1, ChainsInvAlways, PTL

\* ListMemBuf is the list that its callers think of: each call takes the list and the
\* queue of the free entries to where the call of EntryList of the same name with the
\* same arguments takes them, and returns the same.
THEOREM IsTheList == BufSpec => ImplementsList
<1>1. BufInit => TheList!Init
  <2> SUFFICES ASSUME BufInit PROVE TheList!Init
    OBVIOUS
  <2> DEFINE all == [n \in 1 .. MAX_ENTRIES |-> n - 1]
  <2>1. Is(buf, <<>>, all)
    BY InitIs
  <2> HIDE DEF all
  <2>2. InUse(buf) = <<>> /\ Free(buf) = all
    BY <2>1, ChainsAre
  <2> QED
    BY <2>2 DEF TheList!Init, TheList!end, end, BufInit, all
<1>2. ChainsInv /\ BufNext => TheList!Next
  <2> SUFFICES ASSUME ChainsInv, BufNext
               PROVE  TheList!Next
    OBVIOUS
  <2> DEFINE u == InUse(buf)
             f == Free(buf)
             u2 == InUse(buf')
             f2 == Free(buf')
             c == call'
             r == result'
  <2>1. u2 = InUse(buf)' /\ f2 = Free(buf)'
    OBVIOUS
  <2>2. ListStep(u, f, u2, f2, c, r) /\ odd' = 1 - odd
    BY ChainsInvNext
  <2>3. u \in Seq(Entries) /\ DOMAIN u = 1 .. Len(u) /\ Len(u) \in Nat
    <3>1. u \in Seq(Entries)
      BY EndsAre DEF ChainsInv
    <3> QED
      BY <3>1, LenProperties
  <2>4. \A n : TheList!At(n) = Nth(u, n)
    BY <2>3 DEF TheList!At, Nth, TheList!end, end
  <2>5. ASSUME NEW n, NEW d, NewStep(u, f, u2, f2, r, n), c = d
        PROVE  TheList!New(n, d)
    BY <2>1, <2>2, <2>5 DEF NewStep, TheList!New, TheList!Asked, TheList!InsertAt, InsertAt,
       TheList!end, end
  <2>6. ASSUME NEW n, NEW d, GoneStep(u, f, u2, f2, r, n), c = d
        PROVE  TheList!TakeOut(n, d)
    BY <2>1, <2>2, <2>6 DEF GoneStep, TheList!TakeOut, TheList!Asked, TheList!RemoveAt, RemoveAt,
       TheList!end, end
  <2>7. CASE c = <<"new_front">> /\ NewStep(u, f, u2, f2, r, 1)
    BY <2>5, <2>7 DEF TheList!Next, TheList!NewFront
  <2>8. CASE c = <<"new_back">> /\ NewStep(u, f, u2, f2, r, Len(u) + 1)
    BY <2>5, <2>8 DEF TheList!Next, TheList!NewBack
  <2>9. ASSUME NEW n \in 1 .. Len(u) + 1,
               c = <<"new_before", Nth(u, n)>>, NewStep(u, f, u2, f2, r, n)
        PROVE  TheList!Next
    <3>1. TheList!NewBefore(n)
      BY <2>4, <2>5, <2>9 DEF TheList!NewBefore
    <3> QED
      BY <3>1 DEF TheList!Next
  <2>10. ASSUME NEW n \in 0 .. Len(u),
                c = <<"new_after", Nth(u, n)>>, NewStep(u, f, u2, f2, r, n + 1)
         PROVE  TheList!Next
    <3>1. TheList!NewAfter(n)
      BY <2>4, <2>5, <2>10 DEF TheList!NewAfter
    <3> QED
      BY <3>1 DEF TheList!Next
  <2>11. CASE c = <<"pop_front">> /\ u # <<>> /\ GoneStep(u, f, u2, f2, r, 1)
    BY <2>6, <2>11 DEF TheList!Next, TheList!PopFront
  <2>12. CASE c = <<"pop_back">> /\ u # <<>> /\ GoneStep(u, f, u2, f2, r, Len(u))
    BY <2>6, <2>12 DEF TheList!Next, TheList!PopBack
  <2>13. ASSUME NEW n \in 1 .. Len(u),
                c = <<"erase", Nth(u, n)>>, GoneStep(u, f, u2, f2, r, n)
         PROVE  TheList!Next
    <3>1. TheList!Erase(n)
      BY <2>4, <2>6, <2>13 DEF TheList!Erase
    <3> QED
      BY <3>1 DEF TheList!Next
  <2>14. CASE c = <<"clear">> /\ u2 = <<>> /\ f2 = f \o u /\ r = end
    <3>1. TheList!Clear
      BY <2>1, <2>2, <2>14 DEF TheList!Clear, TheList!Asked, TheList!end, end
    <3> QED
      BY <3>1 DEF TheList!Next
  <2>15. ASSUME NEW m \in 0 .. Len(u), NEW n \in 0 .. Len(u),
                c = <<"swap", Nth(u, m), Nth(u, n)>>, SwapStep(u, f, u2, f2, r, m, n)
         PROVE  TheList!Next
    <3>1. TheList!Swap(m, n)
      BY <2>1, <2>2, <2>4, <2>15 DEF SwapStep, TheList!Swap, TheList!Asked, TheList!end, end
    <3> QED
      BY <3>1 DEF TheList!Next
  <2> QED
    BY <2>2, <2>7, <2>8, <2>9, <2>10, <2>11, <2>12, <2>13, <2>14, <2>15 DEF ListStep
<1>3. UNCHANGED bufVars => UNCHANGED <<InUse(buf), Free(buf), call, result, odd>>
  BY DEF bufVars
<1> QED
  BY <1>1, <1>2, <1>3, ChainsInvAlways, PTL DEF BufSpec, ImplementsList, TheList!Spec

-----------------------------------------------------------------------------
(* What becomes of the list and the free queue, entry by entry *)

\* The first free entry goes behind the list.
Pushed(u, f, v, g) ==
  /\ v \in Seq(Entries) /\ g \in Seq(Entries)
  /\ Len(f) >= 1 /\ Len(v) = Len(u) + 1 /\ Len(g) = Len(f) - 1
  /\ \A i \in 1 .. Len(u) : v[i] = u[i]
  /\ v[Len(u) + 1] = f[1]
  /\ \A i \in 1 .. Len(f) - 1 : g[i] = f[i + 1]

\* The n-th entry goes behind the free queue.
Removed(u, f, v, g, n) ==
  /\ v \in Seq(Entries) /\ g \in Seq(Entries)
  /\ Len(v) = Len(u) - 1 /\ Len(g) = Len(f) + 1
  /\ \A i \in 1 .. Len(u) - 1 : v[i] = IF i < n THEN u[i] ELSE u[i + 1]
  /\ \A i \in 1 .. Len(f) : g[i] = f[i]
  /\ g[Len(f) + 1] = u[n]

\* push_back(): the first free entry becomes the newest of the list, and the free entries
\* behind it keep their links.
LEMMA Pushing ==
  ASSUME NEW b, NEW u, NEW f, Is(b, u, f), f # <<>>
  PROVE  \E v, g :
           /\ Is(new_back(b), v, g) /\ Pushed(u, f, v, g)
           /\ \A k \in 2 .. Len(f) : new_back(b).next[f[k]] = b.next[f[k]]
           /\ NewIndex(b) = f[1] /\ f[1] \in Entries
<1> DEFINE v == InsertAt(u, Len(u) + 1, Head(f))
           g == Tail(f)
<1>0. /\ u \in Seq(Entries) /\ f \in Seq(Entries) /\ Distinct(f)
      /\ Len(u) \in Nat /\ Len(f) \in Nat /\ b \in Buffers
      /\ b.activeBack = Nth(u, Len(u)) /\ NewIndex(b) = Nth(f, 1) /\ NewIndex(b) # end
  BY EndsAre
<1>1. Len(f) >= 1 /\ Head(f) = f[1] /\ f[1] \in Entries /\ NewIndex(b) = f[1]
  <2>1. Len(f) >= 1
    BY <1>0 DEF Nth
  <2> QED
    BY <2>1, <1>0, NthIs
<1>2. Is(new_back(b), v, g)
  BY NewIs
<1>3. Pushed(u, f, v, g)
  <2>1. Len(u) + 1 \in 1 .. Len(u) + 1
    BY <1>0
  <2>2. /\ v \in Seq(Entries) /\ Len(v) = Len(u) + 1
        /\ \A j \in 1 .. Len(u) + 1 :
             v[j] = IF j < Len(u) + 1 THEN u[j] ELSE IF j = Len(u) + 1 THEN Head(f) ELSE u[j - 1]
    <3> DEFINE m == Len(u) + 1
               x == Head(f)
    <3>1. m \in 1 .. Len(u) + 1 /\ x \in Entries
      BY <2>1, <1>1
    <3> HIDE DEF m, x
    <3>2. LET t == InsertAt(u, m, x)
          IN  /\ t \in Seq(Entries) /\ Len(t) = Len(u) + 1
              /\ \A j \in 1 .. Len(u) + 1 :
                   t[j] = IF j < m THEN u[j] ELSE IF j = m THEN x ELSE u[j - 1]
      BY <3>1, <1>0, InsertAtIs
    <3> QED
      BY <3>2 DEF m, x
  <2>3. g \in Seq(Entries) /\ Len(g) = Len(f) - 1 /\ \A i \in 1 .. Len(f) - 1 : g[i] = f[i + 1]
    BY <1>0, <1>1, HeadTailProperties
  <2> HIDE DEF v, g
  <2>4. \A i \in 1 .. Len(u) : v[i] = u[i]
    BY <2>2, <1>0
  <2>5. v[Len(u) + 1] = f[1]
    BY <2>2, <2>1, <1>1, <1>0
  <2> QED
    BY <2>2, <2>3, <2>4, <2>5, <1>1 DEF Pushed
<1>4. ASSUME NEW k \in 2 .. Len(f) PROVE new_back(b).next[f[k]] = b.next[f[k]]
  <2>1. k \in 1 .. Len(f) /\ 1 \in 1 .. Len(f) /\ k # 1
    BY <1>0
  <2>2. f[k] \in Entries /\ f[k] # end /\ f[k] # f[1]
    BY <2>1, <1>0, NthIs DEF Distinct
  <2>3. f[k] # b.activeBack /\ b.activeBack # f[1]
    <3>1. CASE Len(u) = 0
      BY <3>1, <1>0, <2>2, <1>1, <2>1, NthIs DEF Nth
    <3>2. CASE Len(u) # 0
      <4>1. Len(u) \in 1 .. Len(u) /\ b.activeBack = u[Len(u)]
        BY <3>2, <1>0 DEF Nth
      <4> QED
        BY <4>1, <2>1 DEF Is, Apart
    <3> QED
      BY <3>1, <3>2
  <2>4. pop_free(b) \in Buffers /\ pop_free(b).next = b.next
    BY PopFreeIs DEF IsBut
  <2>5. b.activeBack \in Indices /\ end \in Indices /\ end # f[1] /\ f[k] \in Indices
    BY <1>0, <1>1, <2>2 DEF Buffers, Indices
  <2>6. new_back(b) = Link(pop_free(b), b.activeBack, f[1], end)
    BY <1>0, <1>1 DEF new_back
  <2>7. next(new_back(b), f[k]) = next(pop_free(b), f[k])
    BY <2>2, <2>3, <2>4, <2>5, <2>6, <1>1, LinkIs
  <2> QED
    BY <2>7, <2>4, <2>2 DEF next
<1> QED
  BY <1>1, <1>2, <1>3, <1>4

\* push_free() leaves the link of the entry that it frees.
LEMMA PushFreeKeeps ==
  ASSUME NEW c \in Buffers, NEW x \in Entries, c.freeBack # x
  PROVE  push_free(c, x).next[x] = c.next[x]
BY DEF push_free, Buffers

\* erase(): the n-th entry becomes the last free one, and keeps its link.  pop_front() is
\* erase() of the first.
LEMMA Erasing ==
  ASSUME NEW b, NEW u, NEW f, Is(b, u, f), NEW n \in 1 .. Len(u)
  PROVE  \E v, g :
           /\ Is(erase(b, u[n]), v, g) /\ Removed(u, f, v, g, n)
           /\ erase(b, u[n]).next[u[n]] = Nth(u, n + 1)
           /\ n = 1 => pop_front(b) = erase(b, u[n])
<1> DEFINE v == RemoveAt(u, n)
           g == Append(f, u[n])
           x == u[n]
<1>0. /\ u \in Seq(Entries) /\ f \in Seq(Entries) /\ Distinct(u)
      /\ Len(u) \in Nat /\ Len(f) \in Nat /\ b \in Buffers
      /\ b.activeBegin = Nth(u, 1) /\ b.activeBack = Nth(u, Len(u))
  BY EndsAre
<1>1. x \in Entries /\ x # end /\ Nth(u, n) = x /\ x \in Indices
  BY <1>0, NthIs DEF Indices
<1>2. Is(erase(b, u[n]), v, g) /\ (n = 1 => pop_front(b) = erase(b, u[n]))
  <2>1. n = 1 => u[n] = b.activeBegin
    BY <1>0, <1>1
  <2> QED
    BY <2>1, EraseIs DEF erase
<1>3. Removed(u, f, v, g, n)
  <2>1. /\ v \in Seq(Entries) /\ Len(v) = Len(u) - 1
        /\ \A j \in 1 .. Len(u) - 1 : v[j] = IF j < n THEN u[j] ELSE u[j + 1]
    BY <1>0, RemoveAtIs
  <2>2. /\ g \in Seq(Entries) /\ Len(g) = Len(f) + 1 /\ g[Len(f) + 1] = u[n]
        /\ \A i \in 1 .. Len(f) : g[i] = f[i]
    BY <1>0, <1>1, AppendProperties
  <2> HIDE DEF v, g
  <2> QED
    BY <2>1, <2>2 DEF Removed
<1>4. b.next[x] = Nth(u, n + 1) /\ b.prev[x] = Nth(u, n - 1)
  <2>1. n \in 0 .. Len(u) /\ n - 1 \in 0 .. Len(u) /\ (n - 1) + 1 = n
    BY <1>0
  <2>2. next(b, Nth(u, n)) = Nth(u, n + 1) /\ prev(b, Nth(u, n)) = Nth(u, n - 1)
    BY <2>1 DEF Is, Linked
  <2> QED
    BY <2>2, <1>1 DEF next, prev
<1>5. b.prev[x] # x /\ b.next[x] \in Indices /\ b.prev[x] \in Indices
  <2>1. Nth(u, n - 1) # Nth(u, n)
    <3>1. n \in 0 .. Len(u) /\ n - 1 \in 0 .. Len(u) /\ n - 1 # n
      BY <1>0
    <3> QED
      BY <3>1, <1>0, NthDistinct
  <2> QED
    BY <2>1, <1>4, <1>1, <1>0 DEF Buffers
<1>6. b.freeBack # x
  <2>1. b.freeBack = Nth(f, Len(f))
    BY DEF Is, Queued
  <2>2. CASE Len(f) = 0
    BY <2>1, <2>2, <1>1 DEF Nth
  <2>3. CASE Len(f) # 0
    <3>1. Len(f) \in 1 .. Len(f) /\ b.freeBack = f[Len(f)]
      BY <2>1, <2>3, <1>0 DEF Nth
    <3> QED
      BY <3>1 DEF Is, Apart
  <2> QED
    BY <2>2, <2>3
<1>9. \A a \in Buffers, z, y \in Indices :
        /\ SetPrev(a, z, y) \in Buffers /\ SameFree(a, SetPrev(a, z, y))
        /\ next(SetPrev(a, z, y), x) = next(a, x)
        /\ SetNext(a, z, y) \in Buffers /\ SameFree(a, SetNext(a, z, y))
        /\ z # x => next(SetNext(a, z, y), x) = next(a, x)
  <2> TAKE a \in Buffers, z, y \in Indices
  <2>1. x \in Indices
    BY <1>1
  <2> HIDE DEF x
  <2>2. SetPrev(a, z, y) \in Buffers /\ SameFree(a, SetPrev(a, z, y)) /\ next(SetPrev(a, z, y), x) = next(a, x)
    BY <2>1, SetPrevIs
  <2>3. /\ SetNext(a, z, y) \in Buffers /\ SameFree(a, SetNext(a, z, y))
        /\ next(SetNext(a, z, y), x) = IF x = z THEN y ELSE next(a, x)
    BY <2>1, SetNextIs
  <2> QED
    BY <2>2, <2>3
<1>7. \E c \in Buffers : erase(b, x) = push_free(c, x) /\ c.freeBack # x /\ c.next[x] = b.next[x]
  <2>1. CASE x = b.activeBegin
    <3> DEFINE b1 == [b EXCEPT !.activeBegin = b.next[x]]
               c == SetPrev(b1, b.next[x], end)
    <3>1. b1 \in Buffers /\ b1.freeBack = b.freeBack /\ b1.next = b.next
      BY <1>0, <1>5 DEF Buffers
    <3>2. end \in Indices
      BY DEF Indices
    <3> HIDE DEF b1
    <3>3. c \in Buffers /\ SameFree(b1, c) /\ next(c, x) = next(b1, x)
      BY <3>1, <3>2, <1>5, <1>1, <1>9
    <3>4. erase(b, x) = push_free(c, x)
      BY <2>1 DEF erase, pop_front, b1
    <3>5. c.freeBack # x /\ c.next[x] = b.next[x]
      BY <3>1, <3>3, <1>6, <1>1 DEF SameFree, next
    <3> QED
      BY <3>3, <3>4, <3>5
  <2>2. CASE x # b.activeBegin /\ x = b.activeBack
    <3> DEFINE b1 == [b EXCEPT !.activeBack = b.prev[x]]
               c == SetNext(b1, b.prev[x], end)
    <3>1. b1 \in Buffers /\ b1.freeBack = b.freeBack /\ b1.next = b.next
      BY <1>0, <1>5 DEF Buffers
    <3>2. end \in Indices
      BY DEF Indices
    <3> HIDE DEF b1
    <3>3. c \in Buffers /\ SameFree(b1, c) /\ next(c, x) = next(b1, x)
      BY <3>1, <3>2, <1>5, <1>1, <1>9
    <3>4. erase(b, x) = push_free(c, x)
      BY <2>2 DEF erase, pop_back, b1
    <3>5. c.freeBack # x /\ c.next[x] = b.next[x]
      BY <3>1, <3>3, <1>6, <1>1 DEF SameFree, next
    <3> QED
      BY <3>3, <3>4, <3>5
  <2>3. CASE x # b.activeBegin /\ x # b.activeBack
    <3> DEFINE b1 == SetPrev(b, b.next[x], b.prev[x])
               c == SetNext(b1, b.prev[x], b.next[x])
    <3>1. b1 \in Buffers /\ SameFree(b, b1) /\ next(b1, x) = next(b, x)
      BY <1>0, <1>5, <1>1, <1>9
    <3>2. erase(b, x) = push_free(c, x)
      BY <2>3 DEF erase
    <3> HIDE DEF b1
    <3>3. c \in Buffers /\ SameFree(b1, c) /\ next(c, x) = next(b1, x)
      BY <3>1, <1>5, <1>1, <1>9
    <3>5. c.freeBack # x /\ c.next[x] = b.next[x]
      BY <3>1, <3>3, <1>6, <1>1 DEF SameFree, next
    <3> QED
      BY <3>2, <3>3, <3>5
  <2> QED
    BY <2>1, <2>2, <2>3
<1>8. erase(b, u[n]).next[u[n]] = Nth(u, n + 1)
  BY <1>7, <1>4, <1>1, PushFreeKeeps
<1> QED
  BY <1>2, <1>3, <1>8

-----------------------------------------------------------------------------
(* A queue whose links, counts and numbers are sound *)

Fields ==
  [mq : Buffers, sn : [Entries -> Nat], readFlags : [Entries -> SUBSET Receivers],
   numRead : [Entries -> Nat], rcvrs : SUBSET Receivers, sem : [Receivers -> Nat],
   numMessages : Nat, messagesRead : Nat, isClosed : BOOLEAN, overflowPolicy : Policies]

\* The link that the last free entry has kept leads into the list, or to its end.
LastLink(b, u, f) ==
  f # <<>> => \/ b.next[f[Len(f)]] = end
              \/ \E i \in 1 .. Len(u) : b.next[f[Len(f)]] = u[i]

Sound(q, u, f) ==
  /\ q \in Fields /\ Is(q.mq, u, f) /\ LastLink(q.mq, u, f)
  /\ \A x \in Entries : q.numRead[x] = Cardinality(q.readFlags[x]) /\ q.sn[x] <= q.numMessages

\* Only those who are registered have read what is in the queue.
FlagsOK(q, u) == \A i \in 1 .. Len(u) : q.readFlags[u[i]] \subseteq q.rcvrs

\* What it says of the list and the free queue: all entries, each once, none of them the end
LEMMA SoundIs ==
  ASSUME NEW q, NEW u, NEW f, Sound(q, u, f)
  PROVE  /\ u \in Seq(Entries) /\ f \in Seq(Entries) /\ Distinct(u) /\ Distinct(f)
         /\ Len(u) \in Nat /\ Len(f) \in Nat /\ Len(u) + Len(f) = MAX_ENTRIES
         /\ \A i \in 1 .. Len(u) : u[i] \in Entries /\ u[i] # end
         /\ \A j \in 1 .. Len(f) : f[j] \in Entries /\ f[j] # end
         /\ \A i \in 1 .. Len(u), j \in 1 .. Len(f) : u[i] # f[j]
         /\ InUse(q.mq) = u /\ Free(q.mq) = f
         /\ (Full(q) <=> f = <<>>) /\ (f = <<>> <=> Len(f) = 0) /\ (u = <<>> <=> Len(u) = 0)
<1>1. /\ u \in Seq(Entries) /\ f \in Seq(Entries) /\ Distinct(u) /\ Distinct(f)
      /\ Len(u) + Len(f) = MAX_ENTRIES /\ Is(q.mq, u, f)
      /\ \A i \in 1 .. Len(u), j \in 1 .. Len(f) : u[i] # f[j]
  BY DEF Sound, Is, Apart
<1>2. Len(u) \in Nat /\ Len(f) \in Nat /\ MAX_ENTRIES \in Nat
  BY <1>1, LenProperties, MaxEntriesAssumption
<1>3. InUse(q.mq) = u /\ Free(q.mq) = f
  BY <1>1, ChainsAre
<1>4. (f = <<>> <=> Len(f) = 0) /\ (u = <<>> <=> Len(u) = 0)
  BY <1>1, EmptySeq
<1>5. Full(q) <=> f = <<>>
  BY <1>1, <1>2, <1>4 DEF Is, Full
<1> QED
  BY <1>1, <1>2, <1>3, <1>4, <1>5, NthIs

\* A queue p with a slot behind the messages of q, that holds none as yet
Slotted(q, u, f, p, v, g) ==
  /\ Sound(p, v, g) /\ Pushed(u, f, v, g)
  /\ \A k \in 2 .. Len(f) : p.mq.next[f[k]] = q.mq.next[f[k]]
  /\ p.sn = [q.sn EXCEPT ![f[1]] = 0] /\ p.readFlags = [q.readFlags EXCEPT ![f[1]] = {}]
  /\ p.rcvrs = q.rcvrs /\ p.sem = q.sem
  /\ p.numMessages = q.numMessages /\ p.messagesRead = q.messagesRead
  /\ p.overflowPolicy = q.overflowPolicy

\* push_back of a queue that is not full makes such a slot.
LEMMA NewSlotIs ==
  ASSUME NEW q, NEW u, NEW f, Sound(q, u, f), f # <<>>
  PROVE  \E v, g : Slotted(q, u, f, NewSlot(q), v, g)
<1> DEFINE p == NewSlot(q)
<1>1. Is(q.mq, u, f) /\ q \in Fields
  BY DEF Sound
<1>2. PICK v, g :
        /\ Is(new_back(q.mq), v, g) /\ Pushed(u, f, v, g)
        /\ \A k \in 2 .. Len(f) : new_back(q.mq).next[f[k]] = q.mq.next[f[k]]
        /\ NewIndex(q.mq) = f[1] /\ f[1] \in Entries
  BY <1>1, Pushing
<1>3. p = [q EXCEPT !.mq = new_back(q.mq), !.sn = [@ EXCEPT ![f[1]] = 0],
                    !.readFlags = [@ EXCEPT ![f[1]] = {}],
                    !.numRead = [@ EXCEPT ![f[1]] = 0]]
  BY <1>2 DEF NewSlot
<1>4. /\ p.mq = new_back(q.mq) /\ p.sn = [q.sn EXCEPT ![f[1]] = 0]
      /\ p.readFlags = [q.readFlags EXCEPT ![f[1]] = {}]
      /\ p.numRead = [q.numRead EXCEPT ![f[1]] = 0] /\ p.numMessages = q.numMessages
      /\ p.rcvrs = q.rcvrs /\ p.sem = q.sem /\ p.messagesRead = q.messagesRead
      /\ p.overflowPolicy = q.overflowPolicy
  BY <1>3, <1>1 DEF Fields
<1>5. p \in Fields
  <2>1. new_back(q.mq) \in Buffers
    BY <1>2 DEF Is
  <2>2. /\ [q.sn EXCEPT ![f[1]] = 0] \in [Entries -> Nat]
        /\ [q.readFlags EXCEPT ![f[1]] = {}] \in [Entries -> SUBSET Receivers]
        /\ [q.numRead EXCEPT ![f[1]] = 0] \in [Entries -> Nat]
    BY <1>1, <1>2 DEF Fields
  <2> DEFINE a == [q.sn EXCEPT ![f[1]] = 0]
             b == [q.readFlags EXCEPT ![f[1]] = {}]
             c == [q.numRead EXCEPT ![f[1]] = 0]
             m == new_back(q.mq)
  <2>3. p = [q EXCEPT !.mq = m, !.sn = a, !.readFlags = b, !.numRead = c]
    BY <1>3
  <2> HIDE DEF a, b, c, m, p
  <2>4. m \in Buffers /\ a \in [Entries -> Nat] /\ b \in [Entries -> SUBSET Receivers] /\ c \in [Entries -> Nat]
    BY <2>1, <2>2 DEF a, b, c, m
  <2> QED
    BY <2>3, <2>4, <1>1 DEF Fields
<1> HIDE DEF p
<1>6. \A x \in Entries : p.numRead[x] = Cardinality(p.readFlags[x]) /\ p.sn[x] <= p.numMessages
  <2> TAKE x \in Entries
  <2>1. q.numRead[x] = Cardinality(q.readFlags[x]) /\ q.sn[x] <= q.numMessages
    BY DEF Sound
  <2>2. q.numMessages \in Nat /\ q.sn \in [Entries -> Nat] /\ q.readFlags \in [Entries -> SUBSET Receivers]
        /\ q.numRead \in [Entries -> Nat]
    BY <1>1 DEF Fields
  <2>3. CASE x = f[1]
    <3>1. p.numRead[x] = 0 /\ p.readFlags[x] = {} /\ p.sn[x] = 0
      BY <2>2, <2>3, <1>4
    <3> QED
      BY <3>1, <2>2, <1>4, FS_EmptySet
  <2>4. CASE x # f[1]
    BY <2>1, <2>2, <2>4, <1>4
  <2> QED
    BY <2>3, <2>4
<1>7. LastLink(p.mq, v, g)
  <2> SUFFICES ASSUME g # <<>>
               PROVE  \/ p.mq.next[g[Len(g)]] = end
                      \/ \E i \in 1 .. Len(v) : p.mq.next[g[Len(g)]] = v[i]
    BY DEF LastLink
  <2>1. /\ Len(f) \in Nat /\ Len(u) \in Nat /\ Len(g) = Len(f) - 1 /\ Len(v) = Len(u) + 1
        /\ \A i \in 1 .. Len(u) : v[i] = u[i]
        /\ \A i \in 1 .. Len(f) - 1 : g[i] = f[i + 1]
    BY <1>2, SoundIs DEF Pushed
  <2>2. Len(g) # 0
    BY <1>2, EmptySeq DEF Pushed
  <2>3. Len(f) \in 2 .. Len(f) /\ g[Len(g)] = f[Len(f)]
    BY <2>1, <2>2
  <2>4. p.mq.next[g[Len(g)]] = q.mq.next[f[Len(f)]]
    BY <2>3, <1>2, <1>4
  <2>5. q.mq.next[f[Len(f)]] = end \/ \E i \in 1 .. Len(u) : q.mq.next[f[Len(f)]] = u[i]
    BY DEF Sound, LastLink
  <2>6. ASSUME NEW i \in 1 .. Len(u), q.mq.next[f[Len(f)]] = u[i]
        PROVE  \E j \in 1 .. Len(v) : p.mq.next[g[Len(g)]] = v[j]
    BY <2>6, <2>1, <2>4
  <2> QED
    BY <2>4, <2>5, <2>6
<1>8. Sound(p, v, g) /\ \A k \in 2 .. Len(f) : p.mq.next[f[k]] = q.mq.next[f[k]]
  BY <1>2, <1>4, <1>5, <1>6, <1>7 DEF Sound
<1>9. Slotted(q, u, f, p, v, g)
  BY <1>8, <1>2, <1>4 DEF Slotted
<1> QED
  BY <1>9 DEF p

\* Writing the message over the newest slot, and raising the semaphores, keeps it sound.
LEMMA WrittenIs ==
  ASSUME NEW q, NEW u, NEW f, Sound(q, u, f), u # <<>>
  PROVE  LET p == Written(q)
         IN  /\ p = [q EXCEPT !.sn = [@ EXCEPT ![u[Len(u)]] = q.numMessages],
                              !.numMessages = @ + 1,
                              !.sem = [r \in Receivers |-> IF r \in q.rcvrs THEN @[r] + 1 ELSE @[r]]]
             /\ Sound(p, u, f)
<1> DEFINE p == Written(q)
           x == u[Len(u)]
<1>1. Is(q.mq, u, f) /\ q \in Fields
  BY DEF Sound
<1>2. x \in Entries /\ newest(q) = x
  <2>1. Len(u) \in 1 .. Len(u) /\ x \in Entries
    BY SoundIs
  <2>2. q.mq.activeBack = Nth(u, Len(u))
    BY <1>1, EndsAre
  <2> QED
    BY <2>1, <2>2 DEF Nth, newest, prev
<1>3. p = [q EXCEPT !.sn = [@ EXCEPT ![x] = q.numMessages],
                    !.numMessages = @ + 1,
                    !.sem = [r \in Receivers |-> IF r \in q.rcvrs THEN @[r] + 1 ELSE @[r]]]
  <2> HIDE DEF x
  <2> QED
    BY <1>1, <1>2 DEF Written, Raised, Fields
<1> HIDE DEF x
<1>4. /\ p.mq = q.mq /\ p.numRead = q.numRead /\ p.readFlags = q.readFlags
      /\ p.sn = [q.sn EXCEPT ![x] = q.numMessages] /\ p.numMessages = q.numMessages + 1
  BY <1>1, <1>3 DEF Fields
<1>5. p \in Fields
  <2> DEFINE a == [q.sn EXCEPT ![x] = q.numMessages]
             n == q.numMessages + 1
             s == [r \in Receivers |-> IF r \in q.rcvrs THEN q.sem[r] + 1 ELSE q.sem[r]]
  <2>1. a \in [Entries -> Nat] /\ n \in Nat /\ s \in [Receivers -> Nat]
    BY <1>1, <1>2 DEF Fields
  <2>2. p = [q EXCEPT !.sn = a, !.numMessages = n, !.sem = s]
    BY <1>3, <1>1 DEF Fields
  <2> HIDE DEF a, n, s, p
  <2> QED
    BY <2>1, <2>2, <1>1 DEF Fields
<1> HIDE DEF p
<1>6. \A y \in Entries : p.numRead[y] = Cardinality(p.readFlags[y]) /\ p.sn[y] <= p.numMessages
  <2> TAKE y \in Entries
  <2>1. q.numRead[y] = Cardinality(q.readFlags[y]) /\ q.sn[y] <= q.numMessages
    BY DEF Sound
  <2>2. q.numMessages \in Nat /\ q.sn \in [Entries -> Nat]
    BY <1>1 DEF Fields
  <2> QED
    BY <2>1, <2>2, <1>4
<1>7. Sound(p, u, f)
  BY <1>4, <1>5, <1>6 DEF Sound
<1> QED
  BY <1>3, <1>7 DEF p, x

\* A message that is dropped leaves its link behind, which becomes that of the last free entry.
LEMMA DropIs ==
  ASSUME NEW q, NEW u, NEW f, Sound(q, u, f), NEW n \in 1 .. Len(u)
  PROVE  LET p == Drop(q, u[n])
         IN  /\ p = [q EXCEPT !.mq = erase(q.mq, u[n]), !.messagesRead = @ + 1]
             /\ n = 1 => DropOldest(q) = [q EXCEPT !.mq = erase(q.mq, u[n])]
             /\ \E v, g :
                  /\ Sound(p, v, g) /\ Removed(u, f, v, g, n)
                  /\ p.mq.next[u[n]] = Nth(u, n + 1)
                  /\ n = 1 => Sound(DropOldest(q), v, g)
<1> DEFINE p == Drop(q, u[n])
           m == erase(q.mq, u[n])
           k == q.messagesRead + 1
           o == [q EXCEPT !.mq = m]
<1>1. Is(q.mq, u, f) /\ q \in Fields
  BY DEF Sound
<1>2. PICK v, g :
        /\ Is(m, v, g) /\ Removed(u, f, v, g, n)
        /\ m.next[u[n]] = Nth(u, n + 1)
        /\ n = 1 => pop_front(q.mq) = m
  BY <1>1, Erasing
<1>3. p = [q EXCEPT !.mq = m, !.messagesRead = k]
  BY DEF Drop
<1>4. m \in Buffers /\ k \in Nat
  BY <1>1, <1>2 DEF Is, Fields
<1>5. n = 1 => DropOldest(q) = o
  BY <1>2 DEF DropOldest
<1>6. p \in Fields /\ o \in Fields
  <2> HIDE DEF m, k, p
  <2> QED
    BY <1>1, <1>3, <1>4 DEF Fields
<1>7. /\ p.mq = m /\ p.sn = q.sn /\ p.numRead = q.numRead /\ p.readFlags = q.readFlags
      /\ p.numMessages = q.numMessages
      /\ o.mq = m /\ o.sn = q.sn /\ o.numRead = q.numRead /\ o.readFlags = q.readFlags
      /\ o.numMessages = q.numMessages
  <2> HIDE DEF m, k, p
  <2> QED
    BY <1>1, <1>3 DEF Fields
<1> HIDE DEF p, o, m
<1>8. LastLink(m, v, g)
  <2>1. /\ Len(f) \in Nat /\ Len(u) \in Nat /\ Len(g) = Len(f) + 1 /\ g[Len(f) + 1] = u[n]
        /\ Len(v) = Len(u) - 1
        /\ \A i \in 1 .. Len(u) - 1 : v[i] = IF i < n THEN u[i] ELSE u[i + 1]
    BY <1>2, SoundIs DEF Removed
  <2>2. m.next[g[Len(g)]] = Nth(u, n + 1)
    BY <2>1, <1>2
  <2>3. CASE n = Len(u)
    <3>1. Nth(u, n + 1) = end
      BY <2>3, <2>1 DEF Nth
    <3> QED
      BY <3>1, <2>2 DEF LastLink
  <2>4. CASE n # Len(u)
    <3>1. n \in 1 .. Len(v) /\ n + 1 \in 1 .. Len(u)
      BY <2>4, <2>1
    <3>2. v[n] = u[n + 1] /\ Nth(u, n + 1) = u[n + 1]
      BY <3>1, <2>1 DEF Nth
    <3> QED
      BY <3>1, <3>2, <2>2 DEF LastLink
  <2> QED
    BY <2>3, <2>4
<1>9. Sound(p, v, g) /\ Sound(o, v, g)
  BY <1>2, <1>6, <1>7, <1>8 DEF Sound
<1> QED
  BY <1>2, <1>3, <1>5, <1>7, <1>9 DEF p, o, m

-----------------------------------------------------------------------------
(* Where a receiver may have got to *)

\* r's iterator x is at the end, in the list, or in a part of the free queue that r has
\* read to its end.
Near(q, u, f, r, x) ==
  \/ x = end
  \/ \E i \in 1 .. Len(u) : x = u[i]
  \/ \E k \in 1 .. Len(f) : x = f[k] /\ \A j \in k .. Len(f) : r \in q.readFlags[f[j]]

\* A new slot takes nobody's place, though it may be the one that a reader is left at.
LEMMA NearPush ==
  ASSUME NEW q, NEW u, NEW f, NEW p, NEW v, NEW g, NEW r, NEW x, Near(q, u, f, r, x),
         Sound(q, u, f), Pushed(u, f, v, g),
         \A y \in Entries : y # f[1] => p.readFlags[y] = q.readFlags[y]
  PROVE  Near(p, v, g, r, x)
<1>0. /\ Len(u) \in Nat /\ Len(f) \in Nat /\ Distinct(f)
      /\ \A j \in 1 .. Len(f) : f[j] \in Entries
  BY SoundIs
<1>1. /\ Len(f) >= 1 /\ Len(v) = Len(u) + 1 /\ Len(g) = Len(f) - 1
      /\ \A i \in 1 .. Len(u) : v[i] = u[i]
      /\ v[Len(u) + 1] = f[1]
      /\ \A i \in 1 .. Len(f) - 1 : g[i] = f[i + 1]
  BY DEF Pushed
<1>2. CASE x = end
  BY <1>2 DEF Near
<1>3. ASSUME NEW i \in 1 .. Len(u), x = u[i] PROVE Near(p, v, g, r, x)
  <2>1. i \in 1 .. Len(v) /\ x = v[i]
    BY <1>0, <1>1, <1>3
  <2> QED
    BY <2>1 DEF Near
<1>4. ASSUME NEW k \in 1 .. Len(f), x = f[k], \A j \in k .. Len(f) : r \in q.readFlags[f[j]]
      PROVE  Near(p, v, g, r, x)
  <2>1. CASE k = 1
    <3>1. Len(u) + 1 \in 1 .. Len(v) /\ x = v[Len(u) + 1]
      BY <1>0, <1>1, <1>4, <2>1
    <3> QED
      BY <3>1 DEF Near
  <2>2. CASE k # 1
    <3>1. k - 1 \in 1 .. Len(g) /\ x = g[k - 1]
      BY <1>0, <1>1, <1>4, <2>2
    <3>2. ASSUME NEW j \in k - 1 .. Len(g) PROVE r \in p.readFlags[g[j]]
      <4>1. j + 1 \in k .. Len(f) /\ g[j] = f[j + 1] /\ j + 1 # 1 /\ j + 1 \in 1 .. Len(f) /\ 1 \in 1 .. Len(f)
        BY <1>0, <1>1, <2>2
      <4>2. f[j + 1] # f[1]
        BY <4>1, <1>0 DEF Distinct
      <4> QED
        BY <4>1, <4>2, <1>0, <1>4
    <3> QED
      BY <3>1, <3>2 DEF Near
  <2> QED
    BY <2>1, <2>2
<1> QED
  BY <1>2, <1>3, <1>4 DEF Near

\* A message that leaves after r has read it takes r to the free queue, where it can be.
LEMMA NearDrop ==
  ASSUME NEW q, NEW u, NEW f, NEW p, NEW v, NEW g, NEW r, NEW x, Near(q, u, f, r, x),
         Sound(q, u, f), NEW n \in 1 .. Len(u), Removed(u, f, v, g, n),
         r \in p.readFlags[u[n]],
         \A j \in 1 .. Len(f) : p.readFlags[f[j]] = q.readFlags[f[j]]
  PROVE  Near(p, v, g, r, x)
<1>0. Len(u) \in Nat /\ Len(f) \in Nat
  BY SoundIs
<1>1. /\ Len(v) = Len(u) - 1 /\ Len(g) = Len(f) + 1
      /\ \A i \in 1 .. Len(u) - 1 : v[i] = IF i < n THEN u[i] ELSE u[i + 1]
      /\ \A i \in 1 .. Len(f) : g[i] = f[i]
      /\ g[Len(f) + 1] = u[n]
  BY DEF Removed
<1>2. CASE x = end
  BY <1>2 DEF Near
<1>3. ASSUME NEW i \in 1 .. Len(u), x = u[i] PROVE Near(p, v, g, r, x)
  <2>1. CASE i < n
    <3>1. i \in 1 .. Len(v) /\ x = v[i]
      BY <2>1, <1>0, <1>1, <1>3
    <3> QED
      BY <3>1 DEF Near
  <2>2. CASE i > n
    <3>1. i - 1 \in 1 .. Len(v) /\ x = v[i - 1]
      BY <2>2, <1>0, <1>1, <1>3
    <3> QED
      BY <3>1 DEF Near
  <2>3. CASE i = n
    <3>1. Len(g) \in 1 .. Len(g) /\ x = g[Len(g)] /\ \A j \in Len(g) .. Len(g) : j = Len(g)
      BY <2>3, <1>0, <1>1, <1>3
    <3>2. r \in p.readFlags[g[Len(g)]]
      BY <3>1, <2>3, <1>3
    <3> QED
      BY <3>1, <3>2 DEF Near
  <2> QED
    BY <2>1, <2>2, <2>3, <1>0
<1>4. ASSUME NEW k \in 1 .. Len(f), x = f[k], \A j \in k .. Len(f) : r \in q.readFlags[f[j]]
      PROVE  Near(p, v, g, r, x)
  <2>1. k \in 1 .. Len(g) /\ x = g[k]
    BY <1>0, <1>1, <1>4
  <2>2. ASSUME NEW j \in k .. Len(g) PROVE r \in p.readFlags[g[j]]
    <3>1. CASE j = Len(f) + 1
      BY <3>1, <1>1
    <3>2. CASE j # Len(f) + 1
      <4>1. j \in k .. Len(f) /\ j \in 1 .. Len(f) /\ g[j] = f[j]
        BY <3>2, <1>0, <1>1
      <4> QED
        BY <4>1, <1>4
    <3> QED
      BY <3>1, <3>2
  <2> QED
    BY <2>1, <2>2 DEF Near
<1> QED
  BY <1>2, <1>3, <1>4 DEF Near

\* In a full queue nothing else is left.
LEMMA NearIfFull ==
  ASSUME NEW p, NEW v, NEW g, Sound(p, v, g), g = <<>>, NEW r, NEW x \in Indices
  PROVE  Near(p, v, g, r, x)
<1>1. Covers(v, g, {}) /\ Len(g) = 0
  BY SoundIs DEF Sound, Is
<1>2. CASE x = end
  BY <1>2 DEF Near
<1>3. CASE x # end
  <2>1. x \in Entries \ {}
    BY <1>3 DEF Indices
  <2>2. (\E i \in 1 .. Len(v) : v[i] = x) \/ (\E j \in 1 .. Len(g) : g[j] = x)
    BY <2>1, <1>1 DEF Covers
  <2>3. \E i \in 1 .. Len(v) : x = v[i]
    BY <2>2, <1>1
  <2> QED
    BY <2>3 DEF Near
<1> QED
  BY <1>2, <1>3

\* What does not touch the list, and takes no mark of r's, takes r nowhere.
LEMMA NearKept ==
  ASSUME NEW q, NEW u, NEW f, NEW p, NEW r, NEW x, Near(q, u, f, r, x),
         \A j \in 1 .. Len(f) : r \in q.readFlags[f[j]] => r \in p.readFlags[f[j]], Sound(q, u, f)
  PROVE  Near(p, u, f, r, x)
<1>0. Len(f) \in Nat
  BY SoundIs
<1>1. ASSUME NEW k \in 1 .. Len(f), x = f[k], \A j \in k .. Len(f) : r \in q.readFlags[f[j]]
      PROVE  Near(p, u, f, r, x)
  <2>1. \A j \in k .. Len(f) : j \in 1 .. Len(f)
    BY <1>0
  <2>2. \A j \in k .. Len(f) : r \in p.readFlags[f[j]]
    BY <2>1, <1>1
  <2> QED
    BY <2>2, <1>1 DEF Near
<1> QED
  BY <1>1 DEF Near

-----------------------------------------------------------------------------
(* markRead *)

\* A set of receivers that is a part of another is all of it if the numbers agree.
LEMMA CountIsAll ==
  ASSUME NEW S \in SUBSET Receivers, NEW T \in SUBSET S
  PROVE  /\ IsFiniteSet(S) /\ IsFiniteSet(T)
         /\ Cardinality(S) \in Nat /\ Cardinality(T) \in Nat
         /\ Cardinality(T) = Cardinality(S) <=> T = S
<1>1. IsFiniteSet(S)
  BY ReceiversAssumption, FS_Subset
<1>2. IsFiniteSet(T) /\ (Cardinality(S) = Cardinality(T) => S = T)
  BY <1>1, FS_Subset
<1> QED
  BY <1>1, <1>2, FS_CardinalityType

\* A mark more, and a reader more in the count
LEMMA MarkedIs ==
  ASSUME NEW q, NEW u, NEW f, Sound(q, u, f), NEW x \in Entries, NEW r \in Receivers,
         r \notin q.readFlags[x]
  PROVE  /\ Sound(Marked(q, x, r), u, f)
         /\ Marked(q, x, r).mq = q.mq /\ Marked(q, x, r).sn = q.sn
         /\ Marked(q, x, r).readFlags = [q.readFlags EXCEPT ![x] = @ \cup {r}]
         /\ Marked(q, x, r).rcvrs = q.rcvrs /\ Marked(q, x, r).sem = q.sem
         /\ Marked(q, x, r).numMessages = q.numMessages
         /\ Marked(q, x, r).messagesRead = q.messagesRead
         /\ Marked(q, x, r).isClosed = q.isClosed
         /\ Marked(q, x, r).overflowPolicy = q.overflowPolicy
<1> DEFINE p == Marked(q, x, r)
           a == [q.readFlags EXCEPT ![x] = q.readFlags[x] \cup {r}]
           c == [q.numRead EXCEPT ![x] = q.numRead[x] + 1]
<1>1. q \in Fields
  BY DEF Sound
<1>2. a \in [Entries -> SUBSET Receivers] /\ c \in [Entries -> Nat]
  BY <1>1 DEF Fields
<1>3. p = [q EXCEPT !.readFlags = a, !.numRead = c]
  BY <1>1, Zenon DEF Marked
<1>4. \A y \in Entries : c[y] = Cardinality(a[y])
  <2> TAKE y \in Entries
  <2>1. q.numRead[y] = Cardinality(q.readFlags[y]) /\ q.readFlags[y] \in SUBSET Receivers
    BY <1>1 DEF Sound, Fields
  <2>2. IsFiniteSet(q.readFlags[y])
    BY <2>1, ReceiversAssumption, FS_Subset
  <2>3. CASE y = x
    <3>1. a[y] = q.readFlags[y] \cup {r} /\ c[y] = q.numRead[y] + 1
      BY <2>3, <1>1 DEF Fields
    <3>2. Cardinality(q.readFlags[y] \cup {r}) = Cardinality(q.readFlags[y]) + 1
      BY <2>2, <2>3, FS_AddElement
    <3> QED
      BY <3>1, <3>2, <2>1
  <2>4. CASE y # x
    BY <2>4, <2>1, <1>1 DEF Fields
  <2> QED
    BY <2>3, <2>4
<1> HIDE DEF a, c, p
<1>5. /\ p \in Fields
      /\ p.mq = q.mq /\ p.sn = q.sn /\ p.readFlags = a /\ p.numRead = c /\ p.rcvrs = q.rcvrs
      /\ p.sem = q.sem /\ p.numMessages = q.numMessages /\ p.messagesRead = q.messagesRead
      /\ p.isClosed = q.isClosed /\ p.overflowPolicy = q.overflowPolicy
  BY <1>1, <1>2, <1>3 DEF Fields
<1>6. Sound(p, u, f)
  BY <1>4, <1>5 DEF Sound
<1> QED
  BY <1>5, <1>6 DEF p, a

\* markRead(): r's mark is on the message, which leaves if all have marked it.
LEMMA MarkReadIs ==
  ASSUME NEW q, NEW u, NEW f, Sound(q, u, f), FlagsOK(q, u), NEW n \in 1 .. Len(u),
         NEW r \in Receivers, NewlyRead(q, u[n], r)
  PROVE  LET p == markRead(q, u[n], r)
             all == q.readFlags[u[n]] \cup {r}
         IN  /\ p.readFlags = [q.readFlags EXCEPT ![u[n]] = all]
             /\ p.sn = q.sn /\ p.rcvrs = q.rcvrs /\ p.sem = q.sem
             /\ p.numMessages = q.numMessages /\ p.isClosed = q.isClosed
             /\ p.overflowPolicy = q.overflowPolicy
             /\ all # q.rcvrs => /\ Sound(p, u, f) /\ p.mq = q.mq
                                 /\ p.messagesRead = q.messagesRead
             /\ all = q.rcvrs =>
                  /\ p.messagesRead = q.messagesRead + 1
                  /\ \E v, g : /\ Sound(p, v, g) /\ Removed(u, f, v, g, n)
                               /\ p.mq.next[u[n]] = Nth(u, n + 1)
<1> DEFINE p == markRead(q, u[n], r)
           x == u[n]
           all == q.readFlags[x] \cup {r}
           m == Marked(q, x, r)
<1>1. q \in Fields /\ x \in Entries /\ r \in q.rcvrs /\ r \notin q.readFlags[x]
  BY SoundIs DEF Sound, NewlyRead
<1>2. /\ Sound(m, u, f) /\ m.mq = q.mq /\ m.sn = q.sn
      /\ m.readFlags = [q.readFlags EXCEPT ![x] = all] /\ m.rcvrs = q.rcvrs /\ m.sem = q.sem
      /\ m.numMessages = q.numMessages /\ m.messagesRead = q.messagesRead
      /\ m.isClosed = q.isClosed /\ m.overflowPolicy = q.overflowPolicy
  <2> HIDE DEF x, m
  <2>1. /\ Sound(m, u, f) /\ m.mq = q.mq /\ m.sn = q.sn
        /\ m.readFlags = [q.readFlags EXCEPT ![x] = @ \cup {r}] /\ m.rcvrs = q.rcvrs /\ m.sem = q.sem
        /\ m.numMessages = q.numMessages /\ m.messagesRead = q.messagesRead
        /\ m.isClosed = q.isClosed /\ m.overflowPolicy = q.overflowPolicy
    BY <1>1, MarkedIs DEF m
  <2> QED
    BY <2>1, <1>1
<1>3. p = IF m.numRead[x] = Cardinality(q.rcvrs) THEN Drop(m, x) ELSE m
  <2>1. NewlyRead(q, x, r) /\ p = markRead(q, x, r)
    OBVIOUS
  <2> HIDE DEF x, p
  <2> QED
    BY <2>1 DEF markRead
<1>4. m.numRead[x] = Cardinality(q.rcvrs) <=> all = q.rcvrs
  <2>1. q.rcvrs \in SUBSET Receivers /\ all \in SUBSET q.rcvrs
    BY <1>1 DEF FlagsOK, Fields
  <2>2. m.numRead[x] = Cardinality(m.readFlags[x])
    BY <1>2, <1>1 DEF Sound
  <2>3. m.readFlags[x] = all
    BY <1>1, <1>2 DEF Fields
  <2> HIDE DEF m, x, all
  <2> QED
    BY <2>1, <2>2, <2>3, CountIsAll
<1> HIDE DEF p, m
<1>5. CASE all # q.rcvrs
  <2>1. p = m
    BY <1>5, <1>3, <1>4
  <2> QED
    BY <2>1, <1>2, <1>5 DEF p
<1>6. CASE all = q.rcvrs
  <2>1. p = Drop(m, u[n])
    BY <1>6, <1>3, <1>4
  <2>2. /\ Drop(m, u[n]) = [m EXCEPT !.mq = erase(m.mq, u[n]), !.messagesRead = @ + 1]
        /\ \E v, g :
             /\ Sound(Drop(m, u[n]), v, g) /\ Removed(u, f, v, g, n)
             /\ Drop(m, u[n]).mq.next[u[n]] = Nth(u, n + 1)
    <3>1. LET d == Drop(m, u[n])
          IN  /\ d = [m EXCEPT !.mq = erase(m.mq, u[n]), !.messagesRead = @ + 1]
              /\ n = 1 => DropOldest(m) = [m EXCEPT !.mq = erase(m.mq, u[n])]
              /\ \E v, g :
                   /\ Sound(d, v, g) /\ Removed(u, f, v, g, n)
                   /\ d.mq.next[u[n]] = Nth(u, n + 1)
                   /\ n = 1 => Sound(DropOldest(m), v, g)
      BY <1>2, DropIs, Zenon
    <3> QED
      BY <3>1, Zenon
  <2>3. m \in Fields
    BY <1>2 DEF Sound
  <2>4. /\ p.readFlags = m.readFlags /\ p.sn = m.sn /\ p.rcvrs = m.rcvrs /\ p.sem = m.sem
        /\ p.numMessages = m.numMessages /\ p.isClosed = m.isClosed
        /\ p.overflowPolicy = m.overflowPolicy /\ p.messagesRead = m.messagesRead + 1
    BY <2>1, <2>2, <2>3 DEF Fields
  <2> QED
    BY <2>1, <2>2, <2>4, <1>2, <1>6 DEF p
<1> QED
  BY <1>5, <1>6

-----------------------------------------------------------------------------
(* removeReceiver *)

\* A mark less, and a reader less in the count
LEMMA UnmarkedIs ==
  ASSUME NEW q, NEW u, NEW f, Sound(q, u, f), NEW x \in Entries, NEW r \in q.readFlags[x]
  PROVE  \E p :
           /\ p = Unmarked(q, x, r)
           /\ Sound(p, u, f) /\ p.mq = q.mq /\ p.sn = q.sn
           /\ p.readFlags = [q.readFlags EXCEPT ![x] = q.readFlags[x] \ {r}]
           /\ p.rcvrs = q.rcvrs /\ p.sem = q.sem /\ p.numMessages = q.numMessages
           /\ p.messagesRead = q.messagesRead /\ p.isClosed = q.isClosed
           /\ p.overflowPolicy = q.overflowPolicy
<1> DEFINE p == Unmarked(q, x, r)
           a == [q.readFlags EXCEPT ![x] = q.readFlags[x] \ {r}]
           c == [q.numRead EXCEPT ![x] = q.numRead[x] - 1]
<1>1. q \in Fields
  BY DEF Sound
<1>2. \A y \in Entries : c[y] = Cardinality(a[y]) /\ c[y] \in Nat
  <2> TAKE y \in Entries
  <2>1. q.numRead[y] = Cardinality(q.readFlags[y]) /\ q.readFlags[y] \in SUBSET Receivers /\ q.numRead[y] \in Nat
    BY <1>1 DEF Sound, Fields
  <2>2. IsFiniteSet(q.readFlags[y])
    BY <2>1, ReceiversAssumption, FS_Subset
  <2>3. CASE y = x
    <3>1. a[y] = q.readFlags[y] \ {r} /\ c[y] = q.numRead[y] - 1
      BY <2>3, <1>1 DEF Fields
    <3>2. Cardinality(q.readFlags[y] \ {r}) = Cardinality(q.readFlags[y]) - 1
      BY <2>2, <2>3, FS_RemoveElement
    <3>3. Cardinality(q.readFlags[y] \ {r}) \in Nat
      BY <2>2, FS_RemoveElement, FS_CardinalityType
    <3> QED
      BY <3>1, <3>2, <3>3, <2>1
  <2>4. CASE y # x
    BY <2>4, <2>1, <1>1 DEF Fields
  <2> QED
    BY <2>3, <2>4
<1>3. a \in [Entries -> SUBSET Receivers] /\ c \in [Entries -> Nat]
  <2>1. a \in [Entries -> SUBSET Receivers]
    BY <1>1 DEF Fields
  <2>2. DOMAIN c = Entries /\ c = [y \in Entries |-> c[y]]
    BY <1>1 DEF Fields
  <2> HIDE DEF c
  <2> QED
    BY <2>1, <2>2, <1>2
<1>4. p = [q EXCEPT !.readFlags = a, !.numRead = c]
  BY <1>1, Zenon DEF Unmarked
<1> HIDE DEF a, c, p
<1>5. /\ p \in Fields
      /\ p.mq = q.mq /\ p.sn = q.sn /\ p.readFlags = a /\ p.numRead = c /\ p.rcvrs = q.rcvrs
      /\ p.sem = q.sem /\ p.numMessages = q.numMessages /\ p.messagesRead = q.messagesRead
      /\ p.isClosed = q.isClosed /\ p.overflowPolicy = q.overflowPolicy
  BY <1>1, <1>3, <1>4 DEF Fields
<1>6. Sound(p, u, f)
  BY <1>2, <1>5 DEF Sound
<1> QED
  BY <1>5, <1>6 DEF p, a

\* removeReceiver() is its walk over the messages, one after the other.
LEMMA LeftIs ==
  ASSUME NEW q, NEW r, NEW N \in Nat, N = Len(InUse(q.mq))
  PROVE  \E left :
           /\ left[0] = Without(q, r)
           /\ \A n \in 1 .. N : left[n] = Leave(left[n - 1], InUse(q.mq)[n], r)
           /\ removeReceiver(q, r) = left[N]
<1> DEFINE s == InUse(q.mq)
           Body(w, n) == IF n = 0 THEN Without(q, r) ELSE Leave(w[n - 1], s[n], r)
           Upto(w, n) == w = [m \in 0 .. n |-> Body(w, m)]
           left == CHOOSE w : w = [m \in 0 .. N |-> Body(w, m)]
<1>1. \A n \in 0 .. N : \E w : Upto(w, n)
  <2> DEFINE wrong == {n \in 0 .. N : ~ \E w : Upto(w, n)}
  <2> SUFFICES ASSUME wrong # {} PROVE FALSE
    OBVIOUS
  <2>1. wrong \subseteq Nat
    OBVIOUS
  <2>2. PICK n \in wrong : \A m \in wrong : ~(<<m, n>> \in OpToRel(<, Nat))
    BY <2>1, NatLessThanWellFounded, WFMin, Zenon
  <2>3. n \in 0 .. N /\ ~ \E w : Upto(w, n)
    OBVIOUS
  <2>4. CASE n = 0
    <3> DEFINE w == [m \in 0 .. 0 |-> Without(q, r)]
    <3>1. ASSUME NEW m \in 0 .. 0 PROVE w[m] = Body(w, m)
      <4>1. m = 0
        OBVIOUS
      <4> QED
        BY <4>1
    <3>2. w = [m \in 0 .. 0 |-> w[m]]
      OBVIOUS
    <3> HIDE DEF w
    <3>3. Upto(w, 0)
      BY <3>1, <3>2
    <3> QED
      BY <3>3, <2>3, <2>4
  <2>5. CASE n # 0
    <3>1. n - 1 \in 0 .. N /\ n - 1 \in Nat /\ n \in Nat /\ n - 1 < n
      BY <2>3, <2>5
    <3>2. n - 1 \notin wrong
      BY <3>1, <2>2 DEF OpToRel
    <3>3. PICK w : Upto(w, n - 1)
      BY <3>1, <3>2
    <3> DEFINE x == [m \in 0 .. n |-> IF m <= n - 1 THEN w[m] ELSE Leave(w[n - 1], s[n], r)]
    <3>4. ASSUME NEW m \in 0 .. n PROVE x[m] = Body(x, m)
      <4>1. CASE m = n
        <5>1. x[m] = Leave(w[n - 1], s[n], r) /\ x[n - 1] = w[n - 1]
          BY <4>1, <3>1
        <5> QED
          BY <5>1, <4>1, <2>5
      <4>2. CASE m # n /\ m # 0
        <5>1. m \in 0 .. n - 1 /\ m - 1 \in 0 .. n /\ m <= n - 1 /\ m - 1 <= n - 1
          BY <4>2, <3>1
        <5>2. x[m] = w[m] /\ x[m - 1] = w[m - 1]
          BY <5>1
        <5>3. w[m] = Body(w, m)
          BY <5>1, <3>3
        <5> QED
          BY <5>2, <5>3, <4>2
      <4>3. CASE m # n /\ m = 0
        <5>1. 0 \in 0 .. n - 1 /\ 0 <= n - 1
          BY <4>3, <3>1
        <5>2. x[0] = w[0] /\ w[0] = Body(w, 0)
          BY <5>1, <3>3
        <5> QED
          BY <5>2, <4>3
      <4> QED
        BY <4>1, <4>2, <4>3
    <3>5. x = [m \in 0 .. n |-> x[m]]
      OBVIOUS
    <3> HIDE DEF x
    <3>6. Upto(x, n)
      BY <3>4, <3>5
    <3> QED
      BY <3>6, <2>3
  <2> QED
    BY <2>4, <2>5
<1>2. left = [m \in 0 .. N |-> Body(left, m)]
  <2>1. \E w : w = [m \in 0 .. N |-> Body(w, m)]
    BY <1>1
  <2> QED
    BY <2>1, Zenon
<1>3. removeReceiver(q, r) = left[N]
  BY Zenon DEF removeReceiver
<1> HIDE DEF left
<1>4. left[0] = Without(q, r)
  BY <1>2
<1>5. \A n \in 1 .. N : left[n] = Leave(left[n - 1], InUse(q.mq)[n], r)
  BY <1>2
<1> QED
  BY <1>3, <1>4, <1>5

\* After n messages, for those that stay receivers
LeavingTo(q, u, f, r, n, p, v, g) ==
  /\ Sound(p, v, g)
  /\ p.rcvrs = q.rcvrs \ {r} /\ p.sn = q.sn /\ p.sem = [q.sem EXCEPT ![r] = 0]
  /\ p.numMessages = q.numMessages /\ p.isClosed = q.isClosed
  /\ p.overflowPolicy = q.overflowPolicy
  /\ p.messagesRead + Len(v) = q.messagesRead + Len(u)
  /\ \A i \in 1 .. Len(v) : p.readFlags[v[i]] \subseteq q.rcvrs
  /\ \A i \in 1 .. Len(v) : \E m \in 1 .. Len(u) :
       v[i] = u[m] /\ (m <= n => r \notin p.readFlags[v[i]])
  /\ \A m \in n + 1 .. Len(u) : \E i \in 1 .. Len(v) : v[i] = u[m]
  /\ \A r2 \in p.rcvrs, x \in Indices : Near(q, u, f, r2, x) => Near(p, v, g, r2, x)

Leaving(q, u, f, r, n, p) == \E v, g : LeavingTo(q, u, f, r, n, p, v, g)

\* Before the first message
LEMMA LeavingBegins ==
  ASSUME NEW q, NEW u, NEW f, Sound(q, u, f), FlagsOK(q, u), NEW r \in q.rcvrs
  PROVE  Leaving(q, u, f, r, 0, Without(q, r))
<1> DEFINE p == Without(q, r)
           s == [q.sem EXCEPT ![r] = 0]
           c == q.rcvrs \ {r}
<1>1. q \in Fields /\ Len(u) \in Nat /\ r \in Receivers
  BY SoundIs DEF Sound, Fields
<1>2. p = [q EXCEPT !.rcvrs = c, !.sem = s]
  BY <1>1, Zenon DEF Without
<1>3. s \in [Receivers -> Nat] /\ c \in SUBSET Receivers
  BY <1>1 DEF Fields
<1> HIDE DEF p, s, c
<1>4. /\ p \in Fields /\ p.rcvrs = c /\ p.sem = s /\ p.mq = q.mq /\ p.sn = q.sn
      /\ p.readFlags = q.readFlags /\ p.numRead = q.numRead
      /\ p.numMessages = q.numMessages /\ p.isClosed = q.isClosed
      /\ p.overflowPolicy = q.overflowPolicy /\ p.messagesRead = q.messagesRead
  BY <1>1, <1>2, <1>3 DEF Fields
<1>5. Sound(p, u, f)
  BY <1>4 DEF Sound
<1>6. \A i \in 1 .. Len(u) : p.readFlags[u[i]] \subseteq q.rcvrs
  BY <1>4 DEF FlagsOK
<1>7. \A i \in 1 .. Len(u) : \E m \in 1 .. Len(u) :
        u[i] = u[m] /\ (m <= 0 => r \notin p.readFlags[u[i]])
  <2> TAKE i \in 1 .. Len(u)
  <2>1. ~(i <= 0)
    BY <1>1
  <2> QED
    BY <2>1
<1>8. \A m \in 0 + 1 .. Len(u) : \E i \in 1 .. Len(u) : u[i] = u[m]
  OBVIOUS
<1>9. \A r2 \in p.rcvrs, x \in Indices : Near(q, u, f, r2, x) => Near(p, u, f, r2, x)
  BY <1>4, NearKept
<1>10. p.messagesRead + Len(u) = q.messagesRead + Len(u)
  BY <1>4
<1> QED
  <2>1. LeavingTo(q, u, f, r, 0, p, u, f)
    BY <1>4, <1>5, <1>6, <1>7, <1>8, <1>9, <1>10 DEF LeavingTo, s, c
  <2> QED
    BY <2>1 DEF Leaving, p

\* With one message more, whether it is left without r's mark, dropped or left alone
LEMMA LeavingGoesOn ==
  ASSUME NEW q, NEW u, NEW f, Sound(q, u, f), NEW r \in q.rcvrs,
         NEW n \in 1 .. Len(u), NEW p, Leaving(q, u, f, r, n - 1, p)
  PROVE  Leaving(q, u, f, r, n, Leave(p, u[n], r))
<1> DEFINE x == u[n]
           o == Leave(p, x, r)
<1>0. Len(u) \in Nat /\ Distinct(u) /\ \A i \in 1 .. Len(u) : u[i] \in Entries
  BY SoundIs
<1>10. PICK v, g : LeavingTo(q, u, f, r, n - 1, p, v, g)
  BY DEF Leaving
<1>1. /\ Sound(p, v, g)
      /\ p.rcvrs = q.rcvrs \ {r} /\ p.sn = q.sn /\ p.sem = [q.sem EXCEPT ![r] = 0]
      /\ p.numMessages = q.numMessages /\ p.isClosed = q.isClosed
      /\ p.overflowPolicy = q.overflowPolicy
      /\ p.messagesRead + Len(v) = q.messagesRead + Len(u)
      /\ \A i \in 1 .. Len(v) : p.readFlags[v[i]] \subseteq q.rcvrs
      /\ \A i \in 1 .. Len(v) : \E m \in 1 .. Len(u) :
           v[i] = u[m] /\ (m <= n - 1 => r \notin p.readFlags[v[i]])
      /\ \A m \in (n - 1) + 1 .. Len(u) : \E i \in 1 .. Len(v) : v[i] = u[m]
      /\ \A r2 \in p.rcvrs, y \in Indices : Near(q, u, f, r2, y) => Near(p, v, g, r2, y)
  BY <1>10 DEF LeavingTo
<1>2. /\ Len(v) \in Nat /\ Len(g) \in Nat /\ Distinct(v) /\ p \in Fields
      /\ \A i \in 1 .. Len(v) : v[i] \in Entries
      /\ \A i \in 1 .. Len(v), j \in 1 .. Len(g) : v[i] # g[j]
  BY <1>1, SoundIs DEF Sound
<1>3. PICK k \in 1 .. Len(v) : v[k] = x
  <2>1. n \in (n - 1) + 1 .. Len(u)
    BY <1>0
  <2> QED
    BY <2>1, <1>1
<1>4. x \in Entries
  BY <1>0
<1>5. \A m \in n + 1 .. Len(u) : m \in (n - 1) + 1 .. Len(u) /\ m \in 1 .. Len(u) /\ m # n
  BY <1>0
<1>6. ASSUME NEW i \in 1 .. Len(v), v[i] # x
      PROVE  \E m \in 1 .. Len(u) : v[i] = u[m] /\ (m <= n => r \notin p.readFlags[v[i]])
  <2>1. PICK m \in 1 .. Len(u) : v[i] = u[m] /\ (m <= n - 1 => r \notin p.readFlags[v[i]])
    BY <1>1
  <2>2. m # n
    BY <2>1, <1>6
  <2>3. m <= n => m <= n - 1
    BY <2>2, <1>0
  <2> QED
    BY <2>1, <2>3
<1>7. CASE r \in p.readFlags[x]
  <2>1. o = Unmarked(p, x, r)
    BY <1>7, Zenon DEF Leave
  <2>2. /\ Sound(o, v, g) /\ o.mq = p.mq /\ o.sn = p.sn
        /\ o.readFlags = [p.readFlags EXCEPT ![x] = p.readFlags[x] \ {r}]
        /\ o.rcvrs = p.rcvrs /\ o.sem = p.sem /\ o.numMessages = p.numMessages
        /\ o.messagesRead = p.messagesRead /\ o.isClosed = p.isClosed
        /\ o.overflowPolicy = p.overflowPolicy
    <3> HIDE DEF x
    <3>1. \E d :
            /\ d = Unmarked(p, x, r)
            /\ Sound(d, v, g) /\ d.mq = p.mq /\ d.sn = p.sn
            /\ d.readFlags = [p.readFlags EXCEPT ![x] = p.readFlags[x] \ {r}]
            /\ d.rcvrs = p.rcvrs /\ d.sem = p.sem /\ d.numMessages = p.numMessages
            /\ d.messagesRead = p.messagesRead /\ d.isClosed = p.isClosed
            /\ d.overflowPolicy = p.overflowPolicy
      <4>1. Sound(p, v, g) /\ x \in Entries /\ r \in p.readFlags[x]
        BY <1>1, <1>4, <1>7
      <4> QED
        BY <4>1, UnmarkedIs
    <3>2. o = Unmarked(p, x, r)
      BY <2>1
    <3> HIDE DEF o
    <3> QED
      BY <3>1, <3>2
  <2> HIDE DEF o, x
  <2>3. /\ o.readFlags[x] = p.readFlags[x] \ {r}
        /\ \A y \in Entries : y # x => o.readFlags[y] = p.readFlags[y]
    BY <2>2, <1>4, <1>2 DEF Fields
  <2>4. \A i \in 1 .. Len(v) : o.readFlags[v[i]] \subseteq q.rcvrs
    BY <2>3, <1>1, <1>2
  <2>5. \A i \in 1 .. Len(v) : \E m \in 1 .. Len(u) :
          v[i] = u[m] /\ (m <= n => r \notin o.readFlags[v[i]])
    <3> TAKE i \in 1 .. Len(v)
    <3>1. CASE v[i] = x
      BY <3>1, <2>3 DEF x
    <3>2. CASE v[i] # x
      BY <3>2, <1>6, <2>3, <1>2
    <3> QED
      BY <3>1, <3>2
  <2>6. \A m \in n + 1 .. Len(u) : \E i \in 1 .. Len(v) : v[i] = u[m]
    BY <1>1, <1>5
  <2>7. ASSUME NEW r2 \in o.rcvrs, NEW y \in Indices, Near(q, u, f, r2, y)
        PROVE  Near(o, v, g, r2, y)
    <3>1. Near(p, v, g, r2, y)
      BY <2>7, <2>2, <1>1
    <3>2. \A j \in 1 .. Len(g) : o.readFlags[g[j]] = p.readFlags[g[j]]
      <4> TAKE j \in 1 .. Len(g)
      <4>1. g[j] \in Entries /\ g[j] # x
        BY <1>1, <1>2, <1>3, SoundIs
      <4> QED
        BY <4>1, <2>3
    <3> QED
      BY <3>1, <3>2, <1>1, NearKept
  <2> QED
    <3>1. LeavingTo(q, u, f, r, n, o, v, g)
      BY <2>2, <2>4, <2>5, <2>6, <2>7, <1>1 DEF LeavingTo
    <3> QED
      BY <3>1 DEF Leaving, o, x
<1>8. CASE r \notin p.readFlags[x] /\ p.numRead[x] = Cardinality(p.rcvrs)
  <2>1. o = Drop(p, x)
    BY <1>8, Zenon DEF Leave
  <2>2. p.readFlags[x] = p.rcvrs
    <3>1. p.numRead[x] = Cardinality(p.readFlags[x])
      BY <1>1, <1>4 DEF Sound
    <3>2. p.readFlags[x] \in SUBSET p.rcvrs
      BY <1>1, <1>3, <1>8
    <3>3. p.rcvrs \in SUBSET Receivers
      BY <1>2 DEF Fields
    <3> HIDE DEF x, o
    <3> QED
      BY <3>1, <3>2, <3>3, <1>8, CountIsAll
  <2>3. LET d == Drop(p, v[k])
        IN  /\ d = [p EXCEPT !.mq = erase(p.mq, v[k]), !.messagesRead = @ + 1]
            /\ k = 1 => DropOldest(p) = [p EXCEPT !.mq = erase(p.mq, v[k])]
            /\ \E w, h :
                 /\ Sound(d, w, h) /\ Removed(v, g, w, h, k)
                 /\ d.mq.next[v[k]] = Nth(v, k + 1)
                 /\ k = 1 => Sound(DropOldest(p), w, h)
    BY <1>1, DropIs, Zenon
  <2>4. Drop(p, v[k]) = o
    BY <2>1, <1>3
  <2> HIDE DEF o
  <2>5. PICK w, h : Sound(o, w, h) /\ Removed(v, g, w, h, k)
    BY <2>3, <2>4, Zenon
  <2>6. o = [p EXCEPT !.mq = erase(p.mq, v[k]), !.messagesRead = @ + 1]
    BY <2>3, <2>4, Zenon
  <2>7. /\ o.sn = p.sn /\ o.readFlags = p.readFlags /\ o.rcvrs = p.rcvrs /\ o.sem = p.sem
        /\ o.numMessages = p.numMessages /\ o.isClosed = p.isClosed
        /\ o.overflowPolicy = p.overflowPolicy /\ o.messagesRead = p.messagesRead + 1
    BY <2>6, <1>2 DEF Fields
  <2>8. /\ Len(w) = Len(v) - 1
        /\ \A i \in 1 .. Len(v) - 1 : w[i] = IF i < k THEN v[i] ELSE v[i + 1]
    BY <2>5 DEF Removed
  <2>9. \A i \in 1 .. Len(w) : \E j \in 1 .. Len(v) : w[i] = v[j] /\ v[j] # x
    <3> TAKE i \in 1 .. Len(w)
    <3>1. CASE i < k
      <4>1. i \in 1 .. Len(v) /\ i # k /\ w[i] = v[i]
        BY <3>1, <2>8, <1>2
      <4> QED
        BY <4>1, <1>2, <1>3 DEF Distinct
    <3>2. CASE ~(i < k)
      <4>1. i + 1 \in 1 .. Len(v) /\ i + 1 # k /\ w[i] = v[i + 1]
        BY <3>2, <2>8, <1>2
      <4> QED
        BY <4>1, <1>2, <1>3 DEF Distinct
    <3> QED
      BY <3>1, <3>2
  <2>10. \A i \in 1 .. Len(w) : o.readFlags[w[i]] \subseteq q.rcvrs
    BY <2>7, <2>9, <1>1
  <2>11. \A i \in 1 .. Len(w) : \E m \in 1 .. Len(u) :
           w[i] = u[m] /\ (m <= n => r \notin o.readFlags[w[i]])
    <3> TAKE i \in 1 .. Len(w)
    <3>1. PICK j \in 1 .. Len(v) : w[i] = v[j] /\ v[j] # x
      BY <2>9
    <3>2. \E m \in 1 .. Len(u) : v[j] = u[m] /\ (m <= n => r \notin p.readFlags[v[j]])
      BY <3>1, <1>6
    <3> QED
      BY <3>1, <3>2, <2>7
  <2>12. ASSUME NEW m \in n + 1 .. Len(u) PROVE \E i \in 1 .. Len(w) : w[i] = u[m]
    <3>1. PICK i \in 1 .. Len(v) : v[i] = u[m]
      BY <1>1, <1>5
    <3>2. i # k
      <4>1. u[m] # u[n]
        BY <1>5, <1>0 DEF Distinct
      <4> QED
        BY <4>1, <3>1, <1>3
    <3>3. CASE i < k
      <4>1. i \in 1 .. Len(w) /\ w[i] = v[i]
        BY <3>3, <2>8, <1>2
      <4> QED
        BY <4>1, <3>1
    <3>4. CASE i > k
      <4>1. i - 1 \in 1 .. Len(w) /\ w[i - 1] = v[i]
        BY <3>4, <2>8, <1>2
      <4> QED
        BY <4>1, <3>1
    <3> QED
      BY <3>2, <3>3, <3>4, <1>2
  <2>13. ASSUME NEW r2 \in o.rcvrs, NEW y \in Indices, Near(q, u, f, r2, y)
         PROVE  Near(o, w, h, r2, y)
    <3>1. Near(p, v, g, r2, y)
      BY <2>13, <2>7, <1>1
    <3>2. r2 \in o.readFlags[v[k]]
      BY <2>2, <2>7, <1>3
    <3>3. \A j \in 1 .. Len(g) : o.readFlags[g[j]] = p.readFlags[g[j]]
      BY <2>7
    <3> QED
      BY <3>1, <3>2, <3>3, <2>5, <1>1, NearDrop
  <2>14. o.messagesRead + Len(w) = q.messagesRead + Len(u)
    <3>1. p.messagesRead \in Nat
      BY <1>2 DEF Fields
    <3> QED
      BY <3>1, <2>7, <2>8, <1>1, <1>2
  <2> QED
    <3>1. LeavingTo(q, u, f, r, n, o, w, h)
      BY <2>5, <2>7, <2>10, <2>11, <2>12, <2>13, <2>14, <1>1 DEF LeavingTo
    <3> QED
      BY <3>1 DEF Leaving, o
<1>9. CASE r \notin p.readFlags[x] /\ p.numRead[x] # Cardinality(p.rcvrs)
  <2>1. o = p
    BY <1>9, Zenon DEF Leave
  <2>2. \A i \in 1 .. Len(v) : \E m \in 1 .. Len(u) :
          v[i] = u[m] /\ (m <= n => r \notin p.readFlags[v[i]])
    <3> TAKE i \in 1 .. Len(v)
    <3>1. CASE v[i] = x
      BY <3>1, <1>9
    <3>2. CASE v[i] # x
      BY <3>2, <1>6
    <3> QED
      BY <3>1, <3>2
  <2>3. \A m \in n + 1 .. Len(u) : \E i \in 1 .. Len(v) : v[i] = u[m]
    BY <1>1, <1>5
  <2> QED
    <3>1. LeavingTo(q, u, f, r, n, p, v, g)
      BY <2>2, <2>3, <1>1 DEF LeavingTo
    <3> QED
      BY <3>1, <2>1 DEF Leaving
<1> QED
  BY <1>7, <1>8, <1>9

\* After all of them, by the least message after which it would not be so
LEMMA RemoveIs ==
  ASSUME NEW q, NEW u, NEW f, Sound(q, u, f), FlagsOK(q, u), NEW r \in q.rcvrs
  PROVE  \E v, g : /\ LeavingTo(q, u, f, r, Len(u), removeReceiver(q, r), v, g)
                   /\ FlagsOK(removeReceiver(q, r), v)
<1>0. Len(u) \in Nat /\ InUse(q.mq) = u
  BY SoundIs
<1>1. PICK left :
           /\ left[0] = Without(q, r)
           /\ \A n \in 1 .. Len(u) : left[n] = Leave(left[n - 1], u[n], r)
           /\ removeReceiver(q, r) = left[Len(u)]
  <2> DEFINE N == Len(u)
  <2>1. N \in Nat /\ N = Len(InUse(q.mq))
    BY <1>0
  <2> HIDE DEF N
  <2>2. \E left :
           /\ left[0] = Without(q, r)
           /\ \A n \in 1 .. N : left[n] = Leave(left[n - 1], InUse(q.mq)[n], r)
           /\ removeReceiver(q, r) = left[N]
    BY <2>1, LeftIs
  <2> QED
    BY <2>2, <1>0 DEF N
<1>2. \A n \in 0 .. Len(u) : Leaving(q, u, f, r, n, left[n])
  <2> DEFINE wrong == {n \in 0 .. Len(u) : ~Leaving(q, u, f, r, n, left[n])}
  <2> SUFFICES ASSUME wrong # {} PROVE FALSE
    OBVIOUS
  <2>1. wrong \subseteq Nat
    BY <1>0
  <2>2. PICK n \in wrong : \A m \in wrong : ~(<<m, n>> \in OpToRel(<, Nat))
    BY <2>1, NatLessThanWellFounded, WFMin, Zenon
  <2>3. n \in 0 .. Len(u) /\ ~Leaving(q, u, f, r, n, left[n])
    OBVIOUS
  <2>4. CASE n = 0
    BY <2>3, <2>4, <1>1, LeavingBegins
  <2>5. CASE n # 0
    <3>1. n \in 1 .. Len(u) /\ n - 1 \in 0 .. Len(u) /\ n - 1 \in Nat /\ n \in Nat /\ n - 1 < n
      BY <2>3, <2>5, <1>0
    <3>2. n - 1 \notin wrong
      BY <3>1, <2>2 DEF OpToRel
    <3>3. Leaving(q, u, f, r, n - 1, left[n - 1])
      BY <3>1, <3>2
    <3> DEFINE p == left[n - 1]
    <3>4. Leaving(q, u, f, r, n - 1, p)
      BY <3>3
    <3> HIDE DEF p
    <3>5. Leaving(q, u, f, r, n, Leave(p, u[n], r))
      BY <3>1, <3>4, LeavingGoesOn
    <3>6. left[n] = Leave(p, u[n], r)
      BY <3>1, <1>1 DEF p
    <3> QED
      BY <3>5, <3>6, <2>3
  <2> QED
    BY <2>4, <2>5
<1>3. PICK v, g : LeavingTo(q, u, f, r, Len(u), removeReceiver(q, r), v, g)
  <2>1. Len(u) \in 0 .. Len(u)
    BY <1>0
  <2> QED
    BY <2>1, <1>1, <1>2 DEF Leaving
<1>4. FlagsOK(removeReceiver(q, r), v)
  <2> DEFINE p == removeReceiver(q, r)
  <2> HIDE DEF p
  <2>1. LeavingTo(q, u, f, r, Len(u), p, v, g)
    BY <1>3 DEF p
  <2>2. \A i \in 1 .. Len(v) : p.readFlags[v[i]] \subseteq q.rcvrs /\ r \notin p.readFlags[v[i]]
    BY <2>1, <1>0 DEF LeavingTo
  <2>3. FlagsOK(p, v)
    BY <2>1, <2>2 DEF LeavingTo, FlagsOK
  <2> QED
    BY <2>3 DEF p
<1> QED
  BY <1>3, <1>4

-----------------------------------------------------------------------------
(* findCurrentMessage *)

\* A sequence has a first entry that is not in a set, or none.
LEMMA FirstOutside ==
  ASSUME NEW s \in Seq(Entries), NEW going
  PROVE  \E m \in 1 .. Len(s) + 1 :
           /\ \A i \in 1 .. m - 1 : s[i] \in going
           /\ m <= Len(s) => s[m] \notin going
<1>0. Len(s) \in Nat
  BY LenProperties
<1> DEFINE outside == {i \in 1 .. Len(s) : s[i] \notin going}
<1>1. CASE outside = {}
  <2>1. Len(s) + 1 \in 1 .. Len(s) + 1 /\ (Len(s) + 1) - 1 = Len(s) /\ ~(Len(s) + 1 <= Len(s))
    BY <1>0
  <2>2. \A i \in 1 .. Len(s) : s[i] \in going
    BY <1>1
  <2> QED
    BY <2>1, <2>2
<1>2. CASE outside # {}
  <2>1. outside \subseteq Nat
    BY <1>0
  <2>2. PICK m \in outside : \A k \in outside : ~(<<k, m>> \in OpToRel(<, Nat))
    BY <1>2, <2>1, NatLessThanWellFounded, WFMin, Zenon
  <2>3. m \in 1 .. Len(s) + 1 /\ s[m] \notin going
    BY <1>0
  <2>4. ASSUME NEW i \in 1 .. m - 1 PROVE s[i] \in going
    <3>1. i \in Nat /\ m \in Nat /\ i < m /\ i \in 1 .. Len(s)
      BY <2>3, <1>0
    <3>2. i \notin outside
      BY <3>1, <2>2 DEF OpToRel
    <3> QED
      BY <3>1, <3>2
  <2> QED
    BY <2>3, <2>4
<1> QED
  BY <1>1, <1>2

\* The walk stops at the first that is not in the set, or at the end.
LEMMA WalkIs ==
  ASSUME NEW s \in Seq(Entries), Len(s) <= MAX_ENTRIES, NEW step, NEW going \in SUBSET Entries,
         NEW m \in 1 .. Len(s) + 1,
         \A i \in 1 .. m - 1 : s[i] \in going /\ step[s[i]] = Nth(s, i + 1),
         m <= Len(s) => s[m] \notin going
  PROVE  Walk(Nth(s, 1), going, step) = Nth(s, m)
<1> DEFINE x == Nth(s, 1)
           at(w) == [n \in 0 .. MAX_ENTRIES + 1 |->
                       IF n = 0 THEN x
                       ELSE IF w[n - 1] \in going THEN step[w[n - 1]] ELSE w[n - 1]]
           W == [n \in 0 .. MAX_ENTRIES + 1 |-> Nth(s, IF n + 1 <= m THEN n + 1 ELSE m)]
           V == CHOOSE w : w = at(w)
<1>0. MAX_ENTRIES \in Nat /\ Len(s) \in Nat
  BY MaxEntriesAssumption, LenProperties
<1>1. Nth(s, m) \notin going
  <2>1. CASE m <= Len(s)
    <3>1. m \in 1 .. Len(s)
      BY <2>1, <1>0
    <3> QED
      BY <3>1, <2>1 DEF Nth
  <2>2. CASE m > Len(s)
    <3>1. Nth(s, m) = end /\ end \notin Entries
      BY <2>2, <1>0, MaxEntriesAssumption DEF Nth, end, Entries
    <3> QED
      BY <3>1
  <2> QED
    BY <2>1, <2>2, <1>0
<1>2. ASSUME NEW n \in 0 .. MAX_ENTRIES + 1
      PROVE  W[n] = IF n = 0 THEN x
                    ELSE IF W[n - 1] \in going THEN step[W[n - 1]] ELSE W[n - 1]
  <2>1. CASE n = 0
    <3>1. 0 + 1 <= m /\ n + 1 = 1
      BY <2>1, <1>0
    <3> QED
      BY <3>1, <2>1
  <2>2. CASE n # 0 /\ n < m
    <3>1. n \in 1 .. m - 1 /\ n - 1 \in 0 .. MAX_ENTRIES + 1 /\ (n - 1) + 1 = n /\ n <= m /\ n + 1 <= m
          /\ n \in 1 .. Len(s)
      BY <2>2, <1>0
    <3>2. W[n - 1] = Nth(s, n) /\ W[n] = Nth(s, n + 1)
      BY <3>1
    <3>3. Nth(s, n) = s[n]
      BY <3>1 DEF Nth
    <3> QED
      BY <3>1, <3>2, <3>3, <2>2
  <2>3. CASE n # 0 /\ ~(n < m)
    <3>1. n - 1 \in 0 .. MAX_ENTRIES + 1 /\ (n - 1) + 1 = n /\ ~(n + 1 <= m) /\ (n <= m => n = m)
      BY <2>3, <1>0
    <3>2. W[n - 1] = Nth(s, m) /\ W[n] = Nth(s, m)
      BY <3>1
    <3> QED
      BY <3>1, <3>2, <1>1, <2>3
  <2> QED
    BY <2>1, <2>2, <2>3
<1>3. W = at(W)
  BY <1>2
<1>4. V = at(V)
  BY <1>3, Zenon
<1>5. Walk(x, going, step) = V[MAX_ENTRIES + 1]
  BY Zenon DEF Walk
<1> HIDE DEF V
<1>6. \A n \in 0 .. MAX_ENTRIES + 1 : V[n] = W[n]
  <2> DEFINE wrong == {n \in 0 .. MAX_ENTRIES + 1 : V[n] # W[n]}
  <2> SUFFICES ASSUME wrong # {} PROVE FALSE
    OBVIOUS
  <2>1. wrong \subseteq Nat
    BY <1>0
  <2>2. PICK n \in wrong : \A k \in wrong : ~(<<k, n>> \in OpToRel(<, Nat))
    BY <2>1, NatLessThanWellFounded, WFMin, Zenon
  <2>3. V[n] = IF n = 0 THEN x ELSE IF V[n - 1] \in going THEN step[V[n - 1]] ELSE V[n - 1]
    BY <1>4
  <2>4. W[n] = IF n = 0 THEN x ELSE IF W[n - 1] \in going THEN step[W[n - 1]] ELSE W[n - 1]
    BY <1>2
  <2> HIDE DEF W
  <2>5. CASE n = 0
    BY <2>3, <2>4, <2>5
  <2>6. CASE n # 0
    <3>1. n - 1 \in 0 .. MAX_ENTRIES + 1 /\ n - 1 < n /\ n \in Nat /\ n - 1 \in Nat
      BY <1>0, <2>6
    <3>2. n - 1 \notin wrong
      BY <3>1, <2>2 DEF OpToRel
    <3>3. V[n - 1] = W[n - 1]
      BY <3>1, <3>2
    <3> QED
      BY <3>3, <2>3, <2>4, <2>6
  <2> QED
    BY <2>5, <2>6
<1>7. W[MAX_ENTRIES + 1] = Nth(s, m)
  <2>1. MAX_ENTRIES + 1 \in 0 .. MAX_ENTRIES + 1 /\ ~((MAX_ENTRIES + 1) + 1 <= m)
    BY <1>0
  <2> QED
    BY <2>1
<1>8. V[MAX_ENTRIES + 1] = W[MAX_ENTRIES + 1]
  BY <1>6, <1>0
<1> QED
  BY <1>5, <1>7, <1>8

\* A function on 1 .. n is a sequence of n entries.
LEMMA SequenceIs ==
  \A S, n, s : n \in Nat /\ s \in [1 .. n -> S] => s \in Seq(S) /\ Len(s) = n
OBVIOUS

\* The links lead from the k-th free entry, or the j-th of the list, to the end.
LEMMA PathIs ==
  ASSUME NEW q, NEW u, NEW f, Sound(q, u, f),
         NEW k \in 1 .. Len(f) + 1, NEW j \in 1 .. Len(u) + 1,
         k <= Len(f) => q.mq.next[f[Len(f)]] = Nth(u, j)
  PROVE  \E s \in Seq(Entries) :
           /\ Len(s) <= MAX_ENTRIES
           /\ Nth(s, 1) = IF k <= Len(f) THEN f[k] ELSE Nth(u, j)
           /\ \A i \in 1 .. Len(s) :
                /\ q.mq.next[s[i]] = Nth(s, i + 1)
                /\ \/ \E m \in 1 .. Len(u) : s[i] = u[m]
                   \/ \E m \in k .. Len(f) : s[i] = f[m]
<1> DEFINE a == Len(f) + 1 - k
           b == Len(u) + 1 - j
           L == a + b
           s == [n \in 1 .. L |-> IF n <= a THEN f[k + n - 1] ELSE u[j + n - a - 1]]
<1>0. /\ Len(u) \in Nat /\ Len(f) \in Nat /\ Len(u) + Len(f) = MAX_ENTRIES
      /\ \A i \in 1 .. Len(u) : u[i] \in Entries /\ u[i] # end
      /\ \A i \in 1 .. Len(f) : f[i] \in Entries
      /\ Is(q.mq, u, f) /\ u \in Seq(Entries)
  BY SoundIs DEF Sound
<1>N. Len(u) \in Nat /\ Len(f) \in Nat /\ Len(u) + Len(f) = MAX_ENTRIES /\ MAX_ENTRIES \in Nat
  BY <1>0, MaxEntriesAssumption
<1>A. a \in Nat /\ a <= Len(f) /\ b \in Nat /\ b <= Len(u)
  BY <1>N
<1>1. L \in Nat /\ L <= MAX_ENTRIES /\ a \in Nat /\ a <= L
  <2> HIDE DEF a, b
  <2> QED
    BY <1>N, <1>A
<1>K. k + a = Len(f) + 1 /\ j + L = Len(u) + 1 + a /\ k \in Nat /\ j \in Nat /\ k >= 1 /\ j >= 1
  BY <1>N
<1>2. ASSUME NEW n \in 1 .. L
      PROVE  /\ n <= a => s[n] = f[k + n - 1] /\ k + n - 1 \in k .. Len(f) /\ k + n - 1 \in 1 .. Len(f)
             /\ n > a => s[n] = u[j + n - a - 1] /\ j + n - a - 1 \in 1 .. Len(u)
  <2>1. s[n] = IF n <= a THEN f[k + n - 1] ELSE u[j + n - a - 1]
    OBVIOUS
  <2> HIDE DEF a, L, s
  <2> QED
    BY <2>1, <1>N, <1>1, <1>K
<1>3. s \in Seq(Entries) /\ Len(s) = L
  <2>1. \A n \in 1 .. L : s[n] \in Entries
    <3> TAKE n \in 1 .. L
    <3>1. n \in 1 .. L
      OBVIOUS
    <3> HIDE DEF s, a, b, L
    <3>2. CASE n <= a
      <4>1. s[n] = f[k + n - 1] /\ k + n - 1 \in 1 .. Len(f)
        BY <3>1, <3>2, <1>2
      <4> QED
        BY <4>1, <1>0
    <3>3. CASE ~(n <= a)
      <4>1. n > a
        BY <3>1, <3>3, <1>1
      <4>2. s[n] = u[j + n - a - 1] /\ j + n - a - 1 \in 1 .. Len(u)
        BY <3>1, <4>1, <1>2
      <4> QED
        BY <4>2, <1>0
    <3> QED
      BY <3>2, <3>3
  <2>2. s = [n \in 1 .. L |-> s[n]]
    OBVIOUS
  <2> HIDE DEF s
  <2>3. s \in [1 .. L -> Entries]
    BY <2>1, <2>2
  <2>4. L \in Nat
    BY <1>1
  <2> HIDE DEF L
  <2> QED
    BY <2>3, <2>4, SequenceIs, Zenon
<1>4. \A i \in 1 .. Len(u) : q.mq.next[u[i]] = Nth(u, i + 1)
  <2> TAKE i \in 1 .. Len(u)
  <2>1. i \in 0 .. Len(u) /\ Nth(u, i) = u[i]
    BY <1>0 DEF Nth
  <2>2. next(q.mq, Nth(u, i)) = Nth(u, i + 1)
    BY <2>1, <1>0 DEF Is, Linked
  <2> QED
    BY <2>1, <2>2, <1>0 DEF next
<1>5. \A i \in 1 .. Len(f) - 1 : q.mq.next[f[i]] = f[i + 1]
  BY <1>0 DEF Is, Queued
<1>6. ASSUME NEW n \in 1 .. L PROVE q.mq.next[s[n]] = Nth(s, n + 1)
  <2>N. n \in 1 .. L
    OBVIOUS
  <2> HIDE DEF s, L, a, b
  <2>1. CASE n < a
    <3>1. n + 1 \in 1 .. L /\ n + 1 <= a /\ k + (n + 1) - 1 = (k + n - 1) + 1 /\ k + n - 1 \in 1 .. Len(f) - 1
      BY <2>1, <2>N, <1>N, <1>1, <1>K
    <3>2. s[n] = f[k + n - 1]
      BY <2>1, <2>N, <1>1, <1>2
    <3>3. s[n + 1] = f[(k + n - 1) + 1]
      BY <3>1, <1>2
    <3>4. Nth(s, n + 1) = s[n + 1]
      BY <3>1, <1>3 DEF Nth
    <3> QED
      BY <3>1, <3>2, <3>3, <3>4, <1>5
  <2>2. CASE n = a
    <3>1. k + n - 1 = Len(f) /\ k <= Len(f) /\ j + (n + 1) - a - 1 = j
      BY <2>2, <2>N, <1>N, <1>1, <1>K
    <3>2. s[n] = f[Len(f)]
      BY <3>1, <2>2, <1>2
    <3>3. Nth(s, n + 1) = Nth(u, j)
      <4>1. CASE j = Len(u) + 1
        <5>1. n + 1 \notin 1 .. L
          BY <4>1, <2>2, <1>N, <1>1, <1>K
        <5>2. j \notin 1 .. Len(u)
          BY <4>1, <1>N
        <5> QED
          BY <5>1, <5>2, <1>3 DEF Nth
      <4>2. CASE j # Len(u) + 1
        <5>1. n + 1 \in 1 .. L /\ n + 1 > a /\ j \in 1 .. Len(u)
          BY <4>2, <2>2, <1>N, <1>1, <1>K
        <5>2. s[n + 1] = u[j]
          BY <5>1, <3>1, <1>2
        <5> QED
          BY <5>1, <5>2, <1>3 DEF Nth
      <4> QED
        BY <4>1, <4>2
    <3> QED
      BY <3>1, <3>2, <3>3
  <2>3. CASE n > a
    <3> DEFINE m == j + n - a - 1
    <3>1. m \in 1 .. Len(u) /\ s[n] = u[m]
      BY <2>3, <1>2
    <3>2. CASE n = L
      <4>1. m = Len(u) /\ n + 1 \notin 1 .. L /\ Len(u) + 1 \notin 1 .. Len(u)
        BY <3>2, <1>N, <1>1, <1>K
      <4> HIDE DEF m
      <4> QED
        BY <4>1, <3>1, <1>3, <1>4 DEF Nth
    <3>3. CASE n # L
      <4>1. n + 1 \in 1 .. L /\ n + 1 > a /\ m + 1 = j + (n + 1) - a - 1 /\ m + 1 \in 1 .. Len(u)
        BY <3>3, <2>3, <2>N, <1>N, <1>1, <1>K
      <4>2. s[n + 1] = u[m + 1]
        BY <4>1, <1>2
      <4> HIDE DEF m
      <4> QED
        BY <4>1, <4>2, <3>1, <1>3, <1>4 DEF Nth
    <3> QED
      BY <3>2, <3>3
  <2> QED
    BY <2>1, <2>2, <2>3, <1>1
<1>7. Nth(s, 1) = IF k <= Len(f) THEN f[k] ELSE Nth(u, j)
  <2> HIDE DEF s, L, a, b
  <2>1. CASE k <= Len(f)
    <3>1. 1 \in 1 .. L /\ 1 <= a /\ k + 1 - 1 = k
      BY <2>1, <1>N, <1>1, <1>K
    <3> QED
      BY <3>1, <2>1, <1>2, <1>3 DEF Nth
  <2>2. CASE k > Len(f) /\ j <= Len(u)
    <3>1. 1 \in 1 .. L /\ 1 > a /\ j + 1 - a - 1 = j /\ j \in 1 .. Len(u) /\ ~(k <= Len(f))
      BY <2>2, <1>N, <1>1, <1>K
    <3>2. s[1] = u[j]
      BY <3>1, <1>2
    <3> QED
      BY <3>1, <3>2, <1>3 DEF Nth
  <2>3. CASE k > Len(f) /\ j > Len(u)
    <3>1. L = 0 /\ ~(k <= Len(f)) /\ j \notin 1 .. Len(u)
      BY <2>3, <1>N, <1>1, <1>K
    <3> QED
      BY <3>1, <1>3 DEF Nth
  <2> QED
    BY <2>1, <2>2, <2>3, <1>N
<1>8. ASSUME NEW n \in 1 .. L
      PROVE  \/ \E m \in 1 .. Len(u) : s[n] = u[m]
             \/ \E m \in k .. Len(f) : s[n] = f[m]
  <2>1. n \in 1 .. L /\ (n <= a \/ n > a)
    BY <1>1
  <2> HIDE DEF s, L, a, b
  <2>2. CASE n <= a
    <3>1. s[n] = f[k + n - 1] /\ k + n - 1 \in k .. Len(f)
      BY <2>1, <2>2, <1>2
    <3> QED
      BY <3>1
  <2>3. CASE n > a
    <3>1. s[n] = u[j + n - a - 1] /\ j + n - a - 1 \in 1 .. Len(u)
      BY <2>1, <2>3, <1>2
    <3> QED
      BY <3>1
  <2> QED
    BY <2>1, <2>2, <2>3
<1> HIDE DEF s, L, a, b
<1>9. \A i \in 1 .. Len(s) :
        /\ q.mq.next[s[i]] = Nth(s, i + 1)
        /\ \/ \E m \in 1 .. Len(u) : s[i] = u[m]
           \/ \E m \in k .. Len(f) : s[i] = f[m]
  <2> TAKE i \in 1 .. Len(s)
  <2>1. i \in 1 .. L
    BY <1>3
  <2> QED
    BY <2>1, <1>6, <1>8
<1>10. s \in Seq(Entries) /\ Len(s) <= MAX_ENTRIES
  BY <1>1, <1>3
<1> QED
  BY <1>7, <1>9, <1>10

\* The way on from a place leads to a place, in the list or the free queue, or to the end.
LEMMA ForthIs ==
  ASSUME NEW q, NEW u, NEW f, Sound(q, u, f), NEW r, NEW x, Near(q, u, f, r, x), x # end,
         NEW going \in SUBSET Entries
  PROVE  LET y == Walk(x, going, q.mq.next)
         IN  y \in Indices /\ y \notin going /\ Near(q, u, f, r, y)
<1>0. /\ Len(u) \in Nat /\ Len(f) \in Nat
      /\ \A i \in 1 .. Len(u) : u[i] \in Entries
      /\ \A i \in 1 .. Len(f) : f[i] \in Entries
  BY SoundIs
<1>1. \E k \in 1 .. Len(f) + 1, j \in 1 .. Len(u) + 1 :
        /\ k <= Len(f) => q.mq.next[f[Len(f)]] = Nth(u, j)
        /\ x = IF k <= Len(f) THEN f[k] ELSE Nth(u, j)
        /\ \A i \in k .. Len(f) : r \in q.readFlags[f[i]]
  <2>1. ASSUME NEW i \in 1 .. Len(u), x = u[i]
        PROVE  /\ Len(f) + 1 \in 1 .. Len(f) + 1 /\ i \in 1 .. Len(u) + 1
               /\ ~(Len(f) + 1 <= Len(f)) /\ x = Nth(u, i)
               /\ \A h \in Len(f) + 1 .. Len(f) : r \in q.readFlags[f[h]]
    BY <2>1, <1>0 DEF Nth
  <2>2. ASSUME NEW k \in 1 .. Len(f), x = f[k], \A i \in k .. Len(f) : r \in q.readFlags[f[i]]
        PROVE  \E j \in 1 .. Len(u) + 1 :
                 /\ k \in 1 .. Len(f) + 1 /\ k <= Len(f)
                 /\ q.mq.next[f[Len(f)]] = Nth(u, j)
    <3>0. k \in 1 .. Len(f) + 1 /\ k <= Len(f) /\ Len(f) # 0
      BY <1>0
    <3>1. f # <<>>
      BY <3>0, SoundIs
    <3>2. CASE q.mq.next[f[Len(f)]] = end
      <4>1. Len(u) + 1 \in 1 .. Len(u) + 1 /\ Nth(u, Len(u) + 1) = end
        BY <1>0 DEF Nth
      <4> QED
        BY <4>1, <3>0, <3>2
    <3>3. ASSUME NEW i \in 1 .. Len(u), q.mq.next[f[Len(f)]] = u[i]
          PROVE  i \in 1 .. Len(u) + 1 /\ q.mq.next[f[Len(f)]] = Nth(u, i)
      BY <3>3, <1>0 DEF Nth
    <3> QED
      BY <3>0, <3>1, <3>2, <3>3 DEF Sound, LastLink
  <2> QED
    BY <2>1, <2>2 DEF Near
<1>2. PICK k \in 1 .. Len(f) + 1, j \in 1 .. Len(u) + 1 :
        /\ k <= Len(f) => q.mq.next[f[Len(f)]] = Nth(u, j)
        /\ x = IF k <= Len(f) THEN f[k] ELSE Nth(u, j)
        /\ \A i \in k .. Len(f) : r \in q.readFlags[f[i]]
  BY <1>1
<1>3. PICK s \in Seq(Entries) :
           /\ Len(s) <= MAX_ENTRIES
           /\ Nth(s, 1) = IF k <= Len(f) THEN f[k] ELSE Nth(u, j)
           /\ \A i \in 1 .. Len(s) :
                /\ q.mq.next[s[i]] = Nth(s, i + 1)
                /\ \/ \E m \in 1 .. Len(u) : s[i] = u[m]
                   \/ \E m \in k .. Len(f) : s[i] = f[m]
  BY <1>2, PathIs
<1>4. PICK m \in 1 .. Len(s) + 1 :
           /\ \A i \in 1 .. m - 1 : s[i] \in going
           /\ m <= Len(s) => s[m] \notin going
  BY FirstOutside
<1>5. Walk(x, going, q.mq.next) = Nth(s, m)
  <2>1. Len(s) \in Nat
    BY LenProperties
  <2>2. \A i \in 1 .. m - 1 : s[i] \in going /\ q.mq.next[s[i]] = Nth(s, i + 1)
    <3> TAKE i \in 1 .. m - 1
    <3>1. i \in 1 .. Len(s)
      BY <2>1
    <3> QED
      BY <3>1, <1>3, <1>4
  <2>3. x = Nth(s, 1)
    BY <1>2, <1>3
  <2> DEFINE step == q.mq.next
  <2>4. \A i \in 1 .. m - 1 : s[i] \in going /\ step[s[i]] = Nth(s, i + 1)
    BY <2>2
  <2> HIDE DEF step
  <2>5. Walk(Nth(s, 1), going, step) = Nth(s, m)
    BY <2>4, <1>3, <1>4, WalkIs
  <2> QED
    BY <2>3, <2>5 DEF step
<1>6. CASE m <= Len(s)
  <2>1. m \in 1 .. Len(s) /\ Nth(s, m) = s[m]
    BY <1>6, LenProperties DEF Nth
  <2>2. s[m] \in Entries
    BY <2>1, ElementOfSeq
  <2>3. Near(q, u, f, r, s[m])
    <3>1. CASE \E i \in 1 .. Len(u) : s[m] = u[i]
      BY <3>1 DEF Near
    <3>2. ASSUME NEW i \in k .. Len(f), s[m] = f[i] PROVE Near(q, u, f, r, s[m])
      <4>1. i \in 1 .. Len(f) /\ \A h \in i .. Len(f) : h \in k .. Len(f)
        BY <1>0
      <4>2. \A h \in i .. Len(f) : r \in q.readFlags[f[h]]
        BY <4>1, <1>2
      <4> QED
        BY <4>1, <4>2, <3>2 DEF Near
    <3> QED
      BY <3>1, <3>2, <2>1, <1>3
  <2> QED
    BY <2>1, <2>2, <2>3, <1>4, <1>5, <1>6 DEF Indices
<1>7. CASE ~(m <= Len(s))
  <2>1. Nth(s, m) = end
    BY <1>7, LenProperties DEF Nth
  <2>2. end \notin Entries /\ end \in Indices
    BY MaxEntriesAssumption DEF Entries, end, Indices
  <2> QED
    BY <2>1, <2>2, <1>5 DEF Near
<1> QED
  BY <1>6, <1>7

\* The way back and on once: to the first of the last messages that are all in the set.
LEMMA BackIs ==
  ASSUME NEW q, NEW u, NEW f, Sound(q, u, f), NEW going \in SUBSET Entries
  PROVE  \E k \in 0 .. Len(u) :
           /\ newer(q, Walk(newest(q), going, q.mq.prev)) = Nth(u, k + 1)
           /\ \A i \in k + 1 .. Len(u) : u[i] \in going
           /\ k > 0 => u[k] \notin going
<1>0. /\ Len(u) \in Nat /\ Len(f) \in Nat /\ Len(u) + Len(f) = MAX_ENTRIES
      /\ \A i \in 1 .. Len(u) : u[i] \in Entries /\ u[i] # end
      /\ Is(q.mq, u, f) /\ u \in Seq(Entries)
  BY SoundIs DEF Sound
<1> DEFINE N == Len(u)
           s == [i \in 1 .. N |-> u[N + 1 - i]]
           step == q.mq.prev
<1>1. s \in Seq(Entries) /\ Len(s) = N
  <2>1. \A i \in 1 .. N : N + 1 - i \in 1 .. Len(u)
    BY <1>0
  <2>2. s \in [1 .. N -> Entries]
    BY <2>1, <1>0
  <2>3. N \in Nat
    BY <1>0
  <2> HIDE DEF s, N
  <2> QED
    BY <2>2, <2>3, SequenceIs, Zenon
<1>2. \A i \in 1 .. N : s[i] = Nth(u, N + 1 - i)
  BY <1>0 DEF Nth
<1>3. \A i \in 0 .. N + 1 : Nth(s, i) = Nth(u, N + 1 - i)
  <2> TAKE i \in 0 .. N + 1
  <2>1. CASE i \in 1 .. N
    BY <2>1, <1>1, <1>2 DEF Nth
  <2>2. CASE i \notin 1 .. N
    <3>1. N + 1 - i \notin 1 .. Len(u)
      BY <2>2, <1>0
    <3> QED
      BY <3>1, <2>2, <1>1 DEF Nth
  <2> QED
    BY <2>1, <2>2
<1>4. newest(q) = Nth(s, 1)
  <2>1. q.mq.activeBack = Nth(u, Len(u))
    BY <1>0, EndsAre
  <2>2. 1 \in 0 .. N + 1 /\ N + 1 - 1 = N
    BY <1>0
  <2>3. Nth(s, 1) = Nth(u, N)
    BY <1>3, <2>2
  <2> QED
    BY <2>1, <2>3 DEF newest, prev
<1> HIDE DEF s
<1>5. PICK m \in 1 .. Len(s) + 1 :
           /\ \A i \in 1 .. m - 1 : s[i] \in going
           /\ m <= Len(s) => s[m] \notin going
  BY <1>1, FirstOutside
<1>6. \A i \in 1 .. m - 1 : s[i] \in going /\ step[s[i]] = Nth(s, i + 1)
  <2> TAKE i \in 1 .. m - 1
  <2>1. i \in 1 .. N /\ i + 1 \in 0 .. N + 1 /\ N - i \in 0 .. Len(u) /\ (N - i) + 1 = N + 1 - i
        /\ N + 1 - (i + 1) = N - i /\ N + 1 - i \in 1 .. Len(u)
    BY <1>0, <1>1
  <2>2. prev(q.mq, Nth(u, (N - i) + 1)) = Nth(u, N - i)
    BY <2>1, <1>0 DEF Is, Linked
  <2>3. Nth(u, N + 1 - i) # end
    BY <2>1, <1>0 DEF Nth
  <2>4. step[s[i]] = Nth(u, N - i)
    BY <2>1, <2>2, <2>3, <1>2 DEF prev
  <2>5. Nth(s, i + 1) = Nth(u, N - i)
    BY <2>1, <1>3
  <2> QED
    BY <2>4, <2>5, <1>5
<1> HIDE DEF step
<1>7. Walk(Nth(s, 1), going, step) = Nth(s, m)
  <2>1. Len(s) <= MAX_ENTRIES
    BY <1>0, <1>1
  <2> QED
    BY <2>1, <1>1, <1>5, <1>6, WalkIs
<1> DEFINE k == N + 1 - m
<1>8. k \in 0 .. Len(u) /\ m \in 0 .. N + 1 /\ (k > 0 => m \in 1 .. N /\ k \in 1 .. Len(u))
  BY <1>0, <1>1
<1>9. Nth(s, m) = Nth(u, k)
  BY <1>3, <1>8
<1>10. newer(q, Walk(newest(q), going, q.mq.prev)) = Nth(u, k + 1)
  <2>1. next(q.mq, Nth(u, k)) = Nth(u, k + 1)
    BY <1>8, <1>0 DEF Is, Linked
  <2> QED
    BY <2>1, <1>4, <1>7, <1>9 DEF newer, step
<1>11. ASSUME NEW i \in k + 1 .. Len(u) PROVE u[i] \in going
  <2>1. N + 1 - i \in 1 .. m - 1 /\ N + 1 - i \in 1 .. N /\ N + 1 - (N + 1 - i) = i /\ i \in 1 .. Len(u)
    BY <1>0, <1>8
  <2>2. s[N + 1 - i] = u[i]
    BY <2>1, <1>2 DEF Nth
  <2> QED
    BY <2>1, <2>2, <1>5
<1>12. ASSUME k > 0 PROVE u[k] \notin going
  <2>1. s[m] = u[k] /\ m <= Len(s)
    BY <1>8, <1>12, <1>1, <1>2 DEF Nth
  <2> QED
    BY <2>1, <1>5
<1> HIDE DEF k
<1> QED
  BY <1>8, <1>10, <1>11, <1>12
-----------------------------------------------------------------------------
(* What each call on the queue keeps, under every policy *)

\* After a call the queue is as sound as before, and nobody's place is lost.
Follows(q, u, f, p, v, g) ==
  /\ Sound(p, v, g) /\ FlagsOK(p, v)
  /\ \A r \in p.rcvrs, x \in Indices : Near(q, u, f, r, x) => Near(p, v, g, r, x)

\* The messages that have left the queue and those that are in it
Gone(q) == q.messagesRead + q.mq.cursize

\* Calls that leave the list, the numbers and the marks alone
LEMMA AloneIs ==
  ASSUME NEW q, NEW u, NEW f, Sound(q, u, f), FlagsOK(q, u), NEW p \in Fields,
         p.mq = q.mq, p.sn = q.sn, p.readFlags = q.readFlags, p.numRead = q.numRead,
         p.numMessages = q.numMessages, q.rcvrs \subseteq p.rcvrs
  PROVE  Follows(q, u, f, p, u, f)
<1>1. Sound(p, u, f)
  BY DEF Sound
<1>2. FlagsOK(p, u)
  BY DEF FlagsOK
<1>3. \A r \in p.rcvrs, x \in Indices : Near(q, u, f, r, x) => Near(p, u, f, r, x)
  BY DEF Near
<1> QED
  BY <1>1, <1>2, <1>3 DEF Follows

\* writing the message, wherever the last slot is
LEMMA WrittenKeeps ==
  ASSUME NEW q, NEW u, NEW f, Sound(q, u, f), FlagsOK(q, u)
  PROVE  LET p == Written(q)
         IN  /\ Follows(q, u, f, p, u, f)
             /\ p.mq = q.mq /\ p.rcvrs = q.rcvrs /\ p.messagesRead = q.messagesRead
             /\ p.numMessages = q.numMessages + 1
<1> DEFINE p == Written(q)
           x == newest(q)
           a == [q.sn EXCEPT ![x] = q.numMessages]
           n == q.numMessages + 1
           s == [r \in Receivers |-> IF r \in q.rcvrs THEN q.sem[r] + 1 ELSE q.sem[r]]
<1>1. q \in Fields
  BY DEF Sound
<1>2. a \in [Entries -> Nat] /\ n \in Nat /\ s \in [Receivers -> Nat] /\ \A y \in Entries : a[y] <= n
  <2>1. q.numMessages \in Nat /\ q.sn \in [Entries -> Nat]
    BY <1>1 DEF Fields
  <2>2. \A y \in Entries : q.sn[y] <= q.numMessages
    BY DEF Sound
  <2> HIDE DEF x
  <2>3. \A y \in Entries : a[y] = IF y = x THEN q.numMessages ELSE q.sn[y]
    BY <2>1
  <2>4. a \in [Entries -> Nat]
    BY <2>1
  <2>5. s \in [Receivers -> Nat]
    BY <1>1 DEF Fields
  <2> HIDE DEF a
  <2> QED
    BY <2>1, <2>2, <2>3, <2>4, <2>5
<1>3. p = [q EXCEPT !.sn = a, !.numMessages = n, !.sem = s]
  <2> HIDE DEF x
  <2>1. p = Raised([q EXCEPT !.sn = a, !.numMessages = n])
    BY Zenon DEF Written, x
  <2>2. a \in [Entries -> Nat] /\ n \in Nat
    BY <1>2
  <2> HIDE DEF a, n
  <2> QED
    BY <2>1, <2>2, <1>1 DEF Raised, Fields
<1> HIDE DEF x, a, n, s, p
<1>4. /\ p \in Fields /\ p.mq = q.mq /\ p.numRead = q.numRead /\ p.readFlags = q.readFlags
      /\ p.sn = a /\ p.numMessages = n /\ p.rcvrs = q.rcvrs /\ p.messagesRead = q.messagesRead
  BY <1>1, <1>2, <1>3 DEF Fields
<1>5. Sound(p, u, f)
  BY <1>2, <1>4 DEF Sound
<1>6. FlagsOK(p, u)
  BY <1>4 DEF FlagsOK
<1>7. \A r \in p.rcvrs, y \in Indices : Near(q, u, f, r, y) => Near(p, u, f, r, y)
  BY <1>4 DEF Near
<1>8. Follows(q, u, f, p, u, f)
  BY <1>5, <1>6, <1>7 DEF Follows
<1> QED
  BY <1>4, <1>8 DEF p, n

\* a slot behind the others
LEMMA NewSlotKeeps ==
  ASSUME NEW q, NEW u, NEW f, Sound(q, u, f), FlagsOK(q, u), f # <<>>
  PROVE  LET p == NewSlot(q)
         IN  /\ \E v, g : Follows(q, u, f, p, v, g) /\ Pushed(u, f, v, g)
             /\ p.rcvrs = q.rcvrs /\ p.messagesRead = q.messagesRead
             /\ p.numMessages = q.numMessages /\ p.mq.cursize = q.mq.cursize + 1
<1> DEFINE p == NewSlot(q)
<1>1. \E v, g : Slotted(q, u, f, p, v, g)
  BY NewSlotIs
<1> HIDE DEF p
<1>2. PICK v, g : Slotted(q, u, f, p, v, g)
  BY <1>1
<1>0. q \in Fields /\ Is(q.mq, u, f) /\ Sound(p, v, g) /\ Pushed(u, f, v, g)
  BY <1>2 DEF Sound, Slotted
<1>3. /\ p.rcvrs = q.rcvrs /\ p.messagesRead = q.messagesRead /\ p.numMessages = q.numMessages
      /\ p.readFlags = [q.readFlags EXCEPT ![f[1]] = {}]
  BY <1>2 DEF Slotted
<1>4. /\ Len(u) \in Nat /\ Len(f) \in Nat /\ \A i \in 1 .. Len(u) : u[i] \in Entries
      /\ \A i \in 1 .. Len(u), j \in 1 .. Len(f) : u[i] # f[j]
  BY SoundIs
<1>5. \A y \in Entries : y # f[1] => p.readFlags[y] = q.readFlags[y]
  BY <1>0, <1>3 DEF Fields
<1>6. FlagsOK(p, v)
  <2>1. ASSUME NEW i \in 1 .. Len(v), i <= Len(u) PROVE p.readFlags[v[i]] \subseteq p.rcvrs
    <3>1. i \in 1 .. Len(u) /\ 1 \in 1 .. Len(f)
      BY <2>1, <1>0, <1>4 DEF Pushed
    <3>2. v[i] = u[i] /\ u[i] # f[1] /\ u[i] \in Entries
      BY <3>1, <1>0, <1>4 DEF Pushed
    <3>3. p.readFlags[v[i]] = q.readFlags[u[i]]
      BY <3>2, <1>5
    <3> QED
      BY <3>1, <3>3, <1>3 DEF FlagsOK
  <2>2. ASSUME NEW i \in 1 .. Len(v), ~(i <= Len(u)) PROVE p.readFlags[v[i]] \subseteq p.rcvrs
    <3>1. i = Len(u) + 1 /\ 1 \in 1 .. Len(f)
      BY <2>2, <1>0, <1>4 DEF Pushed
    <3>2. v[i] = f[1] /\ f[1] \in Entries
      BY <3>1, <1>0, SoundIs DEF Pushed
    <3>3. p.readFlags[v[i]] = {}
      BY <3>2, <1>0, <1>3 DEF Fields
    <3> QED
      BY <3>3
  <2> QED
    BY <2>1, <2>2 DEF FlagsOK
<1>7. \A r \in p.rcvrs, x \in Indices : Near(q, u, f, r, x) => Near(p, v, g, r, x)
  BY <1>0, <1>5, NearPush
<1>8. p.mq.cursize = q.mq.cursize + 1
  BY <1>0 DEF Sound, Is, Pushed
<1> QED
  BY <1>0, <1>3, <1>6, <1>7, <1>8 DEF p, Follows

\* to follow is transitive
LEMMA FollowsOn ==
  ASSUME NEW q, NEW u, NEW f, NEW p, NEW v, NEW g, NEW o, NEW w, NEW h,
         Follows(q, u, f, p, v, g), Follows(p, v, g, o, w, h), o.rcvrs = p.rcvrs
  PROVE  Follows(q, u, f, o, w, h)
BY DEF Follows

\* sendMessage
LEMMA PostKeeps ==
  ASSUME NEW q, NEW u, NEW f, Sound(q, u, f), FlagsOK(q, u), f # <<>>
  PROVE  LET p == Post(q)
         IN  /\ \E v, g : Follows(q, u, f, p, v, g)
             /\ p.rcvrs = q.rcvrs /\ Gone(p) = Gone(q) + 1
             /\ p.numMessages = q.numMessages + 1 /\ p.messagesRead = q.messagesRead
<1> DEFINE o == NewSlot(q)
           p == Written(o)
<1>1. /\ \E v, g : Follows(q, u, f, o, v, g) /\ Pushed(u, f, v, g)
      /\ o.rcvrs = q.rcvrs /\ o.messagesRead = q.messagesRead
      /\ o.numMessages = q.numMessages /\ o.mq.cursize = q.mq.cursize + 1
  BY NewSlotKeeps
<1> HIDE DEF o
<1>2. PICK v, g : Follows(q, u, f, o, v, g)
  BY <1>1
<1>3. Sound(o, v, g) /\ FlagsOK(o, v)
  BY <1>2 DEF Follows
<1>4. /\ Follows(o, v, g, p, v, g)
      /\ p.mq = o.mq /\ p.rcvrs = o.rcvrs /\ p.messagesRead = o.messagesRead
      /\ p.numMessages = o.numMessages + 1
  BY <1>3, WrittenKeeps
<1> HIDE DEF p
<1>5. Follows(q, u, f, p, v, g)
  BY <1>2, <1>4, FollowsOn
<1>6. Gone(p) = Gone(q) + 1
  <2>1. q.mq.cursize \in Int /\ q.messagesRead \in Int
    BY DEF Sound, Fields, Buffers
  <2> QED
    BY <2>1, <1>1, <1>4 DEF Gone
<1> QED
  BY <1>1, <1>4, <1>5, <1>6 DEF Post, p, o

\* DROP_OLDEST: the oldest message leaves.
LEMMA DropFirst ==
  ASSUME NEW q, NEW u, NEW f, Sound(q, u, f), 1 \in 1 .. Len(u)
  PROVE  /\ DropOldest(q) = [q EXCEPT !.mq = erase(q.mq, u[1])]
         /\ \E v, g : Removed(u, f, v, g, 1) /\ Sound(DropOldest(q), v, g)
<1>1. PICK n \in 1 .. Len(u) : n = 1
  OBVIOUS
<1>2. \E p : /\ p = Drop(q, u[n])
             /\ p = [q EXCEPT !.mq = erase(q.mq, u[n]), !.messagesRead = @ + 1]
             /\ n = 1 => DropOldest(q) = [q EXCEPT !.mq = erase(q.mq, u[n])]
             /\ \E v, g :
               /\ Sound(p, v, g) /\ Removed(u, f, v, g, n)
               /\ p.mq.next[u[n]] = Nth(u, n + 1)
               /\ n = 1 => Sound(DropOldest(q), v, g)
  BY DropIs
<1> QED
  BY <1>1, <1>2

\* sendMessage into a full queue that drops the oldest: with no entry free, every
\* place is in the list.
LEMMA ReplaceKeeps ==
  ASSUME NEW q, NEW u, NEW f, Sound(q, u, f), FlagsOK(q, u), f = <<>>
  PROVE  LET p == NewSlot(DropOldest(q))
         IN  /\ \E v, g : Follows(q, u, f, p, v, g)
             /\ p.rcvrs = q.rcvrs /\ Gone(p) = Gone(q)
             /\ p.numMessages = q.numMessages /\ p.messagesRead = q.messagesRead
<1> DEFINE o == DropOldest(q)
           p == NewSlot(o)
<1>0. /\ Len(u) \in Nat /\ Len(f) = 0 /\ Len(u) + Len(f) = MAX_ENTRIES /\ MAX_ENTRIES >= 1
      /\ 1 \in 1 .. Len(u) /\ q \in Fields
  <2>1. Len(u) \in Nat /\ Len(f) = 0 /\ Len(u) + Len(f) = MAX_ENTRIES
    BY SoundIs
  <2> QED
    BY <2>1, MaxEntriesAssumption DEF Sound
<1>1. /\ o = [q EXCEPT !.mq = erase(q.mq, u[1])]
      /\ \E v, g : Removed(u, f, v, g, 1) /\ Sound(o, v, g)
  <2>1. 1 \in 1 .. Len(u)
    BY <1>0
  <2> QED
    BY <2>1, DropFirst
<1>2. /\ o.rcvrs = q.rcvrs /\ o.messagesRead = q.messagesRead /\ o.numMessages = q.numMessages
      /\ o.readFlags = q.readFlags
  BY <1>0, <1>1 DEF Fields
<1>3. PICK v, g : Removed(u, f, v, g, 1) /\ Sound(o, v, g)
  BY <1>1
<1> HIDE DEF o
<1>4. Len(v) = Len(u) - 1 /\ Len(g) = 1 /\ g # <<>>
  <2>1. Len(v) = Len(u) - 1 /\ Len(g) = 1
    BY <1>3, <1>0 DEF Removed
  <2> QED
    BY <2>1, <1>3, SoundIs
<1>5. FlagsOK(o, v)
  <2> SUFFICES ASSUME NEW i \in 1 .. Len(v) PROVE o.readFlags[v[i]] \subseteq o.rcvrs
    BY DEF FlagsOK
  <2>1. i + 1 \in 1 .. Len(u) /\ v[i] = u[i + 1]
    BY <1>0, <1>3, <1>4 DEF Removed
  <2> QED
    BY <2>1, <1>2 DEF FlagsOK
<1>6. /\ \E w, h : Follows(o, v, g, p, w, h) /\ Pushed(v, g, w, h)
      /\ p.rcvrs = o.rcvrs /\ p.messagesRead = o.messagesRead
      /\ p.numMessages = o.numMessages /\ p.mq.cursize = o.mq.cursize + 1
  BY <1>3, <1>4, <1>5, NewSlotKeeps
<1> HIDE DEF p
<1>7. PICK w, h : Follows(o, v, g, p, w, h) /\ Pushed(v, g, w, h)
  BY <1>6
<1>8. Sound(p, w, h) /\ FlagsOK(p, w) /\ h = <<>>
  <2>1. Sound(p, w, h) /\ FlagsOK(p, w)
    BY <1>7 DEF Follows
  <2>2. Len(h) = 0
    BY <1>7, <1>4 DEF Pushed
  <2> QED
    BY <2>1, <2>2, SoundIs
<1>9. Follows(q, u, f, p, w, h)
  BY <1>8, NearIfFull DEF Follows
<1>10. Gone(p) = Gone(q)
  <2>1. q.mq.cursize = Len(u) /\ o.mq.cursize = Len(v) /\ q.messagesRead \in Int
    BY <1>3, <1>0 DEF Sound, Is, Fields
  <2> QED
    BY <2>1, <1>0, <1>2, <1>4, <1>6 DEF Gone
<1> QED
  BY <1>2, <1>6, <1>9, <1>10 DEF p, o

\* markRead
LEMMA MarkKeeps ==
  ASSUME NEW q, NEW u, NEW f, Sound(q, u, f), FlagsOK(q, u), NEW r \in Receivers,
         NEW x \in Entries, Near(q, u, f, r, x)
  PROVE  LET p == markRead(q, x, r)
         IN  /\ \E v, g : Follows(q, u, f, p, v, g)
             /\ p.rcvrs = q.rcvrs /\ Gone(p) = Gone(q) /\ p.numMessages = q.numMessages
<1> DEFINE p == markRead(q, x, r)
<1>0. q \in Fields /\ Len(u) \in Nat /\ Len(f) \in Nat
  BY SoundIs DEF Sound
<1>1. CASE ~NewlyRead(q, x, r)
  <2>1. p = q
    BY <1>1 DEF markRead
  <2>2. Follows(q, u, f, q, u, f)
    BY <1>0, AloneIs
  <2> QED
    BY <2>1, <2>2
<1>2. CASE NewlyRead(q, x, r)
  <2>1. PICK n \in 1 .. Len(u) : x = u[n]
    <3>1. end \notin Entries
      BY MaxEntriesAssumption DEF Entries, end
    <3>2. ASSUME NEW k \in 1 .. Len(f), x = f[k], \A j \in k .. Len(f) : r \in q.readFlags[f[j]]
          PROVE  FALSE
      <4>1. k \in k .. Len(f)
        BY <1>0
      <4> QED
        BY <4>1, <3>2, <1>2 DEF NewlyRead
    <3> QED
      BY <3>1, <3>2 DEF Near
  <2> DEFINE all == q.readFlags[x] \cup {r}
  <2>2. /\ p.readFlags = [q.readFlags EXCEPT ![u[n]] = all]
        /\ p.sn = q.sn /\ p.rcvrs = q.rcvrs /\ p.numMessages = q.numMessages
        /\ all # q.rcvrs => Sound(p, u, f) /\ p.mq = q.mq /\ p.messagesRead = q.messagesRead
        /\ all = q.rcvrs =>
             /\ p.messagesRead = q.messagesRead + 1
             /\ \E v, g : Sound(p, v, g) /\ Removed(u, f, v, g, n)
    BY <1>2, <2>1, MarkReadIs
  <2> HIDE DEF p
  <2>3. all \subseteq q.rcvrs
    BY <1>2, <2>1 DEF FlagsOK, NewlyRead
  <2>4. q.readFlags \in [Entries -> SUBSET Receivers]
    BY <1>0 DEF Fields
  <2>5. \A y \in Entries : p.readFlags[y] = IF y = x THEN all ELSE q.readFlags[y]
    BY <2>1, <2>2, <2>4
  <2>6. \A i \in 1 .. Len(u) : p.readFlags[u[i]] \subseteq q.rcvrs
    <3> TAKE i \in 1 .. Len(u)
    <3>1. u[i] \in Entries /\ q.readFlags[u[i]] \subseteq q.rcvrs
      BY SoundIs DEF FlagsOK
    <3> QED
      BY <3>1, <2>3, <2>5
  <2>7. \A j \in 1 .. Len(f) : p.readFlags[f[j]] = q.readFlags[f[j]]
    <3> TAKE j \in 1 .. Len(f)
    <3>1. f[j] \in Entries /\ f[j] # x
      BY <2>1, SoundIs
    <3> QED
      BY <3>1, <2>5
  <2> HIDE DEF all
  <2>8. CASE all # q.rcvrs
    <3>1. FlagsOK(p, u)
      BY <2>2, <2>6 DEF FlagsOK
    <3>2. \A r2 \in p.rcvrs, y \in Indices : Near(q, u, f, r2, y) => Near(p, u, f, r2, y)
      BY <2>7, NearKept
    <3>3. Follows(q, u, f, p, u, f) /\ Gone(p) = Gone(q)
      BY <2>2, <2>8, <3>1, <3>2 DEF Follows, Gone
    <3> QED
      BY <3>3, <2>2 DEF p
  <2>9. CASE all = q.rcvrs
    <3>1. PICK v, g : Sound(p, v, g) /\ Removed(u, f, v, g, n)
      BY <2>2, <2>9
    <3>2. FlagsOK(p, v)
      <4> SUFFICES ASSUME NEW i \in 1 .. Len(v) PROVE p.readFlags[v[i]] \subseteq p.rcvrs
        BY DEF FlagsOK
      <4>1. \E m \in 1 .. Len(u) : v[i] = u[m]
        BY <3>1, <1>0 DEF Removed
      <4> QED
        BY <4>1, <2>2, <2>6
    <3>3. p.readFlags[u[n]] = q.rcvrs
      BY <2>1, <2>5, <2>9
    <3>4. \A r2 \in p.rcvrs, y \in Indices : Near(q, u, f, r2, y) => Near(p, v, g, r2, y)
      BY <3>1, <3>3, <2>2, <2>7, NearDrop
    <3>5. Gone(p) = Gone(q)
      <4>1. q.mq.cursize = Len(u) /\ p.mq.cursize = Len(u) - 1 /\ q.messagesRead \in Nat
        BY <3>1, <1>0 DEF Sound, Is, Removed, Fields
      <4> QED
        BY <4>1, <1>0, <2>2, <2>9 DEF Gone
    <3>6. Follows(q, u, f, p, v, g)
      BY <3>1, <3>2, <3>4 DEF Follows
    <3> QED
      BY <3>5, <3>6, <2>2 DEF p
  <2> QED
    BY <2>8, <2>9
<1> QED
  BY <1>1, <1>2

\* removeReceiver
LEMMA RemoveKeeps ==
  ASSUME NEW q, NEW u, NEW f, Sound(q, u, f), FlagsOK(q, u), NEW r \in q.rcvrs
  PROVE  LET p == removeReceiver(q, r)
         IN  /\ \E v, g : Follows(q, u, f, p, v, g)
             /\ p.rcvrs = q.rcvrs \ {r} /\ Gone(p) = Gone(q) /\ p.numMessages = q.numMessages
<1> DEFINE p == removeReceiver(q, r)
<1>1. PICK v, g : LeavingTo(q, u, f, r, Len(u), p, v, g) /\ FlagsOK(p, v)
  BY RemoveIs
<1> HIDE DEF p
<1>2. Follows(q, u, f, p, v, g)
  BY <1>1 DEF Follows, LeavingTo
<1>3. Gone(p) = Gone(q)
  <2>1. p.mq.cursize = Len(v) /\ q.mq.cursize = Len(u)
    BY <1>1 DEF LeavingTo, Sound, Is
  <2> QED
    BY <2>1, <1>1 DEF Gone, LeavingTo
<1> QED
  BY <1>1, <1>2, <1>3 DEF p, LeavingTo
-----------------------------------------------------------------------------
(* Where a receiver goes from its place *)

\* next() of a place is a place.
LEMMA NextIsNear ==
  ASSUME NEW q, NEW u, NEW f, Sound(q, u, f), NEW r, NEW x \in Entries, Near(q, u, f, r, x)
  PROVE  newer(q, x) \in Indices /\ Near(q, u, f, r, newer(q, x))
<1>0. /\ Len(u) \in Nat /\ Len(f) \in Nat /\ Is(q.mq, u, f) /\ q.mq \in Buffers
      /\ \A i \in 1 .. Len(u) : u[i] # end
  BY SoundIs DEF Sound, Fields
<1>1. x # end /\ newer(q, x) = q.mq.next[x]
  BY MaxEntriesAssumption DEF Entries, end, newer, next
<1>2. newer(q, x) \in Indices
  BY <1>0, <1>1 DEF Buffers
<1>3. ASSUME NEW i \in 1 .. Len(u), x = u[i] PROVE Near(q, u, f, r, newer(q, x))
  <2>1. i \in 0 .. Len(u) /\ Nth(u, i) = x
    BY <1>0, <1>3 DEF Nth
  <2>2. newer(q, x) = Nth(u, i + 1)
    BY <2>1, <1>0 DEF Is, Linked, newer
  <2>3. CASE i + 1 \in 1 .. Len(u)
    BY <2>2, <2>3 DEF Nth, Near
  <2>4. CASE i + 1 \notin 1 .. Len(u)
    BY <2>2, <2>4 DEF Nth, Near
  <2> QED
    BY <2>3, <2>4
<1>4. ASSUME NEW k \in 1 .. Len(f), x = f[k], \A j \in k .. Len(f) : r \in q.readFlags[f[j]]
      PROVE  Near(q, u, f, r, newer(q, x))
  <2>1. CASE k = Len(f)
    <3>1. f # <<>>
      BY <2>1, <1>0, SoundIs
    <3>2. newer(q, x) = q.mq.next[f[Len(f)]]
      BY <2>1, <1>1, <1>4
    <3> QED
      BY <3>1, <3>2 DEF Sound, LastLink, Near
  <2>2. CASE k # Len(f)
    <3>1. k \in 1 .. Len(f) - 1 /\ k + 1 \in 1 .. Len(f)
          /\ \A j \in k + 1 .. Len(f) : j \in k .. Len(f)
      BY <2>2, <1>0
    <3>2. newer(q, x) = f[k + 1]
      BY <3>1, <1>0, <1>1, <1>4 DEF Is, Queued
    <3>3. \A j \in k + 1 .. Len(f) : r \in q.readFlags[f[j]]
      BY <3>1, <1>4
    <3> QED
      BY <3>1, <3>2, <3>3 DEF Near
  <2> QED
    BY <2>1, <2>2
<1> QED
  BY <1>1, <1>2, <1>3, <1>4 DEF Near

\* findCurrentMessage from a place ends at a place: a message that is new, or the end.
LEMMA FoundIs ==
  ASSUME NEW q, NEW u, NEW f, Sound(q, u, f), NEW r, NEW x \in Indices, Near(q, u, f, r, x),
         NEW N, NEW y,
         LET unread == {z \in Entries : q.sn[z] >= N}
         IN  y = IF x = end THEN newer(q, Walk(newest(q), unread, q.mq.prev))
                 ELSE Walk(x, Entries \ unread, q.mq.next)
  PROVE  y \in Indices /\ Near(q, u, f, r, y) /\ (y = end \/ q.sn[y] >= N)
<1> DEFINE unread == {z \in Entries : q.sn[z] >= N}
<1>1. CASE x = end
  <2>1. y = newer(q, Walk(newest(q), unread, q.mq.prev)) /\ unread \in SUBSET Entries
    BY <1>1
  <2> HIDE DEF unread
  <2>2. PICK k \in 0 .. Len(u) :
           /\ newer(q, Walk(newest(q), unread, q.mq.prev)) = Nth(u, k + 1)
           /\ \A i \in k + 1 .. Len(u) : u[i] \in unread
    BY <2>1, BackIs
  <2>3. Len(u) \in Nat /\ \A i \in 1 .. Len(u) : u[i] \in Entries
    BY SoundIs
  <2>4. CASE k + 1 \in 1 .. Len(u)
    <3>1. y = u[k + 1] /\ k + 1 \in k + 1 .. Len(u)
      BY <2>1, <2>2, <2>3, <2>4 DEF Nth
    <3>2. y \in unread /\ y \in Entries
      BY <3>1, <2>2, <2>3, <2>4
    <3>3. Near(q, u, f, r, y)
      BY <3>1, <2>4 DEF Near
    <3> QED
      BY <3>2, <3>3 DEF Indices, unread
  <2>5. CASE k + 1 \notin 1 .. Len(u)
    BY <2>1, <2>2, <2>5 DEF Nth, Near, Indices
  <2> QED
    BY <2>4, <2>5
<1>2. CASE x # end
  <2> DEFINE going == Entries \ unread
  <2>1. y = Walk(x, going, q.mq.next) /\ going \in SUBSET Entries
    BY <1>2
  <2> HIDE DEF going
  <2>2. \E w : w = Walk(x, going, q.mq.next) /\ w \in Indices /\ w \notin going /\ Near(q, u, f, r, w)
    BY <2>1, <1>2, ForthIs
  <2> QED
    BY <2>1, <2>2 DEF going, Indices
<1> QED
  BY <1>1, <1>2

-----------------------------------------------------------------------------
(* The inductive invariant for every policy *)

Handling == {"check", "process", "find", "findNext", "note", "mark", "advance"}

\* A receiver with the members c is registered while its thread runs, and its iterator
\* is at a place where it cannot be led astray.
Placed(q, u, f, r, c) ==
  /\ c.at \in {"none", "launching"} => c.curit = end
  /\ c.at \in Handling => c.curit # end
  /\ c.at \in {"check", "process"} => c.msg # NoMessage
  /\ c.at \notin {"none", "launching", "finished"} => r \in q.rcvrs
  /\ r \in q.rcvrs => Near(q, u, f, r, c.curit)

AllPlaced(q, u, f, rs) == \A r \in Receivers : Placed(q, u, f, r, rs[r])

Holds(q, rs) ==
  \E u, f : Sound(q, u, f) /\ FlagsOK(q, u) /\ AllPlaced(q, u, f, rs)

Typed ==
  /\ sender \in [Senders -> {"idle", "asleep", "writing"}]
  /\ calls \in SerialNumbers
  /\ receiver \in [Receivers -> ReceiverStates]
  /\ processed \in [Receivers -> Seq(SerialNumbers)]
  /\ marked \in [Receivers -> SUBSET SerialNumbers]
  /\ owed \in [Receivers -> SUBSET SerialNumbers]
  /\ since \in [Receivers -> SerialNumbers]

\* The calls that are under way have yet to be counted.
Busy(ss) == {s \in Senders : ss[s] # "idle"}

Counted(q, ss, n) ==
  /\ IsFiniteSet(Busy(ss))
  /\ q.numMessages + Cardinality(Busy(ss)) <= n
  /\ Gone(q) + Cardinality(Busy(ss)) <= n

Base == Typed /\ Holds(queue, receiver) /\ Counted(queue, sender, calls)

\* The counters of a queue are no more than the calls there were.
LEMMA CountersAre ==
  ASSUME NEW q, NEW u, NEW f, Sound(q, u, f), NEW ss, NEW n \in SerialNumbers, Counted(q, ss, n)
  PROVE  q.numMessages \in SerialNumbers /\ q.messagesRead \in SerialNumbers
<1>1. /\ q.numMessages \in Nat /\ q.messagesRead \in Nat /\ q.mq.cursize \in Nat
      /\ n \in Nat /\ n <= MaxMessages /\ MaxMessages \in Nat
  <2>1. q.mq.cursize = Len(u) /\ Len(u) \in Nat
    BY SoundIs DEF Sound, Is
  <2> QED
    BY <2>1, MaxMessagesAssumption DEF Sound, Fields, SerialNumbers
<1>2. Cardinality(Busy(ss)) \in Nat
  BY FS_CardinalityType DEF Counted
<1> HIDE DEF Busy
<1> QED
  BY <1>1, <1>2 DEF Counted, Gone, SerialNumbers

\* A sound queue whose counters are in range is of its type.
LEMMA QueueIsTyped ==
  ASSUME NEW q, NEW u, NEW f, Sound(q, u, f),
         q.numMessages \in SerialNumbers, q.messagesRead \in SerialNumbers
  PROVE  q \in Queues /\ \A x \in Entries : q.sn[x] \in SerialNumbers
<1>1. q \in Fields /\ \A x \in Entries : q.numRead[x] = Cardinality(q.readFlags[x]) /\ q.sn[x] <= q.numMessages
  BY DEF Sound
<1>2. \A x \in Entries : q.sn[x] \in SerialNumbers
  <2> TAKE x \in Entries
  <2>1. q.sn[x] \in Nat /\ q.sn[x] <= q.numMessages /\ q.numMessages <= MaxMessages /\ q.numMessages \in Nat
    BY <1>1 DEF Fields, SerialNumbers
  <2> QED
    BY <2>1, MaxMessagesAssumption DEF SerialNumbers
<1>3. \A x \in Entries : q.numRead[x] \in 0 .. Cardinality(Receivers)
  <2> TAKE x \in Entries
  <2>1. q.readFlags[x] \subseteq Receivers /\ q.numRead[x] = Cardinality(q.readFlags[x])
    BY <1>1 DEF Fields
  <2>2. Cardinality(q.readFlags[x]) <= Cardinality(Receivers)
    BY <2>1, ReceiversAssumption, FS_Subset
  <2>3. Cardinality(q.readFlags[x]) \in Nat /\ Cardinality(Receivers) \in Nat
    BY <2>1, ReceiversAssumption, FS_Subset, FS_CardinalityType
  <2> QED
    BY <2>1, <2>2, <2>3
<1>4. q.sn \in [Entries -> SerialNumbers] /\ q.numRead \in [Entries -> 0 .. Cardinality(Receivers)]
  BY <1>1, <1>2, <1>3 DEF Fields
<1> QED
  BY <1>1, <1>2, <1>4 DEF Fields, Queues

\* What the invariant says, for the steps
LEMMA BaseIs ==
  ASSUME Base
  PROVE  /\ \E u, f : Sound(queue, u, f) /\ FlagsOK(queue, u) /\ AllPlaced(queue, u, f, receiver)
         /\ queue \in Queues /\ queue \in Fields
         /\ \A x \in Entries : queue.sn[x] \in SerialNumbers
<1>1. PICK u, f : Sound(queue, u, f) /\ FlagsOK(queue, u) /\ AllPlaced(queue, u, f, receiver)
  BY DEF Base, Holds
<1>2. queue.numMessages \in SerialNumbers /\ queue.messagesRead \in SerialNumbers
  BY <1>1, CountersAre DEF Base, Typed
<1>3. queue \in Queues /\ \A x \in Entries : queue.sn[x] \in SerialNumbers
  BY <1>1, <1>2, QueueIsTyped
<1> QED
  BY <1>1, <1>3 DEF Sound

\* The invariant gives the types, ...
LEMMA BaseIsTyped ==
  ASSUME Base
  PROVE  TypeOK
BY BaseIs DEF Base, Typed, TypeOK
\* At the beginning
LEMMA BaseBegins ==
  ASSUME Init
  PROVE  Base
<1> DEFINE q == NewQueue(Subscribed, InitialPolicy)
           f == [n \in 1 .. MAX_ENTRIES |-> n - 1]
<1>1. Is(NewBuffer, <<>>, f)
  BY NewBufferIs
<1>2. /\ q \in Fields /\ q.mq = NewBuffer /\ q.rcvrs = Subscribed
      /\ q.numMessages = 0 /\ q.messagesRead = 0
      /\ \A x \in Entries : q.numRead[x] = 0 /\ q.readFlags[x] = {} /\ q.sn[x] = 0
  <2>1. NewBuffer \in Buffers
    BY <1>1 DEF Is
  <2> QED
    BY <2>1, ReceiverAssumption DEF NewQueue, Fields
<1>3. LastLink(NewBuffer, <<>>, f)
  <2>1. MAX_ENTRIES \in Nat /\ MAX_ENTRIES >= 1
    BY MaxEntriesAssumption
  <2>2. f[MAX_ENTRIES] = MAX_ENTRIES - 1 /\ Len(f) = MAX_ENTRIES
    BY <2>1
  <2>3. NewBuffer.next[MAX_ENTRIES - 1] = end
    BY <2>1 DEF NewBuffer, Entries
  <2> QED
    BY <2>2, <2>3 DEF LastLink
<1> HIDE DEF q, f
<1>4. Sound(q, <<>>, f)
  <2>1. Cardinality({}) = 0
    BY FS_EmptySet
  <2>2. Is(q.mq, <<>>, f) /\ LastLink(q.mq, <<>>, f)
    BY <1>1, <1>2, <1>3
  <2>3. ASSUME NEW x \in Entries
        PROVE  q.numRead[x] = Cardinality(q.readFlags[x]) /\ q.sn[x] <= q.numMessages
    <3>1. q.numRead[x] = 0 /\ q.readFlags[x] = {} /\ q.sn[x] = 0 /\ q.numMessages = 0
      BY <1>2
    <3>2. Cardinality(q.readFlags[x]) = 0
      BY <2>1, <3>1
    <3> QED
      BY <3>1, <3>2
  <2>4. q \in Fields
    BY <1>2
  <2> QED
    BY <2>2, <2>3, <2>4 DEF Sound
<1>5. FlagsOK(q, <<>>)
  BY DEF FlagsOK
<1>6. queue = q /\ calls = 0 /\ Busy(sender) = {}
  BY DEF Init, q, Busy
<1>7. AllPlaced(q, <<>>, f, receiver)
  BY DEF AllPlaced, Placed, Near, Init, Handling
<1>8. Holds(queue, receiver)
  BY <1>4, <1>5, <1>6, <1>7 DEF Holds
<1>9. Counted(queue, sender, calls)
  <2>1. IsFiniteSet({}) /\ Cardinality({}) = 0
    BY FS_EmptySet
  <2>2. q.mq.cursize = 0
    BY <1>2 DEF NewBuffer
  <2> QED
    BY <1>2, <1>6, <2>1, <2>2 DEF Counted, Gone
<1>10. Typed
  <2>1. <<>> \in Seq(SerialNumbers)
    BY EmptySeq
  <2>2. 0 \in SerialNumbers /\ 0 \in 0 .. MaxMessages + 1 /\ end \in Indices
    BY MaxMessagesAssumption DEF SerialNumbers, Indices
  <2>3. receiver \in [Receivers -> ReceiverStates]
    BY <2>2 DEF Init, ReceiverStates, Locations
  <2> QED
    <3>1. sender \in [Senders -> {"idle", "asleep", "writing"}] /\ calls \in SerialNumbers
      BY <2>2 DEF Init
    <3>2. processed \in [Receivers -> Seq(SerialNumbers)]
      BY <2>1 DEF Init
    <3>3. /\ marked \in [Receivers -> SUBSET SerialNumbers]
          /\ owed \in [Receivers -> SUBSET SerialNumbers]
      BY DEF Init
    <3>4. since \in [Receivers -> SerialNumbers]
      BY <2>2 DEF Init
    <3> QED
      BY <2>3, <3>1, <3>2, <3>3, <3>4 DEF Typed
<1> QED
  BY <1>8, <1>9, <1>10 DEF Base

\* A turn of a sender leaves at most one more message to count than there were calls.
LEMMA TurnCounts ==
  ASSUME NEW q \in Fields, NEW p \in Fields, NEW ss \in [Senders -> {"idle", "asleep", "writing"}],
         NEW s \in Senders, NEW state \in {"idle", "asleep", "writing"},
         NEW n \in Nat, NEW m \in Nat, Counted(q, ss, n),
         (ss[s] = "idle" /\ m = n + 1) \/ (ss[s] # "idle" /\ m = n),
         p.numMessages <= q.numMessages + 1, Gone(p) <= Gone(q) + 1,
         state # "idle" => p.numMessages = q.numMessages /\ Gone(p) = Gone(q)
  PROVE  Counted(p, [ss EXCEPT ![s] = state], m)
<1> DEFINE others == Busy(ss) \ {s}
           K == Cardinality(others)
           after == Busy([ss EXCEPT ![s] = state])
<1>1. IsFiniteSet(Busy(ss)) /\ IsFiniteSet(others) /\ K \in Nat /\ Cardinality(Busy(ss)) \in Nat
  BY FS_CardinalityType, FS_RemoveElement DEF Counted
<1>2. Cardinality(Busy(ss)) = IF ss[s] = "idle" THEN K ELSE K + 1
  <2>1. CASE ss[s] = "idle"
    <3>1. others = Busy(ss)
      BY <2>1 DEF Busy
    <3> QED
      BY <3>1, <2>1
  <2>2. CASE ss[s] # "idle"
    <3>1. s \in Busy(ss)
      BY <2>2 DEF Busy
    <3>2. Cardinality(others) = Cardinality(Busy(ss)) - 1
      BY <3>1, <1>1, FS_RemoveElement
    <3> QED
      BY <3>2, <2>2, <1>1
  <2> QED
    BY <2>1, <2>2
<1>3. IsFiniteSet(after) /\ Cardinality(after) = IF state = "idle" THEN K ELSE K + 1
  <2>1. CASE state = "idle"
    <3>1. after = others
      BY <2>1 DEF Busy
    <3> QED
      BY <3>1, <2>1, <1>1
  <2>2. CASE state # "idle"
    <3>1. after = others \cup {s} /\ s \notin others
      BY <2>2 DEF Busy
    <3>2. IsFiniteSet(others \cup {s}) /\ Cardinality(others \cup {s}) = Cardinality(others) + 1
      BY <3>1, <1>1, FS_AddElement
    <3> QED
      BY <3>1, <3>2, <2>2
  <2> QED
    BY <2>1, <2>2
<1> HIDE DEF others, K, after
<1>4. /\ q.numMessages \in Nat /\ p.numMessages \in Nat /\ Gone(q) \in Int /\ Gone(p) \in Int
  BY DEF Fields, Buffers, Gone
<1>5. /\ q.numMessages + Cardinality(Busy(ss)) <= n /\ Gone(q) + Cardinality(Busy(ss)) <= n
  BY DEF Counted
<1>6. q.numMessages + K + 1 <= m /\ Gone(q) + K + 1 <= m
  BY <1>1, <1>2, <1>4, <1>5
<1>7. p.numMessages + Cardinality(after) <= m /\ Gone(p) + Cardinality(after) <= m
  BY <1>1, <1>3, <1>4, <1>6
<1> QED
  BY <1>3, <1>7 DEF Counted, after

\* Steps that leave the receivers' threads where they are
LEMMA HoldsOn ==
  ASSUME NEW q, NEW u, NEW f, NEW p, NEW v, NEW g, NEW rs \in [Receivers -> ReceiverStates],
         Follows(q, u, f, p, v, g), AllPlaced(q, u, f, rs), p.rcvrs = q.rcvrs
  PROVE  Holds(p, rs)
<1>1. AllPlaced(p, v, g, rs)
  <2> SUFFICES ASSUME NEW r \in Receivers PROVE Placed(p, v, g, r, rs[r])
    BY DEF AllPlaced
  <2>1. rs[r].curit \in Indices
    BY DEF ReceiverStates
  <2>2. Placed(q, u, f, r, rs[r])
    BY DEF AllPlaced
  <2> QED
    BY <2>1, <2>2 DEF Placed, Follows
<1> QED
  BY <1>1 DEF Holds, Follows

\* What a turn of a sender makes of the queue, within the queue's call
SentTo(p, s, state) ==
  /\ queue' = p /\ p \in Fields /\ Holds(p, receiver)
  /\ sender' = [sender EXCEPT ![s] = state] /\ state \in {"idle", "asleep", "writing"}
  /\ p.numMessages <= queue.numMessages + 1 /\ Gone(p) <= Gone(queue) + 1
  /\ state # "idle" => p.numMessages = queue.numMessages /\ Gone(p) = Gone(queue)
  /\ processed' = processed /\ marked' = marked /\ since' = since
  /\ \/ owed' = owed
     \/ /\ p.numMessages = queue.numMessages + 1
        /\ owed' = [r \in Receivers |->
                      IF r \in p.rcvrs THEN owed[r] \cup {p.numMessages - 1} ELSE owed[r]]

\* A turn of a sender keeps the invariant.
LEMMA TurnKeeps ==
  ASSUME Base, NEW s \in Senders, NEW p, NEW state, SentTo(p, s, state), receiver' = receiver,
         \/ sender[s] = "idle" /\ calls < MaxMessages /\ calls' = calls + 1
         \/ sender[s] # "idle" /\ calls' = calls
  PROVE  Base'
<1>1. queue \in Fields /\ Counted(queue, sender, calls)
  BY BaseIs DEF Base
<1>2. calls' \in SerialNumbers /\ calls \in Nat /\ calls' \in Nat
  BY MaxMessagesAssumption DEF Base, Typed, SerialNumbers
<1>3. /\ sender \in [Senders -> {"idle", "asleep", "writing"}] /\ p \in Fields
      /\ state \in {"idle", "asleep", "writing"}
      /\ (sender[s] = "idle" /\ calls' = calls + 1) \/ (sender[s] # "idle" /\ calls' = calls)
      /\ p.numMessages <= queue.numMessages + 1 /\ Gone(p) <= Gone(queue) + 1
      /\ state # "idle" => p.numMessages = queue.numMessages /\ Gone(p) = Gone(queue)
  BY DEF Base, Typed, SentTo
<1>4. Counted(p, [sender EXCEPT ![s] = state], calls')
  BY <1>1, <1>2, <1>3, TurnCounts
<1>5. Counted(queue', sender', calls')
  BY <1>4 DEF SentTo
<1>6. Holds(queue', receiver')
  BY DEF SentTo
<1>7. owed' \in [Receivers -> SUBSET SerialNumbers]
  <2>1. owed \in [Receivers -> SUBSET SerialNumbers]
    BY DEF Base, Typed
  <2>2. CASE p.numMessages = queue.numMessages + 1
    <3>1. p.numMessages - 1 \in SerialNumbers
      <4>1. PICK u, f : Sound(p, u, f)
        BY DEF SentTo, Holds
      <4>2. p.numMessages \in SerialNumbers /\ queue.numMessages \in Nat
        BY <4>1, <1>1, <1>2, <1>4, CountersAre DEF Fields
      <4> QED
        BY <4>2, <2>2, MaxMessagesAssumption DEF SerialNumbers
    <3> DEFINE x == p.numMessages - 1
    <3>2. owed' = owed \/ owed' = [r \in Receivers |-> IF r \in p.rcvrs THEN owed[r] \cup {x} ELSE owed[r]]
      BY DEF SentTo
    <3>3. x \in SerialNumbers
      BY <3>1
    <3> HIDE DEF x
    <3> QED
      BY <3>2, <3>3, <2>1
  <2>3. CASE p.numMessages # queue.numMessages + 1
    BY <2>1, <2>3 DEF SentTo
  <2> QED
    BY <2>2, <2>3
<1>8. sender' \in [Senders -> {"idle", "asleep", "writing"}]
  BY <1>3 DEF SentTo
<1>9. /\ processed' \in [Receivers -> Seq(SerialNumbers)]
      /\ marked' \in [Receivers -> SUBSET SerialNumbers]
      /\ since' \in [Receivers -> SerialNumbers]
      /\ receiver' \in [Receivers -> ReceiverStates]
  BY DEF SentTo, Base, Typed
<1>10. Typed'
  BY <1>2, <1>7, <1>8, <1>9 DEF Typed
<1> QED
  BY <1>5, <1>6, <1>10 DEF Base
-----------------------------------------------------------------------------
(* The senders keep it. *)

\* The message is in the queue, and its number is owed to those who are registered.
LEMMA PostedKeeps ==
  ASSUME Base, NEW s \in Senders, NEW p, p \in Fields, Holds(p, receiver), Posted(p, s),
         p.numMessages = queue.numMessages + 1, Gone(p) <= Gone(queue) + 1
  PROVE  SentTo(p, s, "idle")
<1>1. p.numMessages <= queue.numMessages + 1
  BY BaseIs DEF Fields
<1> QED
  BY <1>1 DEF Posted, Becomes, SentTo

\* The message is not sent, or not yet.
LEMMA IgnoredKeeps ==
  ASSUME Base, NEW s \in Senders, NEW state \in {"idle", "asleep"},
         Becomes(s, state), UNCHANGED <<queue, history>>
  PROVE  SentTo(queue, s, state)
<1>1. queue \in Fields /\ queue.numMessages <= queue.numMessages + 1 /\ Gone(queue) <= Gone(queue) + 1
  BY BaseIs DEF Fields, Buffers, Gone
<1> QED
  BY <1>1 DEF Becomes, SentTo, Base, history

\* sendMessage() with the lock, under each policy
LEMMA SendingKeeps ==
  ASSUME Base, NEW s \in Senders, Sending(s)
  PROVE  \E p, state : SentTo(p, s, state)
<1>1. PICK u, f : Sound(queue, u, f) /\ FlagsOK(queue, u) /\ AllPlaced(queue, u, f, receiver)
  BY BaseIs
<1>0. queue \in Fields /\ receiver \in [Receivers -> ReceiverStates]
  BY BaseIs DEF Base, Typed
<1>N. queue.numMessages \in Nat /\ queue.messagesRead \in Nat /\ queue.mq.cursize \in Nat /\ Gone(queue) \in Int
  BY <1>0 DEF Fields, Buffers, Gone
<1>2. CASE queue.rcvrs = {} /\ queue' = CountUnsent(queue) /\ Becomes(s, "idle") /\ UNCHANGED history
  <2> DEFINE p == CountUnsent(queue)
             n == queue.messagesRead + 1
  <2>1. n \in Nat /\ p = [queue EXCEPT !.messagesRead = n]
    BY <1>N DEF CountUnsent
  <2> HIDE DEF n, p
  <2>2. /\ p \in Fields /\ p.mq = queue.mq /\ p.sn = queue.sn /\ p.readFlags = queue.readFlags
        /\ p.numRead = queue.numRead /\ p.numMessages = queue.numMessages /\ p.rcvrs = queue.rcvrs
        /\ p.messagesRead = queue.messagesRead + 1
    BY <2>1, <1>0 DEF Fields, n
  <2>3. Follows(queue, u, f, p, u, f)
    BY <2>2, <1>1, AloneIs
  <2>4. Holds(p, receiver)
    BY <2>2, <2>3, <1>0, <1>1, HoldsOn
  <2>5. p.numMessages <= queue.numMessages + 1 /\ Gone(p) <= Gone(queue) + 1
    BY <2>2, <1>N DEF Gone
  <2>6. queue' = p
    BY <1>2 DEF p
  <2>7. SentTo(p, s, "idle")
    BY <2>2, <2>4, <2>5, <2>6, <1>2 DEF SentTo, Becomes, history
  <2> QED
    BY <2>7
<1>3. CASE Ignored(s)
  <2>1. SentTo(queue, s, "idle")
    BY <1>3, IgnoredKeeps DEF Ignored
  <2> QED
    BY <2>1
<1>4. CASE ~Full(queue) /\ Posted(Post(queue), s)
  <2>1. f # <<>>
    BY <1>1, <1>4, SoundIs
  <2>2. \E p : /\ p = Post(queue) /\ \E v, g : Follows(queue, u, f, p, v, g)
               /\ p.rcvrs = queue.rcvrs /\ Gone(p) = Gone(queue) + 1
               /\ p.numMessages = queue.numMessages + 1 /\ p.messagesRead = queue.messagesRead
    BY <2>1, <1>1, PostKeeps
  <2>3. PICK p : /\ p = Post(queue) /\ \E v, g : Follows(queue, u, f, p, v, g)
                 /\ p.rcvrs = queue.rcvrs /\ Gone(p) = Gone(queue) + 1
                 /\ p.numMessages = queue.numMessages + 1
    BY <2>2
  <2>4. PICK v, g : Follows(queue, u, f, p, v, g)
    BY <2>3
  <2>5. p \in Fields /\ Holds(p, receiver)
    BY <2>3, <2>4, <1>0, <1>1, HoldsOn DEF Follows, Sound
  <2>6. Gone(p) <= Gone(queue) + 1
    BY <2>3, <1>N
  <2>7. Posted(p, s)
    BY <2>3, <1>4
  <2>8. SentTo(p, s, "idle")
    BY <2>3, <2>5, <2>6, <2>7, PostedKeeps
  <2> QED
    BY <2>8
<1>5. CASE Full(queue) /\ queue' = NewSlot(DropOldest(queue)) /\ Becomes(s, "writing") /\ UNCHANGED history
  <2>1. f = <<>>
    BY <1>1, <1>5, SoundIs
  <2>2. \E p : /\ p = NewSlot(DropOldest(queue)) /\ \E v, g : Follows(queue, u, f, p, v, g)
               /\ p.rcvrs = queue.rcvrs /\ Gone(p) = Gone(queue)
               /\ p.numMessages = queue.numMessages /\ p.messagesRead = queue.messagesRead
    BY <2>1, <1>1, ReplaceKeeps
  <2>3. PICK p : /\ p = NewSlot(DropOldest(queue)) /\ \E v, g : Follows(queue, u, f, p, v, g)
                 /\ p.rcvrs = queue.rcvrs /\ Gone(p) = Gone(queue)
                 /\ p.numMessages = queue.numMessages
    BY <2>2
  <2>4. PICK v, g : Follows(queue, u, f, p, v, g)
    BY <2>3
  <2>5. p \in Fields /\ Holds(p, receiver)
    BY <2>3, <2>4, <1>0, <1>1, HoldsOn DEF Follows, Sound
  <2>6. Gone(p) <= Gone(queue) + 1 /\ p.numMessages <= queue.numMessages + 1
    BY <2>3, <1>N
  <2>7. SentTo(p, s, "writing")
    BY <2>3, <2>5, <2>6, <1>5 DEF SentTo, Becomes, history
  <2> QED
    BY <2>7
<1>6. CASE Becomes(s, "asleep") /\ UNCHANGED <<queue, history>>
  <2>1. SentTo(queue, s, "asleep")
    BY <1>6, IgnoredKeeps
  <2> QED
    BY <2>1
<1> QED
  BY <1>2, <1>3, <1>4, <1>5, <1>6 DEF Sending

\* The first time
LEMMA sendMessageKeepsBase ==
  ASSUME Base, NEW s \in Senders, sendMessage(s)
  PROVE  Base'
<1>1. PICK p, state : SentTo(p, s, state)
  BY SendingKeeps DEF sendMessage
<1> QED
  BY <1>1, TurnKeeps DEF sendMessage

\* Again, after another policy was set
LEMMA RetryKeepsBase ==
  ASSUME Base, NEW s \in Senders, Retry(s)
  PROVE  Base'
<1>1. PICK p, state : SentTo(p, s, state)
  BY SendingKeeps DEF Retry
<1> QED
  BY <1>1, TurnKeeps DEF Retry

\* After the sleep, with room
LEMMA WokenKeepsBase ==
  ASSUME Base, NEW s \in Senders, Woken(s)
  PROVE  Base'
<1>1. PICK u, f : Sound(queue, u, f) /\ FlagsOK(queue, u) /\ AllPlaced(queue, u, f, receiver)
  BY BaseIs
<1>0. queue \in Fields /\ receiver \in [Receivers -> ReceiverStates]
  BY BaseIs DEF Base, Typed
<1>2. f # <<>>
  BY <1>1, SoundIs DEF Woken
<1>3. \E p : /\ p = Post(queue) /\ \E v, g : Follows(queue, u, f, p, v, g)
             /\ p.rcvrs = queue.rcvrs /\ Gone(p) = Gone(queue) + 1
             /\ p.numMessages = queue.numMessages + 1 /\ p.messagesRead = queue.messagesRead
  BY <1>1, <1>2, PostKeeps
<1>4. PICK p : /\ p = Post(queue) /\ \E v, g : Follows(queue, u, f, p, v, g)
               /\ p.rcvrs = queue.rcvrs /\ Gone(p) = Gone(queue) + 1
               /\ p.numMessages = queue.numMessages + 1
  BY <1>3
<1>5. PICK v, g : Follows(queue, u, f, p, v, g)
  BY <1>4
<1>6. p \in Fields /\ Holds(p, receiver)
  BY <1>4, <1>5, <1>0, <1>1, HoldsOn DEF Follows, Sound
<1>7. Gone(p) <= Gone(queue) + 1
  BY <1>0, <1>4 DEF Fields, Buffers, Gone
<1>8. Posted(p, s)
  BY <1>4 DEF Woken
<1>9. SentTo(p, s, "idle")
  BY <1>4, <1>6, <1>7, <1>8, PostedKeeps
<1> QED
  BY <1>9, TurnKeeps DEF Woken

\* The number is written, after receivers may have read the slot without the lock.
LEMMA OverwriteKeepsBase ==
  ASSUME Base, NEW s \in Senders, Overwrite(s)
  PROVE  Base'
<1>1. PICK u, f : Sound(queue, u, f) /\ FlagsOK(queue, u) /\ AllPlaced(queue, u, f, receiver)
  BY BaseIs
<1>0. queue \in Fields /\ receiver \in [Receivers -> ReceiverStates]
  BY BaseIs DEF Base, Typed
<1>3. \E p : /\ p = Written(queue) /\ Follows(queue, u, f, p, u, f)
             /\ p.mq = queue.mq /\ p.rcvrs = queue.rcvrs /\ p.messagesRead = queue.messagesRead
             /\ p.numMessages = queue.numMessages + 1
  BY <1>1, WrittenKeeps
<1>4. PICK p : /\ p = Written(queue) /\ Follows(queue, u, f, p, u, f)
               /\ p.mq = queue.mq /\ p.rcvrs = queue.rcvrs /\ p.messagesRead = queue.messagesRead
               /\ p.numMessages = queue.numMessages + 1
  BY <1>3
<1>6. p \in Fields /\ Holds(p, receiver)
  BY <1>4, <1>0, <1>1, HoldsOn DEF Follows, Sound
<1>7. Gone(p) <= Gone(queue) + 1
  BY <1>0, <1>4 DEF Fields, Buffers, Gone
<1>8. Posted(p, s)
  BY <1>4 DEF Overwrite
<1>9. SentTo(p, s, "idle")
  BY <1>4, <1>6, <1>7, <1>8, PostedKeeps
<1> QED
  BY <1>9, TurnKeeps DEF Overwrite

-----------------------------------------------------------------------------
(* The receivers keep it. *)

\* A step of whoever is not a sender
LEMMA StepKeeps ==
  ASSUME Base, UNCHANGED <<sender, calls>>,
         queue' \in Fields, Gone(queue') = Gone(queue), queue'.numMessages = queue.numMessages,
         Holds(queue', receiver'),
         receiver' \in [Receivers -> ReceiverStates],
         processed' \in [Receivers -> Seq(SerialNumbers)],
         marked' \in [Receivers -> SUBSET SerialNumbers],
         owed' \in [Receivers -> SUBSET SerialNumbers],
         since' \in [Receivers -> SerialNumbers]
  PROVE  Base'
<1>1. Counted(queue', sender', calls')
  BY DEF Base, Counted
<1>2. Typed'
  BY DEF Base, Typed
<1> QED
  BY <1>1, <1>2 DEF Base

\* A receiver r moves to the state c while the queue becomes p.
LEMMA MoveHolds ==
  ASSUME NEW q, NEW u, NEW f, NEW p, NEW v, NEW g,
         NEW rs \in [Receivers -> ReceiverStates], NEW r \in Receivers, NEW c \in ReceiverStates,
         Follows(q, u, f, p, v, g), AllPlaced(q, u, f, rs),
         \A r2 \in Receivers \ {r} : r2 \in p.rcvrs <=> r2 \in q.rcvrs,
         Placed(p, v, g, r, c)
  PROVE  /\ Holds(p, [rs EXCEPT ![r] = c])
         /\ [rs EXCEPT ![r] = c] \in [Receivers -> ReceiverStates]
<1> DEFINE rt == [rs EXCEPT ![r] = c]
<1>1. AllPlaced(p, v, g, rt)
  <2> SUFFICES ASSUME NEW r2 \in Receivers PROVE Placed(p, v, g, r2, rt[r2])
    BY DEF AllPlaced
  <2>1. CASE r2 = r
    BY <2>1
  <2>2. CASE r2 # r
    <3>1. rt[r2] = rs[r2] /\ rs[r2].curit \in Indices
      BY <2>2 DEF ReceiverStates
    <3>2. Placed(q, u, f, r2, rs[r2])
      BY DEF AllPlaced
    <3> HIDE DEF rt
    <3> QED
      BY <3>1, <3>2, <2>2 DEF Placed, Follows
  <2> QED
    BY <2>1, <2>2
<1> HIDE DEF rt
<1>2. Holds(p, rt)
  BY <1>1 DEF Holds, Follows
<1> QED
  BY <1>2 DEF rt
\* Steps of r that leave the list, the numbers and the marks alone
LEMMA AloneKeeps ==
  ASSUME Base, NEW r \in Receivers, NEW c \in ReceiverStates, NEW p \in Fields,
         receiver' = [receiver EXCEPT ![r] = c], queue' = p, UNCHANGED <<sender, calls>>,
         p.mq = queue.mq, p.sn = queue.sn, p.readFlags = queue.readFlags,
         p.numRead = queue.numRead, p.numMessages = queue.numMessages,
         p.rcvrs = queue.rcvrs, p.messagesRead = queue.messagesRead,
         processed' \in [Receivers -> Seq(SerialNumbers)],
         marked' \in [Receivers -> SUBSET SerialNumbers],
         owed' \in [Receivers -> SUBSET SerialNumbers],
         since' \in [Receivers -> SerialNumbers],
         \A u, f : Sound(queue, u, f) /\ Placed(queue, u, f, r, receiver[r])
                     => Placed(queue, u, f, r, c)
  PROVE  Base'
<1>1. PICK u, f : Sound(queue, u, f) /\ FlagsOK(queue, u) /\ AllPlaced(queue, u, f, receiver)
  BY BaseIs
<1>2. receiver \in [Receivers -> ReceiverStates]
  BY DEF Base, Typed
<1>3. Placed(queue, u, f, r, c)
  BY <1>1 DEF AllPlaced
<1>4. Placed(p, u, f, r, c)
  BY <1>3 DEF Placed, Near
<1>5. Follows(queue, u, f, p, u, f)
  BY <1>1, AloneIs
<1>6. Holds(p, [receiver EXCEPT ![r] = c]) /\ [receiver EXCEPT ![r] = c] \in [Receivers -> ReceiverStates]
  BY <1>1, <1>2, <1>4, <1>5, MoveHolds
<1>7. Gone(p) = Gone(queue)
  BY DEF Gone
<1> QED
  BY <1>6, <1>7, StepKeeps

\* where it did not change the queue or a history either
LEMMA MoveKeeps ==
  ASSUME Base, NEW r \in Receivers, NEW c \in ReceiverStates,
         receiver' = [receiver EXCEPT ![r] = c], UNCHANGED <<queue, sender, calls, history>>,
         \A u, f : Sound(queue, u, f) /\ Placed(queue, u, f, r, receiver[r])
                     => Placed(queue, u, f, r, c)
  PROVE  Base'
<1>1. /\ processed' \in [Receivers -> Seq(SerialNumbers)]
      /\ marked' \in [Receivers -> SUBSET SerialNumbers]
      /\ owed' \in [Receivers -> SUBSET SerialNumbers]
      /\ since' \in [Receivers -> SerialNumbers]
  BY DEF history, Base, Typed
<1>2. queue \in Fields
  BY BaseIs
<1> QED
  BY <1>1, <1>2, AloneKeeps

\* and only went on
LEMMA GoesKeeps ==
  ASSUME Base, NEW r \in Receivers, NEW l \in Locations, Goes(r, l),
         UNCHANGED <<queue, sender, calls, history>>,
         l \in {"none", "launching"} => receiver[r].at \in {"none", "launching"},
         l \in Handling => receiver[r].at \in Handling,
         l \in {"check", "process"} => receiver[r].at \in {"check", "process"},
         l \notin {"none", "launching", "finished"}
           => receiver[r].at \notin {"none", "launching", "finished"}
  PROVE  Base'
<1> DEFINE c == [receiver[r] EXCEPT !.at = l]
<1>1. receiver[r] \in ReceiverStates /\ receiver \in [Receivers -> ReceiverStates]
  BY DEF Base, Typed
<1>2. c \in ReceiverStates /\ c.at = l /\ c.curit = receiver[r].curit /\ c.msg = receiver[r].msg
  BY <1>1 DEF ReceiverStates
<1>3. receiver' = [receiver EXCEPT ![r] = c]
  BY <1>1 DEF Goes
<1> HIDE DEF c
<1>4. \A u, f : Sound(queue, u, f) /\ Placed(queue, u, f, r, receiver[r])
                  => Placed(queue, u, f, r, c)
  BY <1>2 DEF Placed
<1> QED
  BY <1>2, <1>3, <1>4, MoveKeeps

\* or changed no more than a semaphore besides
LEMMA SemaphoreKeeps ==
  ASSUME Base, NEW r \in Receivers, NEW c \in ReceiverStates, NEW s \in [Receivers -> Nat],
         receiver' = [receiver EXCEPT ![r] = c],
         queue' = [queue EXCEPT !.sem = s], UNCHANGED <<sender, calls, history>>,
         c.curit = receiver[r].curit, c.msg = receiver[r].msg,
         \/ c.at = receiver[r].at
         \/ c.at = "peek" /\ receiver[r].at \notin {"none", "launching", "finished"}
  PROVE  Base'
<1> DEFINE p == [queue EXCEPT !.sem = s]
<1>1. queue \in Fields
  BY BaseIs
<1>2. /\ p \in Fields /\ p.mq = queue.mq /\ p.sn = queue.sn /\ p.readFlags = queue.readFlags
      /\ p.numRead = queue.numRead /\ p.numMessages = queue.numMessages
      /\ p.rcvrs = queue.rcvrs /\ p.messagesRead = queue.messagesRead
  BY <1>1 DEF Fields
<1>3. queue' = p
  OBVIOUS
<1> HIDE DEF p
<1>4. /\ processed' \in [Receivers -> Seq(SerialNumbers)]
      /\ marked' \in [Receivers -> SUBSET SerialNumbers]
      /\ owed' \in [Receivers -> SUBSET SerialNumbers]
      /\ since' \in [Receivers -> SerialNumbers]
  BY DEF history, Base, Typed
<1>5. \A u, f : Sound(queue, u, f) /\ Placed(queue, u, f, r, receiver[r])
                  => Placed(queue, u, f, r, c)
  BY DEF Placed, Handling
<1> QED
  BY <1>2, <1>3, <1>4, <1>5, AloneKeeps

\* lower() and raise() change semaphores only.
LEMMA LowerIs ==
  ASSUME NEW q \in Fields, NEW r \in Receivers
  PROVE  \E s \in [Receivers -> Nat] : lower(q, r) = [q EXCEPT !.sem = s]
<1> DEFINE s == [q.sem EXCEPT ![r] = IF @ > 0 THEN @ - 1 ELSE 0]
<1>1. s \in [Receivers -> Nat]
  BY DEF Fields
<1>2. lower(q, r) = [q EXCEPT !.sem = s]
  BY DEF lower, Fields
<1> HIDE DEF s
<1> QED
  BY <1>1, <1>2

\* raise(), likewise
LEMMA RaiseIs ==
  ASSUME NEW q \in Fields, NEW r \in Receivers
  PROVE  \E s \in [Receivers -> Nat] : raise(q, r) = [q EXCEPT !.sem = s]
<1> DEFINE s == [q.sem EXCEPT ![r] = IF r \in q.rcvrs THEN @ + 1 ELSE @]
<1>1. s \in [Receivers -> Nat]
  BY DEF Fields
<1>2. raise(q, r) = [q EXCEPT !.sem = s]
  BY DEF raise, Fields
<1> HIDE DEF s
<1> QED
  BY <1>1, <1>2

\* A thread that lowers its semaphore goes on to peek.
LEMMA LoweringKeeps ==
  ASSUME Base, NEW r \in Receivers, queue' = lower(queue, r), Goes(r, "peek"),
         UNCHANGED <<sender, calls, history>>,
         receiver[r].at \notin {"none", "launching", "finished"}
  PROVE  Base'
<1> DEFINE c == [receiver[r] EXCEPT !.at = "peek"]
<1>1. receiver[r] \in ReceiverStates /\ receiver \in [Receivers -> ReceiverStates] /\ queue \in Fields
  BY BaseIs DEF Base, Typed
<1>2. c \in ReceiverStates /\ c.at = "peek" /\ c.curit = receiver[r].curit /\ c.msg = receiver[r].msg
  BY <1>1 DEF ReceiverStates, Locations
<1>3. receiver' = [receiver EXCEPT ![r] = c]
  BY <1>1 DEF Goes
<1>4. PICK s \in [Receivers -> Nat] : lower(queue, r) = [queue EXCEPT !.sem = s]
  BY <1>1, LowerIs
<1> HIDE DEF c
<1> QED
  BY <1>2, <1>3, <1>4, SemaphoreKeeps

\* Thread::stop's raise()
LEMMA stopKeepsBase ==
  ASSUME Base, NEW r \in Receivers, stop(r)
  PROVE  Base'
<1> DEFINE c == [receiver[r] EXCEPT !.finish = "joining"]
<1>1. receiver[r] \in ReceiverStates /\ receiver \in [Receivers -> ReceiverStates] /\ queue \in Fields
  BY BaseIs DEF Base, Typed
<1>2. /\ c \in ReceiverStates /\ c.at = receiver[r].at /\ c.curit = receiver[r].curit
      /\ c.msg = receiver[r].msg
  BY <1>1 DEF ReceiverStates
<1>3. receiver' = [receiver EXCEPT ![r] = c]
  BY <1>1 DEF stop
<1>4. PICK s \in [Receivers -> Nat] : raise(queue, r) = [queue EXCEPT !.sem = s]
  BY <1>1, RaiseIs
<1>5. queue' = [queue EXCEPT !.sem = s] /\ UNCHANGED <<sender, calls, history>>
  BY <1>4 DEF stop, Unsent
<1> HIDE DEF c
<1> QED
  BY <1>2, <1>3, <1>5, SemaphoreKeeps

\* A receiver in another place or at another stage of finish(), and nothing else
LEMMA ChangeKeeps ==
  ASSUME Base, NEW r \in Receivers, NEW c,
         receiver' = [receiver EXCEPT ![r] = c], UNCHANGED <<queue, sender, calls, history>>,
         c \in ReceiverStates,
         c.at \notin {"none", "launching"} \cup {"check", "process"} \cup Handling,
         receiver[r].at \notin {"none", "launching", "finished"} \/ r \in queue.rcvrs,
         c.curit \in {receiver[r].curit, end}
  PROVE  Base'
<1>1. \A u, f : Sound(queue, u, f) /\ Placed(queue, u, f, r, receiver[r])
                  => Placed(queue, u, f, r, c)
  BY DEF Placed, Near
<1> QED
  BY <1>1, MoveKeeps

\* peekNextMessage() leads r from a place to a place.
LEMMA PeekKeepsBase ==
  ASSUME Base, NEW r \in Receivers, peekNextMessage(r) \/ peekNothing(r)
  PROVE  Base'
<1>0. /\ receiver[r] \in ReceiverStates /\ receiver \in [Receivers -> ReceiverStates]
      /\ \A x \in Entries : queue.sn[x] \in SerialNumbers
  BY BaseIs DEF Base, Typed
<1>1. CASE peekNextMessage(r)
  <2> DEFINE y == Found(r)
             n == queue.sn[y]
             c == [receiver[r] EXCEPT !.at = "check", !.curit = y, !.msg = n]
  <2>1. PICK u, f : Sound(queue, u, f) /\ FlagsOK(queue, u) /\ AllPlaced(queue, u, f, receiver)
    BY BaseIs
  <2>2. ASSUME NEW v, NEW g, Sound(queue, v, g), Placed(queue, v, g, r, receiver[r])
        PROVE  y \in Indices /\ Near(queue, v, g, r, y)
    <3>1. Near(queue, v, g, r, receiver[r].curit) /\ receiver[r].curit \in Indices
      BY <2>2, <1>0, <1>1 DEF Placed, peekNextMessage, At, ReceiverStates
    <3> DEFINE x == receiver[r].curit
               N == receiver[r].nextMessage
    <3>2. LET unread == {z \in Entries : queue.sn[z] >= N}
          IN  y = IF x = end THEN newer(queue, Walk(newest(queue), unread, queue.mq.prev))
                  ELSE Walk(x, Entries \ unread, queue.mq.next)
      BY Zenon DEF Found, Unread
    <3> HIDE DEF x, N, y
    <3>3. Near(queue, v, g, r, x) /\ x \in Indices
      BY <3>1 DEF x
    <3> QED
      BY <3>2, <3>3, <2>2, FoundIs
  <2>3. y \in Indices /\ y # end
    BY <2>1, <2>2, <1>1 DEF AllPlaced, peekNextMessage
  <2>4. y \in Entries /\ n \in SerialNumbers /\ n # NoMessage
    BY <2>3, <1>0 DEF Indices, SerialNumbers, NoMessage
  <2>5. receiver' = [receiver EXCEPT ![r].at = "check", ![r].curit = y, ![r].msg = n]
    BY <1>1, Zenon DEF peekNextMessage
  <2> HIDE DEF y, n
  <2>6. c \in ReceiverStates /\ c.at = "check" /\ c.curit = y /\ c.msg = n
    BY <2>3, <2>4, <1>0 DEF ReceiverStates, Locations
  <2>7. receiver' = [receiver EXCEPT ![r] = c]
    BY <2>5, <1>0
  <2> HIDE DEF c
  <2>8. \A v, g : Sound(queue, v, g) /\ Placed(queue, v, g, r, receiver[r])
                    => Placed(queue, v, g, r, c)
    BY <2>2, <2>3, <2>4, <2>6, <1>1 DEF Placed, peekNextMessage, At
  <2>9. UNCHANGED <<queue, sender, calls, history>>
    BY <1>1 DEF peekNextMessage, Unsent
  <2> QED
    BY <2>6, <2>7, <2>8, <2>9, MoveKeeps
<1>2. CASE peekNothing(r)
  <2> DEFINE c == [receiver[r] EXCEPT !.at = "looped", !.curit = end]
  <2>1. c \in ReceiverStates /\ c.at = "looped" /\ c.curit = end
    BY <1>0 DEF ReceiverStates, Locations, Indices
  <2>2. receiver' = [receiver EXCEPT ![r] = c]
    BY <1>2, <1>0 DEF peekNothing
  <2>3. receiver[r].at = "peek" /\ UNCHANGED <<queue, sender, calls, history>>
    BY <1>2 DEF peekNothing, Unsent, At
  <2> HIDE DEF c
  <2> QED
    BY <2>1, <2>2, <2>3, ChangeKeeps DEF Handling
<1> QED
  BY <1>1, <1>2

\* The callback is called, and the number noted.
LEMMA processKeepsBase ==
  ASSUME Base, NEW r \in Receivers, process(r)
  PROVE  Base'
<1> DEFINE n == queue.sn[receiver[r].curit]
           c == [receiver[r] EXCEPT !.at = "find", !.lastProcessedMessage = n]
<1>0. /\ receiver[r] \in ReceiverStates /\ receiver \in [Receivers -> ReceiverStates]
      /\ \A x \in Entries : queue.sn[x] \in SerialNumbers
      /\ processed \in [Receivers -> Seq(SerialNumbers)]
  BY BaseIs DEF Base, Typed
<1>1. PICK u, f : Sound(queue, u, f) /\ FlagsOK(queue, u) /\ AllPlaced(queue, u, f, receiver)
  BY BaseIs
<1>2. receiver[r].curit \in Entries /\ receiver[r].msg \in SerialNumbers
  BY <1>0, <1>1 DEF AllPlaced, Placed, process, At, Handling, ReceiverStates, Indices
<1>3. n \in SerialNumbers
  BY <1>0, <1>2
<1>4. receiver' = [receiver EXCEPT ![r].at = "find", ![r].lastProcessedMessage = n]
  BY DEF process
<1> HIDE DEF n
<1>5. c \in ReceiverStates /\ c.at = "find" /\ c.curit = receiver[r].curit /\ c.msg = receiver[r].msg
  BY <1>0, <1>3 DEF ReceiverStates, Locations
<1>6. receiver' = [receiver EXCEPT ![r] = c]
  BY <1>0, <1>4
<1> HIDE DEF c
<1>7. processed' \in [Receivers -> Seq(SerialNumbers)]
  <2>1. Append(processed[r], receiver[r].msg) \in Seq(SerialNumbers)
    BY <1>0, <1>2, AppendProperties
  <2>2. processed' = [processed EXCEPT ![r] = Append(processed[r], receiver[r].msg)]
    BY DEF process
  <2> QED
    BY <2>1, <2>2, <1>0
<1>8. \A v, g : Sound(queue, v, g) /\ Placed(queue, v, g, r, receiver[r])
                  => Placed(queue, v, g, r, c)
  BY <1>5 DEF Placed, process, At, Handling
<1>9. UNCHANGED <<queue, sender, calls, marked, owed, since>>
  BY DEF process, Unsent
<1>10. /\ marked' \in [Receivers -> SUBSET SerialNumbers]
       /\ owed' \in [Receivers -> SUBSET SerialNumbers]
       /\ since' \in [Receivers -> SerialNumbers]
       /\ queue \in Fields
  BY <1>9, BaseIs DEF Base, Typed
<1> QED
  BY <1>5, <1>6, <1>7, <1>8, <1>9, <1>10, AloneKeeps

\* markRead's steps from one message to the next
LEMMA MarkingKeepsBase ==
  ASSUME Base, NEW r \in Receivers, markFindNext(r) \/ markNote(r) \/ markAdvance(r)
  PROVE  Base'
<1> DEFINE x == receiver[r].curit
           y == newer(queue, x)
<1>0. /\ receiver[r] \in ReceiverStates /\ receiver \in [Receivers -> ReceiverStates]
      /\ \A z \in Entries : queue.sn[z] \in SerialNumbers
  BY BaseIs DEF Base, Typed
<1>1. PICK u, f : Sound(queue, u, f) /\ FlagsOK(queue, u) /\ AllPlaced(queue, u, f, receiver)
  BY BaseIs
<1>2. /\ receiver[r].at \in {"findNext", "note", "advance"}
      /\ UNCHANGED <<queue, sender, calls, history>>
  BY DEF markFindNext, markNote, markAdvance, At, Unsent
<1>3. x \in Entries /\ r \in queue.rcvrs
  BY <1>0, <1>1, <1>2 DEF AllPlaced, Placed, Handling, ReceiverStates, Indices
<1>4. ASSUME NEW v, NEW g, Sound(queue, v, g), Placed(queue, v, g, r, receiver[r])
      PROVE  y \in Indices /\ Near(queue, v, g, r, y) /\ Near(queue, v, g, r, x)
  <2>1. Near(queue, v, g, r, x)
    BY <1>3, <1>4 DEF Placed
  <2> HIDE DEF x
  <2> QED
    BY <2>1, <1>3, <1>4, NextIsNear
<1>5. y \in Indices
  BY <1>1, <1>4 DEF AllPlaced
<1>6. CASE markFindNext(r)
  <2> DEFINE l == IF y = end THEN AfterMarking(r) ELSE "find"
             c == [receiver[r] EXCEPT !.at = l, !.curit = y]
  <2>1. receiver' = [receiver EXCEPT ![r].at = l, ![r].curit = y]
    BY <1>6, Zenon DEF markFindNext
  <2>2. l \in {"peek", "lower", "find"} /\ (l = "find" => y # end)
    BY DEF AfterMarking
  <2> HIDE DEF l, y
  <2>3. c \in ReceiverStates /\ c.at = l /\ c.curit = y
    BY <2>2, <1>0, <1>5 DEF ReceiverStates, Locations
  <2>4. receiver' = [receiver EXCEPT ![r] = c]
    BY <2>1, <1>0
  <2> HIDE DEF c
  <2>5. \A v, g : Sound(queue, v, g) /\ Placed(queue, v, g, r, receiver[r])
                    => Placed(queue, v, g, r, c)
    BY <2>2, <2>3, <1>3, <1>4 DEF Placed, Handling
  <2> QED
    BY <2>3, <2>4, <2>5, <1>2, MoveKeeps
<1>7. CASE markNote(r)
  <2> DEFINE n == queue.sn[x] + 1
             c == [receiver[r] EXCEPT !.at = "mark", !.nextMessage = n]
  <2>1. receiver' = [receiver EXCEPT ![r].at = "mark", ![r].nextMessage = n]
    BY <1>7, Zenon DEF markNote
  <2>2. n \in 0 .. MaxMessages + 1
    <3>1. queue.sn[x] \in 0 .. MaxMessages /\ MaxMessages \in Nat
      BY <1>0, <1>3, MaxMessagesAssumption DEF SerialNumbers
    <3> QED
      BY <3>1
  <2> HIDE DEF n
  <2>3. c \in ReceiverStates /\ c.at = "mark" /\ c.curit = x /\ c.msg = receiver[r].msg
    BY <2>2, <1>0 DEF ReceiverStates, Locations
  <2>4. receiver' = [receiver EXCEPT ![r] = c]
    BY <2>1, <1>0
  <2> HIDE DEF c
  <2>5. x # end
    BY <1>3, MaxEntriesAssumption DEF Entries, end
  <2>6. \A v, g : Sound(queue, v, g) /\ Placed(queue, v, g, r, receiver[r])
                    => Placed(queue, v, g, r, c)
    BY <2>3, <2>5, <1>3 DEF Placed, Handling
  <2> QED
    BY <2>3, <2>4, <2>6, <1>2, MoveKeeps
<1>8. CASE markAdvance(r)
  <2> DEFINE l == AfterMarking(r)
             c == [receiver[r] EXCEPT !.at = l, !.curit = y, !.msg = NoMessage]
  <2>1. receiver' = [receiver EXCEPT ![r].at = l, ![r].curit = y, ![r].msg = NoMessage]
    BY <1>8, Zenon DEF markAdvance
  <2>2. l \in {"peek", "lower"}
    BY DEF AfterMarking
  <2> HIDE DEF l, y
  <2>3. c \in ReceiverStates /\ c.at = l /\ c.curit = y
    BY <2>2, <1>0, <1>5 DEF ReceiverStates, Locations
  <2>4. receiver' = [receiver EXCEPT ![r] = c]
    BY <2>1, <1>0
  <2> HIDE DEF c
  <2>5. \A v, g : Sound(queue, v, g) /\ Placed(queue, v, g, r, receiver[r])
                    => Placed(queue, v, g, r, c)
    BY <2>2, <2>3, <1>3, <1>4 DEF Placed, Handling
  <2> QED
    BY <2>3, <2>4, <2>5, <1>2, MoveKeeps
<1> QED
  BY <1>6, <1>7, <1>8

\* markRead() of the queue: the message that r marked may leave.
LEMMA markKeepsBase ==
  ASSUME Base, NEW r \in Receivers, mark(r)
  PROVE  Base'
<1> DEFINE x == receiver[r].curit
           c == [receiver[r] EXCEPT !.at = "advance"]
<1>0. /\ receiver[r] \in ReceiverStates /\ receiver \in [Receivers -> ReceiverStates]
      /\ \A z \in Entries : queue.sn[z] \in SerialNumbers
      /\ marked \in [Receivers -> SUBSET SerialNumbers]
  BY BaseIs DEF Base, Typed
<1>1. PICK u, f : Sound(queue, u, f) /\ FlagsOK(queue, u) /\ AllPlaced(queue, u, f, receiver)
  BY BaseIs
<1>2. x \in Entries /\ x # end /\ r \in queue.rcvrs /\ Near(queue, u, f, r, x)
  BY <1>0, <1>1 DEF AllPlaced, Placed, Handling, ReceiverStates, Indices, mark, At
<1>3. c \in ReceiverStates /\ c.at = "advance" /\ c.curit = x /\ receiver' = [receiver EXCEPT ![r] = c]
  BY <1>0 DEF ReceiverStates, Locations, mark, Goes
<1>4. queue' = markRead(queue, x, r) /\ UNCHANGED <<sender, calls, processed, owed, since>>
  BY DEF mark, Unsent
<1>5. marked' \in [Receivers -> SUBSET SerialNumbers]
  <2>1. marked' = marked \/ marked' = [marked EXCEPT ![r] = @ \cup {queue.sn[x]}]
    BY DEF mark
  <2>2. queue.sn[x] \in SerialNumbers
    BY <1>0, <1>2
  <2> QED
    BY <2>1, <2>2, <1>0
<1> HIDE DEF x, c
<1>6. \E p : /\ p = markRead(queue, x, r) /\ \E v, g : Follows(queue, u, f, p, v, g)
             /\ p.rcvrs = queue.rcvrs /\ Gone(p) = Gone(queue)
             /\ p.numMessages = queue.numMessages
  BY <1>1, <1>2, MarkKeeps
<1>7. PICK p, v, g : /\ p = markRead(queue, x, r) /\ Follows(queue, u, f, p, v, g)
                     /\ p.rcvrs = queue.rcvrs /\ Gone(p) = Gone(queue)
                     /\ p.numMessages = queue.numMessages
  BY <1>6
<1>8. Placed(p, v, g, r, c) /\ p \in Fields
  BY <1>2, <1>3, <1>7 DEF Placed, Follows, Sound, Indices
<1>9. Holds(p, [receiver EXCEPT ![r] = c]) /\ [receiver EXCEPT ![r] = c] \in [Receivers -> ReceiverStates]
  BY <1>0, <1>1, <1>3, <1>7, <1>8, MoveHolds
<1>10. /\ processed' \in [Receivers -> Seq(SerialNumbers)]
       /\ owed' \in [Receivers -> SUBSET SerialNumbers]
       /\ since' \in [Receivers -> SerialNumbers]
  BY <1>4 DEF Base, Typed
<1> QED
  BY <1>3, <1>4, <1>5, <1>7, <1>8, <1>9, <1>10, StepKeeps

\* removeReceiver() keeps the places of the others.
LEMMA finishRemoveKeepsBase ==
  ASSUME Base, NEW r \in Receivers, finishRemove(r)
  PROVE  Base'
<1> DEFINE c == [receiver[r] EXCEPT !.at = "finished", !.msg = NoMessage]
<1>0. receiver[r] \in ReceiverStates /\ receiver \in [Receivers -> ReceiverStates]
  BY BaseIs DEF Base, Typed
<1>1. PICK u, f : Sound(queue, u, f) /\ FlagsOK(queue, u) /\ AllPlaced(queue, u, f, receiver)
  BY BaseIs
<1>2. r \in queue.rcvrs
  BY <1>1 DEF AllPlaced, Placed, finishRemove, At
<1>3. c \in ReceiverStates /\ c.at = "finished" /\ receiver' = [receiver EXCEPT ![r] = c]
  BY <1>0 DEF ReceiverStates, Locations, finishRemove
<1> HIDE DEF c
<1>4. queue' = removeReceiver(queue, r) /\ UNCHANGED <<sender, calls, history>>
  BY DEF finishRemove, Unsent
<1>5. \E p : /\ p = removeReceiver(queue, r) /\ \E v, g : Follows(queue, u, f, p, v, g)
             /\ p.rcvrs = queue.rcvrs \ {r} /\ Gone(p) = Gone(queue)
             /\ p.numMessages = queue.numMessages
  BY <1>1, <1>2, RemoveKeeps
<1>6. PICK p, v, g : /\ p = removeReceiver(queue, r) /\ Follows(queue, u, f, p, v, g)
                     /\ p.rcvrs = queue.rcvrs \ {r} /\ Gone(p) = Gone(queue)
                     /\ p.numMessages = queue.numMessages
  BY <1>5
<1>7. Placed(p, v, g, r, c) /\ p \in Fields
  BY <1>3, <1>6 DEF Placed, Follows, Sound, Handling
<1>8. \A r2 \in Receivers \ {r} : r2 \in p.rcvrs <=> r2 \in queue.rcvrs
  BY <1>6
<1>9. Holds(p, [receiver EXCEPT ![r] = c]) /\ [receiver EXCEPT ![r] = c] \in [Receivers -> ReceiverStates]
  BY <1>0, <1>1, <1>3, <1>6, <1>7, <1>8, MoveHolds
<1>10. /\ processed' \in [Receivers -> Seq(SerialNumbers)]
       /\ marked' \in [Receivers -> SUBSET SerialNumbers]
       /\ owed' \in [Receivers -> SUBSET SerialNumbers]
       /\ since' \in [Receivers -> SerialNumbers]
  BY <1>4 DEF Base, Typed, history
<1> QED
  BY <1>3, <1>4, <1>6, <1>7, <1>9, <1>10, StepKeeps

\* The thread registers its receiver, if it was not subscribed at construction.
LEMMA launchedKeepsBase ==
  ASSUME Base, NEW r \in Receivers, launched(r)
  PROVE  Base'
<1> DEFINE c == [receiver[r] EXCEPT !.at = "wait"]
<1>0. /\ receiver[r] \in ReceiverStates /\ receiver \in [Receivers -> ReceiverStates]
      /\ queue \in Fields /\ \A z \in Entries : queue.sn[z] \in SerialNumbers
  BY BaseIs DEF Base, Typed
<1>1. PICK u, f : Sound(queue, u, f) /\ FlagsOK(queue, u) /\ AllPlaced(queue, u, f, receiver)
  BY BaseIs
<1>2. receiver[r].at = "launching" /\ receiver[r].curit = end
  BY <1>1 DEF AllPlaced, Placed, launched, At
<1>3. c \in ReceiverStates /\ c.at = "wait" /\ c.curit = end /\ receiver' = [receiver EXCEPT ![r] = c]
  BY <1>0, <1>2 DEF ReceiverStates, Locations, launched, Goes
<1> HIDE DEF c
<1>4. UNCHANGED <<sender, calls, processed, marked>>
  BY DEF launched, Unsent
<1>5. CASE r \in queue.rcvrs
  <2>1. UNCHANGED <<queue, sender, calls, history>>
    BY <1>4, <1>5 DEF launched, history
  <2>2. \A v, g : Sound(queue, v, g) /\ Placed(queue, v, g, r, receiver[r])
                    => Placed(queue, v, g, r, c)
    BY <1>3, <1>5 DEF Placed, Near, Handling
  <2> QED
    BY <1>3, <2>1, <2>2, MoveKeeps
<1>6. CASE r \notin queue.rcvrs
  <2> DEFINE s == [queue.sem EXCEPT ![r] = 0]
             R == queue.rcvrs \cup {r}
             p == [queue EXCEPT !.rcvrs = R, !.sem = s]
  <2>1. s \in [Receivers -> Nat] /\ R \in SUBSET Receivers
    BY <1>0 DEF Fields
  <2>2. Register(r)
    BY <1>6 DEF launched
  <2>3. queue' = p
    BY <2>2, Zenon DEF Register, addReceiver
  <2> HIDE DEF s
  <2>4. /\ p \in Fields /\ p.mq = queue.mq /\ p.sn = queue.sn /\ p.readFlags = queue.readFlags
        /\ p.numRead = queue.numRead /\ p.numMessages = queue.numMessages
        /\ p.rcvrs = R /\ p.messagesRead = queue.messagesRead
    BY <2>1, <1>0 DEF Fields
  <2> HIDE DEF p
  <2>5. Follows(queue, u, f, p, u, f)
    BY <2>4, <1>1, AloneIs
  <2>6. Placed(p, u, f, r, c)
    BY <2>4, <1>3 DEF Placed, Near, Handling
  <2>7. \A r2 \in Receivers \ {r} : r2 \in p.rcvrs <=> r2 \in queue.rcvrs
    BY <2>4
  <2>8. Holds(p, [receiver EXCEPT ![r] = c]) /\ [receiver EXCEPT ![r] = c] \in [Receivers -> ReceiverStates]
    BY <1>0, <1>1, <1>3, <2>5, <2>6, <2>7, MoveHolds
  <2>9. Gone(p) = Gone(queue)
    BY <2>4 DEF Gone
  <2>10. owed' \in [Receivers -> SUBSET SerialNumbers]
    <3>1. Waiting(queue) \subseteq SerialNumbers
      <4>1. InUse(queue.mq) = u /\ \A i \in 1 .. Len(u) : u[i] \in Entries
        BY <1>1, SoundIs
      <4>2. DOMAIN u = 1 .. Len(u)
        BY <1>1, SoundIs, LenProperties
      <4> QED
        BY <4>1, <4>2, <1>0 DEF Waiting
    <3> QED
      BY <3>1, <2>2 DEF Register, Base, Typed
  <2>11. since' \in [Receivers -> SerialNumbers]
    <3>1. queue.numMessages \in SerialNumbers
      BY BaseIs DEF Queues
    <3> QED
      BY <3>1, <2>2 DEF Register, Base, Typed
  <2>12. /\ processed' \in [Receivers -> Seq(SerialNumbers)]
         /\ marked' \in [Receivers -> SUBSET SerialNumbers]
    BY <1>4 DEF Base, Typed
  <2> QED
    BY <1>3, <1>4, <2>3, <2>4, <2>8, <2>9, <2>10, <2>11, <2>12, StepKeeps
<1> QED
  BY <1>5, <1>6

\* The steps that only go on, or lower the semaphore
LEMMA SimpleStepsKeepBase ==
  ASSUME Base, NEW r \in Receivers,
         start(r) \/ waitNextMessage(r) \/ checkNew(r) \/ markFind(r) \/ lowerForNext(r)
  PROVE  Base'
<1>1. CASE start(r)
  <2>1. receiver[r].at = "none" /\ "launching" \in Locations /\ Goes(r, "launching")
        /\ UNCHANGED <<queue, sender, calls, history>>
    BY <1>1 DEF start, At, Unsent, Locations
  <2> QED
    BY <2>1, GoesKeeps DEF Handling
<1>2. CASE waitNextMessage(r)
  BY <1>2, LoweringKeeps DEF waitNextMessage, At, Unsent
<1>3. CASE checkNew(r)
  <2> DEFINE l == IF receiver[r].lastProcessedMessage # queue.sn[receiver[r].curit]
                    THEN "process" ELSE "looped"
  <2>1. receiver[r].at = "check" /\ l \in {"process", "looped"} /\ Goes(r, l)
        /\ UNCHANGED <<queue, sender, calls, history>>
    BY <1>3 DEF checkNew, At, Unsent
  <2> HIDE DEF l
  <2>2. l \in Locations
    BY <2>1 DEF Locations
  <2> QED
    BY <2>1, <2>2, GoesKeeps DEF Handling
<1>4. CASE markFind(r)
  <2> DEFINE l == IF queue.sn[receiver[r].curit] < receiver[r].nextMessage
                    THEN "findNext" ELSE "note"
  <2>1. receiver[r].at = "find" /\ l \in {"findNext", "note"} /\ Goes(r, l)
        /\ UNCHANGED <<queue, sender, calls, history>>
    BY <1>4 DEF markFind, At, Unsent
  <2> HIDE DEF l
  <2>2. l \in Locations
    BY <2>1 DEF Locations
  <2> QED
    BY <2>1, <2>2, GoesKeeps DEF Handling
<1>5. CASE lowerForNext(r)
  BY <1>5, LoweringKeeps DEF lowerForNext, At, Unsent
<1> QED
  BY <1>1, <1>2, <1>3, <1>4, <1>5

\* The end of runloop, and finish()'s waiting for it
LEMMA RunningKeepsBase ==
  ASSUME Base, NEW r \in Receivers, runAgain(r) \/ finishStop(r) \/ join(r)
  PROVE  Base'
<1>0. receiver[r] \in ReceiverStates /\ receiver \in [Receivers -> ReceiverStates]
  BY BaseIs DEF Base, Typed
<1>1. CASE runAgain(r)
  <2> DEFINE c == [receiver[r] EXCEPT !.at = AfterLooping(r), !.msg = NoMessage]
  <2>1. AfterLooping(r) \in {"wait", "exited"}
    BY DEF AfterLooping
  <2>2. c \in ReceiverStates /\ c.at \in {"wait", "exited"} /\ c.curit = receiver[r].curit
    BY <2>1, <1>0 DEF ReceiverStates, Locations
  <2>3. receiver' = [receiver EXCEPT ![r] = c]
    BY <1>0, <1>1 DEF runAgain
  <2>4. receiver[r].at = "looped" /\ UNCHANGED <<queue, sender, calls, history>>
    BY <1>1 DEF runAgain, At, Unsent
  <2> HIDE DEF c
  <2> QED
    BY <2>2, <2>3, <2>4, ChangeKeeps DEF Handling
<1>2. CASE finishStop(r)
  <2> DEFINE c == [receiver[r] EXCEPT !.finish = "stopping"]
  <2>1. /\ c \in ReceiverStates /\ c.at = receiver[r].at /\ c.curit = receiver[r].curit
        /\ c.msg = receiver[r].msg
    BY <1>0 DEF ReceiverStates
  <2>2. receiver' = [receiver EXCEPT ![r] = c]
    BY <1>0, <1>2 DEF finishStop
  <2>3. UNCHANGED <<queue, sender, calls, history>>
    BY <1>2 DEF finishStop, Unsent
  <2> HIDE DEF c
  <2>4. \A u, f : Sound(queue, u, f) /\ Placed(queue, u, f, r, receiver[r])
                    => Placed(queue, u, f, r, c)
    BY <2>1 DEF Placed
  <2> QED
    BY <2>1, <2>2, <2>3, <2>4, MoveKeeps
<1>3. CASE join(r)
  <2> DEFINE c == [receiver[r] EXCEPT !.finish = "draining", !.at = "peek"]
  <2>1. c \in ReceiverStates /\ c.at = "peek" /\ c.curit = receiver[r].curit
    BY <1>0 DEF ReceiverStates, Locations
  <2>2. receiver' = [receiver EXCEPT ![r] = c]
    BY <1>0, <1>3 DEF join
  <2>3. receiver[r].at \notin {"none", "launching", "finished"} \/ r \in queue.rcvrs
    BY <1>3 DEF join, At
  <2>4. UNCHANGED <<queue, sender, calls, history>>
    BY <1>3 DEF join, Unsent
  <2> HIDE DEF c
  <2> QED
    BY <2>1, <2>2, <2>3, <2>4, ChangeKeeps DEF Handling
<1> QED
  BY <1>1, <1>2, <1>3

\* close() and setOverflowPolicy()
LEMMA SettingsKeepBase ==
  ASSUME Base, close \/ \E op \in LaterPolicies : setOverflowPolicy(op)
  PROVE  Base'
<1>1. PICK u, f : Sound(queue, u, f) /\ FlagsOK(queue, u) /\ AllPlaced(queue, u, f, receiver)
  BY BaseIs
<1>0. queue \in Fields /\ receiver \in [Receivers -> ReceiverStates]
  BY BaseIs DEF Base, Typed
<1>2. \E a \in BOOLEAN, op \in Policies :
        queue' = [queue EXCEPT !.isClosed = a, !.overflowPolicy = op]
  <2>1. CASE close
    <3>1. queue.overflowPolicy \in Policies /\ queue' = [queue EXCEPT !.isClosed = TRUE]
      BY <2>1, <1>0 DEF close, Fields
    <3>2. queue' = [queue EXCEPT !.isClosed = TRUE, !.overflowPolicy = queue.overflowPolicy]
      BY <3>1, <1>0 DEF Fields
    <3> QED
      BY <3>1, <3>2
  <2>2. ASSUME NEW op \in LaterPolicies, setOverflowPolicy(op)
        PROVE  /\ op \in Policies /\ queue.isClosed \in BOOLEAN
               /\ queue' = [queue EXCEPT !.isClosed = queue.isClosed, !.overflowPolicy = op]
    <3>1. op \in Policies /\ queue.isClosed \in BOOLEAN
      BY <1>0, ReceiverAssumption DEF Fields
    <3>2. queue' = [queue EXCEPT !.overflowPolicy = op]
      BY <2>2 DEF setOverflowPolicy
    <3> QED
      BY <3>1, <3>2, <1>0 DEF Fields
  <2> QED
    BY <2>1, <2>2
<1>3. PICK a \in BOOLEAN, op \in Policies :
        queue' = [queue EXCEPT !.isClosed = a, !.overflowPolicy = op]
  BY <1>2
<1> DEFINE p == [queue EXCEPT !.isClosed = a, !.overflowPolicy = op]
<1>4. /\ p \in Fields /\ p.mq = queue.mq /\ p.sn = queue.sn /\ p.readFlags = queue.readFlags
      /\ p.numRead = queue.numRead /\ p.numMessages = queue.numMessages
      /\ p.rcvrs = queue.rcvrs /\ p.messagesRead = queue.messagesRead
  BY <1>0 DEF Fields
<1>5. queue' = p
  BY <1>3
<1> HIDE DEF p
<1>6. Follows(queue, u, f, p, u, f)
  BY <1>1, <1>4, AloneIs
<1>7. Holds(p, receiver) /\ Gone(p) = Gone(queue)
  BY <1>0, <1>1, <1>4, <1>6, HoldsOn DEF Gone
<1>8. UNCHANGED <<sender, calls, receiver, history>>
  BY DEF close, setOverflowPolicy
<1>9. /\ processed' \in [Receivers -> Seq(SerialNumbers)]
      /\ marked' \in [Receivers -> SUBSET SerialNumbers]
      /\ owed' \in [Receivers -> SUBSET SerialNumbers]
      /\ since' \in [Receivers -> SerialNumbers]
      /\ receiver' \in [Receivers -> ReceiverStates]
  BY <1>8 DEF history, Base, Typed
<1> QED
  BY <1>4, <1>5, <1>7, <1>8, <1>9, StepKeeps

\* Nothing happens.
LEMMA StutterKeepsBase ==
  ASSUME Base, UNCHANGED vars
  PROVE  Base'
<1>1. Typed'
  BY DEF Base, Typed, vars
<1>2. Holds(queue', receiver') /\ Counted(queue', sender', calls')
  BY DEF Base, vars
<1> QED
  BY <1>1, <1>2 DEF Base

\* Every step keeps the invariant.
LEMMA BaseGoesOn ==
  ASSUME Base, [Next]_vars
  PROVE  Base'
<1>1. ASSUME NEW s \in Senders, sendMessage(s) \/ Overwrite(s) \/ Woken(s) \/ Retry(s) PROVE Base'
  BY <1>1, sendMessageKeepsBase, OverwriteKeepsBase, WokenKeepsBase, RetryKeepsBase
<1>2. ASSUME NEW r \in Receivers, start(r) \/ Thread(r) \/ Finish(r) PROVE Base'
  <2>1. CASE start(r)
    BY <2>1, SimpleStepsKeepBase
  <2>2. CASE Thread(r)
    BY <2>2, launchedKeepsBase, SimpleStepsKeepBase, PeekKeepsBase, processKeepsBase,
       MarkingKeepsBase, markKeepsBase, RunningKeepsBase DEF Thread
  <2>3. CASE Finish(r)
    BY <2>3, RunningKeepsBase, stopKeepsBase, finishRemoveKeepsBase DEF Finish
  <2> QED
    BY <1>2, <2>1, <2>2, <2>3
<1>3. CASE UNCHANGED vars
  BY <1>3, StutterKeepsBase
<1> QED
  BY <1>1, <1>2, <1>3, SettingsKeepBase DEF Next

\* Whatever the policy, and whoever comes and goes: the queue stays of its type, its
\* list and its free queue are those of the buffer, and every iterator is at a place.
THEOREM QueueStaysSound == Spec => [](TypeOK /\ Base)
<1>1. Init => Base
  BY BaseBegins
<1>2. Base /\ [Next]_vars => Base'
  BY BaseGoesOn
<1>3. Base => TypeOK
  BY BaseIsTyped
<1> QED
  BY <1>1, <1>2, <1>3, PTL DEF Spec

\* peekNextMessage() ends: findCurrentMessage's walk from a place, over links that
\* others may have changed since, comes to a message that is new or to the end.
THEOREM PeekEnds == Spec => []ScanEnds
<1>1. Base => ScanEnds
  <2> SUFFICES ASSUME Base, NEW r \in Receivers, At(r, "peek")
               PROVE  Found(r) = end \/ queue.sn[Found(r)] >= receiver[r].nextMessage
    BY DEF ScanEnds
  <2>1. PICK u, f : Sound(queue, u, f) /\ FlagsOK(queue, u) /\ AllPlaced(queue, u, f, receiver)
    BY BaseIs
  <2> DEFINE x == receiver[r].curit
             N == receiver[r].nextMessage
             y == Found(r)
  <2>2. Near(queue, u, f, r, x) /\ x \in Indices
    BY <2>1 DEF AllPlaced, Placed, At, Base, Typed, ReceiverStates
  <2>3. LET unread == {z \in Entries : queue.sn[z] >= N}
        IN  y = IF x = end THEN newer(queue, Walk(newest(queue), unread, queue.mq.prev))
                ELSE Walk(x, Entries \ unread, queue.mq.next)
    BY Zenon DEF Found, Unread
  <2> HIDE DEF x, N, y
  <2>4. y = end \/ queue.sn[y] >= N
    BY <2>1, <2>2, <2>3, FoundIs
  <2> QED
    BY <2>4 DEF y, N
<1> QED
  BY <1>1, QueueStaysSound, PTL
-----------------------------------------------------------------------------
(* The inductive invariant for the policies that drop no message that was sent *)

NoDrop == "DROP_OLDEST" \notin LaterPolicies \cup {InitialPolicy}

\* The messages are in the order they were sent, an older one is read by whoever has
\* read a newer one, and none is read by all.
InOrder(q, u) ==
  /\ \A i \in 1 .. Len(u) :
       q.sn[u[i]] < q.numMessages /\ (q.rcvrs # {} => q.readFlags[u[i]] # q.rcvrs)
  /\ \A j \in 1 .. Len(u) : \A i \in 1 .. j - 1 :
       q.sn[u[i]] < q.sn[u[j]] /\ q.readFlags[u[j]] \subseteq q.readFlags[u[i]]

\* The i-th is the first that r has not read.
First(q, u, r, i) ==
  r \notin q.readFlags[u[i]] /\ \A j \in 1 .. i - 1 : r \in q.readFlags[u[j]]

AtFirst(q, u, r, x) == \E i \in 1 .. Len(u) : x = u[i] /\ First(q, u, r, i)

\* x is the last that r has read and is in the list, ...
Passed(q, u, r, x) ==
  \E i \in 1 .. Len(u) :
    /\ x = u[i] /\ r \in q.readFlags[u[i]]
    /\ \A j \in i + 1 .. Len(u) : r \notin q.readFlags[u[j]]

\* ... or the list has none, and x has left it last, or was used again for the newest.
LeftBehind(q, u, f, r, x) ==
  /\ \A i \in 1 .. Len(u) : r \notin q.readFlags[u[i]]
  /\ \/ f # <<>> /\ x = f[Len(f)] /\ q.mq.next[x] \in {end, Nth(u, 1)}
     \/ f = <<>> /\ u # <<>> /\ x = u[Len(u)]

Position(q, u, f, r, c) ==
  /\ c.at # "findNext"
  /\ c.at \in {"wait", "looped", "exited"} => c.curit = end
  /\ c.at \in {"check", "process", "find", "note", "mark"} => AtFirst(q, u, r, c.curit)
  /\ c.at \in {"lower", "peek"} => c.curit = end \/ AtFirst(q, u, r, c.curit)
  /\ c.at = "advance" => Passed(q, u, r, c.curit) \/ LeftBehind(q, u, f, r, c.curit)

\* A receiver has read what is below the boundary, and processed what is below the limit.
Boundary(q, c) == IF c.at = "mark" THEN q.sn[c.curit] ELSE c.nextMessage
Limit(q, c) == IF c.at \in {"find", "note"} THEN q.sn[c.curit] + 1 ELSE c.nextMessage

\* What holds of a receiver that is registered
Reader(q, u, f, r, c, mk, ow, s0) ==
  /\ \A i \in 1 .. Len(u) : r \in q.readFlags[u[i]] <=> q.sn[u[i]] < Boundary(q, c)
  /\ \A i \in 1 .. Len(u) : r \in q.readFlags[u[i]] => q.sn[u[i]] \in mk
  /\ \A sn \in ow : sn \in mk \/ \E i \in 1 .. Len(u) : sn = q.sn[u[i]]
  /\ Position(q, u, f, r, c)
  /\ c.at \in {"none", "launching", "wait", "looped"} /\ q.sem[r] = 0 =>
       \A i \in 1 .. Len(u) : q.sn[u[i]] >= s0 => r \in q.readFlags[u[i]]
  /\ c.at = "mark" => c.nextMessage = q.sn[c.curit] + 1
  /\ c.at \in {"check", "process"} => c.msg = q.sn[c.curit]

\* What holds of every receiver
Past(q, c, pr, mk) ==
  /\ \A m, n \in 1 .. Len(pr) : m < n => pr[m] < pr[n]
  /\ \A n \in 1 .. Len(pr) : pr[n] < Limit(q, c)
  /\ c.lastProcessedMessage < Limit(q, c)
  /\ \A sn \in mk : \E n \in 1 .. Len(pr) : sn = pr[n]
  /\ c.at \in {"find", "note", "mark"} => \E n \in 1 .. Len(pr) : q.sn[c.curit] = pr[n]
  /\ c.nextMessage <= q.numMessages
  /\ c.at \in {"none", "launching"} => c.nextMessage = 0

-----------------------------------------------------------------------------
(* A message is sent. *)

Sent(q, u, f, p, v, g) ==
  /\ Sound(p, v, g) /\ Pushed(u, f, v, g)
  /\ \A k \in 2 .. Len(f) : p.mq.next[f[k]] = q.mq.next[f[k]]
  /\ p.sn = [q.sn EXCEPT ![f[1]] = q.numMessages]
  /\ p.readFlags = [q.readFlags EXCEPT ![f[1]] = {}]
  /\ p.rcvrs = q.rcvrs /\ p.numMessages = q.numMessages + 1
  /\ p.overflowPolicy = q.overflowPolicy
  /\ \A r \in q.rcvrs : p.sem[r] # 0

\* sendMessage()'s new message is the newest, unread, and the receivers are notified of it.
LEMMA PostIs ==
  ASSUME NEW q, NEW u, NEW f, Sound(q, u, f), f # <<>>
  PROVE  \E v, g : Sent(q, u, f, Post(q), v, g)
<1>0. q \in Fields /\ Len(u) \in Nat /\ Len(f) \in Nat
  BY SoundIs DEF Sound
<1>1. \E o : o = NewSlot(q) /\ \E v, g : Slotted(q, u, f, o, v, g)
  BY NewSlotIs
<1>2. PICK o, v, g : o = NewSlot(q) /\ Slotted(q, u, f, o, v, g)
  BY <1>1
<1> DEFINE p == Written(o)
<1>3. Sound(o, v, g) /\ Pushed(u, f, v, g)
  BY <1>2 DEF Slotted
<1>4. o \in Fields /\ v # <<>> /\ Len(v) = Len(u) + 1 /\ v[Len(v)] = f[1]
  <2>1. Len(v) = Len(u) + 1 /\ v[Len(v)] = f[1]
    BY <1>0, <1>3 DEF Pushed
  <2>2. v # <<>>
    BY <2>1, <1>0, <1>3, SoundIs
  <2> QED
    BY <2>1, <2>2, <1>3 DEF Sound
<1>5. /\ p = [o EXCEPT !.sn = [@ EXCEPT ![v[Len(v)]] = o.numMessages],
                       !.numMessages = @ + 1,
                       !.sem = [r \in Receivers |-> IF r \in o.rcvrs THEN @[r] + 1 ELSE @[r]]]
      /\ Sound(p, v, g)
  BY <1>3, <1>4, WrittenIs
<1>6. /\ p.mq = o.mq /\ p.sn = [o.sn EXCEPT ![f[1]] = o.numMessages]
      /\ p.readFlags = o.readFlags /\ p.rcvrs = o.rcvrs /\ p.numMessages = o.numMessages + 1
      /\ p.overflowPolicy = o.overflowPolicy
      /\ p.sem = [r \in Receivers |-> IF r \in o.rcvrs THEN o.sem[r] + 1 ELSE o.sem[r]]
  BY <1>4, <1>5 DEF Fields
<1> HIDE DEF p
<1>7. p.sn = [q.sn EXCEPT ![f[1]] = q.numMessages]
  BY <1>0, <1>2, <1>6 DEF Fields, Slotted
<1>8. \A r \in q.rcvrs : p.sem[r] # 0
  <2> TAKE r \in q.rcvrs
  <2>1. r \in Receivers /\ q.sem[r] \in Nat
    BY <1>0 DEF Fields
  <2>2. p.sem[r] = q.sem[r] + 1
    BY <2>1, <1>2, <1>6 DEF Slotted
  <2> QED
    BY <2>1, <2>2
<1>9. Sent(q, u, f, p, v, g)
  BY <1>2, <1>3, <1>5, <1>6, <1>7, <1>8 DEF Sent, Slotted
<1> QED
  BY <1>2, <1>9 DEF Post, p

\* What Sent says, message by message
LEMMA SentIs ==
  ASSUME NEW q, NEW u, NEW f, Sound(q, u, f), NEW p, NEW v, NEW g, Sent(q, u, f, p, v, g)
  PROVE  /\ Len(u) \in Nat /\ Len(f) \in Nat \ {0} /\ Len(v) = Len(u) + 1 /\ Len(g) = Len(f) - 1
         /\ \A i \in 1 .. Len(u) :
              /\ i \in 1 .. Len(v) /\ v[i] = u[i] /\ p.sn[v[i]] = q.sn[u[i]]
              /\ p.readFlags[v[i]] = q.readFlags[u[i]]
         /\ Len(u) + 1 \in 1 .. Len(v) /\ v[Len(u) + 1] = f[1]
         /\ p.sn[v[Len(u) + 1]] = q.numMessages /\ p.readFlags[v[Len(u) + 1]] = {}
         /\ \A i \in 1 .. Len(v) : i \in 1 .. Len(u) \/ i = Len(u) + 1
         /\ \A i \in 1 .. Len(u) : q.sn[u[i]] \in Nat
         /\ q.numMessages \in Nat
<1>1. /\ Len(u) \in Nat /\ Len(f) \in Nat \ {0} /\ Len(v) = Len(u) + 1 /\ Len(g) = Len(f) - 1
      /\ 1 \in 1 .. Len(f)
  <2>1. Len(u) \in Nat /\ Len(f) \in Nat
    BY SoundIs
  <2> QED
    BY <2>1 DEF Sent, Pushed
<1>2. f[1] \in Entries /\ \A i \in 1 .. Len(u) : u[i] \in Entries /\ u[i] # f[1]
  BY <1>1, SoundIs
<1>3. /\ q.sn \in [Entries -> Nat] /\ q.readFlags \in [Entries -> SUBSET Receivers]
      /\ q.numMessages \in Nat
  BY DEF Sound, Fields
<1>4. ASSUME NEW i \in 1 .. Len(u)
      PROVE  /\ i \in 1 .. Len(v) /\ v[i] = u[i] /\ p.sn[v[i]] = q.sn[u[i]]
             /\ p.readFlags[v[i]] = q.readFlags[u[i]] /\ q.sn[u[i]] \in Nat
  <2>1. i \in 1 .. Len(v) /\ v[i] = u[i]
    BY <1>1 DEF Sent, Pushed
  <2> QED
    BY <2>1, <1>2, <1>3 DEF Sent
<1>5. /\ Len(u) + 1 \in 1 .. Len(v) /\ v[Len(u) + 1] = f[1]
      /\ p.sn[v[Len(u) + 1]] = q.numMessages /\ p.readFlags[v[Len(u) + 1]] = {}
  <2>1. Len(u) + 1 \in 1 .. Len(v) /\ v[Len(u) + 1] = f[1]
    BY <1>1 DEF Sent, Pushed
  <2> QED
    BY <2>1, <1>2, <1>3 DEF Sent
<1>6. \A i \in 1 .. Len(v) : i \in 1 .. Len(u) \/ i = Len(u) + 1
  BY <1>1
<1> QED
  BY <1>1, <1>3, <1>4, <1>5, <1>6

\* The new message's number is above the others', and none has read it.
LEMMA InOrderSent ==
  ASSUME NEW q, NEW u, NEW f, Sound(q, u, f), NEW p, NEW v, NEW g, Sent(q, u, f, p, v, g),
         InOrder(q, u)
  PROVE  InOrder(p, v)
<1>0. p.rcvrs = q.rcvrs /\ p.numMessages = q.numMessages + 1
  BY DEF Sent
<1>1. ASSUME NEW i \in 1 .. Len(v)
      PROVE  p.sn[v[i]] < p.numMessages /\ (p.rcvrs # {} => p.readFlags[v[i]] # p.rcvrs)
  <2>1. CASE i \in 1 .. Len(u)
    <3>1. /\ p.sn[v[i]] = q.sn[u[i]] /\ p.readFlags[v[i]] = q.readFlags[u[i]]
          /\ q.sn[u[i]] \in Nat /\ q.numMessages \in Nat
      BY <2>1, SentIs
    <3>2. q.sn[u[i]] < q.numMessages /\ (q.rcvrs # {} => q.readFlags[u[i]] # q.rcvrs)
      BY <2>1 DEF InOrder
    <3> QED
      BY <3>1, <3>2, <1>0
  <2>2. CASE i = Len(u) + 1
    <3>1. /\ p.sn[v[Len(u) + 1]] = q.numMessages /\ p.readFlags[v[Len(u) + 1]] = {}
          /\ q.numMessages \in Nat
      BY SentIs
    <3> QED
      BY <3>1, <2>2, <1>0
  <2> QED
    BY <2>1, <2>2, SentIs
<1>2. ASSUME NEW j \in 1 .. Len(v), NEW i \in 1 .. j - 1
      PROVE  p.sn[v[i]] < p.sn[v[j]] /\ p.readFlags[v[j]] \subseteq p.readFlags[v[i]]
  <2>0. Len(u) \in Nat /\ Len(v) = Len(u) + 1
    BY SentIs
  <2>1. i \in 1 .. Len(u)
    BY <2>0
  <2>2. CASE j \in 1 .. Len(u)
    <3>1. q.sn[u[i]] < q.sn[u[j]] /\ q.readFlags[u[j]] \subseteq q.readFlags[u[i]]
      BY <2>2 DEF InOrder
    <3> QED
      BY <3>1, <2>1, <2>2, SentIs
  <2>3. CASE j = Len(u) + 1
    <3>1. q.sn[u[i]] < q.numMessages
      BY <2>1 DEF InOrder
    <3>2. /\ p.sn[v[Len(u) + 1]] = q.numMessages /\ p.readFlags[v[Len(u) + 1]] = {}
          /\ p.sn[v[i]] = q.sn[u[i]]
      BY <2>1, SentIs
    <3> QED
      BY <3>1, <3>2, <2>3
  <2> QED
    BY <2>2, <2>3, SentIs
<1> QED
  BY <1>1, <1>2 DEF InOrder

\* A receiver's place is the same when a message is sent.
LEMMA FirstSent ==
  ASSUME NEW q, NEW u, NEW f, Sound(q, u, f), NEW p, NEW v, NEW g, Sent(q, u, f, p, v, g),
         NEW r, NEW x, AtFirst(q, u, r, x)
  PROVE  AtFirst(p, v, r, x) /\ p.sn[x] = q.sn[x] /\ \E i \in 1 .. Len(u) : x = u[i]
<1>1. PICK i \in 1 .. Len(u) : x = u[i] /\ First(q, u, r, i)
  BY DEF AtFirst
<1>2. i \in 1 .. Len(v) /\ v[i] = u[i] /\ p.sn[v[i]] = q.sn[u[i]] /\ p.readFlags[v[i]] = q.readFlags[u[i]]
  BY SentIs
<1>3. First(p, v, r, i)
  <2>1. r \notin p.readFlags[v[i]]
    BY <1>1, <1>2 DEF First
  <2>2. ASSUME NEW j \in 1 .. i - 1 PROVE r \in p.readFlags[v[j]]
    <3>1. j \in 1 .. Len(u)
      BY SentIs
    <3>2. p.readFlags[v[j]] = q.readFlags[u[j]]
      BY <3>1, SentIs
    <3> QED
      BY <3>2, <1>1 DEF First
  <2> QED
    BY <2>1, <2>2 DEF First
<1> QED
  BY <1>1, <1>2, <1>3 DEF AtFirst

\* Where r has passed its last, it still has.
LEMMA PassedSent ==
  ASSUME NEW q, NEW u, NEW f, Sound(q, u, f), NEW p, NEW v, NEW g, Sent(q, u, f, p, v, g),
         NEW r, NEW x, Passed(q, u, r, x)
  PROVE  Passed(p, v, r, x)
<1>1. PICK i \in 1 .. Len(u) : /\ x = u[i] /\ r \in q.readFlags[u[i]]
                               /\ \A j \in i + 1 .. Len(u) : r \notin q.readFlags[u[j]]
  BY DEF Passed
<1>2. i \in 1 .. Len(v) /\ v[i] = u[i] /\ p.readFlags[v[i]] = q.readFlags[u[i]]
  BY SentIs
<1>3. ASSUME NEW j \in i + 1 .. Len(v) PROVE r \notin p.readFlags[v[j]]
  <2>1. j \in 1 .. Len(v)
    BY SentIs
  <2>2. CASE j \in 1 .. Len(u)
    <3>1. p.readFlags[v[j]] = q.readFlags[u[j]] /\ j \in i + 1 .. Len(u)
      BY <2>2, SentIs
    <3> QED
      BY <3>1, <1>1
  <2>3. CASE j = Len(u) + 1
    <3>1. p.readFlags[v[Len(u) + 1]] = {}
      BY SentIs
    <3> QED
      BY <3>1, <2>3
  <2> QED
    BY <2>1, <2>2, <2>3, SentIs
<1> QED
  BY <1>1, <1>2, <1>3 DEF Passed

\* The entry that r was left at is still the last free one, or holds the newest message.
LEMMA LeftBehindSent ==
  ASSUME NEW q, NEW u, NEW f, Sound(q, u, f), NEW p, NEW v, NEW g, Sent(q, u, f, p, v, g),
         NEW r, NEW x, LeftBehind(q, u, f, r, x)
  PROVE  LeftBehind(p, v, g, r, x)
<1>1. ASSUME NEW i \in 1 .. Len(v) PROVE r \notin p.readFlags[v[i]]
  <2>1. CASE i \in 1 .. Len(u)
    <3>1. p.readFlags[v[i]] = q.readFlags[u[i]]
      BY <2>1, SentIs
    <3> QED
      BY <3>1, <2>1 DEF LeftBehind
  <2>2. CASE i = Len(u) + 1
    <3>1. p.readFlags[v[Len(u) + 1]] = {}
      BY SentIs
    <3> QED
      BY <3>1, <2>2
  <2> QED
    BY <2>1, <2>2, SentIs
<1>2. /\ Len(f) \in Nat \ {0} /\ Len(u) \in Nat /\ Len(v) = Len(u) + 1 /\ Len(g) = Len(f) - 1
      /\ v[Len(u) + 1] = f[1]
  BY SentIs
<1>3. Sound(p, v, g) /\ Pushed(u, f, v, g) /\ \A k \in 2 .. Len(f) : p.mq.next[f[k]] = q.mq.next[f[k]]
  BY DEF Sent
<1>4. f # <<>> /\ x = f[Len(f)] /\ q.mq.next[x] \in {end, Nth(u, 1)}
  BY <1>2, SoundIs DEF LeftBehind
<1>5. CASE Len(f) = 1
  <2>1. g = <<>> /\ v # <<>>
    BY <1>2, <1>3, <1>5, SoundIs
  <2>2. x = v[Len(v)]
    BY <1>2, <1>4, <1>5
  <2> QED
    BY <2>1, <2>2, <1>1 DEF LeftBehind
<1>6. CASE Len(f) # 1
  <2>1. Len(f) \in 2 .. Len(f) /\ Len(g) = Len(f) - 1 /\ Len(g) \in 1 .. Len(f) - 1 /\ Len(g) + 1 = Len(f)
    BY <1>2, <1>6
  <2>2. g[Len(g)] = f[Len(f)]
    BY <2>1, <1>3 DEF Pushed
  <2>3. g # <<>>
    BY <2>1, <1>3, SoundIs
  <2>4. p.mq.next[x] = q.mq.next[x]
    BY <2>1, <1>3, <1>4
  <2>5. Nth(u, 1) \in {end, Nth(v, 1)}
    <3>1. CASE Len(u) = 0
      BY <3>1 DEF Nth
    <3>2. CASE Len(u) # 0
      <4>1. 1 \in 1 .. Len(u) /\ 1 \in 1 .. Len(v)
        BY <3>2, <1>2
      <4>2. v[1] = u[1]
        BY <4>1, SentIs
      <4> QED
        BY <4>1, <4>2 DEF Nth
    <3> QED
      BY <3>1, <3>2
  <2>6. p.mq.next[x] \in {end, Nth(v, 1)}
    BY <2>4, <2>5, <1>4
  <2> QED
    BY <2>2, <2>3, <2>6, <1>1, <1>4 DEF LeftBehind
<1> QED
  BY <1>5, <1>6

\* The message is one that the receiver has yet to read.
LEMMA ReaderSent ==
  ASSUME NEW q, NEW u, NEW f, Sound(q, u, f), NEW p, NEW v, NEW g, Sent(q, u, f, p, v, g),
         InOrder(q, u), NEW r \in q.rcvrs, NEW c \in ReceiverStates,
         c.nextMessage <= q.numMessages,
         NEW mk, NEW ow, NEW s0, Reader(q, u, f, r, c, mk, ow, s0)
  PROVE  Reader(p, v, g, r, c, mk, ow \cup {q.numMessages}, s0)
<1>1. Position(q, u, f, r, c)
  BY DEF Reader
<1>2. Position(p, v, g, r, c)
  BY <1>1, FirstSent, PassedSent, LeftBehindSent DEF Position
<1>3. ASSUME c.at \in {"check", "process", "find", "note", "mark"}
      PROVE  p.sn[c.curit] = q.sn[c.curit] /\ \E i \in 1 .. Len(u) : c.curit = u[i]
  BY <1>1, <1>3, FirstSent DEF Position
<1>4. Boundary(p, c) = Boundary(q, c)
  BY <1>3 DEF Boundary
<1>5. Boundary(q, c) \in Int /\ Boundary(q, c) <= q.numMessages
  <2>1. CASE c.at = "mark"
    <3>1. PICK i \in 1 .. Len(u) : c.curit = u[i]
      BY <1>3, <2>1
    <3>2. q.sn[u[i]] < q.numMessages
      BY <3>1 DEF InOrder
    <3>3. q.sn[u[i]] \in Nat /\ q.numMessages \in Nat
      BY <3>1, SentIs
    <3> QED
      BY <2>1, <3>1, <3>2, <3>3 DEF Boundary
  <2>2. CASE c.at # "mark"
    <3>1. c.nextMessage \in Nat
      BY MaxMessagesAssumption DEF ReceiverStates
    <3> QED
      BY <3>1, <2>2 DEF Boundary
  <2> QED
    BY <2>1, <2>2
<1>6. ASSUME NEW i \in 1 .. Len(v)
      PROVE  /\ r \in p.readFlags[v[i]] <=> p.sn[v[i]] < Boundary(p, c)
             /\ r \in p.readFlags[v[i]] => p.sn[v[i]] \in mk
  <2>1. CASE i \in 1 .. Len(u)
    <3>1. p.sn[v[i]] = q.sn[u[i]] /\ p.readFlags[v[i]] = q.readFlags[u[i]]
      BY <2>1, SentIs
    <3> QED
      BY <3>1, <2>1, <1>4 DEF Reader
  <2>2. CASE i = Len(u) + 1
    <3>1. /\ p.sn[v[Len(u) + 1]] = q.numMessages /\ p.readFlags[v[Len(u) + 1]] = {}
          /\ q.numMessages \in Nat
      BY SentIs
    <3> QED
      BY <3>1, <2>2, <1>4, <1>5
  <2> QED
    BY <2>1, <2>2, SentIs
<1>7. ASSUME NEW sn \in ow \cup {q.numMessages}
      PROVE  sn \in mk \/ \E i \in 1 .. Len(v) : sn = p.sn[v[i]]
  <2>1. CASE sn = q.numMessages
    <3>1. /\ p.sn[v[Len(u) + 1]] = q.numMessages /\ Len(u) + 1 \in 1 .. Len(v)
      BY SentIs
    <3> QED
      BY <3>1, <2>1
  <2>2. ASSUME NEW i \in 1 .. Len(u), sn = q.sn[u[i]]
        PROVE  \E j \in 1 .. Len(v) : sn = p.sn[v[j]]
    <3>1. i \in 1 .. Len(v) /\ p.sn[v[i]] = q.sn[u[i]]
      BY SentIs
    <3> QED
      BY <3>1, <2>2
  <2>3. CASE sn \in ow
    BY <2>2, <2>3 DEF Reader
  <2> QED
    BY <2>1, <2>3
<1>8. p.sem[r] # 0
  BY DEF Sent
<1>9. c.at = "mark" => c.nextMessage = p.sn[c.curit] + 1
  BY <1>3 DEF Reader
<1>10. c.at \in {"check", "process"} => c.msg = p.sn[c.curit]
  BY <1>3 DEF Reader
<1> QED
  BY <1>2, <1>6, <1>7, <1>8, <1>9, <1>10 DEF Reader

\* What holds of a receiver goes on to hold if the number at its iterator is the same.
LEMMA PastKept ==
  ASSUME NEW q, NEW p, NEW c \in ReceiverStates, NEW pr, NEW mk, Past(q, c, pr, mk),
         q.numMessages \in Nat, p.numMessages \in Nat, q.numMessages <= p.numMessages,
         c.at \in {"find", "note", "mark"} => p.sn[c.curit] = q.sn[c.curit]
  PROVE  Past(p, c, pr, mk)
<1>1. Limit(p, c) = Limit(q, c)
  BY DEF Limit
<1>2. c.nextMessage \in Nat
  BY MaxMessagesAssumption DEF ReceiverStates
<1> QED
  BY <1>1, <1>2 DEF Past

-----------------------------------------------------------------------------
(* The oldest messages leave, or none does. *)

\* The first d of the messages of q are gone in p, the d-th of them last.
Shrinks(q, u, f, p, v, g, d) ==
  /\ Sound(q, u, f) /\ Sound(p, v, g) /\ p.sn = q.sn
  /\ d \in 0 .. Len(u) /\ Len(v) = Len(u) - d
  /\ \A i \in 1 .. Len(v) : v[i] = u[i + d]
  /\ d = 0 => v = u /\ g = f /\ p.mq = q.mq
  /\ d > 0 => g # <<>> /\ g[Len(g)] = u[d] /\ p.mq.next[u[d]] = Nth(u, d + 1)

\* Those r had read, and r has read as much of the others as before.
SameFor(q, u, p, v, d, r) ==
  /\ \A i \in 1 .. Len(v) : r \in p.readFlags[v[i]] <=> r \in q.readFlags[u[i + d]]
  /\ \A i \in 1 .. d : r \in q.readFlags[u[i]]

\* r's first unread message stays it when read ones leave.
LEMMA FirstShrinks ==
  ASSUME NEW q, NEW u, NEW f, NEW p, NEW v, NEW g, NEW d, Shrinks(q, u, f, p, v, g, d),
         NEW r, SameFor(q, u, p, v, d, r), NEW x, AtFirst(q, u, r, x)
  PROVE  AtFirst(p, v, r, x)
<1>0. Len(u) \in Nat /\ d \in 0 .. Len(u) /\ Len(v) = Len(u) - d
  BY SoundIs DEF Shrinks
<1>1. PICK i \in 1 .. Len(u) : x = u[i] /\ First(q, u, r, i)
  BY DEF AtFirst
<1>2. i > d
  BY <1>0, <1>1 DEF SameFor, First
<1>3. i - d \in 1 .. Len(v) /\ (i - d) + d = i
  BY <1>0, <1>2
<1>4. v[i - d] = u[i] /\ r \notin p.readFlags[v[i - d]]
  BY <1>1, <1>3 DEF Shrinks, SameFor, First
<1>5. ASSUME NEW j \in 1 .. (i - d) - 1 PROVE r \in p.readFlags[v[j]]
  <2>1. j \in 1 .. Len(v) /\ j + d \in 1 .. i - 1
    BY <1>0, <1>2
  <2>2. r \in q.readFlags[u[j + d]]
    BY <2>1, <1>1 DEF First
  <2> QED
    BY <2>1, <2>2 DEF SameFor
<1>6. First(p, v, r, i - d)
  BY <1>4, <1>5 DEF First
<1> QED
  BY <1>1, <1>3, <1>4, <1>6 DEF AtFirst

\* The last that r has read may itself leave, and r is left behind at it then.
LEMMA PassedShrinks ==
  ASSUME NEW q, NEW u, NEW f, NEW p, NEW v, NEW g, NEW d, Shrinks(q, u, f, p, v, g, d),
         NEW r, SameFor(q, u, p, v, d, r), NEW x, Passed(q, u, r, x)
  PROVE  Passed(p, v, r, x) \/ LeftBehind(p, v, g, r, x)
<1>0. Len(u) \in Nat /\ d \in 0 .. Len(u) /\ Len(v) = Len(u) - d
  BY SoundIs DEF Shrinks
<1>1. PICK i \in 1 .. Len(u) : /\ x = u[i] /\ r \in q.readFlags[u[i]]
                               /\ \A j \in i + 1 .. Len(u) : r \notin q.readFlags[u[j]]
  BY DEF Passed
<1>2. ASSUME NEW j \in 1 .. Len(v), j + d > i PROVE r \notin p.readFlags[v[j]]
  <2>1. j + d \in i + 1 .. Len(u)
    BY <1>0, <1>2
  <2> QED
    BY <2>1, <1>1 DEF SameFor
<1>3. CASE i > d
  <2>1. i - d \in 1 .. Len(v) /\ (i - d) + d = i
    BY <1>0, <1>3
  <2>2. x = v[i - d] /\ r \in p.readFlags[v[i - d]]
    BY <2>1, <1>1 DEF Shrinks, SameFor
  <2>3. \A j \in (i - d) + 1 .. Len(v) : r \notin p.readFlags[v[j]]
    <3> TAKE j \in (i - d) + 1 .. Len(v)
    <3>1. j \in 1 .. Len(v) /\ j + d > i
      BY <1>0, <1>3
    <3> QED
      BY <3>1, <1>2
  <2> QED
    BY <2>1, <2>2, <2>3 DEF Passed
<1>4. CASE i <= d
  <2>1. d \in 1 .. d /\ d \in 1 .. Len(u) /\ d > 0
    BY <1>0, <1>4
  <2>2. r \in q.readFlags[u[d]]
    BY <2>1 DEF SameFor
  <2>3. ~(d \in i + 1 .. Len(u))
    BY <2>2, <1>1
  <2>4. i = d
    BY <2>1, <2>3, <1>4
  <2>5. g # <<>> /\ x = g[Len(g)] /\ p.mq.next[x] = Nth(u, d + 1)
    BY <2>1, <2>4, <1>1 DEF Shrinks
  <2>6. Nth(u, d + 1) \in {end, Nth(v, 1)}
    <3>1. CASE d + 1 \in 1 .. Len(u)
      <4>1. 1 \in 1 .. Len(v) /\ 1 + d = d + 1
        BY <3>1, <1>0
      <4>2. v[1] = u[1 + d]
        BY <4>1 DEF Shrinks
      <4> QED
        BY <3>1, <4>1, <4>2 DEF Nth
    <3>2. CASE d + 1 \notin 1 .. Len(u)
      BY <3>2 DEF Nth
    <3> QED
      BY <3>1, <3>2
  <2>7. \A j \in 1 .. Len(v) : r \notin p.readFlags[v[j]]
    <3> TAKE j \in 1 .. Len(v)
    <3>1. j + d > i
      BY <1>0, <2>4
    <3> QED
      BY <3>1, <1>2
  <2> QED
    BY <2>5, <2>6, <2>7 DEF LeftBehind
<1> QED
  BY <1>0, <1>3, <1>4

\* Who was left behind already has read nothing that could leave.
LEMMA LeftBehindShrinks ==
  ASSUME NEW q, NEW u, NEW f, NEW p, NEW v, NEW g, NEW d, Shrinks(q, u, f, p, v, g, d),
         NEW r, SameFor(q, u, p, v, d, r), NEW x, LeftBehind(q, u, f, r, x)
  PROVE  LeftBehind(p, v, g, r, x)
<1>0. Len(u) \in Nat /\ d \in 0 .. Len(u) /\ Len(v) = Len(u) - d
  BY SoundIs DEF Shrinks
<1>1. \A i \in 1 .. Len(u) : r \notin q.readFlags[u[i]]
  BY DEF LeftBehind
<1>2. d = 0
  <2> SUFFICES ASSUME d # 0 PROVE FALSE
    OBVIOUS
  <2>1. d \in 1 .. d /\ d \in 1 .. Len(u)
    BY <1>0
  <2> QED
    BY <2>1, <1>1 DEF SameFor
<1>3. v = u /\ g = f /\ p.mq = q.mq
  BY <1>2 DEF Shrinks
<1>4. \A i \in 1 .. Len(v) : r \notin p.readFlags[v[i]]
  <2> TAKE i \in 1 .. Len(v)
  <2>1. i + d = i /\ i \in 1 .. Len(u)
    BY <1>0, <1>2, <1>3
  <2>2. r \in p.readFlags[v[i]] <=> r \in q.readFlags[u[i + d]]
    BY DEF SameFor
  <2> QED
    BY <2>1, <2>2, <1>1
<1> QED
  BY <1>3, <1>4 DEF LeftBehind

\* What holds of a registered receiver goes on to hold when messages leave that it read.
LEMMA ReaderShrinks ==
  ASSUME NEW q, NEW u, NEW f, NEW p, NEW v, NEW g, NEW d, Shrinks(q, u, f, p, v, g, d),
         NEW r, SameFor(q, u, p, v, d, r), p.sem[r] = 0 => q.sem[r] = 0,
         NEW c, NEW mk, NEW ow, NEW s0, Reader(q, u, f, r, c, mk, ow, s0)
  PROVE  Reader(p, v, g, r, c, mk, ow, s0)
<1>0. Len(u) \in Nat /\ d \in 0 .. Len(u) /\ Len(v) = Len(u) - d /\ p.sn = q.sn
  BY SoundIs DEF Shrinks
<1>1. Position(q, u, f, r, c)
  BY DEF Reader
<1>2. Position(p, v, g, r, c)
  BY <1>1, FirstShrinks, PassedShrinks, LeftBehindShrinks DEF Position
<1>3. Boundary(p, c) = Boundary(q, c)
  BY <1>0 DEF Boundary
<1>4. ASSUME NEW i \in 1 .. Len(v)
      PROVE  /\ i + d \in 1 .. Len(u) /\ v[i] = u[i + d]
             /\ r \in p.readFlags[v[i]] <=> r \in q.readFlags[u[i + d]]
             /\ p.sn[v[i]] = q.sn[u[i + d]]
  <2>1. i + d \in 1 .. Len(u)
    BY <1>0
  <2> QED
    BY <2>1, <1>0 DEF Shrinks, SameFor
<1>5. ASSUME NEW i \in 1 .. Len(v)
      PROVE  /\ r \in p.readFlags[v[i]] <=> p.sn[v[i]] < Boundary(p, c)
             /\ r \in p.readFlags[v[i]] => p.sn[v[i]] \in mk
  BY <1>3, <1>4 DEF Reader
<1>6. ASSUME NEW sn \in ow
      PROVE  sn \in mk \/ \E i \in 1 .. Len(v) : sn = p.sn[v[i]]
  <2>1. ASSUME NEW i \in 1 .. Len(u), sn = q.sn[u[i]], i <= d
        PROVE  sn \in mk
    <3>1. i \in 1 .. d
      BY <1>0, <2>1
    <3>2. r \in q.readFlags[u[i]]
      BY <3>1 DEF SameFor
    <3> QED
      BY <3>2, <2>1 DEF Reader
  <2>2. ASSUME NEW i \in 1 .. Len(u), sn = q.sn[u[i]], ~(i <= d)
        PROVE  \E j \in 1 .. Len(v) : sn = p.sn[v[j]]
    <3>1. i - d \in 1 .. Len(v) /\ (i - d) + d = i
      BY <1>0, <2>2
    <3>2. p.sn[v[i - d]] = q.sn[u[(i - d) + d]]
      BY <3>1, <1>4
    <3> QED
      BY <3>1, <3>2, <2>2
  <2>3. sn \in mk \/ \E i \in 1 .. Len(u) : sn = q.sn[u[i]]
    BY DEF Reader
  <2> QED
    BY <2>1, <2>2, <2>3
<1>7. ASSUME c.at \in {"none", "launching", "wait", "looped"}, p.sem[r] = 0,
             NEW i \in 1 .. Len(v), p.sn[v[i]] >= s0
      PROVE  r \in p.readFlags[v[i]]
  <2>1. q.sem[r] = 0
    BY <1>7
  <2>2. i + d \in 1 .. Len(u) /\ q.sn[u[i + d]] >= s0
    BY <1>4, <1>7
  <2>3. r \in q.readFlags[u[i + d]]
    BY <2>1, <2>2, <1>7 DEF Reader
  <2> QED
    BY <2>3, <1>4
<1>8. c.at = "mark" => c.nextMessage = p.sn[c.curit] + 1
  BY <1>0 DEF Reader
<1>9. c.at \in {"check", "process"} => c.msg = p.sn[c.curit]
  BY <1>0 DEF Reader
<1> QED
  BY <1>2, <1>5, <1>6, <1>7, <1>8, <1>9 DEF Reader

\* A queue that is the same but for the semaphores, the receivers and the counters
LEMMA SameShrinks ==
  ASSUME NEW q, NEW u, NEW f, Sound(q, u, f), NEW p, Sound(p, u, f), p.sn = q.sn, p.mq = q.mq
  PROVE  /\ Shrinks(q, u, f, p, u, f, 0)
         /\ \A r : (\A x \in Entries : r \in p.readFlags[x] <=> r \in q.readFlags[x])
                     => SameFor(q, u, p, u, 0, r)
<1>1. Len(u) \in Nat /\ \A i \in 1 .. Len(u) : u[i] \in Entries
  BY SoundIs
<1>2. \A i \in 1 .. Len(u) : i + 0 = i
  OBVIOUS
<1> QED
  BY <1>1, <1>2 DEF Shrinks, SameFor

\* The oldest message is dropped.
LEMMA DropShrinks ==
  ASSUME NEW q, NEW u, NEW f, Sound(q, u, f), 1 \in 1 .. Len(u)
  PROVE  \E v, g :
           /\ Shrinks(q, u, f, Drop(q, u[1]), v, g, 1)
           /\ Len(v) = Len(u) - 1 /\ \A i \in 1 .. Len(v) : v[i] = u[i + 1]
<1>0. q \in Fields /\ Len(u) \in Nat
  BY SoundIs DEF Sound
<1>N. PICK n \in 1 .. Len(u) : n = 1
  OBVIOUS
<1>1. \E p : /\ p = Drop(q, u[n])
             /\ p = [q EXCEPT !.mq = erase(q.mq, u[n]), !.messagesRead = @ + 1]
             /\ n = 1 => DropOldest(q) = [q EXCEPT !.mq = erase(q.mq, u[n])]
             /\ \E v, g :
               /\ Sound(p, v, g) /\ Removed(u, f, v, g, n)
               /\ p.mq.next[u[n]] = Nth(u, n + 1)
               /\ n = 1 => Sound(DropOldest(q), v, g)
  BY DropIs
<1>2. PICK p : /\ p = Drop(q, u[n])
               /\ p = [q EXCEPT !.mq = erase(q.mq, u[n]), !.messagesRead = @ + 1]
               /\ \E v, g : /\ Sound(p, v, g) /\ Removed(u, f, v, g, n)
                            /\ p.mq.next[u[n]] = Nth(u, n + 1)
  BY <1>1
<1>3. PICK v, g : /\ Sound(p, v, g) /\ Removed(u, f, v, g, 1)
                  /\ p.mq.next[u[1]] = Nth(u, 1 + 1)
  BY <1>N, <1>2
<1>4. p.sn = q.sn
  BY <1>0, <1>2 DEF Fields
<1>5. Len(v) = Len(u) - 1 /\ \A i \in 1 .. Len(v) : v[i] = u[i + 1]
  <2>1. Len(v) = Len(u) - 1
    BY <1>3 DEF Removed
  <2>2. ASSUME NEW i \in 1 .. Len(v) PROVE v[i] = u[i + 1]
    <3>1. i \in 1 .. Len(u) - 1 /\ ~(i < 1)
      BY <2>1, <1>0
    <3> QED
      BY <3>1, <1>3 DEF Removed
  <2> QED
    BY <2>1, <2>2
<1>6. g # <<>> /\ g[Len(g)] = u[1]
  <2>1. Len(f) \in Nat /\ Len(g) = Len(f) + 1 /\ g[Len(f) + 1] = u[1]
    BY <1>3, SoundIs DEF Removed
  <2> QED
    BY <2>1, <1>3, SoundIs
<1>7. Shrinks(q, u, f, p, v, g, 1)
  <2>1. 1 \in 0 .. Len(u) /\ 1 # 0
    BY <1>0
  <2> QED
    BY <2>1, <1>3, <1>4, <1>5, <1>6 DEF Shrinks
<1> QED
  BY <1>N, <1>2, <1>5, <1>7

-----------------------------------------------------------------------------
(* The inductive invariant *)

Each(q, u, f, rs, pr, mk, ow, sc) ==
  \A r \in Receivers :
    /\ Past(q, rs[r], pr[r], mk[r])
    /\ r \in q.rcvrs => Reader(q, u, f, r, rs[r], mk[r], ow[r], sc[r])

Exact(q, rs, pr, mk, ow, sc) ==
  \E u, f : Sound(q, u, f) /\ InOrder(q, u) /\ Each(q, u, f, rs, pr, mk, ow, sc)

ExactNow == Exact(queue, receiver, processed, marked, owed, since)

Orderly ==
  /\ Base
  /\ \A s \in Senders : sender[s] # "writing"
  /\ queue.overflowPolicy \in LaterPolicies \cup {InitialPolicy}
  /\ ExactNow

\* What it says, for the steps
Reading(u, f) ==
  /\ Sound(queue, u, f) /\ FlagsOK(queue, u) /\ AllPlaced(queue, u, f, receiver)
  /\ InOrder(queue, u) /\ Each(queue, u, f, receiver, processed, marked, owed, since)
  /\ Typed /\ queue \in Fields /\ \A x \in Entries : queue.sn[x] \in SerialNumbers

\* The list and the free queue are the same in all the parts of the invariant.
LEMMA OrderlyIs ==
  ASSUME Orderly
  PROVE  \E u, f : Reading(u, f)
<1>1. Base
  BY DEF Orderly
<1>2. PICK u, f : Sound(queue, u, f) /\ FlagsOK(queue, u) /\ AllPlaced(queue, u, f, receiver)
  BY <1>1, BaseIs
<1>3. queue \in Fields /\ (\A x \in Entries : queue.sn[x] \in SerialNumbers) /\ Typed
  BY <1>1, BaseIs DEF Base
<1>4. PICK w, h : /\ Sound(queue, w, h) /\ InOrder(queue, w)
                  /\ Each(queue, w, h, receiver, processed, marked, owed, since)
  BY DEF Orderly, ExactNow, Exact
<1>5. w = u /\ h = f
  <2>1. InUse(queue.mq) = u /\ Free(queue.mq) = f
    BY <1>2, SoundIs
  <2>2. InUse(queue.mq) = w /\ Free(queue.mq) = h
    BY <1>4, SoundIs
  <2> QED
    BY <2>1, <2>2
<1> QED
  BY <1>2, <1>3, <1>4, <1>5 DEF Reading

\* The histories of the receivers but r stay, ...
OthersStay(r) ==
  \A r2 \in Receivers \ {r} :
    /\ processed'[r2] = processed[r2] /\ marked'[r2] = marked[r2]
    /\ owed'[r2] = owed[r2] /\ since'[r2] = since[r2]

\* ... and what they have read of the queue.
OthersSame(q, u, p, v, d, r) ==
  \A r2 \in Receivers \ {r} :
    r2 \in p.rcvrs => /\ r2 \in q.rcvrs /\ SameFor(q, u, p, v, d, r2)
                      /\ p.sem[r2] = 0 => q.sem[r2] = 0

\* A receiver r moves to the state c while the queue becomes p.
LEMMA StepExact ==
  ASSUME NEW u, NEW f, Reading(u, f), NEW r \in Receivers, NEW c,
         receiver' = [receiver EXCEPT ![r] = c],
         NEW p, queue' = p, NEW v, NEW g, NEW d, Shrinks(queue, u, f, p, v, g, d),
         InOrder(p, v), p.numMessages = queue.numMessages,
         OthersStay(r), OthersSame(queue, u, p, v, d, r),
         Past(p, c, processed'[r], marked'[r]),
         r \in p.rcvrs => Reader(p, v, g, r, c, marked'[r], owed'[r], since'[r])
  PROVE  ExactNow'
<1>0. receiver \in [Receivers -> ReceiverStates]
  BY DEF Reading, Typed
<1>1. Sound(p, v, g) /\ p.sn = queue.sn
  BY DEF Shrinks
<1>2. ASSUME NEW r2 \in Receivers
      PROVE  /\ Past(p, receiver'[r2], processed'[r2], marked'[r2])
             /\ r2 \in p.rcvrs =>
                  Reader(p, v, g, r2, receiver'[r2], marked'[r2], owed'[r2], since'[r2])
  <2>1. CASE r2 = r
    <3>1. receiver'[r2] = c
      BY <1>0, <2>1
    <3> QED
      BY <2>1, <3>1
  <2>2. CASE r2 # r
    <3>1. /\ receiver'[r2] = receiver[r2] /\ processed'[r2] = processed[r2] /\ marked'[r2] = marked[r2]
          /\ owed'[r2] = owed[r2] /\ since'[r2] = since[r2]
          /\ r2 \in p.rcvrs => /\ r2 \in queue.rcvrs /\ SameFor(queue, u, p, v, d, r2)
                               /\ p.sem[r2] = 0 => queue.sem[r2] = 0
      BY <1>0, <2>2 DEF OthersStay, OthersSame
    <3>2. /\ Past(queue, receiver[r2], processed[r2], marked[r2])
          /\ r2 \in queue.rcvrs =>
               Reader(queue, u, f, r2, receiver[r2], marked[r2], owed[r2], since[r2])
      BY DEF Reading, Each
    <3>3. Past(p, receiver[r2], processed[r2], marked[r2])
      <4>1. receiver[r2] \in ReceiverStates /\ queue.numMessages \in Nat
        BY <1>0 DEF Reading, Fields
      <4> QED
        BY <4>1, <3>2, <1>1, PastKept
    <3>4. r2 \in p.rcvrs => Reader(p, v, g, r2, receiver[r2], marked[r2], owed[r2], since[r2])
      BY <3>1, <3>2, ReaderShrinks
    <3> QED
      BY <3>1, <3>3, <3>4
  <2> QED
    BY <2>1, <2>2
<1>3. Each(p, v, g, receiver', processed', marked', owed', since')
  BY <1>2 DEF Each
<1>4. Exact(p, receiver', processed', marked', owed', since')
  BY <1>1, <1>3 DEF Exact
<1> QED
  BY <1>4 DEF ExactNow

\* Steps that leave the list, the numbers and the marks alone, and the semaphores of others
LEMMA AloneExact ==
  ASSUME NEW u, NEW f, Reading(u, f), NEW r \in Receivers, NEW c,
         receiver' = [receiver EXCEPT ![r] = c],
         NEW p \in Fields, queue' = p,
         p.mq = queue.mq, p.sn = queue.sn, p.readFlags = queue.readFlags,
         p.numRead = queue.numRead, p.rcvrs = queue.rcvrs, p.numMessages = queue.numMessages,
         OthersStay(r), \A r2 \in Receivers \ {r} : p.sem[r2] = queue.sem[r2],
         Past(queue, c, processed'[r], marked'[r]),
         r \in queue.rcvrs => Reader(p, u, f, r, c, marked'[r], owed'[r], since'[r])
  PROVE  ExactNow'
<1>1. Sound(queue, u, f) /\ InOrder(queue, u)
  BY DEF Reading
<1>2. Sound(p, u, f)
  BY <1>1 DEF Sound
<1>D. PICK d : d = 0
  OBVIOUS
<1>3. Shrinks(queue, u, f, p, u, f, d) /\ \A r2 : SameFor(queue, u, p, u, d, r2)
  BY <1>1, <1>2, <1>D, SameShrinks
<1>4. InOrder(p, u)
  BY <1>1 DEF InOrder
<1>5. Past(p, c, processed'[r], marked'[r])
  BY DEF Past, Limit
<1>6. OthersSame(queue, u, p, u, d, r)
  BY <1>3 DEF OthersSame
<1>7. r \in p.rcvrs => Reader(p, u, f, r, c, marked'[r], owed'[r], since'[r])
  OBVIOUS
<1> QED
  BY <1>3, <1>4, <1>5, <1>6, <1>7, StepExact

\* where the queue stays the same
LEMMA MoveExact ==
  ASSUME NEW u, NEW f, Reading(u, f), NEW r \in Receivers, NEW c,
         receiver' = [receiver EXCEPT ![r] = c], queue' = queue,
         OthersStay(r),
         Past(queue, c, processed'[r], marked'[r]),
         r \in queue.rcvrs => Reader(queue, u, f, r, c, marked'[r], owed'[r], since'[r])
  PROVE  ExactNow'
<1>1. queue \in Fields
  BY DEF Reading
<1> QED
  BY <1>1, AloneExact

\* A receiver that is registered, for the steps
LEMMA ReaderIs ==
  ASSUME NEW u, NEW f, Reading(u, f), NEW r \in Receivers
  PROVE  /\ receiver[r] \in ReceiverStates
         /\ Past(queue, receiver[r], processed[r], marked[r])
         /\ Placed(queue, u, f, r, receiver[r])
         /\ r \in queue.rcvrs => Reader(queue, u, f, r, receiver[r], marked[r], owed[r], since[r])
         /\ receiver[r].at \notin {"none", "launching", "finished"} => r \in queue.rcvrs
BY DEF Reading, Each, Typed, AllPlaced, Placed

-----------------------------------------------------------------------------
(* The receivers keep it: the steps that leave the list alone *)

Quiet == {"none", "launching", "wait", "peek", "lower", "looped", "exited"}

\* A thread that is at no message goes on.
LEMMA QuietReader ==
  ASSUME NEW q, NEW u, NEW f, NEW r, NEW c, NEW mk, NEW ow, NEW s0, Reader(q, u, f, r, c, mk, ow, s0),
         NEW p, p.mq = q.mq, p.sn = q.sn, p.readFlags = q.readFlags,
         NEW c2, c2.curit = c.curit, c2.nextMessage = c.nextMessage,
         c.at \in Quiet, c2.at \in Quiet,
         c.curit = end \/ (c.at = "lower" /\ c2.at = "peek"),
         c2.at \in {"none", "launching", "wait", "looped"} /\ p.sem[r] = 0 =>
           c.at \in {"none", "launching", "wait", "looped"} /\ q.sem[r] = 0
  PROVE  Reader(p, u, f, r, c2, mk, ow, s0)
<1>1. Boundary(p, c2) = Boundary(q, c)
  BY DEF Boundary, Quiet
<1>2. c2.at \notin {"check", "process", "find", "findNext", "note", "mark", "advance"}
  BY DEF Quiet
<1>3. c2.at \in {"lower", "peek"} => c2.curit = end \/ AtFirst(p, u, r, c2.curit)
  BY DEF Reader, Position, AtFirst, First
<1>4. Position(p, u, f, r, c2)
  BY <1>2, <1>3 DEF Position
<1> QED
  BY <1>1, <1>2, <1>4 DEF Reader

\* Likewise what holds of every receiver
LEMMA QuietPast ==
  ASSUME NEW q, NEW c, NEW pr, NEW mk, Past(q, c, pr, mk),
         NEW c2, c2.nextMessage = c.nextMessage,
         c2.lastProcessedMessage = c.lastProcessedMessage,
         c.at \in Quiet, c2.at \notin {"find", "note", "mark"},
         c2.at \in {"none", "launching"} => c.at \in {"none", "launching"}
  PROVE  Past(q, c2, pr, mk)
<1>1. Limit(q, c2) = Limit(q, c)
  BY DEF Limit, Quiet
<1> QED
  BY <1>1 DEF Past

\* So a thread that is at no message may go on, and touch its semaphore.
LEMMA QuietExact ==
  ASSUME NEW u, NEW f, Reading(u, f), NEW r \in Receivers, NEW c,
         receiver' = [receiver EXCEPT ![r] = c],
         NEW p \in Fields, queue' = p,
         p.mq = queue.mq, p.sn = queue.sn, p.readFlags = queue.readFlags,
         p.numRead = queue.numRead, p.rcvrs = queue.rcvrs, p.numMessages = queue.numMessages,
         \A r2 \in Receivers \ {r} : p.sem[r2] = queue.sem[r2],
         UNCHANGED history,
         c.curit = receiver[r].curit, c.nextMessage = receiver[r].nextMessage,
         c.lastProcessedMessage = receiver[r].lastProcessedMessage,
         receiver[r].at \in Quiet, c.at \in Quiet,
         r \in queue.rcvrs => receiver[r].curit = end \/ (receiver[r].at = "lower" /\ c.at = "peek"),
         c.at \in {"none", "launching"} => receiver[r].at \in {"none", "launching"},
         c.at \in {"none", "launching", "wait", "looped"} /\ p.sem[r] = 0 =>
           receiver[r].at \in {"none", "launching", "wait", "looped"} /\ queue.sem[r] = 0
  PROVE  ExactNow'
<1>1. /\ Past(queue, receiver[r], processed[r], marked[r])
      /\ r \in queue.rcvrs => Reader(queue, u, f, r, receiver[r], marked[r], owed[r], since[r])
  BY ReaderIs
<1>2. OthersStay(r) /\ processed' = processed /\ marked' = marked /\ owed' = owed /\ since' = since
  BY DEF history, OthersStay
<1>3. Past(queue, c, processed[r], marked[r])
  <2>1. c.at \notin {"find", "note", "mark"}
    BY DEF Quiet
  <2> QED
    BY <1>1, <2>1, QuietPast
<1>4. r \in queue.rcvrs => Reader(p, u, f, r, c, marked[r], owed[r], since[r])
  BY <1>1, QuietReader
<1>5. /\ Past(queue, c, processed'[r], marked'[r])
      /\ r \in queue.rcvrs => Reader(p, u, f, r, c, marked'[r], owed'[r], since'[r])
  BY <1>2, <1>3, <1>4
<1> QED
  BY <1>2, <1>5, AloneExact

\* Lowering and raising a semaphore
LEMMA SemaphoreIs ==
  ASSUME NEW q \in Fields, NEW p, NEW r \in Receivers, p = lower(q, r) \/ p = raise(q, r)
  PROVE  /\ p \in Fields /\ p.mq = q.mq /\ p.sn = q.sn /\ p.readFlags = q.readFlags
         /\ p.numRead = q.numRead /\ p.rcvrs = q.rcvrs /\ p.numMessages = q.numMessages
         /\ \A r2 \in Receivers \ {r} : p.sem[r2] = q.sem[r2]
         /\ p = raise(q, r) /\ p.sem[r] = 0 => r \notin q.rcvrs
<1>1. q.sem \in [Receivers -> Nat]
  BY DEF Fields
<1>0. p = raise(q, r) /\ p.sem[r] = 0 => r \notin q.rcvrs
  <2> SUFFICES ASSUME p = raise(q, r) PROVE p.sem[r] = 0 => r \notin q.rcvrs
    OBVIOUS
  <2>1. p.sem[r] = IF r \in q.rcvrs THEN q.sem[r] + 1 ELSE q.sem[r]
    BY <1>1 DEF raise, Fields
  <2> QED
    BY <2>1, <1>1
<1>2. CASE p = lower(q, r)
  <2>1. PICK s \in [Receivers -> Nat] : lower(q, r) = [q EXCEPT !.sem = s]
    BY LowerIs
  <2>2. /\ p \in Fields /\ p.mq = q.mq /\ p.sn = q.sn /\ p.readFlags = q.readFlags
        /\ p.numRead = q.numRead /\ p.rcvrs = q.rcvrs /\ p.numMessages = q.numMessages
    BY <2>1, <1>2 DEF Fields
  <2>3. \A r2 \in Receivers \ {r} : p.sem[r2] = q.sem[r2]
    BY <1>1, <1>2 DEF lower, Fields
  <2> QED
    BY <1>0, <2>2, <2>3
<1>3. CASE p = raise(q, r)
  <2>1. PICK s \in [Receivers -> Nat] : raise(q, r) = [q EXCEPT !.sem = s]
    BY RaiseIs
  <2>2. /\ p \in Fields /\ p.mq = q.mq /\ p.sn = q.sn /\ p.readFlags = q.readFlags
        /\ p.numRead = q.numRead /\ p.rcvrs = q.rcvrs /\ p.numMessages = q.numMessages
    BY <2>1, <1>3 DEF Fields
  <2>3. \A r2 \in Receivers \ {r} : p.sem[r2] = q.sem[r2]
    BY <1>1, <1>3 DEF raise, Fields
  <2> QED
    BY <2>2, <2>3, <1>0
<1> QED
  BY <1>2, <1>3

\* Where a thread at no message has its iterator
LEMMA QuietIs ==
  ASSUME NEW u, NEW f, Reading(u, f), NEW r \in Receivers,
         receiver[r].at \in {"none", "launching", "wait", "looped", "exited"}
  PROVE  r \in queue.rcvrs => receiver[r].curit = end
<1>1. CASE receiver[r].at \in {"none", "launching"}
  BY <1>1, ReaderIs DEF Placed
<1>2. CASE receiver[r].at \in {"wait", "looped", "exited"}
  BY <1>2, ReaderIs DEF Reader, Position
<1> QED
  BY <1>1, <1>2

\* Steps that leave the queue alone
LEMMA QuietStep ==
  ASSUME Orderly, NEW r \in Receivers, NEW c, receiver' = [receiver EXCEPT ![r] = c],
         UNCHANGED <<queue, history>>,
         c.curit = receiver[r].curit, c.nextMessage = receiver[r].nextMessage,
         c.lastProcessedMessage = receiver[r].lastProcessedMessage,
         receiver[r].at \in {"none", "launching", "wait", "looped", "exited"}, c.at \in Quiet,
         c.at \in {"none", "launching"} => receiver[r].at \in {"none", "launching"},
         c.at \in {"none", "launching", "wait", "looped"} =>
           receiver[r].at \in {"none", "launching", "wait", "looped"}
  PROVE  ExactNow'
<1>1. PICK u, f : Reading(u, f)
  BY OrderlyIs
<1>2. r \in queue.rcvrs => receiver[r].curit = end
  BY <1>1, QuietIs
<1>3. receiver[r].at \in Quiet
  BY DEF Quiet
<1>4. PICK p \in Fields : p = queue /\ queue' = p
  BY <1>1 DEF Reading
<1>5. /\ p.mq = queue.mq /\ p.sn = queue.sn /\ p.readFlags = queue.readFlags
      /\ p.numRead = queue.numRead /\ p.rcvrs = queue.rcvrs /\ p.numMessages = queue.numMessages
      /\ \A r2 \in Receivers \ {r} : p.sem[r2] = queue.sem[r2]
  BY <1>4
<1>6. /\ c.at \in {"none", "launching", "wait", "looped"} /\ p.sem[r] = 0 =>
           receiver[r].at \in {"none", "launching", "wait", "looped"} /\ queue.sem[r] = 0
      /\ r \in queue.rcvrs => receiver[r].curit = end \/ (receiver[r].at = "lower" /\ c.at = "peek")
  BY <1>2, <1>4
<1>7. UNCHANGED history
  BY DEF history
<1> QED
  BY <1>1, <1>3, <1>4, <1>5, <1>6, <1>7, QuietExact

\* The thread is started.
LEMMA startIsExact ==
  ASSUME Orderly, NEW r \in Receivers, start(r)
  PROVE  ExactNow'
<1> DEFINE c == [receiver[r] EXCEPT !.at = "launching"]
<1>0. PICK u, f : Reading(u, f)
  BY OrderlyIs
<1>1. receiver[r] \in ReceiverStates
  BY <1>0, ReaderIs
<1>2. receiver' = [receiver EXCEPT ![r] = c] /\ UNCHANGED <<queue, history>>
  BY DEF start, Goes
<1>3. /\ c.curit = receiver[r].curit /\ c.nextMessage = receiver[r].nextMessage
      /\ c.lastProcessedMessage = receiver[r].lastProcessedMessage
      /\ c.at = "launching" /\ receiver[r].at = "none"
  BY <1>1 DEF ReceiverStates, start, At
<1>4. c.at \in Quiet
  BY <1>3 DEF Quiet
<1> HIDE DEF c
<1> QED
  BY <1>2, <1>3, <1>4, QuietStep

\* The loop begins again, or the thread exits.
LEMMA runAgainIsExact ==
  ASSUME Orderly, NEW r \in Receivers, runAgain(r)
  PROVE  ExactNow'
<1> DEFINE c == [receiver[r] EXCEPT !.at = AfterLooping(r), !.msg = NoMessage]
<1>0. PICK u, f : Reading(u, f)
  BY OrderlyIs
<1>1. receiver[r] \in ReceiverStates
  BY <1>0, ReaderIs
<1>2. receiver' = [receiver EXCEPT ![r] = c] /\ UNCHANGED <<queue, history>>
  BY DEF runAgain
<1>3. /\ c.curit = receiver[r].curit /\ c.nextMessage = receiver[r].nextMessage
      /\ c.lastProcessedMessage = receiver[r].lastProcessedMessage
      /\ c.at \in {"wait", "exited"} /\ receiver[r].at = "looped"
  BY <1>1 DEF ReceiverStates, runAgain, At, AfterLooping
<1>4. c.at \in Quiet
  BY <1>3 DEF Quiet
<1> HIDE DEF c
<1> QED
  BY <1>2, <1>3, <1>4, QuietStep

\* finish() has joined the thread and looks for messages itself.
LEMMA joinIsExact ==
  ASSUME Orderly, NEW r \in Receivers, join(r)
  PROVE  ExactNow'
<1> DEFINE c == [receiver[r] EXCEPT !.finish = "draining", !.at = "peek"]
<1>0. PICK u, f : Reading(u, f)
  BY OrderlyIs
<1>1. receiver[r] \in ReceiverStates
  BY <1>0, ReaderIs
<1>2. receiver' = [receiver EXCEPT ![r] = c] /\ UNCHANGED <<queue, history>>
  BY DEF join
<1>3. /\ c.curit = receiver[r].curit /\ c.nextMessage = receiver[r].nextMessage
      /\ c.lastProcessedMessage = receiver[r].lastProcessedMessage
      /\ c.at = "peek" /\ receiver[r].at \in {"none", "exited"}
  BY <1>1 DEF ReceiverStates, join, At
<1>4. c.at \in Quiet
  BY <1>3 DEF Quiet
<1> HIDE DEF c
<1> QED
  BY <1>2, <1>3, <1>4, QuietStep

\* A thread that lowers its semaphore is about to look, and may have nothing to find.
LEMMA LoweringIsExact ==
  ASSUME Orderly, NEW r \in Receivers, waitNextMessage(r) \/ lowerForNext(r)
  PROVE  ExactNow'
<1> DEFINE c == [receiver[r] EXCEPT !.at = "peek"]
           p == lower(queue, r)
<1>0. PICK u, f : Reading(u, f)
  BY OrderlyIs
<1>1. receiver[r] \in ReceiverStates /\ queue \in Fields
  BY <1>0, ReaderIs DEF Reading
<1>2. receiver' = [receiver EXCEPT ![r] = c] /\ UNCHANGED history /\ queue' = p
  BY DEF waitNextMessage, lowerForNext, Goes
<1>3. /\ c.curit = receiver[r].curit /\ c.nextMessage = receiver[r].nextMessage
      /\ c.lastProcessedMessage = receiver[r].lastProcessedMessage
      /\ c.at = "peek" /\ receiver[r].at \in {"wait", "lower"}
  BY <1>1 DEF ReceiverStates, waitNextMessage, lowerForNext, At
<1>4. c.at \in Quiet /\ receiver[r].at \in Quiet
  BY <1>3 DEF Quiet
<1>5. r \in queue.rcvrs => receiver[r].curit = end \/ (receiver[r].at = "lower" /\ c.at = "peek")
  BY <1>0, <1>3, QuietIs
<1>6. /\ p \in Fields /\ p.mq = queue.mq /\ p.sn = queue.sn /\ p.readFlags = queue.readFlags
      /\ p.numRead = queue.numRead /\ p.rcvrs = queue.rcvrs /\ p.numMessages = queue.numMessages
      /\ \A r2 \in Receivers \ {r} : p.sem[r2] = queue.sem[r2]
  BY <1>1, SemaphoreIs
<1> HIDE DEF c, p
<1> QED
  BY <1>0, <1>2, <1>3, <1>4, <1>5, <1>6, QuietExact

\* Steps of finish() that leave the thread where it is
LEMMA StagedReader ==
  ASSUME NEW q, NEW u, NEW f, NEW r, NEW c, NEW mk, NEW ow, NEW s0, Reader(q, u, f, r, c, mk, ow, s0),
         NEW p, p.mq = q.mq, p.sn = q.sn, p.readFlags = q.readFlags, p.sem[r] = 0 => q.sem[r] = 0,
         NEW c2, c2.at = c.at, c2.curit = c.curit, c2.nextMessage = c.nextMessage, c2.msg = c.msg
  PROVE  Reader(p, u, f, r, c2, mk, ow, s0)
<1>1. Boundary(p, c2) = Boundary(q, c)
  BY DEF Boundary
<1>2. Position(p, u, f, r, c2)
  BY DEF Reader, Position, AtFirst, First, Passed, LeftBehind
<1> QED
  BY <1>1, <1>2 DEF Reader

\* A thread that is cancelled, and then raised, stays where it is.
LEMMA FinishingIsExact ==
  ASSUME Orderly, NEW r \in Receivers, finishStop(r) \/ stop(r)
  PROVE  ExactNow'
<1>0. PICK u, f : Reading(u, f)
  BY OrderlyIs
<1>1. receiver[r] \in ReceiverStates /\ queue \in Fields
  BY <1>0, ReaderIs DEF Reading
<1>2. PICK stage : receiver' = [receiver EXCEPT ![r] = [receiver[r] EXCEPT !.finish = stage]]
  BY DEF finishStop, stop
<1> DEFINE c == [receiver[r] EXCEPT !.finish = stage]
<1>3. /\ c.at = receiver[r].at /\ c.curit = receiver[r].curit
      /\ c.nextMessage = receiver[r].nextMessage /\ c.msg = receiver[r].msg
      /\ c.lastProcessedMessage = receiver[r].lastProcessedMessage
  BY <1>1 DEF ReceiverStates
<1>4. UNCHANGED history /\ (queue' = queue \/ queue' = raise(queue, r))
  BY DEF finishStop, stop
<1>5. OthersStay(r) /\ processed' = processed /\ marked' = marked /\ owed' = owed /\ since' = since
  BY <1>4 DEF history, OthersStay
<1> DEFINE p == queue'
<1>6. /\ p \in Fields /\ p.mq = queue.mq /\ p.sn = queue.sn /\ p.readFlags = queue.readFlags
      /\ p.numRead = queue.numRead /\ p.rcvrs = queue.rcvrs /\ p.numMessages = queue.numMessages
      /\ \A r2 \in Receivers \ {r} : p.sem[r2] = queue.sem[r2]
      /\ r \in queue.rcvrs /\ p.sem[r] = 0 => queue.sem[r] = 0
  BY <1>1, <1>4, SemaphoreIs
<1>7. PICK o : o = queue'
  OBVIOUS
<1>8. receiver' = [receiver EXCEPT ![r] = c]
  BY <1>2
<1> HIDE DEF c, p
<1>9. Past(queue, c, processed'[r], marked'[r])
  BY <1>0, <1>3, <1>5, ReaderIs DEF Past, Limit
<1>10. r \in queue.rcvrs => Reader(o, u, f, r, c, marked'[r], owed'[r], since'[r])
  <2>1. /\ o.mq = queue.mq /\ o.sn = queue.sn /\ o.readFlags = queue.readFlags
        /\ r \in queue.rcvrs /\ o.sem[r] = 0 => queue.sem[r] = 0
    BY <1>6, <1>7 DEF p
  <2>2. r \in queue.rcvrs => Reader(queue, u, f, r, receiver[r], marked[r], owed[r], since[r])
    BY <1>0, ReaderIs
  <2> QED
    BY <1>3, <1>5, <2>1, <2>2, StagedReader
<1>11. /\ o \in Fields /\ o.mq = queue.mq /\ o.sn = queue.sn /\ o.readFlags = queue.readFlags
       /\ o.numRead = queue.numRead /\ o.rcvrs = queue.rcvrs /\ o.numMessages = queue.numMessages
       /\ \A r2 \in Receivers \ {r} : o.sem[r2] = queue.sem[r2]
  BY <1>6, <1>7 DEF p
<1> QED
  BY <1>0, <1>5, <1>7, <1>8, <1>9, <1>10, <1>11, AloneExact

-----------------------------------------------------------------------------
(* A receiver registers. *)

\* All the messages that are in the queue are owed to it, and it has read none of them.
LEMMA RegisterIsExact ==
  ASSUME NEW u, NEW f, Reading(u, f), NEW r \in Receivers, r \notin queue.rcvrs,
         receiver[r].at = "launching", Register(r), Goes(r, "wait"), UNCHANGED <<processed, marked>>
  PROVE  ExactNow'
<1>0. /\ Sound(queue, u, f) /\ FlagsOK(queue, u) /\ InOrder(queue, u)
      /\ queue \in Fields /\ queue.sem \in [Receivers -> Nat] /\ queue.numMessages \in Nat
      /\ queue.rcvrs \in SUBSET Receivers
  BY DEF Reading, Fields
<1>1. /\ receiver[r] \in ReceiverStates /\ Past(queue, receiver[r], processed[r], marked[r])
      /\ receiver[r].curit = end
  BY ReaderIs DEF Placed
<1> DEFINE c == [receiver[r] EXCEPT !.at = "wait"]
           all == queue.rcvrs \cup {r}
           sem == [queue.sem EXCEPT ![r] = 0]
           p == [queue EXCEPT !.rcvrs = all, !.sem = sem]
<1>2. queue' = p
  BY DEF Register, addReceiver
<1>3. all \in SUBSET Receivers /\ sem \in [Receivers -> Nat] /\ \A r2 \in Receivers \ {r} : sem[r2] = queue.sem[r2]
  BY <1>0
<1> HIDE DEF all, sem
<1>4. /\ p \in Fields /\ p.mq = queue.mq /\ p.sn = queue.sn /\ p.readFlags = queue.readFlags
      /\ p.numRead = queue.numRead /\ p.rcvrs = all /\ p.numMessages = queue.numMessages /\ p.sem = sem
  BY <1>0, <1>3 DEF Fields
<1>5. /\ c.at = "wait" /\ c.curit = end /\ c.nextMessage = receiver[r].nextMessage
      /\ c.lastProcessedMessage = receiver[r].lastProcessedMessage
      /\ receiver' = [receiver EXCEPT ![r] = c]
  BY <1>1 DEF ReceiverStates, Goes
<1>6. c.nextMessage = 0
  BY <1>1, <1>5 DEF Past
<1>7. PICK o : o = p /\ queue' = o
  BY <1>2
<1> HIDE DEF p, c
<1>8. Sound(o, u, f)
  BY <1>0, <1>4, <1>7 DEF Sound
<1>9. PICK d : d = 0
  OBVIOUS
<1>10. Shrinks(queue, u, f, o, u, f, d) /\ \A r2 : SameFor(queue, u, o, u, d, r2)
  BY <1>0, <1>4, <1>7, <1>8, <1>9, SameShrinks
<1>11. \A i \in 1 .. Len(u) : u[i] \in Entries /\ queue.sn[u[i]] \in Nat /\ r \notin queue.readFlags[u[i]]
  BY <1>0, SoundIs DEF FlagsOK, Fields
<1>12. InOrder(o, u)
  <2>1. \A i \in 1 .. Len(u) : queue.readFlags[u[i]] # all
    BY <1>11 DEF all
  <2> QED
    BY <2>1, <1>0, <1>4, <1>7 DEF InOrder
<1>13. OthersSame(queue, u, o, u, d, r)
  <2>1. \A r2 \in Receivers \ {r} : r2 \in o.rcvrs => r2 \in queue.rcvrs
    BY <1>4, <1>7 DEF all
  <2> QED
    BY <2>1, <1>3, <1>4, <1>7, <1>10 DEF OthersSame
<1>14. /\ OthersStay(r) /\ processed'[r] = processed[r] /\ marked'[r] = marked[r]
       /\ owed'[r] = Waiting(queue) /\ since'[r] = queue.numMessages
  BY DEF Reading, Typed, Register, OthersStay
<1>15. Past(o, c, processed'[r], marked'[r])
  <2>1. Past(queue, c, processed[r], marked[r])
    BY <1>1, <1>5, QuietPast DEF Quiet
  <2> QED
    BY <2>1, <1>4, <1>5, <1>7, <1>14 DEF Past, Limit
<1>16. Reader(o, u, f, r, c, marked'[r], owed'[r], since'[r])
  <2>1. Boundary(o, c) = 0
    BY <1>5, <1>6 DEF Boundary
  <2>2. ASSUME NEW i \in 1 .. Len(u)
        PROVE  /\ r \notin o.readFlags[u[i]] /\ ~(o.sn[u[i]] < Boundary(o, c))
               /\ ~(o.sn[u[i]] >= queue.numMessages)
    <3>1. queue.sn[u[i]] \in Nat /\ r \notin queue.readFlags[u[i]]
      BY <1>11
    <3>2. queue.sn[u[i]] < queue.numMessages
      BY <1>0 DEF InOrder
    <3> QED
      BY <3>1, <3>2, <2>1, <1>0, <1>4, <1>7
  <2>3. ASSUME NEW sn \in Waiting(queue) PROVE \E i \in 1 .. Len(u) : sn = o.sn[u[i]]
    <3>1. InUse(queue.mq) = u /\ u \in Seq(Entries)
      BY <1>0, SoundIs
    <3>2. DOMAIN u = 1 .. Len(u)
      BY <3>1
    <3>3. Waiting(queue) = {queue.sn[u[n]] : n \in 1 .. Len(u)}
      BY <3>1, <3>2 DEF Waiting
    <3> QED
      BY <3>3, <1>4, <1>7
  <2>4. Position(o, u, f, r, c)
    BY <1>5 DEF Position
  <2> QED
    BY <2>2, <2>3, <2>4, <1>5, <1>14 DEF Reader
<1> QED
  BY <1>4, <1>5, <1>7, <1>10, <1>12, <1>13, <1>14, <1>15, <1>16, StepExact

\* The thread begins to run.
LEMMA launchedIsExact ==
  ASSUME Orderly, NEW r \in Receivers, launched(r)
  PROVE  ExactNow'
<1>0. PICK u, f : Reading(u, f)
  BY OrderlyIs
<1>1. CASE r \notin queue.rcvrs
  <2>1. receiver[r].at = "launching" /\ Register(r) /\ Goes(r, "wait") /\ UNCHANGED <<processed, marked>>
    BY <1>1 DEF launched, At
  <2> QED
    BY <2>1, <1>0, <1>1, RegisterIsExact
<1>2. CASE r \in queue.rcvrs
  <2> DEFINE c == [receiver[r] EXCEPT !.at = "wait"]
  <2>1. receiver[r] \in ReceiverStates
    BY <1>0, ReaderIs
  <2>2. receiver' = [receiver EXCEPT ![r] = c] /\ UNCHANGED <<queue, history>>
    BY <1>2 DEF launched, Goes, history
  <2>3. /\ c.curit = receiver[r].curit /\ c.nextMessage = receiver[r].nextMessage
        /\ c.lastProcessedMessage = receiver[r].lastProcessedMessage
        /\ c.at = "wait" /\ receiver[r].at = "launching"
    BY <2>1 DEF ReceiverStates, launched, At
  <2>4. c.at \in Quiet
    BY <2>3 DEF Quiet
  <2> HIDE DEF c
  <2> QED
    BY <2>2, <2>3, <2>4, QuietStep
<1> QED
  BY <1>1, <1>2

-----------------------------------------------------------------------------
(* The thread at a message *)

\* r has read no more than the messages before its first.
LEMMA FirstIsUnread ==
  ASSUME NEW q, NEW u, NEW f, NEW r, NEW c, NEW mk, NEW ow, NEW s0, Reader(q, u, f, r, c, mk, ow, s0),
         NEW x, AtFirst(q, u, r, x)
  PROVE  ~(q.sn[x] < Boundary(q, c))
<1>1. PICK i \in 1 .. Len(u) : x = u[i] /\ r \notin q.readFlags[u[i]]
  BY DEF AtFirst, First
<1> QED
  BY <1>1 DEF Reader

\* peekNextMessage() finds the first message that is not read, or there is none.
LEMMA FoundIsFirst ==
  ASSUME NEW u, NEW f, Reading(u, f), NEW r \in Receivers, receiver[r].at = "peek"
  PROVE  /\ Found(r) # end => AtFirst(queue, u, r, Found(r))
         /\ Found(r) = end => \A i \in 1 .. Len(u) : r \in queue.readFlags[u[i]]
<1>0. /\ Sound(queue, u, f) /\ InOrder(queue, u) /\ Len(u) \in Nat
      /\ \A i \in 1 .. Len(u) : u[i] \in Entries /\ u[i] # end
  BY SoundIs DEF Reading
<1>1. Reader(queue, u, f, r, receiver[r], marked[r], owed[r], since[r]) /\ receiver[r] \in ReceiverStates
  BY ReaderIs
<1>2. receiver[r].nextMessage \in Nat /\ Boundary(queue, receiver[r]) = receiver[r].nextMessage
  BY <1>1, MaxMessagesAssumption DEF ReceiverStates, Boundary
<1>3. \A x \in Entries : queue.sn[x] \in Nat
  BY MaxMessagesAssumption DEF Reading, SerialNumbers
<1>4. \A i \in 1 .. Len(u) : r \in queue.readFlags[u[i]] <=> u[i] \notin Unread(r)
  <2> TAKE i \in 1 .. Len(u)
  <2>1. r \in queue.readFlags[u[i]] <=> queue.sn[u[i]] < receiver[r].nextMessage
    BY <1>1, <1>2 DEF Reader
  <2> QED
    BY <2>1, <1>0, <1>2, <1>3 DEF Unread
<1>5. CASE receiver[r].curit = end
  <2>1. Unread(r) \in SUBSET Entries
    BY DEF Unread
  <2>2. PICK k \in 0 .. Len(u) :
          /\ newer(queue, Walk(newest(queue), Unread(r), queue.mq.prev)) = Nth(u, k + 1)
          /\ \A i \in k + 1 .. Len(u) : u[i] \in Unread(r)
          /\ k > 0 => u[k] \notin Unread(r)
    BY <2>1, <1>0, BackIs
  <2>3. Found(r) = Nth(u, k + 1)
    BY <2>2, <1>5 DEF Found
  <2>4. ASSUME NEW i \in 1 .. k PROVE r \in queue.readFlags[u[i]]
    <3>1. k \in 1 .. Len(u) /\ i \in 1 .. Len(u) /\ k > 0
      BY <1>0
    <3>2. r \in queue.readFlags[u[k]]
      BY <3>1, <2>2, <1>4
    <3>3. CASE i = k
      BY <3>2, <3>3
    <3>4. CASE i # k
      <4>1. i \in 1 .. k - 1
        BY <3>4
      <4>2. queue.readFlags[u[k]] \subseteq queue.readFlags[u[i]]
        BY <4>1, <3>1, <1>0 DEF InOrder
      <4> QED
        BY <4>2, <3>2
    <3> QED
      BY <3>3, <3>4
  <2>5. CASE k = Len(u)
    <3>1. Found(r) = end
      BY <2>3, <2>5, <1>0 DEF Nth
    <3> QED
      BY <3>1, <2>4, <2>5
  <2>6. CASE k # Len(u)
    <3>1. k + 1 \in 1 .. Len(u) /\ k + 1 \in k + 1 .. Len(u) /\ (k + 1) - 1 = k
      BY <2>6, <1>0
    <3>2. Found(r) = u[k + 1] /\ Found(r) # end
      BY <3>1, <2>3, <1>0 DEF Nth
    <3>3. r \notin queue.readFlags[u[k + 1]]
      BY <3>1, <2>2, <1>4
    <3>4. First(queue, u, r, k + 1)
      BY <3>1, <3>3, <2>4 DEF First
    <3> QED
      BY <3>1, <3>2, <3>4 DEF AtFirst
  <2> QED
    BY <2>5, <2>6
<1>6. CASE receiver[r].curit # end
  <2> DEFINE x == receiver[r].curit
             going == Entries \ Unread(r)
             s == <<x>>
  <2>1. AtFirst(queue, u, r, x)
    BY <1>1, <1>6 DEF Reader, Position
  <2>2. PICK i \in 1 .. Len(u) : x = u[i] /\ r \notin queue.readFlags[u[i]]
    BY <2>1 DEF AtFirst, First
  <2>3. x \in Entries /\ x \notin going
    BY <2>2, <1>0, <1>4
  <2>4. s \in Seq(Entries) /\ Len(s) = 1 /\ s[1] = x /\ Nth(s, 1) = x
    BY <2>3 DEF Nth
  <2> HIDE DEF s, x, going
  <2>5. Walk(Nth(s, 1), going, queue.mq.next) = Nth(s, 1)
    <3>1. Len(s) <= MAX_ENTRIES
      BY <2>4, MaxEntriesAssumption
    <3>2. 1 \in 1 .. Len(s) + 1
      BY <2>4
    <3>3. going \in SUBSET Entries
      BY DEF going
    <3>4. \A j \in 1 .. 1 - 1 : s[j] \in going /\ queue.mq.next[s[j]] = Nth(s, j + 1)
      OBVIOUS
    <3>5. 1 <= Len(s) => s[1] \notin going
      BY <2>3, <2>4
    <3> QED
      BY <3>1, <3>2, <3>3, <3>4, <3>5, <2>4, WalkIs
  <2>6. Found(r) = x
    BY <2>4, <2>5, <1>6 DEF Found, x, going
  <2>7. x # end
    BY <2>2, <1>0
  <2> QED
    BY <2>1, <2>6, <2>7 DEF x
<1> QED
  BY <1>5, <1>6

\* The message that peekNextMessage() found is the one that r has to process next.
LEMMA peekIsExact ==
  ASSUME Orderly, NEW r \in Receivers, peekNextMessage(r)
  PROVE  ExactNow'
<1>0. PICK u, f : Reading(u, f)
  BY OrderlyIs
<1>1. /\ receiver[r] \in ReceiverStates /\ receiver[r].at = "peek"
      /\ Past(queue, receiver[r], processed[r], marked[r])
      /\ Reader(queue, u, f, r, receiver[r], marked[r], owed[r], since[r])
  BY <1>0, ReaderIs DEF peekNextMessage, At
<1>2. Found(r) # end /\ AtFirst(queue, u, r, Found(r))
  BY <1>0, <1>1, FoundIsFirst DEF peekNextMessage
<1> DEFINE x == Found(r)
           c == [receiver[r] EXCEPT !.at = "check", !.curit = x, !.msg = queue.sn[x]]
<1>3. receiver' = [receiver EXCEPT ![r] = c] /\ queue' = queue /\ UNCHANGED history
  BY DEF peekNextMessage
<1>4. /\ c.at = "check" /\ c.curit = x /\ c.msg = queue.sn[x]
      /\ c.nextMessage = receiver[r].nextMessage
      /\ c.lastProcessedMessage = receiver[r].lastProcessedMessage
  BY <1>1 DEF ReceiverStates
<1> HIDE DEF c, x
<1>5. /\ OthersStay(r) /\ processed' = processed /\ marked' = marked
      /\ owed' = owed /\ since' = since
  BY <1>3 DEF history, OthersStay
<1>6. Past(queue, c, processed[r], marked[r])
  BY <1>1, <1>4, QuietPast DEF Quiet
<1>7. Reader(queue, u, f, r, c, marked[r], owed[r], since[r])
  <2>1. Boundary(queue, c) = Boundary(queue, receiver[r])
    BY <1>1, <1>4 DEF Boundary
  <2>2. Position(queue, u, f, r, c)
    BY <1>2, <1>4 DEF Position, x
  <2> QED
    BY <2>1, <2>2, <1>1, <1>4 DEF Reader
<1> QED
  BY <1>0, <1>3, <1>5, <1>6, <1>7, MoveExact

\* There is none: r has read all that is in the queue.
LEMMA peekNothingIsExact ==
  ASSUME Orderly, NEW r \in Receivers, peekNothing(r)
  PROVE  ExactNow'
<1>0. PICK u, f : Reading(u, f)
  BY OrderlyIs
<1>1. /\ receiver[r] \in ReceiverStates /\ receiver[r].at = "peek"
      /\ Past(queue, receiver[r], processed[r], marked[r])
      /\ Reader(queue, u, f, r, receiver[r], marked[r], owed[r], since[r])
  BY <1>0, ReaderIs DEF peekNothing, At
<1>2. \A i \in 1 .. Len(u) : r \in queue.readFlags[u[i]]
  BY <1>0, <1>1, FoundIsFirst DEF peekNothing
<1> DEFINE c == [receiver[r] EXCEPT !.at = "looped", !.curit = end]
<1>3. receiver' = [receiver EXCEPT ![r] = c] /\ queue' = queue /\ UNCHANGED history
  BY DEF peekNothing
<1>4. /\ c.at = "looped" /\ c.curit = end
      /\ c.nextMessage = receiver[r].nextMessage
      /\ c.lastProcessedMessage = receiver[r].lastProcessedMessage
  BY <1>1 DEF ReceiverStates
<1> HIDE DEF c
<1>5. /\ OthersStay(r) /\ processed' = processed /\ marked' = marked
      /\ owed' = owed /\ since' = since
  BY <1>3 DEF history, OthersStay
<1>6. Past(queue, c, processed[r], marked[r])
  BY <1>1, <1>4, QuietPast DEF Quiet
<1>7. Reader(queue, u, f, r, c, marked[r], owed[r], since[r])
  <2>1. Boundary(queue, c) = Boundary(queue, receiver[r])
    BY <1>1, <1>4 DEF Boundary
  <2>2. Position(queue, u, f, r, c)
    BY <1>4 DEF Position
  <2> QED
    BY <2>1, <2>2, <1>1, <1>2, <1>4 DEF Reader
<1> QED
  BY <1>0, <1>3, <1>5, <1>6, <1>7, MoveExact

\* The number that processNextMessage() reads again is that of the message it was given,
\* and not one that was processed before.
LEMMA checkNewIsExact ==
  ASSUME Orderly, NEW r \in Receivers, checkNew(r)
  PROVE  ExactNow'
<1>0. PICK u, f : Reading(u, f)
  BY OrderlyIs
<1>1. /\ receiver[r] \in ReceiverStates /\ receiver[r].at = "check"
      /\ Past(queue, receiver[r], processed[r], marked[r])
      /\ Reader(queue, u, f, r, receiver[r], marked[r], owed[r], since[r])
  BY <1>0, ReaderIs DEF checkNew, At
<1> DEFINE x == receiver[r].curit
           c == [receiver[r] EXCEPT !.at = "process"]
<1>2. AtFirst(queue, u, r, x)
  BY <1>1 DEF Reader, Position
<1>3. receiver[r].lastProcessedMessage # queue.sn[x]
  <2>1. ~(queue.sn[x] < receiver[r].nextMessage)
    BY <1>1, <1>2, FirstIsUnread DEF Boundary
  <2>2. receiver[r].lastProcessedMessage < receiver[r].nextMessage
    BY <1>1 DEF Past, Limit
  <2> QED
    BY <2>1, <2>2
<1>4. receiver' = [receiver EXCEPT ![r] = c] /\ queue' = queue /\ UNCHANGED history
  BY <1>3 DEF checkNew, Goes
<1>5. /\ c.at = "process" /\ c.curit = receiver[r].curit /\ c.msg = receiver[r].msg
      /\ c.nextMessage = receiver[r].nextMessage
      /\ c.lastProcessedMessage = receiver[r].lastProcessedMessage
  BY <1>1 DEF ReceiverStates
<1> HIDE DEF c, x
<1>6. /\ OthersStay(r) /\ processed' = processed /\ marked' = marked
      /\ owed' = owed /\ since' = since
  BY <1>4 DEF history, OthersStay
<1>7. Past(queue, c, processed[r], marked[r])
  BY <1>1, <1>5 DEF Past, Limit
<1>8. Reader(queue, u, f, r, c, marked[r], owed[r], since[r])
  <2>1. Boundary(queue, c) = Boundary(queue, receiver[r])
    BY <1>1, <1>5 DEF Boundary
  <2>2. Position(queue, u, f, r, c)
    BY <1>2, <1>5 DEF Position, x
  <2> QED
    BY <2>1, <2>2, <1>1, <1>5 DEF Reader
<1> QED
  BY <1>0, <1>4, <1>6, <1>7, <1>8, MoveExact

\* The callback gets a number above all those before.
LEMMA processIsExact ==
  ASSUME Orderly, NEW r \in Receivers, process(r)
  PROVE  ExactNow'
<1>0. PICK u, f : Reading(u, f)
  BY OrderlyIs
<1>1. /\ receiver[r] \in ReceiverStates /\ receiver[r].at = "process"
      /\ Past(queue, receiver[r], processed[r], marked[r])
      /\ Reader(queue, u, f, r, receiver[r], marked[r], owed[r], since[r])
      /\ processed[r] \in Seq(SerialNumbers) /\ processed \in [Receivers -> Seq(SerialNumbers)]
  BY <1>0, ReaderIs DEF process, At, Reading, Typed
<1> DEFINE x == receiver[r].curit
           n == queue.sn[x]
           c == [receiver[r] EXCEPT !.at = "find", !.lastProcessedMessage = n]
           pr == Append(processed[r], n)
<1>2. AtFirst(queue, u, r, x) /\ receiver[r].msg = n
  BY <1>1 DEF Reader, Position
<1>3. n \in SerialNumbers /\ n \in Nat
  <2>1. PICK i \in 1 .. Len(u) : x = u[i]
    BY <1>2 DEF AtFirst
  <2>2. x \in Entries
    BY <2>1, <1>0, SoundIs DEF Reading
  <2> QED
    BY <2>2, <1>0, MaxMessagesAssumption DEF Reading, SerialNumbers
<1>4. receiver[r].nextMessage <= n /\ receiver[r].nextMessage \in Nat
  <2>1. ~(n < receiver[r].nextMessage)
    BY <1>1, <1>2, FirstIsUnread DEF Boundary
  <2>2. receiver[r].nextMessage \in Nat
    BY <1>1, MaxMessagesAssumption DEF ReceiverStates
  <2> QED
    BY <2>1, <2>2, <1>3
<1>5. /\ receiver' = [receiver EXCEPT ![r] = c] /\ queue' = queue
      /\ processed' = [processed EXCEPT ![r] = pr] /\ UNCHANGED <<marked, owed, since>>
  BY <1>2 DEF process
<1>6. /\ c.at = "find" /\ c.curit = x /\ c.lastProcessedMessage = n
      /\ c.nextMessage = receiver[r].nextMessage
  BY <1>1 DEF ReceiverStates
<1>7. /\ Len(processed[r]) \in Nat /\ Len(pr) = Len(processed[r]) + 1 /\ pr[Len(processed[r]) + 1] = n
      /\ \A k \in 1 .. Len(processed[r]) : pr[k] = processed[r][k] /\ processed[r][k] \in Nat
  BY <1>1, <1>3, MaxMessagesAssumption, AppendProperties, ElementOfSeq, LenProperties DEF SerialNumbers
<1> HIDE DEF c, x, n, pr
<1>8. /\ OthersStay(r) /\ processed'[r] = pr /\ marked' = marked
      /\ owed' = owed /\ since' = since
  BY <1>1, <1>5 DEF OthersStay
<1>9. Past(queue, c, pr, marked[r])
  <2>1. Limit(queue, c) = n + 1
    BY <1>6 DEF Limit, n
  <2>2. Limit(queue, receiver[r]) = receiver[r].nextMessage
    BY <1>1 DEF Limit
  <2>3. ASSUME NEW k \in 1 .. Len(processed[r]) PROVE pr[k] < n /\ pr[k] \in Nat
    BY <2>2, <1>1, <1>3, <1>4, <1>7 DEF Past
  <2>4. \A k \in 1 .. Len(pr) : k \in 1 .. Len(processed[r]) \/ k = Len(processed[r]) + 1
    BY <1>7
  <2>5. \A k \in 1 .. Len(pr) : pr[k] < Limit(queue, c)
    BY <2>1, <2>3, <2>4, <1>3, <1>7
  <2>6. ASSUME NEW k \in 1 .. Len(pr), NEW m \in 1 .. Len(pr), k < m
        PROVE  pr[k] < pr[m]
    <3>1. k \in 1 .. Len(processed[r])
      BY <2>6, <1>7
    <3>2. CASE m \in 1 .. Len(processed[r])
      BY <3>1, <3>2, <2>6, <1>1, <1>7 DEF Past
    <3>3. CASE m = Len(processed[r]) + 1
      BY <3>1, <3>3, <2>3, <1>7
    <3> QED
      BY <3>2, <3>3, <2>4
  <2>7. c.lastProcessedMessage < Limit(queue, c)
    BY <2>1, <1>3, <1>6
  <2>8. ASSUME NEW sn \in marked[r] PROVE \E k \in 1 .. Len(pr) : sn = pr[k]
    <3>1. PICK k \in 1 .. Len(processed[r]) : sn = processed[r][k]
      BY <1>1 DEF Past
    <3>2. k \in 1 .. Len(pr) /\ pr[k] = sn
      BY <3>1, <1>7
    <3> QED
      BY <3>2
  <2>9. \E k \in 1 .. Len(pr) : queue.sn[c.curit] = pr[k]
    <3>1. Len(processed[r]) + 1 \in 1 .. Len(pr)
      BY <1>7
    <3> QED
      BY <3>1, <1>6, <1>7 DEF n
  <2>10. c.nextMessage <= queue.numMessages /\ c.at \notin {"none", "launching"}
    BY <1>1, <1>6 DEF Past
  <2> QED
    BY <2>5, <2>6, <2>7, <2>8, <2>9, <2>10 DEF Past
<1>10. Reader(queue, u, f, r, c, marked[r], owed[r], since[r])
  <2>1. Boundary(queue, c) = Boundary(queue, receiver[r])
    BY <1>1, <1>6 DEF Boundary
  <2>2. Position(queue, u, f, r, c)
    BY <1>2, <1>6 DEF Position
  <2> QED
    BY <2>1, <2>2, <1>1, <1>6 DEF Reader
<1> QED
  BY <1>0, <1>5, <1>8, <1>9, <1>10, MoveExact

-----------------------------------------------------------------------------
(* markRead(false), up to the mark *)

\* curit's message is not below nextMessage, so it is the one to mark.
LEMMA markFindIsExact ==
  ASSUME Orderly, NEW r \in Receivers, markFind(r)
  PROVE  ExactNow'
<1>0. PICK u, f : Reading(u, f)
  BY OrderlyIs
<1>1. /\ receiver[r] \in ReceiverStates /\ receiver[r].at = "find"
      /\ Past(queue, receiver[r], processed[r], marked[r])
      /\ Reader(queue, u, f, r, receiver[r], marked[r], owed[r], since[r])
  BY <1>0, ReaderIs DEF markFind, At
<1> DEFINE x == receiver[r].curit
           c == [receiver[r] EXCEPT !.at = "note"]
<1>2. AtFirst(queue, u, r, x)
  BY <1>1 DEF Reader, Position
<1>3. ~(queue.sn[x] < receiver[r].nextMessage)
  BY <1>1, <1>2, FirstIsUnread DEF Boundary
<1>4. receiver' = [receiver EXCEPT ![r] = c] /\ queue' = queue /\ UNCHANGED history
  BY <1>3 DEF markFind, Goes
<1>5. /\ c.at = "note" /\ c.curit = receiver[r].curit
      /\ c.nextMessage = receiver[r].nextMessage
      /\ c.lastProcessedMessage = receiver[r].lastProcessedMessage
  BY <1>1 DEF ReceiverStates
<1> HIDE DEF c, x
<1>6. /\ OthersStay(r) /\ processed' = processed /\ marked' = marked
      /\ owed' = owed /\ since' = since
  BY <1>4 DEF history, OthersStay
<1>7. Past(queue, c, processed[r], marked[r])
  BY <1>1, <1>5 DEF Past, Limit
<1>8. Reader(queue, u, f, r, c, marked[r], owed[r], since[r])
  <2>1. Boundary(queue, c) = Boundary(queue, receiver[r])
    BY <1>1, <1>5 DEF Boundary
  <2>2. Position(queue, u, f, r, c)
    BY <1>2, <1>5 DEF Position, x
  <2> QED
    BY <2>1, <2>2, <1>1, <1>5 DEF Reader
<1> QED
  BY <1>0, <1>4, <1>6, <1>7, <1>8, MoveExact

\* The search for curit's message never goes on from it.
LEMMA markFindNextNever ==
  ASSUME Orderly, NEW r \in Receivers, markFindNext(r)
  PROVE  FALSE
<1>0. PICK u, f : Reading(u, f)
  BY OrderlyIs
<1>1. /\ receiver[r].at = "findNext"
      /\ Reader(queue, u, f, r, receiver[r], marked[r], owed[r], since[r])
  BY <1>0, ReaderIs DEF markFindNext, At
<1> QED
  BY <1>1 DEF Reader, Position

\* The messages before r's first are those that r has read.
LEMMA FirstParts ==
  ASSUME NEW q, NEW u, NEW f, Sound(q, u, f), InOrder(q, u), NEW r, NEW k \in 1 .. Len(u),
         First(q, u, r, k), NEW i \in 1 .. Len(u)
  PROVE  /\ r \in q.readFlags[u[i]] <=> q.sn[u[i]] < q.sn[u[k]]
         /\ q.sn[u[i]] = q.sn[u[k]] <=> i = k
         /\ q.sn[u[i]] \in Nat /\ q.sn[u[k]] \in Nat
<1>1. q.sn[u[i]] \in Nat /\ q.sn[u[k]] \in Nat
  BY SoundIs DEF Sound, Fields
<1>2. CASE i < k
  <2>1. i \in 1 .. k - 1
    BY <1>2
  <2>2. r \in q.readFlags[u[i]]
    BY <2>1 DEF First
  <2>3. q.sn[u[i]] < q.sn[u[k]]
    BY <2>1 DEF InOrder
  <2> QED
    BY <2>2, <2>3, <1>1, <1>2
<1>3. CASE i = k
  BY <1>1, <1>3 DEF First
<1>4. CASE i > k
  <2>1. k \in 1 .. i - 1
    BY <1>4
  <2>2. q.sn[u[k]] < q.sn[u[i]] /\ q.readFlags[u[i]] \subseteq q.readFlags[u[k]]
    BY <2>1 DEF InOrder
  <2>3. r \notin q.readFlags[u[i]]
    BY <2>2 DEF First
  <2> QED
    BY <2>2, <2>3, <1>1, <1>4
<1> QED
  BY <1>2, <1>3, <1>4

\* nextMessage becomes one more than the number that was processed.
LEMMA markNoteIsExact ==
  ASSUME Orderly, NEW r \in Receivers, markNote(r)
  PROVE  ExactNow'
<1>0. PICK u, f : Reading(u, f)
  BY OrderlyIs
<1>1. /\ receiver[r] \in ReceiverStates /\ receiver[r].at = "note"
      /\ Past(queue, receiver[r], processed[r], marked[r])
      /\ Reader(queue, u, f, r, receiver[r], marked[r], owed[r], since[r])
      /\ Sound(queue, u, f) /\ InOrder(queue, u)
  BY <1>0, ReaderIs DEF markNote, At, Reading
<1> DEFINE x == receiver[r].curit
           n == queue.sn[x]
           c == [receiver[r] EXCEPT !.at = "mark", !.nextMessage = n + 1]
<1>2. PICK k \in 1 .. Len(u) : x = u[k] /\ First(queue, u, r, k)
  BY <1>1 DEF Reader, Position, AtFirst
<1>3. receiver' = [receiver EXCEPT ![r] = c] /\ queue' = queue /\ UNCHANGED history
  BY DEF markNote
<1>4. /\ c.at = "mark" /\ c.curit = x /\ c.nextMessage = n + 1
      /\ c.lastProcessedMessage = receiver[r].lastProcessedMessage
  BY <1>1 DEF ReceiverStates
<1>5. n < queue.numMessages /\ n \in Nat /\ queue.numMessages \in Nat
  <2>1. queue.sn[u[k]] < queue.numMessages
    BY <1>1 DEF InOrder
  <2>2. queue.sn[u[k]] \in Nat
    BY <1>1, SoundIs DEF Sound, Fields
  <2>3. queue.numMessages \in Nat
    BY <1>1 DEF Sound, Fields
  <2> QED
    BY <2>1, <2>2, <2>3, <1>2
<1> HIDE DEF c, n, x
<1>6. /\ OthersStay(r) /\ processed' = processed /\ marked' = marked
      /\ owed' = owed /\ since' = since
  BY <1>3 DEF history, OthersStay
<1>7. Past(queue, c, processed[r], marked[r])
  <2>1. Limit(queue, receiver[r]) = n + 1 /\ Limit(queue, c) = n + 1
    BY <1>1, <1>4 DEF Limit, n, x
  <2>2. c.nextMessage <= queue.numMessages
    BY <1>4, <1>5
  <2>3. \E m \in 1 .. Len(processed[r]) : queue.sn[c.curit] = processed[r][m]
    BY <1>1, <1>4 DEF Past, x
  <2> QED
    BY <2>1, <2>2, <2>3, <1>1, <1>4 DEF Past
<1>8. Reader(queue, u, f, r, c, marked[r], owed[r], since[r])
  <2>1. Boundary(queue, c) = queue.sn[u[k]]
    BY <1>2, <1>4 DEF Boundary
  <2>2. Position(queue, u, f, r, c)
    BY <1>2, <1>4 DEF Position, AtFirst
  <2>3. \A i \in 1 .. Len(u) : r \in queue.readFlags[u[i]] <=> queue.sn[u[i]] < Boundary(queue, c)
    BY <1>1, <1>2, <2>1, FirstParts
  <2>4. c.nextMessage = queue.sn[c.curit] + 1
    BY <1>4 DEF n
  <2> QED
    BY <2>2, <2>3, <2>4, <1>1, <1>4 DEF Reader
<1> QED
  BY <1>0, <1>3, <1>6, <1>7, <1>8, MoveExact

-----------------------------------------------------------------------------
(* markRead(false), from the mark on *)

\* On from the message that was marked: to the first that is not read, or the end.
LEMMA NewerIsFirst ==
  ASSUME NEW q, NEW u, NEW f, Sound(q, u, f), InOrder(q, u), NEW r, NEW x \in Entries, x # end,
         Passed(q, u, r, x) \/ LeftBehind(q, u, f, r, x)
  PROVE  newer(q, x) = end \/ AtFirst(q, u, r, newer(q, x))
<1>0. /\ Len(u) \in Nat /\ Is(q.mq, u, f)
      /\ \A i \in 1 .. Len(u) : u[i] \in Entries /\ u[i] # end
  BY SoundIs DEF Sound
<1>1. newer(q, x) = q.mq.next[x]
  BY DEF newer, next
<1>2. \A i \in 1 .. Len(u) : q.mq.next[u[i]] = Nth(u, i + 1)
  <2> TAKE i \in 1 .. Len(u)
  <2>1. i \in 0 .. Len(u) /\ Nth(u, i) = u[i] /\ u[i] # end
    BY <1>0 DEF Nth
  <2> QED
    BY <2>1, <1>0 DEF Is, Linked, next
<1>3. CASE Passed(q, u, r, x)
  <2>1. PICK i \in 1 .. Len(u) : /\ x = u[i] /\ r \in q.readFlags[u[i]]
                                 /\ \A j \in i + 1 .. Len(u) : r \notin q.readFlags[u[j]]
    BY <1>3 DEF Passed
  <2>2. CASE i = Len(u)
    BY <2>1, <2>2, <1>0, <1>1, <1>2 DEF Nth
  <2>3. CASE i # Len(u)
    <3>1. i + 1 \in 1 .. Len(u) /\ i + 1 \in i + 1 .. Len(u) /\ (i + 1) - 1 = i
      BY <2>3, <1>0
    <3>2. newer(q, x) = u[i + 1]
      BY <3>1, <2>1, <1>1, <1>2 DEF Nth
    <3>3. ASSUME NEW j \in 1 .. i PROVE r \in q.readFlags[u[j]]
      <4>1. CASE j = i
        BY <4>1, <2>1
      <4>2. CASE j # i
        <5>1. j \in 1 .. i - 1
          BY <4>2
        <5>2. q.readFlags[u[i]] \subseteq q.readFlags[u[j]]
          BY <5>1 DEF InOrder
        <5> QED
          BY <5>2, <2>1
      <4> QED
        BY <4>1, <4>2
    <3>4. First(q, u, r, i + 1)
      BY <3>1, <3>3, <2>1 DEF First
    <3> QED
      BY <3>1, <3>2, <3>4 DEF AtFirst
  <2> QED
    BY <2>2, <2>3
<1>4. CASE LeftBehind(q, u, f, r, x)
  <2>1. CASE f = <<>> /\ u # <<>> /\ x = u[Len(u)]
    <3>1. Len(u) \in 1 .. Len(u)
      BY <2>1, SoundIs
    <3>2. q.mq.next[u[Len(u)]] = Nth(u, Len(u) + 1) /\ Nth(u, Len(u) + 1) = end
      BY <3>1, <1>0, <1>2 DEF Nth
    <3> QED
      BY <3>2, <2>1, <1>1
  <2>2. CASE q.mq.next[x] \in {end, Nth(u, 1)}
    <3>1. CASE Nth(u, 1) = end
      BY <3>1, <2>2, <1>1
    <3>2. CASE Nth(u, 1) # end
      <4>1. 1 \in 1 .. Len(u) /\ Nth(u, 1) = u[1]
        BY <3>2 DEF Nth
      <4>2. First(q, u, r, 1)
        BY <4>1, <1>4 DEF First, LeftBehind
      <4>3. AtFirst(q, u, r, u[1])
        BY <4>1, <4>2 DEF AtFirst
      <4> QED
        BY <4>1, <4>3, <2>2, <1>1
    <3> QED
      BY <3>1, <3>2
  <2> QED
    BY <2>1, <2>2, <1>4 DEF LeftBehind
<1> QED
  BY <1>3, <1>4

\* curit goes on from the message, wherever its slot is by now.
LEMMA markAdvanceIsExact ==
  ASSUME Orderly, NEW r \in Receivers, markAdvance(r)
  PROVE  ExactNow'
<1>0. PICK u, f : Reading(u, f)
  BY OrderlyIs
<1>1. /\ receiver[r] \in ReceiverStates /\ receiver[r].at = "advance"
      /\ Past(queue, receiver[r], processed[r], marked[r])
      /\ Reader(queue, u, f, r, receiver[r], marked[r], owed[r], since[r])
      /\ Placed(queue, u, f, r, receiver[r])
      /\ Sound(queue, u, f) /\ InOrder(queue, u)
  BY <1>0, ReaderIs DEF markAdvance, At, Reading
<1> DEFINE x == receiver[r].curit
           y == newer(queue, x)
           c == [receiver[r] EXCEPT !.at = AfterMarking(r), !.curit = y, !.msg = NoMessage]
<1>2. x \in Entries /\ x # end
  <2>1. x # end
    BY <1>1 DEF Placed, Handling
  <2> QED
    BY <2>1, <1>1 DEF ReceiverStates, Indices
<1>3. y = end \/ AtFirst(queue, u, r, y)
  BY <1>1, <1>2, NewerIsFirst DEF Reader, Position
<1>4. receiver' = [receiver EXCEPT ![r] = c] /\ queue' = queue /\ UNCHANGED history
  BY DEF markAdvance
<1>5. /\ c.at \in {"peek", "lower"} /\ c.curit = y
      /\ c.nextMessage = receiver[r].nextMessage
      /\ c.lastProcessedMessage = receiver[r].lastProcessedMessage
  BY <1>1 DEF ReceiverStates, AfterMarking
<1> HIDE DEF c, y, x
<1>6. /\ OthersStay(r) /\ processed' = processed /\ marked' = marked
      /\ owed' = owed /\ since' = since
  BY <1>4 DEF history, OthersStay
<1>7. Past(queue, c, processed[r], marked[r])
  BY <1>1, <1>5 DEF Past, Limit
<1>8. Reader(queue, u, f, r, c, marked[r], owed[r], since[r])
  <2>1. Boundary(queue, c) = Boundary(queue, receiver[r])
    BY <1>1, <1>5 DEF Boundary
  <2>2. Position(queue, u, f, r, c)
    BY <1>3, <1>5 DEF Position
  <2> QED
    BY <2>1, <2>2, <1>1, <1>5 DEF Reader
<1> QED
  BY <1>0, <1>4, <1>6, <1>7, <1>8, MoveExact

-----------------------------------------------------------------------------
(* A message is marked, and leaves if it is read by all. *)

\* InOrder, but for those that are read by all
Ordered(q, u) ==
  /\ \A i \in 1 .. Len(u) : q.sn[u[i]] < q.numMessages
  /\ \A j \in 1 .. Len(u) : \A i \in 1 .. j - 1 :
       q.sn[u[i]] < q.sn[u[j]] /\ q.readFlags[u[j]] \subseteq q.readFlags[u[i]]

\* r has marked the message at x and q is o then; nothing has left.
MarkedAt(q, x, r, o) ==
  /\ o.mq = q.mq /\ o.sn = q.sn /\ o.rcvrs = q.rcvrs /\ o.sem = q.sem
  /\ o.numMessages = q.numMessages /\ o.overflowPolicy = q.overflowPolicy
  /\ o.readFlags = [q.readFlags EXCEPT ![x] = @ \cup {r}]

\* The others have the marks they had, and the order is as before.
LEMMA MarkedOrders ==
  ASSUME NEW q, NEW u, NEW f, Sound(q, u, f), InOrder(q, u),
         NEW k \in 1 .. Len(u), NEW r, First(q, u, r, k), NEW o, MarkedAt(q, u[k], r, o)
  PROVE  /\ Ordered(o, u)
         /\ \A i \in 1 .. Len(u) : i # k => o.readFlags[u[i]] = q.readFlags[u[i]]
         /\ o.readFlags[u[k]] = q.readFlags[u[k]] \cup {r}
<1>0. /\ q.readFlags \in [Entries -> SUBSET Receivers] /\ Len(u) \in Nat
      /\ \A i \in 1 .. Len(u) : u[i] \in Entries
      /\ Distinct(u)
  BY SoundIs DEF Sound, Fields
<1>1. \A i \in 1 .. Len(u) : i # k => u[i] # u[k]
  BY <1>0 DEF Distinct
<1>2. \A i \in 1 .. Len(u) : i # k => o.readFlags[u[i]] = q.readFlags[u[i]]
  BY <1>0, <1>1 DEF MarkedAt
<1>3. o.readFlags[u[k]] = q.readFlags[u[k]] \cup {r}
  BY <1>0 DEF MarkedAt
<1>4. ASSUME NEW j \in 1 .. Len(u), NEW i \in 1 .. j - 1
      PROVE  o.sn[u[i]] < o.sn[u[j]] /\ o.readFlags[u[j]] \subseteq o.readFlags[u[i]]
  <2>1. q.sn[u[i]] < q.sn[u[j]] /\ q.readFlags[u[j]] \subseteq q.readFlags[u[i]]
    BY DEF InOrder
  <2>2. i \in 1 .. Len(u) /\ i # j
    BY <1>0
  <2>3. CASE j = k
    <3>1. r \in q.readFlags[u[i]]
      BY <2>3 DEF First
    <3>2. o.readFlags[u[i]] = q.readFlags[u[i]]
      BY <2>2, <2>3, <1>2
    <3> QED
      BY <3>1, <3>2, <2>1, <2>3, <1>3 DEF MarkedAt
  <2>4. CASE j # k
    <3>1. o.readFlags[u[j]] = q.readFlags[u[j]]
      BY <2>4, <1>2
    <3>2. q.readFlags[u[i]] \subseteq o.readFlags[u[i]]
      BY <2>2, <1>2, <1>3
    <3> QED
      BY <3>1, <3>2, <2>1 DEF MarkedAt
  <2> QED
    BY <2>3, <2>4
<1>5. \A i \in 1 .. Len(u) : o.sn[u[i]] < o.numMessages
  BY DEF InOrder, MarkedAt
<1> QED
  BY <1>2, <1>3, <1>4, <1>5 DEF Ordered

\* r has passed the message that it marked.
LEMMA MarkedReader ==
  ASSUME NEW q, NEW u, NEW f, Sound(q, u, f), InOrder(q, u),
         NEW k \in 1 .. Len(u), NEW r, First(q, u, r, k), NEW o, MarkedAt(q, u[k], r, o),
         NEW c, NEW mk, NEW ow, NEW s0, Reader(q, u, f, r, c, mk, ow, s0),
         c.at = "mark", c.curit = u[k],
         NEW c2, c2.at = "advance", c2.curit = u[k], c2.nextMessage = c.nextMessage
  PROVE  Reader(o, u, f, r, c2, mk \cup {q.sn[u[k]]}, ow, s0)
<1>0. /\ \A i \in 1 .. Len(u) : i # k => o.readFlags[u[i]] = q.readFlags[u[i]]
      /\ o.readFlags[u[k]] = q.readFlags[u[k]] \cup {r}
      /\ o.sn = q.sn /\ Len(u) \in Nat
  <2>1. /\ \A i \in 1 .. Len(u) : i # k => o.readFlags[u[i]] = q.readFlags[u[i]]
        /\ o.readFlags[u[k]] = q.readFlags[u[k]] \cup {r}
    BY MarkedOrders
  <2>2. o.sn = q.sn
    BY DEF MarkedAt
  <2>3. Len(u) \in Nat
    BY SoundIs
  <2> QED
    BY <2>1, <2>2, <2>3
<1>1. Boundary(o, c2) = q.sn[u[k]] + 1 /\ Boundary(q, c) = q.sn[u[k]]
  BY DEF Boundary, Reader
<1>2. ASSUME NEW i \in 1 .. Len(u)
      PROVE  /\ r \in o.readFlags[u[i]] <=> o.sn[u[i]] < Boundary(o, c2)
             /\ r \in o.readFlags[u[i]] => o.sn[u[i]] \in mk \cup {q.sn[u[k]]}
             /\ i > k => r \notin o.readFlags[u[i]]
  <2>1. /\ r \in q.readFlags[u[i]] <=> q.sn[u[i]] < q.sn[u[k]]
        /\ q.sn[u[i]] = q.sn[u[k]] <=> i = k
        /\ q.sn[u[i]] \in Nat /\ q.sn[u[k]] \in Nat
    BY FirstParts
  <2>2. CASE i = k
    BY <2>1, <2>2, <1>0, <1>1
  <2>3. CASE i # k
    <3>1. r \in o.readFlags[u[i]] <=> r \in q.readFlags[u[i]]
      BY <2>3, <1>0
    <3>2. q.sn[u[i]] < q.sn[u[k]] <=> q.sn[u[i]] < q.sn[u[k]] + 1
      BY <2>1, <2>3
    <3>3. r \in q.readFlags[u[i]] => q.sn[u[i]] \in mk
      BY DEF Reader
    <3>4. i > k => r \notin q.readFlags[u[i]]
      <4> SUFFICES ASSUME i > k PROVE r \notin q.readFlags[u[i]]
        OBVIOUS
      <4>1. k \in 1 .. i - 1
        OBVIOUS
      <4>2. q.readFlags[u[i]] \subseteq q.readFlags[u[k]]
        BY <4>1 DEF InOrder
      <4> QED
        BY <4>2 DEF First
    <3> QED
      BY <3>1, <3>2, <3>3, <3>4, <2>1, <1>0, <1>1
  <2> QED
    BY <2>2, <2>3
<1>3. ASSUME NEW sn \in ow
      PROVE  sn \in mk \cup {q.sn[u[k]]} \/ \E i \in 1 .. Len(u) : sn = o.sn[u[i]]
  BY <1>0 DEF Reader
<1>4. Passed(o, u, r, u[k])
  <2>1. r \in o.readFlags[u[k]]
    BY <1>0
  <2>2. \A j \in k + 1 .. Len(u) : r \notin o.readFlags[u[j]]
    <3> TAKE j \in k + 1 .. Len(u)
    <3>1. j \in 1 .. Len(u) /\ j > k
      BY <1>0
    <3> QED
      BY <3>1, <1>2
  <2> QED
    BY <2>1, <2>2 DEF Passed
<1>5. Position(o, u, f, r, c2)
  BY <1>4 DEF Position
<1> QED
  BY <1>2, <1>3, <1>5 DEF Reader

\* The oldest message leaves, and the others are in order.
LEMMA InOrderDropped ==
  ASSUME NEW q, NEW u, NEW f, Sound(q, u, f), Ordered(q, u), 1 \in 1 .. Len(u),
         \A i \in 2 .. Len(u) : q.rcvrs # {} => q.readFlags[u[i]] # q.rcvrs,
         NEW p, NEW v, NEW g, Shrinks(q, u, f, p, v, g, 1),
         p.readFlags = q.readFlags, p.rcvrs = q.rcvrs, p.numMessages = q.numMessages
  PROVE  InOrder(p, v)
<1>0. Len(u) \in Nat /\ Len(v) = Len(u) - 1 /\ p.sn = q.sn
  BY SoundIs DEF Shrinks
<1>1. ASSUME NEW i \in 1 .. Len(v)
      PROVE  i + 1 \in 2 .. Len(u) /\ i + 1 \in 1 .. Len(u) /\ v[i] = u[i + 1]
  <2>1. i + 1 \in 2 .. Len(u) /\ i + 1 \in 1 .. Len(u)
    BY <1>0
  <2> QED
    BY <2>1 DEF Shrinks
<1>2. ASSUME NEW i \in 1 .. Len(v)
      PROVE  p.sn[v[i]] < p.numMessages /\ (p.rcvrs # {} => p.readFlags[v[i]] # p.rcvrs)
  BY <1>0, <1>1 DEF Ordered
<1>3. ASSUME NEW j \in 1 .. Len(v), NEW i \in 1 .. j - 1
      PROVE  p.sn[v[i]] < p.sn[v[j]] /\ p.readFlags[v[j]] \subseteq p.readFlags[v[i]]
  <2>1. i \in 1 .. Len(v) /\ i + 1 \in 1 .. (j + 1) - 1
    BY <1>0
  <2>2. v[i] = u[i + 1] /\ v[j] = u[j + 1] /\ j + 1 \in 1 .. Len(u)
    BY <2>1, <1>1
  <2>3. q.sn[u[i + 1]] < q.sn[u[j + 1]] /\ q.readFlags[u[j + 1]] \subseteq q.readFlags[u[i + 1]]
    BY <2>1, <2>2 DEF Ordered
  <2> QED
    BY <2>2, <2>3, <1>0
<1> QED
  BY <1>2, <1>3 DEF InOrder

\* The fields that a dropped message leaves
LEMMA DropFields ==
  ASSUME NEW q \in Fields, NEW x
  PROVE  \E p : /\ p = Drop(q, x) /\ p.sn = q.sn /\ p.readFlags = q.readFlags
                /\ p.rcvrs = q.rcvrs /\ p.sem = q.sem /\ p.numMessages = q.numMessages
                /\ p.overflowPolicy = q.overflowPolicy /\ p.isClosed = q.isClosed
<1>1. PICK m : m = erase(q.mq, x)
  OBVIOUS
<1>2. Drop(q, x) = [q EXCEPT !.mq = m, !.messagesRead = q.messagesRead + 1]
  BY <1>1 DEF Drop, Fields
<1> QED
  BY <1>2 DEF Fields

\* What mark does to the queue
LEMMA MarkingIs ==
  ASSUME NEW q, NEW u, NEW f, Sound(q, u, f), FlagsOK(q, u), NEW k \in 1 .. Len(u),
         NEW r \in q.rcvrs, r \notin q.readFlags[u[k]]
  PROVE  \E o : /\ Sound(o, u, f) /\ MarkedAt(q, u[k], r, o)
                /\ o.readFlags[u[k]] \subseteq q.rcvrs
                /\ markRead(q, u[k], r) = IF o.readFlags[u[k]] = q.rcvrs THEN Drop(o, u[k]) ELSE o
<1>0. r \in Receivers /\ u[k] \in Entries /\ q.rcvrs \in SUBSET Receivers
      /\ q.readFlags \in [Entries -> SUBSET Receivers]
  BY SoundIs DEF Sound, Fields
<1>1. PICK x : x = u[k]
  OBVIOUS
<1>2. PICK o : o = Marked(q, x, r)
  OBVIOUS
<1>3. /\ Sound(o, u, f) /\ o.mq = q.mq /\ o.sn = q.sn
      /\ o.readFlags = [q.readFlags EXCEPT ![x] = @ \cup {r}]
      /\ o.rcvrs = q.rcvrs /\ o.sem = q.sem /\ o.numMessages = q.numMessages
      /\ o.overflowPolicy = q.overflowPolicy
  BY <1>0, <1>1, <1>2, MarkedIs
<1>4. MarkedAt(q, x, r, o)
  BY <1>3 DEF MarkedAt
<1>5. o.readFlags[x] \subseteq q.rcvrs
  BY <1>0, <1>1, <1>3 DEF FlagsOK
<1>6. o.numRead[x] = Cardinality(o.readFlags[x])
  BY <1>0, <1>1, <1>3 DEF Sound
<1>7. o.numRead[x] = Cardinality(q.rcvrs) <=> o.readFlags[x] = q.rcvrs
  BY <1>0, <1>5, <1>6, CountIsAll
<1>8. markRead(q, x, r) = IF o.readFlags[x] = q.rcvrs THEN Drop(o, x) ELSE o
  BY <1>1, <1>2, <1>7 DEF markRead, NewlyRead
<1> QED
  BY <1>1, <1>3, <1>4, <1>5, <1>8

\* The mark is on the message that was processed; it leaves only as the oldest, read by all.
LEMMA markIsExact ==
  ASSUME Orderly, NEW r \in Receivers, mark(r)
  PROVE  ExactNow'
<1>0. PICK u, f : Reading(u, f)
  BY OrderlyIs
<1>1. /\ receiver[r] \in ReceiverStates /\ receiver[r].at = "mark"
      /\ Past(queue, receiver[r], processed[r], marked[r])
      /\ Reader(queue, u, f, r, receiver[r], marked[r], owed[r], since[r])
      /\ r \in queue.rcvrs
      /\ Sound(queue, u, f) /\ InOrder(queue, u) /\ FlagsOK(queue, u)
  BY <1>0, ReaderIs DEF mark, At, Reading
<1> DEFINE c == [receiver[r] EXCEPT !.at = "advance"]
<1>2. PICK k \in 1 .. Len(u) : receiver[r].curit = u[k] /\ First(queue, u, r, k)
  BY <1>1 DEF Reader, Position, AtFirst
<1>3. PICK x : x = u[k] /\ r \notin queue.readFlags[x] /\ receiver[r].curit = x
  BY <1>2 DEF First
<1>4. PICK n : n = queue.sn[x]
  OBVIOUS
<1>5. /\ queue' = markRead(queue, x, r) /\ marked' = [marked EXCEPT ![r] = @ \cup {n}]
      /\ receiver' = [receiver EXCEPT ![r] = c] /\ UNCHANGED <<processed, owed, since>>
  BY <1>1, <1>3, <1>4 DEF mark, Goes, NewlyRead
<1>6. /\ c.at = "advance" /\ c.curit = u[k] /\ c.nextMessage = receiver[r].nextMessage
      /\ c.lastProcessedMessage = receiver[r].lastProcessedMessage
  BY <1>1, <1>2 DEF ReceiverStates
<1> HIDE DEF c
<1>7. /\ OthersStay(r) /\ processed'[r] = processed[r] /\ marked'[r] = marked[r] \cup {n}
      /\ owed'[r] = owed[r] /\ since'[r] = since[r]
  BY <1>0, <1>5 DEF Reading, Typed, OthersStay
<1>8. PICK o : /\ Sound(o, u, f) /\ MarkedAt(queue, u[k], r, o)
               /\ o.readFlags[u[k]] \subseteq queue.rcvrs
               /\ markRead(queue, u[k], r)
                    = IF o.readFlags[u[k]] = queue.rcvrs THEN Drop(o, u[k]) ELSE o
  BY <1>1, <1>2, <1>3, MarkingIs
<1>9. /\ Ordered(o, u)
      /\ \A i \in 1 .. Len(u) : i # k => o.readFlags[u[i]] = queue.readFlags[u[i]]
      /\ o.readFlags[u[k]] = queue.readFlags[u[k]] \cup {r}
  BY <1>1, <1>2, <1>8, MarkedOrders
<1>10. /\ o.mq = queue.mq /\ o.sn = queue.sn /\ o.rcvrs = queue.rcvrs /\ o.sem = queue.sem
       /\ o.numMessages = queue.numMessages /\ o \in Fields
  BY <1>8 DEF MarkedAt, Sound
<1>11. Reader(o, u, f, r, c, marked'[r], owed'[r], since'[r])
  <2>1. Reader(o, u, f, r, c, marked[r] \cup {queue.sn[u[k]]}, owed[r], since[r])
    BY <1>1, <1>2, <1>6, <1>8, MarkedReader
  <2> QED
    BY <2>1, <1>3, <1>4, <1>7
<1>12. Past(queue, c, processed'[r], marked'[r])
  <2>1. Limit(queue, c) = Limit(queue, receiver[r])
    BY <1>1, <1>6 DEF Limit
  <2>2. ASSUME NEW sn \in marked[r] \cup {n}
        PROVE  \E m \in 1 .. Len(processed[r]) : sn = processed[r][m]
    <3>1. CASE sn = n
      BY <3>1, <1>1, <1>3, <1>4 DEF Past
    <3>2. CASE sn \in marked[r]
      BY <3>2, <1>1 DEF Past
    <3> QED
      BY <3>1, <3>2
  <2> QED
    BY <2>1, <2>2, <1>1, <1>6, <1>7 DEF Past
<1>13. \A i \in 1 .. Len(u) : i # k /\ queue.rcvrs # {} => o.readFlags[u[i]] # queue.rcvrs
  BY <1>1, <1>9 DEF InOrder
<1>14. PICK d \in 0 .. 1 : d = IF o.readFlags[u[k]] = queue.rcvrs THEN 1 ELSE 0
  OBVIOUS
<1>15. CASE o.readFlags[u[k]] # queue.rcvrs
  <2>1. d = 0 /\ queue' = o
    BY <1>3, <1>5, <1>8, <1>14, <1>15
  <2>2. Shrinks(queue, u, f, o, u, f, d)
    BY <2>1, <1>1, <1>8, <1>10, SameShrinks
  <2>3. InOrder(o, u)
    BY <1>9, <1>10, <1>13, <1>15 DEF Ordered, InOrder
  <2>4. OthersSame(queue, u, o, u, d, r)
    <3> SUFFICES ASSUME NEW r2 \in Receivers \ {r}, r2 \in o.rcvrs
                 PROVE  SameFor(queue, u, o, u, d, r2)
      BY <1>10 DEF OthersSame
    <3>1. \A i \in 1 .. Len(u) : r2 \in o.readFlags[u[i]] <=> r2 \in queue.readFlags[u[i]]
      BY <1>9
    <3>2. \A i \in 1 .. Len(u) : i + d = i
      BY <2>1
    <3>3. ~(\E i \in 1 .. d : TRUE)
      BY <2>1
    <3> QED
      BY <3>1, <3>2, <3>3 DEF SameFor
  <2>5. Past(o, c, processed'[r], marked'[r])
    BY <1>10, <1>12 DEF Past, Limit
  <2> QED
    BY <2>1, <2>2, <2>3, <2>4, <2>5, <1>0, <1>5, <1>7, <1>10, <1>11, StepExact
<1>16. CASE o.readFlags[u[k]] = queue.rcvrs
  <2>1. Len(u) \in Nat /\ \A i \in 1 .. Len(u) : u[i] \in Entries
    BY <1>1, SoundIs
  <2>2. k = 1
    <3> SUFFICES ASSUME k # 1 PROVE FALSE
      OBVIOUS
    <3>1. 1 \in 1 .. k - 1 /\ 1 \in 1 .. Len(u)
      BY <2>1
    <3>2. queue.readFlags[u[k]] \subseteq queue.readFlags[u[1]] /\ r \in queue.readFlags[u[1]]
      BY <3>1, <1>1, <1>2 DEF InOrder, First
    <3>3. queue.readFlags[u[1]] \subseteq queue.rcvrs
      BY <3>1, <1>1 DEF FlagsOK
    <3>4. queue.readFlags[u[1]] = queue.rcvrs
      BY <3>2, <3>3, <1>9, <1>16
    <3> QED
      BY <3>1, <3>4, <1>1 DEF InOrder
  <2>3. d = 1 /\ queue' = Drop(o, u[1]) /\ 1 \in 1 .. Len(u)
    BY <2>1, <2>2, <1>3, <1>5, <1>8, <1>14, <1>16
  <2>4. PICK p : /\ p = Drop(o, u[1]) /\ p.sn = o.sn /\ p.readFlags = o.readFlags
                 /\ p.rcvrs = o.rcvrs /\ p.sem = o.sem /\ p.numMessages = o.numMessages
    BY <1>10, DropFields
  <2>5. PICK v, g : /\ Shrinks(o, u, f, p, v, g, 1)
                    /\ Len(v) = Len(u) - 1 /\ \A i \in 1 .. Len(v) : v[i] = u[i + 1]
    BY <2>3, <2>4, <1>8, DropShrinks
  <2>6. Shrinks(queue, u, f, p, v, g, d)
    BY <2>3, <2>5, <1>1, <1>10 DEF Shrinks
  <2>7. InOrder(p, v)
    <3>1. \A i \in 2 .. Len(u) : o.rcvrs # {} => o.readFlags[u[i]] # o.rcvrs
      BY <2>1, <2>2, <1>10, <1>13
    <3> QED
      BY <3>1, <2>3, <2>4, <2>5, <1>8, <1>9, InOrderDropped
  <2>8. \A i \in 1 .. Len(v) : i + 1 \in 1 .. Len(u) /\ i + 1 # 1
    BY <2>1, <2>5
  <2>9. \A i \in 1 .. 1 : i = 1
    OBVIOUS
  <2>10. ASSUME NEW r2 \in queue.rcvrs PROVE SameFor(o, u, p, v, 1, r2)
    BY <2>2, <2>4, <2>5, <2>8, <2>9, <1>16 DEF SameFor
  <2>11. OthersSame(queue, u, p, v, d, r)
    <3> SUFFICES ASSUME NEW r2 \in Receivers \ {r}, r2 \in p.rcvrs
                 PROVE  r2 \in queue.rcvrs /\ SameFor(queue, u, p, v, d, r2)
      BY <2>4, <1>10 DEF OthersSame
    <3>1. r2 \in queue.rcvrs
      BY <2>4, <1>10
    <3>2. \A i \in 1 .. Len(u) : r2 \in o.readFlags[u[i]] <=> r2 \in queue.readFlags[u[i]]
      BY <1>9
    <3>3. \A i \in 1 .. Len(v) : r2 \in p.readFlags[v[i]] <=> r2 \in queue.readFlags[u[i + d]]
      BY <3>2, <2>3, <2>4, <2>5, <2>8
    <3>4. r2 \in queue.readFlags[u[1]]
      BY <3>1, <3>2, <2>2, <2>3, <1>16
    <3>5. \A i \in 1 .. d : r2 \in queue.readFlags[u[i]]
      BY <3>4, <2>3, <2>9
    <3> QED
      BY <3>1, <3>3, <3>5 DEF SameFor
  <2>12. Reader(p, v, g, r, c, marked'[r], owed'[r], since'[r])
    BY <2>4, <2>5, <2>10, <1>1, <1>11, ReaderShrinks
  <2>13. Past(p, c, processed'[r], marked'[r])
    BY <2>4, <1>10, <1>12 DEF Past, Limit
  <2>14. p.numMessages = queue.numMessages /\ queue' = p
    BY <2>3, <2>4, <1>10
  <2> QED
    BY <2>6, <2>7, <2>11, <2>12, <2>13, <2>14, <1>0, <1>5, <1>7, StepExact
<1> QED
  BY <1>15, <1>16

-----------------------------------------------------------------------------
(* removeReceiver, in a queue that is in order *)

\* After n of the messages, the first d of which were left to r alone and are gone
Departing(q, u, f, r, n, p, v, g, d) ==
  /\ Shrinks(q, u, f, p, v, g, d) /\ d <= n
  /\ p.rcvrs = q.rcvrs \ {r} /\ p.numMessages = q.numMessages
  /\ p.overflowPolicy = q.overflowPolicy /\ \A r2 \in p.rcvrs : p.sem[r2] = q.sem[r2]
  /\ \A i \in 1 .. Len(v) :
       p.readFlags[v[i]]
         = IF i + d <= n THEN q.readFlags[u[i + d]] \ {r} ELSE q.readFlags[u[i + d]]
  /\ \A m \in 1 .. n : q.readFlags[u[m]] = q.rcvrs \ {r} <=> m <= d

Departs(q, u, f, r, n, p) == \E v, g, d : Departing(q, u, f, r, n, p, v, g, d)

\* Before the first of them
LEMMA DepartingBegins ==
  ASSUME NEW q, NEW u, NEW f, Sound(q, u, f), NEW r \in q.rcvrs
  PROVE  Departs(q, u, f, r, 0, Without(q, r))
<1> DEFINE p == Without(q, r)
           s == [q.sem EXCEPT ![r] = 0]
           c == q.rcvrs \ {r}
<1>1. q \in Fields /\ Len(u) \in Nat /\ r \in Receivers
  BY SoundIs DEF Sound, Fields
<1>2. p = [q EXCEPT !.rcvrs = c, !.sem = s]
  BY <1>1, Zenon DEF Without
<1>3. s \in [Receivers -> Nat] /\ c \in SUBSET Receivers /\ \A r2 \in c : s[r2] = q.sem[r2]
  BY <1>1 DEF Fields
<1> HIDE DEF p, s
<1>4. /\ p \in Fields /\ p.rcvrs = c /\ p.sem = s /\ p.mq = q.mq /\ p.sn = q.sn
      /\ p.readFlags = q.readFlags /\ p.numRead = q.numRead
      /\ p.numMessages = q.numMessages /\ p.overflowPolicy = q.overflowPolicy
  BY <1>1, <1>2, <1>3 DEF Fields
<1>5. Sound(p, u, f)
  BY <1>4 DEF Sound
<1>6. PICK d : d = 0
  OBVIOUS
<1>7. Shrinks(q, u, f, p, u, f, d)
  BY <1>4, <1>5, <1>6, SameShrinks
<1>8. ASSUME NEW i \in 1 .. Len(u)
      PROVE  p.readFlags[u[i]]
               = IF i + d <= 0 THEN q.readFlags[u[i + d]] \ {r} ELSE q.readFlags[u[i + d]]
  <2>1. ~(i + d <= 0) /\ i + d = i
    BY <1>6
  <2> QED
    BY <2>1, <1>4
<1>9. \A m \in 1 .. 0 : q.readFlags[u[m]] = q.rcvrs \ {r} <=> m <= d
  OBVIOUS
<1>10. Departing(q, u, f, r, 0, p, u, f, d)
  BY <1>3, <1>4, <1>6, <1>7, <1>8, <1>9 DEF Departing
<1> QED
  BY <1>10 DEF Departs, p

\* With one more: those left to r alone are the oldest, so one leaves only after all before.
LEMMA DepartingGoesOn ==
  ASSUME NEW q, NEW u, NEW f, Sound(q, u, f), FlagsOK(q, u), InOrder(q, u), NEW r \in q.rcvrs,
         NEW n \in 1 .. Len(u), NEW p, Departs(q, u, f, r, n - 1, p)
  PROVE  Departs(q, u, f, r, n, Leave(p, u[n], r))
<1>0. /\ Len(u) \in Nat /\ n \in Nat /\ n - 1 \in Nat /\ Distinct(u)
      /\ \A i \in 1 .. Len(u) : u[i] \in Entries
  BY SoundIs
<1>1. PICK v, g, d : Departing(q, u, f, r, n - 1, p, v, g, d)
  BY DEF Departs
<1>2. /\ Shrinks(q, u, f, p, v, g, d) /\ Sound(p, v, g) /\ p.sn = q.sn
      /\ d \in 0 .. Len(u) /\ Len(v) = Len(u) - d /\ d <= n - 1
      /\ \A i \in 1 .. Len(v) : v[i] = u[i + d]
  BY <1>1 DEF Departing, Shrinks
<1>3. /\ p.rcvrs = q.rcvrs \ {r} /\ p.numMessages = q.numMessages
      /\ p.overflowPolicy = q.overflowPolicy /\ \A r2 \in p.rcvrs : p.sem[r2] = q.sem[r2]
      /\ \A m \in 1 .. n - 1 : q.readFlags[u[m]] = q.rcvrs \ {r} <=> m <= d
  BY <1>1 DEF Departing
<1>4. ASSUME NEW i \in 1 .. Len(v)
      PROVE  /\ i + d \in 1 .. Len(u) /\ v[i] = u[i + d]
             /\ i + d < n => p.readFlags[v[i]] = q.readFlags[u[i + d]] \ {r}
             /\ i + d >= n => p.readFlags[v[i]] = q.readFlags[u[i + d]]
  <2>1. i + d \in 1 .. Len(u) /\ (i + d <= n - 1 <=> i + d < n) /\ (i + d >= n <=> ~(i + d <= n - 1))
    BY <1>0, <1>2
  <2>2. p.readFlags[v[i]]
          = IF i + d <= n - 1 THEN q.readFlags[u[i + d]] \ {r} ELSE q.readFlags[u[i + d]]
    BY <1>1 DEF Departing
  <2> QED
    BY <2>1, <2>2, <1>2
<1>5. PICK k \in 1 .. Len(v) : k + d = n
  <2>1. n - d \in 1 .. Len(v) /\ (n - d) + d = n
    BY <1>0, <1>2
  <2> QED
    BY <2>1
<1>6. PICK x \in Entries : x = u[n] /\ x = v[k] /\ p.readFlags[x] = q.readFlags[x]
  BY <1>0, <1>4, <1>5
<1>7. p \in Fields /\ q.rcvrs \in SUBSET Receivers /\ q.readFlags[x] \subseteq q.rcvrs
  BY <1>2, <1>6 DEF Sound, Fields, FlagsOK
<1>9. CASE r \in q.readFlags[x]
  <2>1. Leave(p, x, r) = Unmarked(p, x, r)
    BY <1>6, <1>9 DEF Leave
  <2>2. \E o : /\ o = Unmarked(p, x, r)
               /\ Sound(o, v, g) /\ o.mq = p.mq /\ o.sn = p.sn
               /\ o.readFlags = [p.readFlags EXCEPT ![x] = p.readFlags[x] \ {r}]
               /\ o.rcvrs = p.rcvrs /\ o.sem = p.sem /\ o.numMessages = p.numMessages
               /\ o.messagesRead = p.messagesRead /\ o.isClosed = p.isClosed
               /\ o.overflowPolicy = p.overflowPolicy
    BY <1>2, <1>6, <1>9, UnmarkedIs
  <2>3. PICK o : /\ o = Unmarked(p, x, r)
                 /\ Sound(o, v, g) /\ o.mq = p.mq /\ o.sn = p.sn
                 /\ o.readFlags = [p.readFlags EXCEPT ![x] = p.readFlags[x] \ {r}]
                 /\ o.rcvrs = p.rcvrs /\ o.sem = p.sem /\ o.numMessages = p.numMessages
                 /\ o.overflowPolicy = p.overflowPolicy
    BY <2>2
  <2>4. Shrinks(q, u, f, o, v, g, d)
    BY <2>3, <1>2 DEF Shrinks
  <2>5. p.readFlags \in [Entries -> SUBSET Receivers]
    BY <1>7 DEF Fields
  <2>6. ASSUME NEW i \in 1 .. Len(v)
        PROVE  o.readFlags[v[i]]
                 = IF i + d <= n THEN q.readFlags[u[i + d]] \ {r} ELSE q.readFlags[u[i + d]]
    <3>1. CASE i = k
      <4>1. v[i] = x /\ i + d = n /\ i + d <= n
        BY <3>1, <1>0, <1>5, <1>6
      <4>2. o.readFlags[x] = p.readFlags[x] \ {r}
        BY <2>3, <2>5
      <4> QED
        BY <4>1, <4>2, <1>6
    <3>2. CASE i # k
      <4>1. i + d # n /\ i + d \in 1 .. Len(u)
        BY <3>2, <1>2, <1>4, <1>5
      <4>2. v[i] = u[i + d] /\ v[i] # x /\ v[i] \in Entries
        <5>1. PICK m \in 1 .. Len(u) : m = i + d /\ m # n
          BY <4>1
        <5>2. u[m] # u[n] /\ u[m] \in Entries
          BY <5>1, <1>0 DEF Distinct
        <5>3. v[i] = u[m]
          BY <5>1, <1>4
        <5> QED
          BY <5>1, <5>2, <5>3, <1>6
      <4>3. o.readFlags[v[i]] = p.readFlags[v[i]]
        BY <4>2, <2>3, <2>5
      <4>4. (i + d <= n <=> i + d < n) /\ (~(i + d <= n) <=> i + d >= n)
        BY <4>1, <1>0
      <4> QED
        BY <4>3, <4>4, <1>4
    <3> QED
      BY <3>1, <3>2
  <2>7. ASSUME NEW m \in 1 .. n PROVE q.readFlags[u[m]] = q.rcvrs \ {r} <=> m <= d
    <3>1. CASE m = n
      BY <3>1, <1>0, <1>2, <1>6, <1>9
    <3>2. CASE m # n
      <4>1. m \in 1 .. n - 1
        BY <3>2, <1>0
      <4> QED
        BY <4>1, <1>3
    <3> QED
      BY <3>1, <3>2
  <2>8. Departing(q, u, f, r, n, o, v, g, d)
    <3>1. d <= n
      BY <1>0, <1>2
    <3> QED
      BY <3>1, <2>3, <2>4, <2>6, <2>7, <1>3 DEF Departing
  <2> QED
    BY <2>1, <2>3, <2>8, <1>6 DEF Departs
<1>10. p.numRead[x] = Cardinality(p.readFlags[x])
  BY <1>2, <1>6 DEF Sound
<1>11. ASSUME r \notin q.readFlags[x]
       PROVE  p.numRead[x] = Cardinality(p.rcvrs) <=> q.readFlags[x] = q.rcvrs \ {r}
  <2>1. PICK rest : rest = q.rcvrs \ {r}
    OBVIOUS
  <2>2. rest \in SUBSET Receivers /\ q.readFlags[x] \in SUBSET rest
    BY <2>1, <1>7, <1>11
  <2>3. PICK T : T = q.readFlags[x]
    OBVIOUS
  <2>4. Cardinality(T) = Cardinality(rest) <=> T = rest
    BY <2>2, <2>3, CountIsAll
  <2> QED
    BY <2>1, <2>3, <2>4, <1>3, <1>6, <1>10
<1>12. CASE r \notin q.readFlags[x] /\ q.readFlags[x] # q.rcvrs \ {r}
  <2>1. Leave(p, x, r) = p
    BY <1>6, <1>11, <1>12 DEF Leave
  <2>2. ASSUME NEW i \in 1 .. Len(v)
        PROVE  p.readFlags[v[i]]
                 = IF i + d <= n THEN q.readFlags[u[i + d]] \ {r} ELSE q.readFlags[u[i + d]]
    <3>1. CASE i + d = n
      <4>1. u[i + d] = x /\ p.readFlags[v[i]] = q.readFlags[u[i + d]]
        BY <3>1, <1>0, <1>4, <1>6
      <4> QED
        BY <4>1, <1>12
    <3>2. CASE i + d # n
      <4>1. i + d \in 1 .. Len(u) /\ (i + d <= n <=> i + d < n) /\ (~(i + d <= n) <=> i + d >= n)
        BY <3>2, <1>0, <1>4
      <4> QED
        BY <4>1, <1>4
    <3> QED
      BY <3>1, <3>2
  <2>3. ASSUME NEW m \in 1 .. n PROVE q.readFlags[u[m]] = q.rcvrs \ {r} <=> m <= d
    <3>1. CASE m = n
      BY <3>1, <1>0, <1>2, <1>6, <1>12
    <3>2. CASE m # n
      <4>1. m \in 1 .. n - 1
        BY <3>2, <1>0
      <4> QED
        BY <4>1, <1>3
    <3> QED
      BY <3>1, <3>2
  <2>4. Departing(q, u, f, r, n, p, v, g, d)
    <3>1. d <= n
      BY <1>0, <1>2
    <3> QED
      BY <3>1, <2>2, <2>3, <1>2, <1>3 DEF Departing
  <2>5. Departs(q, u, f, r, n, p)
    BY <2>4 DEF Departs
  <2>6. Leave(p, u[n], r) = p
    BY <2>1, <1>6
  <2> QED
    BY <2>5, <2>6, Zenon
<1>13. CASE r \notin q.readFlags[x] /\ q.readFlags[x] = q.rcvrs \ {r}
  <2>1. Leave(p, x, r) = Drop(p, x)
    BY <1>6, <1>11, <1>13 DEF Leave
  <2>2. d = n - 1
    <3> SUFFICES ASSUME d # n - 1 PROVE FALSE
      OBVIOUS
    <3>1. n - 1 \in 1 .. n - 1 /\ n - 1 \in 1 .. Len(u) /\ ~(n - 1 <= d)
      BY <1>0, <1>2
    <3>2. q.readFlags[u[n]] \subseteq q.readFlags[u[n - 1]]
      BY <3>1 DEF InOrder
    <3>3. q.readFlags[u[n - 1]] # q.rcvrs \ {r}
      BY <3>1, <1>3
    <3>4. q.readFlags[u[n - 1]] \subseteq q.rcvrs /\ q.readFlags[u[n - 1]] # q.rcvrs
      BY <3>1 DEF FlagsOK, InOrder
    <3> QED
      BY <3>2, <3>3, <3>4, <1>6, <1>13
  <2>3. k = 1 /\ n = d + 1 /\ 1 \in 1 .. Len(v) /\ x = v[1]
    BY <2>2, <1>0, <1>2, <1>5, <1>6
  <2>4. PICK o : /\ o = Drop(p, x) /\ o.sn = p.sn /\ o.readFlags = p.readFlags
                 /\ o.rcvrs = p.rcvrs /\ o.sem = p.sem /\ o.numMessages = p.numMessages
                 /\ o.overflowPolicy = p.overflowPolicy
    BY <1>7, DropFields
  <2>5. PICK w, h : /\ Shrinks(p, v, g, o, w, h, 1)
                    /\ Len(w) = Len(v) - 1 /\ \A i \in 1 .. Len(w) : w[i] = v[i + 1]
    BY <2>3, <2>4, <1>2, DropShrinks
  <2>6. /\ Sound(o, w, h) /\ h # <<>> /\ h[Len(h)] = v[1] /\ o.mq.next[v[1]] = Nth(v, 1 + 1)
    BY <2>5 DEF Shrinks
  <2>7. ASSUME NEW i \in 1 .. Len(w)
        PROVE  /\ i + 1 \in 1 .. Len(v) /\ (i + 1) + d = i + n /\ w[i] = u[i + n] /\ ~(i + n <= n)
               /\ o.readFlags[w[i]] = q.readFlags[u[i + n]]
    <3>1. i + 1 \in 1 .. Len(v) /\ (i + 1) + d = i + n /\ ~(i + n <= n) /\ (i + 1) + d >= n
      BY <2>2, <2>5, <1>0, <1>2
    <3>2. w[i] = v[i + 1] /\ v[i + 1] = u[(i + 1) + d]
          /\ p.readFlags[v[i + 1]] = q.readFlags[u[(i + 1) + d]]
      BY <3>1, <2>5, <1>4
    <3> QED
      BY <3>1, <3>2, <2>4
  <2>8. Nth(v, 1 + 1) = Nth(u, n + 1)
    <3>1. CASE 2 \in 1 .. Len(v)
      <4>1. n + 1 \in 1 .. Len(u) /\ 2 + d = n + 1
        BY <3>1, <2>2, <1>0, <1>2
      <4>2. v[2] = u[2 + d]
        BY <3>1, <1>2
      <4> QED
        BY <3>1, <4>1, <4>2 DEF Nth
    <3>2. CASE 2 \notin 1 .. Len(v)
      <4>1. n + 1 \notin 1 .. Len(u)
        BY <3>2, <2>2, <1>0, <1>2
      <4> QED
        BY <3>2, <4>1 DEF Nth
    <3> QED
      BY <3>1, <3>2
  <2>9. Shrinks(q, u, f, o, w, h, n)
    <3>1. n \in 0 .. Len(u) /\ Len(w) = Len(u) - n /\ n # 0
      BY <2>2, <2>5, <1>0, <1>2
    <3>2. o.sn = q.sn /\ h[Len(h)] = u[n] /\ o.mq.next[u[n]] = Nth(u, n + 1)
      BY <2>3, <2>4, <2>6, <2>8, <1>2, <1>6
    <3> QED
      BY <3>1, <3>2, <2>6, <2>7 DEF Shrinks
  <2>10. ASSUME NEW m \in 1 .. n PROVE q.readFlags[u[m]] = q.rcvrs \ {r} <=> m <= n
    <3>1. CASE m = n
      BY <3>1, <1>6, <1>13
    <3>2. CASE m # n
      <4>1. m \in 1 .. n - 1 /\ m <= d /\ m <= n
        BY <3>2, <2>2, <1>0
      <4> QED
        BY <4>1, <1>3
    <3> QED
      BY <3>1, <3>2
  <2>11. Departing(q, u, f, r, n, o, w, h, n)
    <3>1. n <= n
      BY <1>0
    <3> QED
      BY <3>1, <2>4, <2>7, <2>9, <2>10, <1>3 DEF Departing
  <2> QED
    BY <2>1, <2>4, <2>11, <1>6 DEF Departs
<1> QED
  BY <1>9, <1>12, <1>13

\* After all of them, by the least after which it would not be so
LEMMA DepartedIs ==
  ASSUME NEW q, NEW u, NEW f, Sound(q, u, f), FlagsOK(q, u), InOrder(q, u), NEW r \in q.rcvrs
  PROVE  Departs(q, u, f, r, Len(u), removeReceiver(q, r))
<1>0. Len(u) \in Nat /\ InUse(q.mq) = u
  BY SoundIs
<1>1. PICK left :
           /\ left[0] = Without(q, r)
           /\ \A n \in 1 .. Len(u) : left[n] = Leave(left[n - 1], u[n], r)
           /\ removeReceiver(q, r) = left[Len(u)]
  <2> DEFINE N == Len(u)
  <2>1. N \in Nat /\ N = Len(InUse(q.mq))
    BY <1>0
  <2> HIDE DEF N
  <2>2. \E left :
           /\ left[0] = Without(q, r)
           /\ \A n \in 1 .. N : left[n] = Leave(left[n - 1], InUse(q.mq)[n], r)
           /\ removeReceiver(q, r) = left[N]
    BY <2>1, LeftIs
  <2> QED
    BY <2>2, <1>0 DEF N
<1>2. \A n \in 0 .. Len(u) : Departs(q, u, f, r, n, left[n])
  <2> DEFINE wrong == {n \in 0 .. Len(u) : ~Departs(q, u, f, r, n, left[n])}
  <2> SUFFICES ASSUME wrong # {} PROVE FALSE
    OBVIOUS
  <2>1. wrong \subseteq Nat
    BY <1>0
  <2>2. PICK n \in wrong : \A m \in wrong : ~(<<m, n>> \in OpToRel(<, Nat))
    BY <2>1, NatLessThanWellFounded, WFMin, Zenon
  <2>3. n \in 0 .. Len(u) /\ ~Departs(q, u, f, r, n, left[n])
    OBVIOUS
  <2>4. CASE n = 0
    BY <2>3, <2>4, <1>1, DepartingBegins
  <2>5. CASE n # 0
    <3>1. n \in 1 .. Len(u) /\ n - 1 \in 0 .. Len(u) /\ n - 1 \in Nat /\ n \in Nat /\ n - 1 < n
      BY <2>3, <2>5, <1>0
    <3>2. n - 1 \notin wrong
      BY <3>1, <2>2 DEF OpToRel
    <3>3. Departs(q, u, f, r, n - 1, left[n - 1])
      BY <3>1, <3>2
    <3> DEFINE p == left[n - 1]
    <3>4. Departs(q, u, f, r, n - 1, p)
      BY <3>3
    <3> HIDE DEF p
    <3>5. Departs(q, u, f, r, n, Leave(p, u[n], r))
      BY <3>1, <3>4, DepartingGoesOn
    <3>6. left[n] = Leave(p, u[n], r)
      BY <3>1, <1>1 DEF p
    <3> QED
      BY <3>5, <3>6, <2>3
  <2> QED
    BY <2>4, <2>5
<1> QED
  <2>1. Len(u) \in 0 .. Len(u)
    BY <1>0
  <2> QED
    BY <2>1, <1>1, <1>2

\* The others are in order after that, and have read what they had.
LEMMA DepartedOrders ==
  ASSUME NEW q, NEW u, NEW f, Sound(q, u, f), FlagsOK(q, u), InOrder(q, u), NEW r \in q.rcvrs,
         NEW p, NEW v, NEW g, NEW d, Departing(q, u, f, r, Len(u), p, v, g, d)
  PROVE  InOrder(p, v) /\ OthersSame(q, u, p, v, d, r)
<1>0. /\ Len(u) \in Nat /\ p.sn = q.sn /\ d \in 0 .. Len(u) /\ Len(v) = Len(u) - d
      /\ \A i \in 1 .. Len(v) : v[i] = u[i + d]
  BY SoundIs DEF Departing, Shrinks
<1>1. /\ p.rcvrs = q.rcvrs \ {r} /\ p.numMessages = q.numMessages
      /\ \A r2 \in p.rcvrs : p.sem[r2] = q.sem[r2]
      /\ \A m \in 1 .. Len(u) : q.readFlags[u[m]] = q.rcvrs \ {r} <=> m <= d
  BY DEF Departing
<1>2. ASSUME NEW i \in 1 .. Len(v)
      PROVE  /\ i + d \in 1 .. Len(u) /\ v[i] = u[i + d] /\ ~(i + d <= d)
             /\ p.readFlags[v[i]] = q.readFlags[u[i + d]] \ {r}
  <2>1. i + d \in 1 .. Len(u) /\ i + d <= Len(u) /\ ~(i + d <= d)
    BY <1>0
  <2>2. p.readFlags[v[i]]
          = IF i + d <= Len(u) THEN q.readFlags[u[i + d]] \ {r} ELSE q.readFlags[u[i + d]]
    BY DEF Departing
  <2> QED
    BY <2>1, <2>2, <1>0
<1>3. ASSUME NEW i \in 1 .. Len(v)
      PROVE  p.sn[v[i]] < p.numMessages /\ p.readFlags[v[i]] # p.rcvrs
  <2>1. PICK m \in 1 .. Len(u) : m = i + d
    BY <1>2
  <2>2. /\ v[i] = u[m] /\ p.readFlags[v[i]] = q.readFlags[u[m]] \ {r}
        /\ q.readFlags[u[m]] # q.rcvrs \ {r}
    BY <2>1, <1>1, <1>2
  <2>3. /\ q.sn[u[m]] < q.numMessages /\ q.readFlags[u[m]] \subseteq q.rcvrs
        /\ q.readFlags[u[m]] # q.rcvrs
    BY DEF InOrder, FlagsOK
  <2>4. PICK had : had = q.readFlags[u[m]]
    OBVIOUS
  <2>5. had \ {r} # q.rcvrs \ {r}
    <3>1. CASE r \in had
      <4>1. had # q.rcvrs /\ had \subseteq q.rcvrs
        BY <2>3, <2>4
      <4> QED
        BY <3>1, <4>1
    <3>2. CASE r \notin had
      <4>1. had # q.rcvrs \ {r}
        BY <2>2, <2>4
      <4> QED
        BY <3>2, <4>1
    <3> QED
      BY <3>1, <3>2
  <2> QED
    BY <2>2, <2>3, <2>4, <2>5, <1>0, <1>1
<1>4. ASSUME NEW j \in 1 .. Len(v), NEW i \in 1 .. j - 1
      PROVE  p.sn[v[i]] < p.sn[v[j]] /\ p.readFlags[v[j]] \subseteq p.readFlags[v[i]]
  <2>1. i \in 1 .. Len(v) /\ i + d \in 1 .. (j + d) - 1
    BY <1>0
  <2>2. PICK m \in 1 .. Len(u) : m = j + d
    BY <1>2
  <2>3. PICK k \in 1 .. m - 1 : k = i + d
    BY <2>1, <2>2
  <2>4. /\ v[j] = u[m] /\ p.readFlags[v[j]] = q.readFlags[u[m]] \ {r}
        /\ v[i] = u[k] /\ p.readFlags[v[i]] = q.readFlags[u[k]] \ {r}
    BY <2>1, <2>2, <2>3, <1>2
  <2>5. q.sn[u[k]] < q.sn[u[m]] /\ q.readFlags[u[m]] \subseteq q.readFlags[u[k]]
    BY DEF InOrder
  <2> QED
    BY <2>4, <2>5, <1>0
<1>5. ASSUME NEW r2 \in Receivers \ {r}, r2 \in p.rcvrs
      PROVE  /\ r2 \in q.rcvrs /\ SameFor(q, u, p, v, d, r2)
             /\ p.sem[r2] = 0 => q.sem[r2] = 0
  <2>1. \A i \in 1 .. Len(v) : r2 \in p.readFlags[v[i]] <=> r2 \in q.readFlags[u[i + d]]
    BY <1>2
  <2>2. ASSUME NEW i \in 1 .. d PROVE r2 \in q.readFlags[u[i]]
    <3>1. i \in 1 .. Len(u) /\ i <= d
      BY <1>0
    <3>2. q.readFlags[u[i]] = q.rcvrs \ {r}
      BY <3>1, <1>1
    <3> QED
      BY <3>2, <1>1, <1>5
  <2> QED
    BY <2>1, <2>2, <1>1, <1>5 DEF SameFor
<1> QED
  BY <1>3, <1>4, <1>5 DEF InOrder, OthersSame

\* removeReceiver() at the end of finish()
LEMMA finishRemoveIsExact ==
  ASSUME Orderly, NEW r \in Receivers, finishRemove(r)
  PROVE  ExactNow'
<1>0. PICK u, f : Reading(u, f)
  BY OrderlyIs
<1>1. /\ receiver[r] \in ReceiverStates /\ receiver[r].at = "looped"
      /\ Past(queue, receiver[r], processed[r], marked[r]) /\ r \in queue.rcvrs
      /\ Sound(queue, u, f) /\ InOrder(queue, u) /\ FlagsOK(queue, u)
  BY <1>0, ReaderIs DEF finishRemove, At, Reading
<1> DEFINE c == [receiver[r] EXCEPT !.at = "finished", !.msg = NoMessage]
<1>2. receiver' = [receiver EXCEPT ![r] = c] /\ queue' = removeReceiver(queue, r)
      /\ UNCHANGED history
  BY <1>0 DEF finishRemove, Reading, Typed
<1>3. /\ c.at = "finished" /\ c.nextMessage = receiver[r].nextMessage
      /\ c.lastProcessedMessage = receiver[r].lastProcessedMessage
  BY <1>1 DEF ReceiverStates
<1> HIDE DEF c
<1>4. OthersStay(r) /\ processed'[r] = processed[r] /\ marked'[r] = marked[r]
  BY <1>2 DEF OthersStay, history
<1>5. PICK p : p = removeReceiver(queue, r)
  OBVIOUS
<1>6. Departs(queue, u, f, r, Len(u), p)
  BY <1>1, <1>5, DepartedIs
<1>7. PICK v, g, d : Departing(queue, u, f, r, Len(u), p, v, g, d)
  BY <1>6 DEF Departs
<1>8. InOrder(p, v) /\ OthersSame(queue, u, p, v, d, r)
  BY <1>1, <1>7, DepartedOrders
<1>9. /\ Shrinks(queue, u, f, p, v, g, d) /\ r \notin p.rcvrs
      /\ p.numMessages = queue.numMessages /\ p.sn = queue.sn
  BY <1>7 DEF Departing, Shrinks
<1>10. Past(queue, c, processed[r], marked[r])
  BY <1>1, <1>3, QuietPast DEF Quiet
<1>11. Past(p, c, processed'[r], marked'[r])
  BY <1>3, <1>4, <1>9, <1>10 DEF Past, Limit
<1> QED
  BY <1>0, <1>2, <1>4, <1>5, <1>8, <1>9, <1>11, StepExact

-----------------------------------------------------------------------------
(* The senders keep it. *)

\* A message is sent to those who are registered.
LEMMA PostedIsExact ==
  ASSUME NEW u, NEW f, Reading(u, f), NEW s, ~Full(queue), Posted(Post(queue), s),
         receiver' = receiver
  PROVE  ExactNow'
<1>0. /\ Sound(queue, u, f) /\ InOrder(queue, u) /\ queue.numMessages \in Nat /\ f # <<>>
      /\ queue.rcvrs \in SUBSET Receivers
  BY SoundIs DEF Reading, Fields
<1>1. PICK p : p = Post(queue)
  OBVIOUS
<1>2. PICK v, g : Sent(queue, u, f, p, v, g)
  <2>1. \E v, g : Sent(queue, u, f, Post(queue), v, g)
    BY <1>0, PostIs
  <2> QED
    BY <2>1, <1>1
<1>3. /\ Sound(p, v, g) /\ p.rcvrs = queue.rcvrs /\ p.numMessages = queue.numMessages + 1
  BY <1>2 DEF Sent
<1>4. InOrder(p, v)
  BY <1>0, <1>2, InOrderSent
<1>5. PICK n : n = queue.numMessages
  OBVIOUS
<1>6. /\ queue' = p /\ processed' = processed /\ marked' = marked /\ since' = since
      /\ owed' = [r \in Receivers |-> IF r \in p.rcvrs THEN owed[r] \cup {n} ELSE owed[r]]
  <2>1. /\ queue' = p /\ processed' = processed /\ marked' = marked /\ since' = since
        /\ owed' = [r \in Receivers |->
                      IF r \in p.rcvrs THEN owed[r] \cup {p.numMessages - 1} ELSE owed[r]]
    BY <1>1 DEF Posted
  <2>2. p.numMessages - 1 = n
    BY <1>0, <1>3, <1>5
  <2> QED
    BY <2>1, <2>2
<1>7. ASSUME NEW r \in Receivers
      PROVE  /\ Past(p, receiver[r], processed[r], marked[r])
             /\ r \in p.rcvrs => Reader(p, v, g, r, receiver[r], marked[r], owed'[r], since[r])
  <2>1. /\ receiver[r] \in ReceiverStates
        /\ Past(queue, receiver[r], processed[r], marked[r])
        /\ r \in queue.rcvrs => Reader(queue, u, f, r, receiver[r], marked[r], owed[r], since[r])
        /\ receiver[r].at \notin {"none", "launching", "finished"} => r \in queue.rcvrs
    BY ReaderIs
  <2>2. ASSUME receiver[r].at \in {"find", "note", "mark"}
        PROVE  p.sn[receiver[r].curit] = queue.sn[receiver[r].curit]
    <3>1. Reader(queue, u, f, r, receiver[r], marked[r], owed[r], since[r])
      BY <2>1, <2>2
    <3>2. AtFirst(queue, u, r, receiver[r].curit)
      BY <2>2, <3>1 DEF Reader, Position
    <3> QED
      BY <3>2, <1>0, <1>2, FirstSent
  <2>3. queue.numMessages <= p.numMessages /\ p.numMessages \in Nat
    BY <1>0, <1>3
  <2>4. Past(p, receiver[r], processed[r], marked[r])
    BY <2>1, <2>2, <2>3, <1>0, PastKept
  <2>5. ASSUME r \in p.rcvrs
        PROVE  Reader(p, v, g, r, receiver[r], marked[r], owed'[r], since[r])
    <3>1. /\ r \in queue.rcvrs
          /\ Reader(queue, u, f, r, receiver[r], marked[r], owed[r], since[r])
      BY <1>3, <2>1, <2>5
    <3>2. receiver[r].nextMessage <= queue.numMessages
      BY <2>1 DEF Past
    <3>3. Reader(p, v, g, r, receiver[r], marked[r], owed[r] \cup {queue.numMessages}, since[r])
      BY <3>1, <3>2, <2>1, <1>0, <1>2, ReaderSent
    <3>4. owed'[r] = owed[r] \cup {queue.numMessages}
      BY <1>5, <1>6, <2>5
    <3> QED
      BY <3>3, <3>4
  <2> QED
    BY <2>4, <2>5
<1>8. Each(p, v, g, receiver', processed', marked', owed', since')
  BY <1>6, <1>7 DEF Each
<1>9. Exact(p, receiver', processed', marked', owed', since')
  BY <1>3, <1>4, <1>8 DEF Exact
<1> QED
  BY <1>6, <1>9 DEF ExactNow

\* Nothing but counters and settings of the queue is changed.
LEMMA SameExact ==
  ASSUME NEW u, NEW f, Reading(u, f), UNCHANGED history, receiver' = receiver,
         NEW p \in Fields, queue' = p,
         p.mq = queue.mq, p.sn = queue.sn, p.readFlags = queue.readFlags,
         p.numRead = queue.numRead, p.rcvrs = queue.rcvrs, p.sem = queue.sem,
         p.numMessages = queue.numMessages
  PROVE  ExactNow'
<1>1. Sound(p, u, f) /\ InOrder(p, u)
  BY DEF Reading, Sound, InOrder
<1>2. processed' = processed /\ marked' = marked /\ owed' = owed /\ since' = since
  BY DEF history
<1>3. ASSUME NEW r \in Receivers
      PROVE  /\ Past(p, receiver[r], processed[r], marked[r])
             /\ r \in p.rcvrs => Reader(p, u, f, r, receiver[r], marked[r], owed[r], since[r])
  <2>1. /\ Past(queue, receiver[r], processed[r], marked[r])
        /\ r \in queue.rcvrs => Reader(queue, u, f, r, receiver[r], marked[r], owed[r], since[r])
    BY ReaderIs
  <2>2. Past(p, receiver[r], processed[r], marked[r])
    BY <2>1 DEF Past, Limit
  <2>3. r \in p.rcvrs => Reader(p, u, f, r, receiver[r], marked[r], owed[r], since[r])
    BY <2>1, StagedReader
  <2> QED
    BY <2>2, <2>3
<1>4. Each(p, u, f, receiver', processed', marked', owed', since')
  BY <1>2, <1>3 DEF Each
<1>5. Exact(p, receiver', processed', marked', owed', since')
  BY <1>1, <1>4 DEF Exact
<1> QED
  BY <1>5 DEF ExactNow

\* sendMessage() with the lock, under a policy that drops none that was sent
LEMMA SendingIsExact ==
  ASSUME NoDrop, Orderly, NEW s \in Senders, Sending(s), receiver' = receiver
  PROVE  ExactNow'
<1>0. PICK u, f : Reading(u, f)
  BY OrderlyIs
<1>1. queue \in Fields /\ queue.overflowPolicy # "DROP_OLDEST"
  BY <1>0 DEF Reading, Orderly, NoDrop
<1>2. CASE queue' = CountUnsent(queue) /\ UNCHANGED history
  <2>1. PICK n \in Nat : n = queue.messagesRead + 1
    BY <1>1 DEF Fields
  <2>2. PICK p : p = [queue EXCEPT !.messagesRead = n]
    OBVIOUS
  <2>3. /\ p \in Fields /\ p.mq = queue.mq /\ p.sn = queue.sn /\ p.readFlags = queue.readFlags
        /\ p.numRead = queue.numRead /\ p.rcvrs = queue.rcvrs /\ p.sem = queue.sem
        /\ p.numMessages = queue.numMessages
    BY <2>2, <1>1 DEF Fields
  <2>4. queue' = p
    BY <2>1, <2>2, <1>2 DEF CountUnsent
  <2> QED
    BY <2>3, <2>4, <1>0, <1>2, SameExact
<1>3. CASE UNCHANGED <<queue, history>>
  <2>1. UNCHANGED history /\ queue' = queue
    BY <1>3
  <2> QED
    BY <2>1, <1>0, <1>1, SameExact
<1>4. CASE ~Full(queue) /\ Posted(Post(queue), s)
  BY <1>0, <1>4, PostedIsExact
<1> QED
  BY <1>1, <1>2, <1>3, <1>4 DEF Sending, Ignored

\* Every step of a sender
LEMMA SendersAreExact ==
  ASSUME NoDrop, Orderly, NEW s \in Senders,
         sendMessage(s) \/ Overwrite(s) \/ Woken(s) \/ Retry(s)
  PROVE  ExactNow'
<1>0. PICK u, f : Reading(u, f)
  BY OrderlyIs
<1>1. CASE sendMessage(s)
  BY <1>1, SendingIsExact DEF sendMessage
<1>2. CASE Retry(s)
  BY <1>2, SendingIsExact DEF Retry
<1>3. CASE Woken(s)
  BY <1>0, <1>3, PostedIsExact DEF Woken
<1>4. ~Overwrite(s)
  BY DEF Overwrite, Orderly
<1> QED
  BY <1>1, <1>2, <1>3, <1>4

\* close() and setOverflowPolicy() leave the messages alone.
LEMMA SettingsAreExact ==
  ASSUME Orderly, close \/ \E op \in LaterPolicies : setOverflowPolicy(op)
  PROVE  ExactNow'
<1>0. PICK u, f : Reading(u, f)
  BY OrderlyIs
<1>1. queue \in Fields
  BY <1>0 DEF Reading
<1>2. UNCHANGED history /\ receiver' = receiver
  BY DEF close, setOverflowPolicy
<1>3. CASE close
  <2>1. PICK p : p = [queue EXCEPT !.isClosed = TRUE]
    OBVIOUS
  <2>2. /\ p \in Fields /\ p.mq = queue.mq /\ p.sn = queue.sn /\ p.readFlags = queue.readFlags
        /\ p.numRead = queue.numRead /\ p.rcvrs = queue.rcvrs /\ p.sem = queue.sem
        /\ p.numMessages = queue.numMessages
    BY <2>1, <1>1 DEF Fields
  <2>3. queue' = p
    BY <2>1, <1>3 DEF close
  <2> QED
    BY <2>2, <2>3, <1>0, <1>2, SameExact
<1>4. ASSUME NEW op \in LaterPolicies, setOverflowPolicy(op) PROVE ExactNow'
  <2>1. PICK p : p = [queue EXCEPT !.overflowPolicy = op]
    OBVIOUS
  <2>2. op \in Policies
    BY ReceiverAssumption
  <2>3. /\ p \in Fields /\ p.mq = queue.mq /\ p.sn = queue.sn /\ p.readFlags = queue.readFlags
        /\ p.numRead = queue.numRead /\ p.rcvrs = queue.rcvrs /\ p.sem = queue.sem
        /\ p.numMessages = queue.numMessages
    BY <2>1, <2>2, <1>1 DEF Fields
  <2>4. queue' = p
    BY <2>1, <1>4 DEF setOverflowPolicy
  <2> QED
    BY <2>3, <2>4, <1>0, <1>2, SameExact
<1> QED
  BY <1>3, <1>4

-----------------------------------------------------------------------------
(* The policy stays one of those that drop no message that was sent. *)

\* The calls of the receivers do not set it.
LEMMA ReceiversKeepPolicy ==
  ASSUME Orderly, NEW r \in Receivers, start(r) \/ Thread(r) \/ Finish(r)
  PROVE  queue'.overflowPolicy = queue.overflowPolicy /\ UNCHANGED sender
<1>0. PICK u, f : Reading(u, f)
  BY OrderlyIs
<1>1. queue \in Fields /\ Sound(queue, u, f) /\ InOrder(queue, u) /\ FlagsOK(queue, u)
  BY <1>0 DEF Reading
<1>2. CASE queue' = queue /\ UNCHANGED sender
  BY <1>2
<1>3. CASE (queue' = lower(queue, r) \/ queue' = raise(queue, r)) /\ UNCHANGED sender
  <2>1. PICK sem \in [Receivers -> Nat] : queue' = [queue EXCEPT !.sem = sem]
    BY <1>1, <1>3, LowerIs, RaiseIs
  <2> QED
    BY <2>1, <1>1, <1>3 DEF Fields
<1>4. CASE launched(r)
  <2>1. CASE queue' = queue
    BY <2>1, <1>4 DEF launched, Unsent
  <2>2. CASE queue' = addReceiver(queue, r)
    <3>1. PICK sem, all : queue' = [queue EXCEPT !.rcvrs = all, !.sem = sem]
      <4>1. queue' = [queue EXCEPT !.rcvrs = queue.rcvrs \cup {r}, !.sem = [queue.sem EXCEPT ![r] = 0]]
        BY <2>2, <1>1 DEF addReceiver, Fields
      <4> QED
        BY <4>1
    <3> QED
      BY <3>1, <1>1, <1>4 DEF Fields, launched, Unsent
  <2> QED
    BY <2>1, <2>2, <1>4 DEF launched, Register
<1>5. CASE mark(r)
  <2>1. /\ Reader(queue, u, f, r, receiver[r], marked[r], owed[r], since[r])
        /\ receiver[r].at = "mark" /\ r \in queue.rcvrs
    BY <1>0, <1>5, ReaderIs DEF mark, At
  <2>2. PICK k \in 1 .. Len(u) : receiver[r].curit = u[k] /\ First(queue, u, r, k)
    BY <2>1 DEF Reader, Position, AtFirst
  <2>3. r \notin queue.readFlags[u[k]]
    BY <2>2 DEF First
  <2>4. PICK o : /\ Sound(o, u, f) /\ MarkedAt(queue, u[k], r, o)
                 /\ markRead(queue, u[k], r)
                      = IF o.readFlags[u[k]] = queue.rcvrs THEN Drop(o, u[k]) ELSE o
    BY <2>1, <2>3, <1>1, MarkingIs
  <2>5. PICK d : d = Drop(o, u[k]) /\ d.overflowPolicy = o.overflowPolicy
    BY <2>4, DropFields DEF Sound
  <2>6. o.overflowPolicy = queue.overflowPolicy
    BY <2>4 DEF MarkedAt
  <2>7. queue' = d \/ queue' = o
    BY <2>2, <2>4, <2>5, <1>5 DEF mark
  <2> QED
    BY <2>5, <2>6, <2>7, <1>5 DEF mark, Unsent
<1>6. CASE finishRemove(r)
  <2>1. r \in queue.rcvrs
    BY <1>0, <1>6, ReaderIs DEF finishRemove, At
  <2>2. PICK p : p = removeReceiver(queue, r)
    OBVIOUS
  <2>3. Departs(queue, u, f, r, Len(u), p)
    BY <2>1, <2>2, <1>1, DepartedIs
  <2>4. p.overflowPolicy = queue.overflowPolicy
    BY <2>3 DEF Departs, Departing
  <2> QED
    BY <2>2, <2>4, <1>6 DEF finishRemove, Unsent
<1>7. CASE start(r) \/ finishStop(r) \/ join(r)
  BY <1>2, <1>7 DEF start, finishStop, join, Unsent
<1>8. CASE peekNextMessage(r) \/ peekNothing(r) \/ checkNew(r) \/ process(r) \/ runAgain(r)
  BY <1>2, <1>8 DEF peekNextMessage, peekNothing, checkNew, process, runAgain, Unsent
<1>9. CASE markFind(r) \/ markFindNext(r) \/ markNote(r) \/ markAdvance(r)
  BY <1>2, <1>9 DEF markFind, markFindNext, markNote, markAdvance, Unsent
<1>10. CASE waitNextMessage(r) \/ lowerForNext(r) \/ stop(r)
  BY <1>3, <1>10 DEF waitNextMessage, lowerForNext, stop, Unsent
<1> QED
  BY <1>4, <1>5, <1>6, <1>7, <1>8, <1>9, <1>10 DEF Thread, Finish

\* Nor do those of the senders, and none overwrites a message.
LEMMA SendersKeepPolicy ==
  ASSUME NoDrop, Orderly, NEW s \in Senders,
         sendMessage(s) \/ Overwrite(s) \/ Woken(s) \/ Retry(s)
  PROVE  /\ queue'.overflowPolicy = queue.overflowPolicy
         /\ \A s2 \in Senders : sender'[s2] # "writing"
<1>0. PICK u, f : Reading(u, f)
  BY OrderlyIs
<1>1. /\ queue \in Fields /\ Sound(queue, u, f) /\ queue.overflowPolicy # "DROP_OLDEST"
      /\ sender \in [Senders -> {"idle", "asleep", "writing"}]
      /\ \A s2 \in Senders : sender[s2] # "writing"
  BY <1>0 DEF Reading, Typed, Orderly, NoDrop
<1>2. ASSUME NEW state, Becomes(s, state), state # "writing"
      PROVE  \A s2 \in Senders : sender'[s2] # "writing"
  BY <1>1, <1>2 DEF Becomes
<1>3. ASSUME ~Full(queue), Posted(Post(queue), s)
      PROVE  queue'.overflowPolicy = queue.overflowPolicy /\ Becomes(s, "idle")
  <2>1. f # <<>>
    BY <1>1, <1>3, SoundIs
  <2>2. \E v, g : Sent(queue, u, f, Post(queue), v, g)
    BY <2>1, <1>1, PostIs
  <2>3. PICK p : p = Post(queue)
    OBVIOUS
  <2>4. p.overflowPolicy = queue.overflowPolicy
    BY <2>2, <2>3 DEF Sent
  <2> QED
    BY <2>3, <2>4, <1>3 DEF Posted
<1>4. ASSUME queue' = CountUnsent(queue)
      PROVE  queue'.overflowPolicy = queue.overflowPolicy
  BY <1>1, <1>4 DEF CountUnsent, Fields
<1>5. ASSUME Sending(s)
      PROVE  /\ queue'.overflowPolicy = queue.overflowPolicy
             /\ Becomes(s, "idle") \/ Becomes(s, "asleep")
  BY <1>1, <1>3, <1>4, <1>5 DEF Sending, Ignored
<1>6. /\ queue'.overflowPolicy = queue.overflowPolicy
      /\ Becomes(s, "idle") \/ Becomes(s, "asleep")
  <2>1. CASE sendMessage(s) \/ Retry(s)
    BY <2>1, <1>5 DEF sendMessage, Retry
  <2>2. CASE Woken(s)
    BY <2>2, <1>3 DEF Woken
  <2>3. ~Overwrite(s)
    BY <1>1 DEF Overwrite
  <2> QED
    BY <2>1, <2>2, <2>3
<1> QED
  BY <1>2, <1>6

\* setOverflowPolicy() sets it to one of the later ones.
LEMMA SettingsKeepPolicy ==
  ASSUME Orderly, close \/ \E op \in LaterPolicies : setOverflowPolicy(op)
  PROVE  queue'.overflowPolicy \in LaterPolicies \cup {InitialPolicy} /\ UNCHANGED sender
<1>0. PICK u, f : Reading(u, f)
  BY OrderlyIs
<1>1. queue \in Fields /\ queue.overflowPolicy \in LaterPolicies \cup {InitialPolicy}
  BY <1>0 DEF Reading, Orderly
<1>2. CASE close
  BY <1>1, <1>2 DEF close, Fields
<1>3. ASSUME NEW op \in LaterPolicies, setOverflowPolicy(op)
      PROVE  queue'.overflowPolicy = op /\ UNCHANGED sender
  BY <1>1, <1>3 DEF setOverflowPolicy, Fields
<1> QED
  BY <1>2, <1>3

-----------------------------------------------------------------------------
(* The invariant *)

\* At the beginning there is no message, and nobody has read one.
LEMMA OrderlyBegins ==
  ASSUME Init
  PROVE  Orderly
<1>1. Base
  BY BaseBegins
<1>2. PICK u, f : Sound(queue, u, f) /\ FlagsOK(queue, u) /\ AllPlaced(queue, u, f, receiver)
  BY <1>1, BaseIs
<1>3. PICK b : b = NewBuffer
  OBVIOUS
<1>4. /\ queue.mq = b /\ queue.numMessages = 0 /\ queue.overflowPolicy = InitialPolicy
  BY <1>3 DEF Init, NewQueue
<1>5. b.cursize = 0 /\ queue.mq = b
  BY <1>3, <1>4 DEF NewBuffer
<1>6. u = <<>> /\ Len(u) = 0
  BY <1>2, <1>5, SoundIs DEF Sound, Is
<1>7. InOrder(queue, u)
  BY <1>6 DEF InOrder
<1>8. ASSUME NEW r \in Receivers
      PROVE  /\ Past(queue, receiver[r], processed[r], marked[r])
             /\ Reader(queue, u, f, r, receiver[r], marked[r], owed[r], since[r])
  <2>1. /\ receiver[r].at = "none" /\ receiver[r].nextMessage = 0 /\ receiver[r].curit = end
        /\ receiver[r].lastProcessedMessage = -1
        /\ processed[r] = <<>> /\ marked[r] = {} /\ owed[r] = {}
    BY DEF Init, NoMessage
  <2>2. Past(queue, receiver[r], processed[r], marked[r])
    BY <2>1, <1>4 DEF Past, Limit
  <2>3. Position(queue, u, f, r, receiver[r])
    BY <2>1 DEF Position
  <2>4. Reader(queue, u, f, r, receiver[r], marked[r], owed[r], since[r])
    BY <2>1, <2>3, <1>6 DEF Reader
  <2> QED
    BY <2>2, <2>4
<1>9. ExactNow
  BY <1>2, <1>7, <1>8 DEF ExactNow, Exact, Each
<1>10. \A s \in Senders : sender[s] # "writing"
  BY DEF Init
<1> QED
  BY <1>1, <1>4, <1>9, <1>10 DEF Orderly

\* Nothing happens.
LEMMA StutterIsOrderly ==
  ASSUME Orderly, UNCHANGED vars
  PROVE  Orderly'
<1>1. Base'
  BY StutterKeepsBase DEF Orderly
<1>2. Exact(queue', receiver', processed', marked', owed', since')
  BY DEF Orderly, ExactNow, vars
<1> QED
  BY <1>1, <1>2 DEF Orderly, ExactNow, vars

\* Every step keeps it.
LEMMA OrderlyGoesOn ==
  ASSUME NoDrop, Orderly, [Next]_vars
  PROVE  Orderly'
<1>1. Base'
  BY BaseGoesOn DEF Orderly
<1>2. ASSUME NEW s \in Senders, sendMessage(s) \/ Overwrite(s) \/ Woken(s) \/ Retry(s)
      PROVE  Orderly'
  <2>1. ExactNow'
    BY <1>2, SendersAreExact
  <2>2. /\ queue'.overflowPolicy = queue.overflowPolicy
        /\ \A s2 \in Senders : sender'[s2] # "writing"
    BY <1>2, SendersKeepPolicy
  <2> QED
    BY <2>1, <2>2, <1>1 DEF Orderly
<1>3. ASSUME NEW r \in Receivers, start(r) \/ Thread(r) \/ Finish(r) PROVE Orderly'
  <2>1. queue'.overflowPolicy = queue.overflowPolicy /\ UNCHANGED sender
    BY <1>3, ReceiversKeepPolicy
  <2>2. CASE start(r)
    BY <2>1, <2>2, <1>1, startIsExact DEF Orderly
  <2>3. CASE Thread(r)
    <3>1. CASE launched(r) \/ waitNextMessage(r) \/ lowerForNext(r) \/ runAgain(r)
      BY <2>1, <3>1, <1>1, launchedIsExact, LoweringIsExact, runAgainIsExact DEF Orderly
    <3>2. CASE peekNextMessage(r) \/ peekNothing(r) \/ checkNew(r) \/ process(r)
      BY <2>1, <3>2, <1>1, peekIsExact, peekNothingIsExact, checkNewIsExact, processIsExact
         DEF Orderly
    <3>3. CASE markFind(r) \/ markFindNext(r) \/ markNote(r) \/ mark(r) \/ markAdvance(r)
      BY <2>1, <3>3, <1>1, markFindIsExact, markFindNextNever, markNoteIsExact, markIsExact,
         markAdvanceIsExact DEF Orderly
    <3> QED
      BY <2>3, <3>1, <3>2, <3>3 DEF Thread
  <2>4. CASE Finish(r)
    BY <2>1, <2>4, <1>1, FinishingIsExact, joinIsExact, finishRemoveIsExact DEF Finish, Orderly
  <2> QED
    BY <1>3, <2>2, <2>3, <2>4
<1>4. CASE close \/ \E op \in LaterPolicies : setOverflowPolicy(op)
  BY <1>1, <1>4, SettingsAreExact, SettingsKeepPolicy DEF Orderly
<1>5. CASE UNCHANGED vars
  BY <1>5, StutterIsOrderly
<1> QED
  BY <1>2, <1>3, <1>4, <1>5 DEF Next

\* Without DROP_OLDEST the queue stays in order, and each receiver at its place in it.
THEOREM QueueStaysOrderly == ASSUME NoDrop PROVE Spec => []Orderly
<1>1. Init => Orderly
  BY OrderlyBegins
<1>2. Orderly /\ [Next]_vars => Orderly'
  BY OrderlyGoesOn
<1> QED
  BY <1>1, <1>2, PTL DEF Spec

\* A registered receiver has marked what it is owed, or it is in the queue still; and
\* what it marked it processed.
LEMMA OrderlyIsRight ==
  ASSUME Orderly
  PROVE  MarkedIsProcessed /\ EachOnceInOrder /\ LeavesWhenReadByAll /\ NoMissedWakeup
<1>0. PICK u, f : Reading(u, f)
  BY OrderlyIs
<1>1. /\ Sound(queue, u, f) /\ FlagsOK(queue, u) /\ InOrder(queue, u) /\ TypeOK
      /\ processed \in [Receivers -> Seq(SerialNumbers)] /\ queue.rcvrs \in SUBSET Receivers
  BY <1>0, BaseIsTyped DEF Reading, Orderly, Typed, Fields
<1>2. InUse(queue.mq) = u /\ DOMAIN InUse(queue.mq) = 1 .. Len(u)
      /\ \A i \in 1 .. Len(u) : u[i] \in Entries
  BY <1>1, SoundIs
<1>3. Waiting(queue) = {queue.sn[u[n]] : n \in 1 .. Len(u)}
  BY <1>2 DEF Waiting
<1>4. ASSUME NEW r \in Receivers
      PROVE  /\ DOMAIN processed[r] = 1 .. Len(processed[r])
             /\ Past(queue, receiver[r], processed[r], marked[r])
             /\ r \in queue.rcvrs =>
                  Reader(queue, u, f, r, receiver[r], marked[r], owed[r], since[r])
  <2>1. processed[r] \in Seq(SerialNumbers)
    BY <1>1
  <2> QED
    BY <2>1, <1>0, ReaderIs
<1>5. MarkedIsProcessed
  <2> SUFFICES ASSUME NEW r \in Receivers, NEW sn \in marked[r] PROVE sn \in Processed(r)
    BY DEF MarkedIsProcessed
  <2>1. PICK n \in 1 .. Len(processed[r]) : sn = processed[r][n]
    BY <1>4 DEF Past
  <2> QED
    BY <2>1, <1>4 DEF Processed
<1>6. EachOnceInOrder
  <2> SUFFICES ASSUME NEW r \in Receivers, NEW m \in DOMAIN processed[r],
                      NEW n \in DOMAIN processed[r], m < n
               PROVE  processed[r][m] < processed[r][n]
    BY DEF EachOnceInOrder
  <2> QED
    BY <1>4 DEF Past
<1>7. NothingLost
  <2> SUFFICES ASSUME NEW r \in queue.rcvrs, NEW sn \in owed[r]
               PROVE  sn \in Processed(r) \/ sn \in Waiting(queue)
    BY DEF NothingLost
  <2>1. r \in Receivers /\ Reader(queue, u, f, r, receiver[r], marked[r], owed[r], since[r])
    BY <1>1, <1>4
  <2>2. CASE sn \in marked[r]
    BY <2>1, <2>2, <1>5 DEF MarkedIsProcessed
  <2>3. CASE \E i \in 1 .. Len(u) : sn = queue.sn[u[i]]
    BY <2>3, <1>3
  <2> QED
    BY <2>1, <2>2, <2>3 DEF Reader
<1>8. NoneLingers
  <2> SUFFICES ASSUME NEW n \in 1 .. Len(u)
               PROVE  /\ queue.numRead[u[n]] = Cardinality(queue.readFlags[u[n]])
                      /\ queue.readFlags[u[n]] \subseteq queue.rcvrs
                      /\ queue.rcvrs # {} => queue.readFlags[u[n]] # queue.rcvrs
    BY <1>2 DEF NoneLingers
  <2>1. queue.numRead[u[n]] = Cardinality(queue.readFlags[u[n]])
    BY <1>1, <1>2 DEF Sound
  <2> QED
    BY <2>1, <1>1 DEF FlagsOK, InOrder
<1>9. NoMissedWakeup
  <2> SUFFICES ASSUME NEW r \in queue.rcvrs, receiver[r].at = "wait", queue.sem[r] = 0,
                      NEW sn \in Waiting(queue), sn >= since[r]
               PROVE  sn \in marked[r]
    BY DEF NoMissedWakeup, At
  <2>1. r \in Receivers /\ Reader(queue, u, f, r, receiver[r], marked[r], owed[r], since[r])
    BY <1>1, <1>4
  <2>2. PICK i \in 1 .. Len(u) : sn = queue.sn[u[i]]
    BY <1>3
  <2>3. r \in queue.readFlags[u[i]]
    BY <2>1, <2>2 DEF Reader
  <2> QED
    BY <2>1, <2>2, <2>3 DEF Reader
<1> QED
  BY <1>1, <1>5, <1>6, <1>7, <1>8, <1>9 DEF LeavesWhenReadByAll

\* What a receiver marks read, its callback was given, although neither the callback nor
\* markRead() has the queue's lock: nothing takes the message away before.
THEOREM MarkedMessagesWereProcessed == ASSUME NoDrop PROVE Spec => []MarkedIsProcessed
<1>1. Orderly => MarkedIsProcessed
  BY OrderlyIsRight
<1> QED
  BY <1>1, QueueStaysOrderly, PTL

\* Each receiver's callback gets the messages in the order they were sent, none twice.
THEOREM MessagesComeInOrder == ASSUME NoDrop PROVE Spec => []EachOnceInOrder
<1>1. Orderly => EachOnceInOrder
  BY OrderlyIsRight
<1> QED
  BY <1>1, QueueStaysOrderly, PTL

\* A message stays in the queue until all who are to read it have, and no longer,
\* whoever registers, marks and leaves.
THEOREM MessagesLeaveWhenRead == ASSUME NoDrop PROVE Spec => []LeavesWhenReadByAll
<1>1. Orderly => LeavesWhenReadByAll
  BY OrderlyIsRight
<1> QED
  BY <1>1, QueueStaysOrderly, PTL

\* A receiver that waits with its semaphore at 0 has read all that was sent since it
\* registered.
THEOREM NoWakeupIsMissed == ASSUME NoDrop PROVE Spec => []NoMissedWakeup
<1>1. Orderly => NoMissedWakeup
  BY OrderlyIsRight
<1> QED
  BY <1>1, QueueStaysOrderly, PTL
=============================================================================
