-------------------------- MODULE StateMachine_proofs --------------------------
(***************************************************************************)
(* Proofs about StateMachine, for any machine that is WellMade: what is    *)
(* active, what is enabled and what others were told agree between events, *)
(* however the transitions react to each other's events.  The argument is  *)
(* about the stack: what may be above what (Over, OnTop), and what a call  *)
(* that is under way knows of the nodes (Knows).                           *)
(* In the lemmas w is the wiring, a the active nodes, en the transitions   *)
(* that are enabled, p what is pending, s the stack, and F its frames.     *)
(***************************************************************************)
EXTENDS StateMachine, FiniteSetTheorems, SequenceTheorems, TLAPS

-----------------------------------------------------------------------------
(* Types *)

Events == Inputs \cup {StopOn} \cup
  ({"start", "stop", "firing", "fired", "done", "router"} \X (All \cup Transitions \cup {"subscriptions"}))

Frames ==
  [op : {"post"}, of : Events, at : {"deliver"}, i : Nat]
  \cup [op : {"process"}, of : Transitions, at : Events, i : Nat]
  \cup [op : {"fire"}, of : Transitions, at : {"announce", "sources", "destinations"}, i : Nat]
  \cup [op : {"start"}, of : All, at : {"begin", "enable", "look"}, i : Nat]
  \cup [op : {"stop"}, of : All, at : {"transitions", "disable", "subnodes", "end"}, i : Nat]

Owed == [to : Transitions \cup {"root"}, of : Events]

Typed ==
  /\ trigger \in Wirings
  /\ active \in SUBSET All /\ enabled \in SUBSET Transitions
  /\ listening \in Seq(Transitions)
  /\ completions \in [Transitions -> SUBSET Range(Nodes)]
  /\ pending \in Seq(Owed)
  /\ stack \in Seq(Frames)
  /\ seen \in SUBSET All

-----------------------------------------------------------------------------
(* The stack *)

Waits(f) == f.op = "start" /\ f.at = "begin"
Started(f) == f.op = "start" /\ f.at # "begin"
Acts(f) == f.op \in {"process", "fire"}
Posts(f, e) == f.op = "post" /\ f.of = e
Stops(f, n) == f.op = "stop" /\ f.of = n
Moving(f, op, at) == f.op = op /\ f.at = at

\* While the root stops its subnodes and is at the i-th, all that goes on is about nodes
\* that it has not passed.
From(i) == {Nodes[j] : j \in {j \in 1 .. Len(Nodes) : j >= i}}
LateEvent(i, e) == e = Quiet \/ About(e) \cap From(i - 1) # {}
Late(i, f) ==
  /\ f.op = "start" => f.of \in From(i)
  /\ f.op = "stop" => f.of \in From(i - 1)
  /\ f.op = "post" => LateEvent(i, f.of)
  /\ Acts(f) => Range(Sources[f.of]) \subseteq From(i) /\ Range(Destinations[f.of]) \subseteq From(i)

\* What g may be, somewhere above f: within a start or a stop only reactions fire, they do
\* not leave the node that is started or stopped, and they start others.
Over(w, f, g) ==
  /\ f.op \in {"start", "stop"} =>
       /\ Acts(g) => IsReaction(w[g.of])
       /\ g.op = "start" => g.of # f.of
  /\ Waits(f) /\ Acts(g) => f.of \notin Range(Destinations[g.of])
  /\ Started(f) \/ f.op = "stop" =>
       /\ Acts(g) => f.of \notin Range(Sources[g.of])
       /\ g.op = "start" => Alone(g.of)
       /\ g.op = "stop" => g.of # f.of
  /\ Stops(f, "root") /\ f.at = "subnodes" => Late(f.i, g)
  /\ Stops(f, "root") /\ f.at = "end" => g.op = "post"
  /\ Stops(g, "root") => f.op = "post"

\* What g may be, directly above f: who called it.
OnTop(f, g) ==
  /\ f.op # "process" /\ ~Posts(f, Quiet)
  /\ f.op = "start" =>
       \/ f.at = "begin" /\ g.op = "start"
       \/ f.at = "enable" /\ f.i = 1 /\ g.op = "post"
       \/ f.at = "look" /\ Posts(g, Quiet)
  /\ f.op = "stop" =>
       \/ f.at = "end"
       \/ f.at = "subnodes" /\ f.of = "root"
       \/ f.at = "disable" /\ Posts(g, Quiet)
  /\ f.op = "fire" =>
       \/ f.at = "sources" /\ f.i = 1 /\ g.op = "post"
       \/ f.at = "sources" /\ g.op = "stop"
       \/ f.at = "destinations" /\ g.op = "start"
  /\ g.op = "process" => f.op = "post"
  /\ g.op = "start" =>
       \/ Waits(f)
       \/ /\ Moving(f, "fire", "destinations") /\ f.i - 1 \in 1 .. Len(Destinations[f.of])
          /\ g.of = Destinations[f.of][f.i - 1]
  /\ g.op = "stop" =>
       \/ g.of = "root"
       \/ /\ Moving(f, "fire", "sources") /\ f.i - 1 \in 1 .. Len(Sources[f.of])
          /\ g.of = Sources[f.of][f.i - 1]
       \/ /\ Stops(f, "root") /\ f.at = "subnodes" /\ f.i - 1 \in 1 .. Len(Nodes)
          /\ g.of = Nodes[f.i - 1]

StackInv(w, s) ==
  /\ \A k, l \in 1 .. Len(s) : k < l => Over(w, s[k], s[l])
  /\ \A k \in 1 .. Len(s) - 1 : OnTop(s[k], s[k + 1])
  /\ s # <<>> => s[1].op \in {"post", "start"}

-----------------------------------------------------------------------------
(* What the calls under way know *)

Stopping(F, n) == \E f \in F : Stops(f, n)

Knows(a, en, F, f) ==
  /\ Waits(f) => f.of \notin a
  /\ Started(f) => f.of \in a
  /\ Moving(f, "start", "enable") =>
       f.i # 0 /\ (f.i = 1 /\ Alone(f.of) => \A t \in Range(TransitionsOf(f.of)) : t \notin en)
  /\ Moving(f, "start", "look") =>
       f.i \in 1 .. Len(TransitionsOf(f.of)) /\ TransitionsOf(f.of)[f.i] \in en
  /\ f.op = "stop" => f.of \in a /\ f.i # 0
  /\ f.op = "stop" /\ f.at \in {"transitions", "disable"} =>
       \A j \in 1 .. Len(TransitionsOf(f.of)) : j < f.i => TransitionsOf(f.of)[j] \notin en
  /\ Moving(f, "stop", "disable") =>
       f.i \in 1 .. Len(TransitionsOf(f.of)) /\ TransitionsOf(f.of)[f.i] \in en
  /\ f.op = "stop" /\ f.at \in {"subnodes", "end"} => \A t \in Range(TransitionsOf(f.of)) : t \notin en
  /\ f.op = "fire" => f.i # 0
  /\ Moving(f, "fire", "sources") =>
       \A j \in 1 .. Len(Sources[f.of]) : j < f.i /\ Sources[f.of][j] \in a => Stopping(F, Sources[f.of][j])
  /\ Stops(f, "root") /\ f.at = "subnodes" =>
       \A j \in 1 .. Len(Nodes) : j < f.i /\ Nodes[j] \in a => Stopping(F, Nodes[j])
  /\ Stops(f, "root") /\ f.at = "end" => a \subseteq {"root"}

KnowInv(a, en, F) == \A f \in F : Knows(a, en, F, f)

\* The first nodes wait below the root.
AllWait(s, k) == \A j \in 1 .. k : Waits(s[j])
WaitInv(a, p, s) ==
  /\ \A k \in 1 .. Len(s) - 1 : Waits(s[k]) => AllWait(s, k)
  /\ \A k \in 1 .. Len(s) : AllWait(s, k) =>
       /\ k <= Len(First) + 1
       /\ s[k].of = IF k = Len(First) + 1 THEN "root" ELSE First[Len(First) + 1 - k]
       /\ k > Len(First) => a = {}
       /\ k = Len(First) => a \subseteq {"root"}
       /\ k >= Len(First) - 1 /\ k < Len(s) =>
            p = <<>> /\ \A f \in Range(s) : f.op \in {"start", "post"}

\* Nothing goes on while the root is not active.
RootInv(a, p, s) ==
  "root" \notin a =>
    /\ a = {}
    /\ \A f \in Range(s) : f.op = "post" \/ Waits(f)
    /\ \A q \in Range(p) : q.to = "root"
    /\ s # <<>> /\ s[Len(s)].op = "start" => s[Len(s)].of = "root"

-----------------------------------------------------------------------------
(* What is pending *)

HearsIn(w, t, e) ==
  IF w[t] = "completion" THEN e[1] = "done" /\ e[2] \in Range(Sources[t]) ELSE w[t] = e

\* Only who posts an event, or has been given one, finds something pending.
TakesPending(f) == f.op \in {"post", "process"} \/ Moving(f, "fire", "announce")

OwedInv(w, p, s, q) ==
  /\ q.to = "root" => Len(s) = 1 /\ Len(p) = 1
  /\ q.to # "root" => HearsIn(w, q.to, q.of)
  /\ \A f \in Range(s) :
       /\ f.op \in {"start", "stop"} => OfMachine(q.of)
       /\ Stops(f, "root") => f.at = "subnodes" /\ LateEvent(f.i, q.of)

PendingInv(w, p, s) ==
  /\ p # <<>> => s # <<>> /\ TakesPending(s[Len(s)]) /\ ~Posts(s[Len(s)], Quiet)
  /\ \A q \in Range(p) : OwedInv(w, p, s, q)
  /\ \A f \in Range(s) : f.op = "process" => HearsIn(w, f.of, f.at)

-----------------------------------------------------------------------------
(* What is enabled, and who was told *)

Disables(f, t) == Moving(f, "stop", "disable") /\ TransitionsOf(f.of)[f.i] = t
Disabling(F, t) == \E f \in F : Disables(f, t)

\* f has yet to enable t for n, or it is about to stop n.
HasFrom(n, t, i) == \E j \in 1 .. Len(TransitionsOf(n)) : j >= i /\ TransitionsOf(n)[j] = t
Enables(f, n, t) ==
  /\ f.op = "start" /\ f.of = n
  /\ \/ f.at = "enable" /\ HasFrom(n, t, f.i)
     \/ f.at = "look" /\ HasFrom(n, t, f.i + 1)
Leaves(f, n) ==
  \/ Stops(f, n)
  \/ Moving(f, "fire", "sources") /\ \E j \in 1 .. Len(Sources[f.of]) : j >= f.i /\ Sources[f.of][j] = n
  \/ Stops(f, "root") /\ (f.at = "transitions" \/ (f.at = "subnodes" /\ n \in From(f.i)))
Excused(F, n, t) == \E f \in F : Enables(f, n, t) \/ Leaves(f, n)

EnabledInv(a, en, li, F) ==
  /\ \A t \in Transitions : t \in Range(li) <=> t \in en /\ ~Disabling(F, t)
  /\ \A t \in en : \E n \in Range(Sources[t]) : n \in a
  /\ \A t \in Transitions : \A n \in a : n \in Range(Sources[t]) => t \in en \/ Excused(F, n, t)

SeenInv(a, se, F) ==
  \A n \in All : n \in se <=> n \in a /\ ~\E f \in F : Stops(f, n) /\ f.at = "end"

-----------------------------------------------------------------------------
IndInv ==
  /\ Typed
  /\ StackInv(trigger, stack)
  /\ KnowInv(active, enabled, Range(stack))
  /\ WaitInv(active, pending, stack)
  /\ RootInv(active, pending, stack)
  /\ PendingInv(trigger, pending, stack)
  /\ EnabledInv(active, enabled, listening, Range(stack))
  /\ SeenInv(active, seen, Range(stack))

-----------------------------------------------------------------------------
(* Sequences *)

\* The places that Those keeps, and their numbers
KeptPlaces(s, T) == {n \in DOMAIN s : s[n] \in T}
Rank(kept, i) == Cardinality({j \in kept : j <= i})


\* each has a number of its own, and there is one of each number.
LEMMA RanksAre ==
  ASSUME NEW n \in Nat, NEW kept \in SUBSET (1 .. n)
  PROVE  /\ Cardinality(kept) \in Nat
         /\ \A i \in kept : Rank(kept, i) \in 1 .. Cardinality(kept)
         /\ \A i, j \in kept : i < j => Rank(kept, i) < Rank(kept, j)
         /\ \A k \in 1 .. Cardinality(kept) : \E i \in kept : Rank(kept, i) = k
<1> DEFINE upTo(i) == {j \in kept : j <= i}
           c == Cardinality(kept)
<1>1. IsFiniteSet(kept) /\ c \in Nat
  <2>1. IsFiniteSet(1 .. n)
    BY FS_Interval
  <2>2. IsFiniteSet(kept)
    BY <2>1, FS_Subset
  <2> QED
    BY <2>2, FS_CardinalityType
<1>2. \A i : IsFiniteSet(upTo(i)) /\ Cardinality(upTo(i)) \in Nat /\ Cardinality(upTo(i)) <= c
  <2> TAKE i
  <2>1. upTo(i) \in SUBSET kept
    OBVIOUS
  <2> HIDE DEF upTo
  <2>2. IsFiniteSet(upTo(i)) /\ Cardinality(upTo(i)) <= Cardinality(kept)
    BY <1>1, <2>1, FS_Subset
  <2> QED
    BY <2>2, FS_CardinalityType
<1>3. \A i : Rank(kept, i) = Cardinality(upTo(i))
  BY DEF Rank
<1>4. ASSUME NEW i \in kept PROVE Rank(kept, i) \in 1 .. c
  <2>1. i \in upTo(i)
    OBVIOUS
  <2> HIDE DEF upTo
  <2>2. Cardinality(upTo(i)) # 0
    BY <1>2, <2>1, FS_EmptySet
  <2> HIDE DEF c
  <2> QED
    BY <1>1, <1>2, <1>3, <2>2
<1>5. ASSUME NEW i \in kept, NEW j \in kept, i < j PROVE Rank(kept, i) < Rank(kept, j)
  <2>1. upTo(i) \in SUBSET upTo(j) /\ j \in upTo(j) /\ j \notin upTo(i)
    <3>1. i \in Int /\ j \in Int /\ \A y \in kept : y \in Int
      OBVIOUS
    <3>2. \A y \in kept : y <= i => y <= j
      BY <3>1, <1>5
    <3>3. j <= j /\ ~(j <= i)
      BY <3>1, <1>5
    <3> QED
      BY <3>2, <3>3
  <2> HIDE DEF upTo
  <2>2. Cardinality(upTo(i)) <= Cardinality(upTo(j))
    BY <1>2, <2>1, FS_Subset
  <2>3. Cardinality(upTo(i)) # Cardinality(upTo(j))
    BY <1>2, <2>1, FS_Subset
  <2> QED
    BY <1>2, <1>3, <2>2, <2>3
<1> DEFINE f == [i \in kept |-> Rank(kept, i)]
<1>6. f \in Injection(kept, 1 .. c)
  <2>1. f \in [kept -> 1 .. c]
    BY <1>4
  <2>2. ASSUME NEW i \in kept, NEW j \in kept, f[i] = f[j] PROVE i = j
    <3>1. ~(i < j) /\ ~(j < i)
      <4>1. Rank(kept, i) = Rank(kept, j) /\ Rank(kept, i) \in Int
        BY <2>2, <1>4
      <4> QED
        BY <4>1, <1>5
    <3> QED
      BY <3>1
  <2> HIDE DEF f
  <2> QED
    BY <2>1, <2>2 DEF Injection, IsInjective
<1>7. IsFiniteSet(1 .. c) /\ Cardinality(1 .. c) = c
  <2> HIDE DEF c
  <2>1. IsFiniteSet(1 .. c) /\ Cardinality(1 .. c) = IF 1 > c THEN 0 ELSE c - 1 + 1
    BY <1>1, FS_Interval
  <2> QED
    BY <2>1, <1>1
<1>8. f \in Surjection(kept, 1 .. c)
  <2> HIDE DEF f
  <2>1. Cardinality(kept) = Cardinality(1 .. c)
    BY <1>7
  <2> HIDE DEF c
  <2> QED
    BY <1>6, <1>7, <2>1, FS_Injection
<1>9. ASSUME NEW k \in 1 .. c PROVE \E i \in kept : Rank(kept, i) = k
  <2>1. \E i \in kept : f[i] = k
    BY <1>8 DEF Surjection
  <2> QED
    BY <2>1
<1> QED
  BY <1>1, <1>4, <1>5, <1>9

\* What is left are the elements of the kept places, in their order.
LEMMA ThoseAre ==
  ASSUME NEW S, NEW s \in Seq(S), NEW T
  PROVE  LET kept == KeptPlaces(s, T)
         IN  /\ Those(s, T) \in Seq(S)
             /\ kept \in SUBSET (1 .. Len(s))
             /\ Cardinality(kept) \in Nat /\ Len(Those(s, T)) = Cardinality(kept)
             /\ \A i \in kept : /\ Rank(kept, i) \in 1 .. Cardinality(kept)
                               /\ Those(s, T)[Rank(kept, i)] = s[i]
             /\ \A k \in 1 .. Cardinality(kept) : \E i \in kept : Rank(kept, i) = k
<1> DEFINE kept == KeptPlaces(s, T)
           c == Cardinality(kept)
           at(k) == CHOOSE i \in kept : Rank(kept, i) = k
           t == [k \in 1 .. c |-> s[at(k)]]
<1>0. Len(s) \in Nat /\ DOMAIN s = 1 .. Len(s) /\ \A i \in 1 .. Len(s) : s[i] \in S
  BY LenProperties, ElementOfSeq
<1>1. kept \in SUBSET (1 .. Len(s))
  BY <1>0 DEF KeptPlaces
<1>2. Those(s, T) = t
  BY DEF Those, KeptPlaces, Rank
<1> HIDE DEF kept
<1>3. /\ c \in Nat
      /\ \A i \in kept : Rank(kept, i) \in 1 .. c
      /\ \A i, j \in kept : i < j => Rank(kept, i) < Rank(kept, j)
      /\ \A k \in 1 .. c : \E i \in kept : Rank(kept, i) = k
  BY <1>0, <1>1, RanksAre
<1> HIDE DEF c
<1>4. \A k \in 1 .. c : at(k) \in kept /\ at(k) \in 1 .. Len(s) /\ Rank(kept, at(k)) = k
  BY <1>1, <1>3
<1>5. ASSUME NEW i \in kept PROVE at(Rank(kept, i)) = i
  <2> DEFINE k == Rank(kept, i)
             j == at(k)
  <2>1. k \in 1 .. c /\ j \in kept /\ Rank(kept, j) = k
    BY <1>3, <1>4
  <2> HIDE DEF at, j
  <2>2. i \in Int /\ j \in Int /\ k \in Int
    BY <1>1, <2>1
  <2>3. ~(i < j) /\ ~(j < i)
    BY <1>3, <2>1, <2>2
  <2>4. j = i
    BY <2>2, <2>3
  <2> QED
    BY <2>4 DEF j
<1> HIDE DEF at
<1>6. t \in Seq(S) /\ Len(t) = c
  <2>1. t \in [1 .. c -> S]
    BY <1>0, <1>4
  <2> QED
    BY <2>1, <1>3
<1>7. \A i \in kept : t[Rank(kept, i)] = s[i]
  BY <1>3, <1>5
<1> HIDE DEF t
<1> QED
  BY <1>1, <1>2, <1>3, <1>6, <1>7 DEF c, kept

\* Who is left in it
LEMMA ThoseHold ==
  ASSUME NEW S, NEW s \in Seq(S), NEW T, NEW x
  PROVE  x \in Range(Those(s, T)) <=> x \in Range(s) /\ x \in T
<1> DEFINE kept == KeptPlaces(s, T)
           c == Cardinality(kept)
           t == Those(s, T)
<1>1. /\ t \in Seq(S) /\ Len(t) = c /\ c \in Nat /\ kept \in SUBSET (1 .. Len(s))
      /\ \A i \in kept : Rank(kept, i) \in 1 .. c /\ t[Rank(kept, i)] = s[i]
      /\ \A k \in 1 .. c : \E i \in kept : Rank(kept, i) = k
  BY ThoseAre
<1>2. \A i \in DOMAIN s : i \in kept <=> s[i] \in T
  BY DEF KeptPlaces
<1>3. DOMAIN t = 1 .. c /\ DOMAIN s = 1 .. Len(s)
  BY <1>1, LenProperties
<1> HIDE DEF kept, t, c
<1>4. ASSUME NEW k \in DOMAIN t, t[k] = x PROVE x \in Range(s) /\ x \in T
  <2>1. PICK i \in kept : Rank(kept, i) = k
    BY <1>1, <1>3
  <2>2. i \in DOMAIN s /\ s[i] = x /\ s[i] \in T
    BY <2>1, <1>1, <1>2, <1>3, <1>4
  <2> QED
    BY <2>2 DEF Range
<1>5. ASSUME NEW i \in DOMAIN s, s[i] = x, x \in T PROVE x \in Range(t)
  <2>1. i \in kept
    BY <1>5, <1>2
  <2>2. Rank(kept, i) \in DOMAIN t /\ t[Rank(kept, i)] = x
    BY <2>1, <1>1, <1>3, <1>5
  <2> QED
    BY <2>2 DEF Range
<1>6. x \in Range(t) => x \in Range(s) /\ x \in T
  BY <1>4 DEF Range
<1>7. x \in Range(s) /\ x \in T => x \in Range(t)
  BY <1>5 DEF Range
<1> QED
  BY <1>6, <1>7 DEF t


LEMMA FrontIs ==
  ASSUME NEW S, NEW s \in Seq(S), s # <<>>
  PROVE  /\ Front(s) \in Seq(S) /\ Len(s) \in Nat \ {0} /\ Len(Front(s)) = Len(s) - 1
         /\ \A k \in 1 .. Len(s) - 1 : Front(s)[k] = s[k]
         /\ \A k \in 1 .. Len(s) : s[k] \in S
<1>1. Len(s) \in Nat \ {0} /\ \A k \in 1 .. Len(s) : s[k] \in S
  BY EmptySeq, LenProperties, ElementOfSeq
<1>2. \A k \in 1 .. Len(s) - 1 : s[k] \in S
  BY <1>1
<1> DEFINE f == Front(s)
<1>3. /\ f \in Seq(S)
      /\ Len(f) = Len(s) - 1
      /\ \A k \in 1 .. Len(s) - 1 : f[k] = s[k]
  <2> DEFINE m == Len(s) - 1
  <2>1. m \in Int /\ 1 \in Int /\ \A i \in 1 .. m : s[i] \in S
    BY <1>1, <1>2
  <2> HIDE DEF m
  <2>2. /\ SubSeq(s, 1, m) \in Seq(S)
        /\ Len(SubSeq(s, 1, m)) = IF 1 <= m THEN m - 1 + 1 ELSE 0
        /\ \A i \in 1 .. m - 1 + 1 : SubSeq(s, 1, m)[i] = s[1 + i - 1]
    BY <2>1, SubSeqProperties
  <2>3. f = SubSeq(s, 1, m)
    BY DEF Front, m
  <2> HIDE DEF f
  <2>4. f \in Seq(S)
    BY <2>2, <2>3
  <2>5. Len(f) = Len(s) - 1
    <3>1. m \in Nat
      BY <1>1 DEF m
    <3>2. (IF 1 <= m THEN m - 1 + 1 ELSE 0) = m
      BY <3>1
    <3> QED
      BY <3>2, <2>2, <2>3 DEF m
  <2>6. ASSUME NEW k \in 1 .. Len(s) - 1 PROVE f[k] = s[k]
    <3>1. k \in 1 .. m - 1 + 1 /\ 1 + k - 1 = k
      BY <1>1 DEF m
    <3> QED
      BY <3>1, <2>2, <2>3
  <2> QED
    BY <2>4, <2>5, <2>6
<1> QED
  BY <1>1, <1>3

LEMMA AppendIs ==
  ASSUME NEW S, NEW s \in Seq(S), NEW g \in S
  PROVE  /\ Append(s, g) \in Seq(S) /\ Len(Append(s, g)) = Len(s) + 1 /\ Len(s) \in Nat
         /\ Append(s, g) # <<>>
         /\ \A k \in 1 .. Len(s) : Append(s, g)[k] = s[k]
         /\ Append(s, g)[Len(s) + 1] = g
  OBVIOUS

LEMMA RangeIs ==
  ASSUME NEW S, NEW s \in Seq(S), NEW x
  PROVE  x \in Range(s) <=> \E k \in 1 .. Len(s) : s[k] = x
<1>1. DOMAIN s = 1 .. Len(s)
  OBVIOUS
<1> QED
  BY <1>1 DEF Range

-----------------------------------------------------------------------------
(* The machine *)

\* What the constants are
LEMMA ShapeIs ==
  /\ Len(Nodes) \in Nat /\ \A k \in 1 .. Len(Nodes) : Nodes[k] \in Range(Nodes)
  /\ \A n \in Range(Nodes) : \E k \in 1 .. Len(Nodes) : Nodes[k] = n
  /\ Len(First) \in Nat /\ \A k \in 1 .. Len(First) : First[k] \in Range(Nodes)
  /\ \A t \in Transitions :
       /\ Sources[t] \in Seq(Range(Nodes)) /\ Destinations[t] \in Seq(Range(Nodes))
       /\ Range(Sources[t]) \subseteq Range(Nodes) /\ Range(Destinations[t]) \subseteq Range(Nodes)
       /\ Len(Sources[t]) \in Nat /\ Len(Destinations[t]) \in Nat
       /\ \A n : n \in Range(Sources[t]) <=> \E k \in 1 .. Len(Sources[t]) : Sources[t][k] = n
       /\ \A n : n \in Range(Destinations[t]) <=> \E k \in 1 .. Len(Destinations[t]) : Destinations[t][k] = n
  /\ \A n \in All :
       /\ TransitionsOf(n) \in Seq(Transitions) /\ Len(TransitionsOf(n)) \in Nat
       /\ \A t : t \in Range(TransitionsOf(n)) <=> \E k \in 1 .. Len(TransitionsOf(n)) : TransitionsOf(n)[k] = t
       /\ \A t \in Range(TransitionsOf(n)) : t \in Transitions /\ n \in Range(Sources[t])
  /\ "root" \notin Range(Nodes) /\ "root" \notin Transitions
<1>1. Len(Nodes) \in Nat /\ \A n : n \in Range(Nodes) <=> \E k \in 1 .. Len(Nodes) : Nodes[k] = n
  BY ShapeAssumption, RangeIs, LenProperties
<1>2. Len(First) \in Nat /\ \A k \in 1 .. Len(First) : First[k] \in Range(Nodes)
  BY ShapeAssumption, LenProperties, ElementOfSeq
<1>3. ASSUME NEW t \in Transitions
      PROVE  /\ Sources[t] \in Seq(Range(Nodes)) /\ Destinations[t] \in Seq(Range(Nodes))
             /\ Range(Sources[t]) \subseteq Range(Nodes) /\ Range(Destinations[t]) \subseteq Range(Nodes)
             /\ Len(Sources[t]) \in Nat /\ Len(Destinations[t]) \in Nat
             /\ \A n : n \in Range(Sources[t]) <=> \E k \in 1 .. Len(Sources[t]) : Sources[t][k] = n
             /\ \A n : n \in Range(Destinations[t]) <=> \E k \in 1 .. Len(Destinations[t]) : Destinations[t][k] = n
  <2>1. Sources[t] \in Seq(Range(Nodes)) /\ Destinations[t] \in Seq(Range(Nodes))
    BY ShapeAssumption
  <2>2. /\ Len(Sources[t]) \in Nat /\ Len(Destinations[t]) \in Nat
        /\ \A k \in 1 .. Len(Sources[t]) : Sources[t][k] \in Range(Nodes)
        /\ \A k \in 1 .. Len(Destinations[t]) : Destinations[t][k] \in Range(Nodes)
    BY <2>1, LenProperties, ElementOfSeq
  <2>3. \A n : n \in Range(Sources[t]) <=> \E k \in 1 .. Len(Sources[t]) : Sources[t][k] = n
    BY <2>1, RangeIs
  <2>4. \A n : n \in Range(Destinations[t]) <=> \E k \in 1 .. Len(Destinations[t]) : Destinations[t][k] = n
    BY <2>1, RangeIs
  <2> QED
    BY <2>1, <2>2, <2>3, <2>4
<1>4. "root" \notin Range(Nodes) /\ "root" \notin Transitions
  BY ShapeAssumption
<1>5. ASSUME NEW n \in All
      PROVE  /\ TransitionsOf(n) \in Seq(Transitions) /\ Len(TransitionsOf(n)) \in Nat
             /\ \A t : t \in Range(TransitionsOf(n)) <=> \E k \in 1 .. Len(TransitionsOf(n)) : TransitionsOf(n)[k] = t
             /\ \A t \in Range(TransitionsOf(n)) : t \in Transitions /\ n \in Range(Sources[t])
  <2>1. TransitionsOf(n) \in Seq(Transitions)
    <3>1. CASE n = "root"
      BY <3>1, EmptySeq DEF TransitionsOf
    <3>2. CASE n # "root"
      BY <3>2, ShapeAssumption DEF TransitionsOf, All
    <3> QED
      BY <3>1, <3>2
  <2>2. Len(TransitionsOf(n)) \in Nat /\ \A k \in 1 .. Len(TransitionsOf(n)) : TransitionsOf(n)[k] \in Transitions
    BY <2>1, LenProperties, ElementOfSeq
  <2>3. \A t : t \in Range(TransitionsOf(n)) <=> \E k \in 1 .. Len(TransitionsOf(n)) : TransitionsOf(n)[k] = t
    BY <2>1, RangeIs
  <2>4. ASSUME NEW t \in Range(TransitionsOf(n)) PROVE n \in Range(Sources[t])
    <3>1. n # "root"
      <4> SUFFICES ASSUME n = "root" PROVE FALSE
        OBVIOUS
      <4>1. TransitionsOf(n) = <<>>
        BY DEF TransitionsOf
      <4> QED
        BY <4>1, <2>3
    <3> QED
      BY <3>1, ShapeAssumption DEF TransitionsOf, All
  <2> QED
    BY <2>1, <2>2, <2>3, <2>4
<1> QED
  BY <1>1, <1>2, <1>3, <1>4, <1>5

\* What a frame is, by the call it stands for
LEMMA FramesAre ==
  \A f \in Frames :
    /\ f.op \in {"post", "process", "fire", "start", "stop"} /\ f.i \in Nat
    /\ f.op = "post" => f.of \in Events /\ f.at = "deliver"
    /\ f.op = "process" => f.of \in Transitions /\ f.at \in Events
    /\ f.op = "fire" => f.of \in Transitions /\ f.at \in {"announce", "sources", "destinations"}
    /\ f.op = "start" => f.of \in All /\ f.at \in {"begin", "enable", "look"}
    /\ f.op = "stop" => f.of \in All /\ f.at \in {"transitions", "disable", "subnodes", "end"}
  BY DEF Frames

LEMMA FrameIs ==
  ASSUME NEW op, NEW of, NEW at
  PROVE  /\ Frame(op, of, at).op = op /\ Frame(op, of, at).of = of
         /\ Frame(op, of, at).at = at /\ Frame(op, of, at).i = 1
  BY DEF Frame

LEMMA NewFrames ==
  /\ \A e \in Events : Frame("post", e, "deliver") \in Frames
  /\ \A t \in Transitions : \A e \in Events : Frame("process", t, e) \in Frames
  /\ \A t \in Transitions : Frame("fire", t, "announce") \in Frames
  /\ \A n \in All : Frame("start", n, "begin") \in Frames /\ Frame("stop", n, "transitions") \in Frames
  BY DEF Frame, Frames

\* A frame that goes on
To(f, at, i) == [f EXCEPT !.at = at, !.i = i]
LEMMA ToIs ==
  ASSUME NEW f \in Frames, NEW at, NEW i \in Nat,
         \/ f.op = "fire" /\ at \in {"announce", "sources", "destinations"}
         \/ f.op = "start" /\ at \in {"begin", "enable", "look"}
         \/ f.op = "stop" /\ at \in {"transitions", "disable", "subnodes", "end"}
  PROVE  To(f, at, i) \in Frames /\ To(f, at, i).op = f.op /\ To(f, at, i).of = f.of
         /\ To(f, at, i).at = at /\ To(f, at, i).i = i
  BY DEF To, Frames

LEMMA EventsAre ==
  /\ \A n \in All : Event("start", n) \in Events /\ Event("stop", n) \in Events /\ Event("done", n) \in Events
  /\ \A t \in Transitions : Event("firing", t) \in Events /\ Event("fired", t) \in Events
  /\ Quiet \in Events /\ StopOn \in Events /\ Inputs \subseteq Events
  BY DEF Event, Quiet, Events

\* What the machine posts nobody takes for StopOn.
LEMMA MachineEvents ==
  ASSUME NEW x
  PROVE  /\ OfMachine(Event("start", x)) /\ OfMachine(Event("stop", x))
         /\ OfMachine(Event("firing", x)) /\ OfMachine(Event("fired", x)) /\ ~OfMachine(Quiet)
         /\ About(Event("start", x)) = {x} /\ About(Event("stop", x)) = {x}
         /\ About(Event("firing", x)) = Range(Sources[x]) /\ About(Event("fired", x)) = Range(Sources[x])
         /\ Event("start", x) # Quiet /\ Event("stop", x) # Quiet
         /\ Event("firing", x) # Quiet /\ Event("fired", x) # Quiet
         /\ Event("start", x)[1] # "done" /\ Event("stop", x)[1] # "done" /\ Quiet[1] # "done"
         /\ Event("firing", x)[1] # "done" /\ Event("fired", x)[1] # "done"
  BY DEF OfMachine, About, Event, Quiet

-----------------------------------------------------------------------------
(* The stack, as the call that is on top and those below *)

LEMMA RangeAppend ==
  ASSUME NEW S, NEW s \in Seq(S), NEW g \in S
  PROVE  Range(Append(s, g)) = Range(s) \cup {g}
<1> DEFINE r == Append(s, g)
<1>1. /\ r \in Seq(S) /\ Len(r) = Len(s) + 1 /\ Len(s) \in Nat
      /\ \A k \in 1 .. Len(s) : r[k] = s[k]
      /\ r[Len(s) + 1] = g
  BY AppendIs
<1> HIDE DEF r
<1>2. ASSUME NEW x \in Range(r) PROVE x \in Range(s) \cup {g}
  <2>1. PICK k \in 1 .. Len(r) : r[k] = x
    BY <1>1, RangeIs
  <2>2. k \in 1 .. Len(s) \/ k = Len(s) + 1
    BY <1>1
  <2>3. CASE k \in 1 .. Len(s)
    BY <1>1, <2>1, <2>3, RangeIs
  <2>4. CASE k = Len(s) + 1
    BY <1>1, <2>1, <2>4
  <2> QED
    BY <2>2, <2>3, <2>4
<1>3. ASSUME NEW x \in Range(s) PROVE x \in Range(r)
  <2>1. PICK k \in 1 .. Len(s) : s[k] = x
    BY RangeIs
  <2>2. k \in 1 .. Len(r) /\ r[k] = x
    BY <1>1, <2>1
  <2> QED
    BY <1>1, <2>2, RangeIs
<1>4. g \in Range(r)
  <2>1. Len(s) + 1 \in 1 .. Len(r) /\ r[Len(s) + 1] = g
    BY <1>1
  <2> QED
    BY <1>1, <2>1, RangeIs
<1> QED
  BY <1>2, <1>3, <1>4 DEF r

\* A stack with something on top of it
Fits(w, b, f) ==
  /\ \A x \in Range(b) : Over(w, x, f)
  /\ IF b = <<>> THEN f.op \in {"post", "start"} ELSE OnTop(b[Len(b)], f)

LEMMA StackIs ==
  ASSUME NEW w, NEW b \in Seq(Frames), NEW f \in Frames
  PROVE  StackInv(w, Append(b, f)) <=> StackInv(w, b) /\ Fits(w, b, f)
<1> DEFINE s == Append(b, f)
           n == Len(b)
<1>1. /\ s \in Seq(Frames) /\ Len(s) = n + 1 /\ n \in Nat
      /\ s # <<>>
      /\ \A k \in 1 .. n : s[k] = b[k]
      /\ s[n + 1] = f
  BY AppendIs
<1>2. b = <<>> <=> n = 0
  BY EmptySeq
<1>3. \A x : x \in Range(b) <=> \E k \in 1 .. n : b[k] = x
  BY RangeIs
<1> HIDE DEF s, n
<1>4. (\A k, l \in 1 .. n + 1 : k < l => Over(w, s[k], s[l]))
        <=> (\A k, l \in 1 .. n : k < l => Over(w, b[k], b[l])) /\ (\A x \in Range(b) : Over(w, x, f))
  <2>1. ASSUME \A k, l \in 1 .. n + 1 : k < l => Over(w, s[k], s[l])
        PROVE  \A x \in Range(b) : Over(w, x, f)
    <3> TAKE x \in Range(b)
    <3>1. PICK k \in 1 .. n : b[k] = x
      BY <1>3
    <3>2. k \in 1 .. n + 1 /\ n + 1 \in 1 .. n + 1 /\ k < n + 1
      BY <1>1
    <3>3. Over(w, s[k], s[n + 1])
      BY <2>1, <3>2
    <3> QED
      BY <3>1, <3>3, <1>1
  <2>2. ASSUME \A k, l \in 1 .. n + 1 : k < l => Over(w, s[k], s[l]), NEW k \in 1 .. n, NEW l \in 1 .. n, k < l
        PROVE  Over(w, b[k], b[l])
    <3>1. k \in 1 .. n + 1 /\ l \in 1 .. n + 1
      BY <1>1
    <3>2. Over(w, s[k], s[l])
      BY <2>2, <3>1
    <3> QED
      BY <3>2, <1>1
  <2>3. ASSUME \A k, l \in 1 .. n : k < l => Over(w, b[k], b[l]), \A x \in Range(b) : Over(w, x, f),
               NEW k \in 1 .. n + 1, NEW l \in 1 .. n + 1, k < l
        PROVE  Over(w, s[k], s[l])
    <3>1. k \in 1 .. n
      BY <1>1, <2>3
    <3>2. CASE l = n + 1
      <4>1. b[k] \in Range(b)
        BY <1>3, <3>1
      <4> QED
        BY <4>1, <3>1, <3>2, <2>3, <1>1
    <3>3. CASE l # n + 1
      <4>1. l \in 1 .. n
        BY <1>1, <3>3
      <4> QED
        BY <4>1, <3>1, <2>3, <1>1
    <3> QED
      BY <3>2, <3>3
  <2> QED
    BY <2>1, <2>2, <2>3
<1>5. ASSUME n # 0
      PROVE  (\A k \in 1 .. n : OnTop(s[k], s[k + 1])) <=> (\A k \in 1 .. n - 1 : OnTop(b[k], b[k + 1])) /\ OnTop(b[n], f)
  <2>1. n \in 1 .. n /\ s[n] = b[n]
    BY <1>1, <1>5
  <2>2. \A k \in 1 .. n - 1 : k \in 1 .. n /\ k + 1 \in 1 .. n
    BY <1>1
  <2>3. \A k \in 1 .. n : k = n \/ k \in 1 .. n - 1
    BY <1>1
  <2>4. \A k \in 1 .. n - 1 : s[k] = b[k] /\ s[k + 1] = b[k + 1]
    BY <2>2, <1>1
  <2> QED
    BY <2>1, <2>2, <2>3, <2>4, <1>1
<1>6. CASE n = 0
  <2>1. b = <<>> /\ s[1] = f /\ Len(s) = 1 /\ 1 .. Len(s) - 1 = {} /\ 1 .. n - 1 = {}
    BY <1>1, <1>2, <1>6
  <2>2. StackInv(w, s) <=> (\A k, l \in 1 .. n + 1 : k < l => Over(w, s[k], s[l])) /\ f.op \in {"post", "start"}
    BY <2>1, <1>1, <1>6 DEF StackInv
  <2>3. StackInv(w, b) <=> (\A k, l \in 1 .. n : k < l => Over(w, b[k], b[l]))
    BY <2>1 DEF StackInv, n
  <2> QED
    BY <1>4, <2>1, <2>2, <2>3 DEF Fits, s
<1>7. CASE n # 0
  <2>1. b # <<>> /\ s[1] = b[1] /\ Len(s) = n + 1 /\ Len(s) - 1 = n
    BY <1>1, <1>2, <1>7
  <2>2. StackInv(w, s) <=> /\ \A k, l \in 1 .. n + 1 : k < l => Over(w, s[k], s[l])
                           /\ \A k \in 1 .. n : OnTop(s[k], s[k + 1])
                           /\ b[1].op \in {"post", "start"}
    BY <2>1, <1>1 DEF StackInv
  <2>3. StackInv(w, b) <=> /\ \A k, l \in 1 .. n : k < l => Over(w, b[k], b[l])
                           /\ \A k \in 1 .. n - 1 : OnTop(b[k], b[k + 1])
                           /\ b[1].op \in {"post", "start"}
    BY <2>1 DEF StackInv, n
  <2>4. Fits(w, b, f) <=> (\A x \in Range(b) : Over(w, x, f)) /\ OnTop(b[n], f)
    BY <2>1 DEF Fits, n
  <2> QED
    BY <1>4, <1>5, <1>7, <2>2, <2>3, <2>4 DEF s
<1> QED
  BY <1>6, <1>7

\* Where a call may be that waits for the one on top to return
Suspended(F, f, x) ==
  /\ x.op # "process" /\ ~Posts(x, Quiet)
  /\ x.op = "start" =>
       Waits(x) \/ (x.at = "enable" /\ x.i = 1) \/ (x.at = "look" /\ Posts(f, Quiet))
  /\ x.op = "stop" =>
       x.at = "end" \/ (x.at = "subnodes" /\ x.of = "root") \/ (x.at = "disable" /\ Posts(f, Quiet))
  /\ x.op = "fire" =>
       \/ x.at = "destinations"
       \/ x.at = "sources" /\ x.i = 1
       \/ x.at = "sources" /\ x.i - 1 \in 1 .. Len(Sources[x.of]) /\ Stopping(F, Sources[x.of][x.i - 1])

LEMMA BelowIsSuspended ==
  ASSUME NEW w, NEW b \in Seq(Frames), NEW f \in Frames, StackInv(w, Append(b, f))
  PROVE  \A x \in Range(b) : Suspended(Range(Append(b, f)), f, x)
<1> DEFINE s == Append(b, f)
           n == Len(b)
           F == Range(s)
<1>1. /\ s \in Seq(Frames) /\ Len(s) = n + 1 /\ n \in Nat
      /\ \A k \in 1 .. n : s[k] = b[k]
      /\ s[n + 1] = f
  BY AppendIs
<1>2. /\ \A k, l \in 1 .. Len(s) : k < l => Over(w, s[k], s[l])
      /\ \A k \in 1 .. Len(s) - 1 : OnTop(s[k], s[k + 1])
  BY DEF StackInv
<1>3. \A k \in 1 .. n + 1 : s[k] \in F /\ s[k] \in Frames
  BY <1>1, RangeIs, ElementOfSeq
<1> HIDE DEF s, F
<1> SUFFICES ASSUME NEW x \in Range(b) PROVE Suspended(F, f, x)
  BY DEF s, F
<1>4. PICK k \in 1 .. n : b[k] = x
  BY RangeIs
<1> DEFINE g == s[k + 1]
<1>5. k \in 1 .. n + 1 /\ k + 1 \in 1 .. n + 1 /\ k < k + 1 /\ k \in 1 .. Len(s) - 1
  BY <1>1
<1>6. s[k] = x /\ OnTop(x, g) /\ Over(w, x, g) /\ g \in F /\ g \in Frames /\ x \in Frames
  BY <1>1, <1>2, <1>3, <1>4, <1>5
<1>7. Posts(g, Quiet) => Posts(f, Quiet)
  <2> SUFFICES ASSUME Posts(g, Quiet) PROVE g = f
    OBVIOUS
  <2>1. k + 1 \in 1 .. Len(s) - 1 => ~Posts(g, Quiet)
    BY <1>2 DEF OnTop
  <2>2. k + 1 = n + 1
    BY <2>1, <1>1, <1>5
  <2> QED
    BY <2>2, <1>1
<1> HIDE DEF g
<1>8. x.op # "process" /\ ~Posts(x, Quiet)
  BY <1>6 DEF OnTop
<1>9. x.op = "start" => Waits(x) \/ (x.at = "enable" /\ x.i = 1) \/ (x.at = "look" /\ Posts(f, Quiet))
  BY <1>6, <1>7 DEF OnTop, Waits
<1>10. x.op = "stop" => x.at = "end" \/ (x.at = "subnodes" /\ x.of = "root") \/ (x.at = "disable" /\ Posts(f, Quiet))
  BY <1>6, <1>7 DEF OnTop
<1>11. ASSUME x.op = "fire"
       PROVE  \/ x.at = "destinations"
              \/ x.at = "sources" /\ x.i = 1
              \/ x.at = "sources" /\ x.i - 1 \in 1 .. Len(Sources[x.of]) /\ Stopping(F, Sources[x.of][x.i - 1])
  <2>1. CASE g.op = "stop" /\ x.at = "sources"
    <3>1. g.of # "root"
      BY <1>6, <1>11, <2>1 DEF Over, Stops
    <3>2. x.i - 1 \in 1 .. Len(Sources[x.of]) /\ g.of = Sources[x.of][x.i - 1]
      BY <1>6, <1>11, <2>1, <3>1 DEF OnTop, Stops, Moving
    <3>3. Stopping(F, Sources[x.of][x.i - 1])
      BY <1>6, <2>1, <3>2 DEF Stopping, Stops
    <3> QED
      BY <2>1, <3>2, <3>3
  <2> QED
    BY <1>6, <1>11, <2>1 DEF OnTop
<1> QED
  BY <1>8, <1>9, <1>10, <1>11 DEF Suspended

\* What may be over a call depends on what it does, and for whom.
LEMMA OverSame ==
  ASSUME NEW w, NEW x, NEW f, NEW g, g.of = f.of,
         g.op = f.op \/ (f.op = "process" /\ g.op = "fire"), Over(w, x, f)
  PROVE  Over(w, x, g)
  BY DEF Over, Late, Acts, Stops

LEMMA OnTopSame ==
  ASSUME NEW x, NEW f, NEW g, g.of = f.of,
         (g.op = f.op /\ g.op # "post") \/ (f.op = "process" /\ g.op = "fire"), OnTop(x, f)
  PROVE  OnTop(x, g)
  BY DEF OnTop, Posts

\* A call that goes on fits where it was.
LEMMA StackSwaps ==
  ASSUME NEW w, NEW b \in Seq(Frames), NEW f \in Frames, NEW h \in Frames, StackInv(w, Append(b, f)), h.of = f.of,
         (h.op = f.op /\ h.op # "post") \/ (f.op = "process" /\ h.op = "fire")
  PROVE  StackInv(w, Append(b, h))
<1>1. StackInv(w, b) /\ Fits(w, b, f)
  BY StackIs
<1>2. \A x \in Range(b) : Over(w, x, h)
  BY <1>1, OverSame DEF Fits
<1>3. b = <<>> => h.op \in {"post", "start"}
  BY <1>1 DEF Fits
<1>4. b # <<>> => OnTop(b[Len(b)], h)
  BY <1>1, OnTopSame DEF Fits
<1> QED
  BY <1>1, <1>2, <1>3, <1>4, StackIs DEF Fits

\* So does what it calls, if it may be over it and over those below.
LEMMA StackPushes ==
  ASSUME NEW w, NEW b \in Seq(Frames), NEW h \in Frames, NEW g \in Frames, StackInv(w, Append(b, h)),
         \A x \in Range(b) : Over(w, x, g), Over(w, h, g), OnTop(h, g)
  PROVE  StackInv(w, Append(Append(b, h), g))
<1> DEFINE r == Append(b, h)
<1>1. r \in Seq(Frames) /\ r # <<>> /\ Len(r) = Len(b) + 1 /\ r[Len(b) + 1] = h
  BY AppendIs
<1>2. Range(r) = Range(b) \cup {h}
  BY RangeAppend
<1> HIDE DEF r
<1>3. Fits(w, r, g)
  BY <1>1, <1>2 DEF Fits
<1> QED
  BY <1>1, <1>3, StackIs DEF r

LEMMA TopIs ==
  ASSUME NEW S, NEW s \in Seq(S), s # <<>>
  PROVE  s = Append(Front(s), s[Len(s)])
<1> DEFINE b == Front(s)
           f == s[Len(s)]
           r == Append(b, f)
<1>1. /\ b \in Seq(S) /\ Len(s) \in Nat \ {0} /\ Len(b) = Len(s) - 1
      /\ \A k \in 1 .. Len(s) - 1 : b[k] = s[k]
      /\ f \in S
  BY FrontIs
<1> HIDE DEF b, f
<1>2. /\ r \in Seq(S) /\ Len(r) = Len(b) + 1
      /\ \A k \in 1 .. Len(b) : r[k] = b[k]
      /\ r[Len(b) + 1] = f
  BY <1>1, AppendIs
<1> HIDE DEF r
<1>3. Len(r) = Len(s)
  BY <1>1, <1>2
<1>4. ASSUME NEW k \in 1 .. Len(s) PROVE s[k] = r[k]
  <2>1. CASE k = Len(s)
    BY <1>1, <1>2, <2>1 DEF f
  <2>2. CASE k # Len(s)
    <3>1. k \in 1 .. Len(s) - 1 /\ k \in 1 .. Len(b)
      BY <1>1, <2>2
    <3> QED
      BY <3>1, <1>1, <1>2
  <2> QED
    BY <2>1, <2>2
<1>5. s = r
  BY <1>2, <1>3, <1>4, SeqEqual
<1> QED
  BY <1>5 DEF r, b, f

LEMMA TailIs ==
  ASSUME NEW S, NEW s \in Seq(S), s # <<>>
  PROVE  /\ Tail(s) \in Seq(S) /\ Len(Tail(s)) = Len(s) - 1 /\ Len(s) \in Nat \ {0}
         /\ Head(s) \in S /\ Head(s) \in Range(s) /\ Range(Tail(s)) \subseteq Range(s)
<1> DEFINE t == Tail(s)
<1>1. /\ Head(s) \in S /\ t \in Seq(S) /\ Len(t) = Len(s) - 1
      /\ \A i \in 1 .. Len(t) : t[i] = s[i + 1]
  BY HeadTailProperties
<1>2. Len(s) \in Nat \ {0} /\ Head(s) = s[1]
  BY EmptySeq, LenProperties
<1> HIDE DEF t
<1>3. Head(s) \in Range(s)
  <2>1. 1 \in 1 .. Len(s) /\ s[1] = Head(s)
    BY <1>2
  <2> QED
    BY <2>1, RangeIs
<1>4. ASSUME NEW x \in Range(t) PROVE x \in Range(s)
  <2>1. PICK i \in 1 .. Len(t) : t[i] = x
    BY <1>1, RangeIs
  <2>2. i + 1 \in 1 .. Len(s) /\ s[i + 1] = x
    BY <1>1, <1>2, <2>1
  <2> QED
    BY <2>2, RangeIs
<1> QED
  BY <1>1, <1>2, <1>3, <1>4 DEF t

LEMMA ConcatIs ==
  ASSUME NEW S, NEW s \in Seq(S), NEW t \in Seq(S)
  PROVE  /\ s \o t \in Seq(S) /\ Len(s \o t) = Len(s) + Len(t)
         /\ \A x \in Range(s \o t) : x \in Range(s) \/ x \in Range(t)
         /\ s = <<>> => s \o t = t
         /\ t = <<>> => s \o t = s
<1> DEFINE r == s \o t
<1>1. /\ r \in Seq(S) /\ Len(r) = Len(s) + Len(t)
      /\ \A i \in 1 .. Len(s) + Len(t) : r[i] = IF i <= Len(s) THEN s[i] ELSE t[i - Len(s)]
  BY ConcatProperties
<1>2. Len(s) \in Nat /\ Len(t) \in Nat
  BY LenProperties
<1>3. (s = <<>> => r = t) /\ (t = <<>> => r = s)
  BY ConcatEmptySeq
<1> HIDE DEF r
<1>4. ASSUME NEW x \in Range(r) PROVE x \in Range(s) \/ x \in Range(t)
  <2>1. PICK i \in 1 .. Len(r) : r[i] = x
    BY <1>1, RangeIs
  <2>2. CASE i <= Len(s)
    <3>1. i \in 1 .. Len(s) /\ s[i] = x
      BY <1>1, <1>2, <2>1, <2>2
    <3> QED
      BY <3>1, RangeIs
  <2>3. CASE ~(i <= Len(s))
    <3>1. i - Len(s) \in 1 .. Len(t) /\ t[i - Len(s)] = x
      BY <1>1, <1>2, <2>1, <2>3
    <3> QED
      BY <3>1, RangeIs
  <2> QED
    BY <2>2, <2>3
<1> QED
  BY <1>1, <1>3, <1>4 DEF r

LEMMA EmptyRange ==
  ASSUME NEW S, NEW s \in Seq(S)
  PROVE  Range(s) = {} <=> s = <<>>
<1>1. Len(s) \in Nat /\ (s = <<>> <=> Len(s) = 0)
  BY EmptySeq, LenProperties
<1>2. s = <<>> => Range(s) = {}
  <2>1. s = <<>> => 1 .. Len(s) = {}
    BY <1>1
  <2> QED
    BY <2>1, RangeIs
<1>3. s # <<>> => s[1] \in Range(s)
  BY <1>1, RangeIs
<1> QED
  BY <1>2, <1>3

-----------------------------------------------------------------------------
(* The call on top, and those below it *)

LEMMA NowIs ==
  ASSUME IndInv, ~AtRest
  PROVE  /\ Below \in Seq(Frames) /\ Top \in Frames /\ stack = Append(Below, Top)
         /\ Range(stack) = Range(Below) \cup {Top}
         /\ StackInv(trigger, Below) /\ Fits(trigger, Below, Top)
         /\ \A x \in Range(Below) : x \in Frames /\ Over(trigger, x, Top) /\ Suspended(Range(stack), Top, x)
         /\ \A x \in Range(stack) : x \in Frames /\ Knows(active, enabled, Range(stack), x)
<1>1. stack \in Seq(Frames) /\ stack # <<>>
  BY DEF IndInv, Typed, AtRest
<1>2. stack = Append(Below, Top)
  BY <1>1, TopIs DEF Below, Top
<1>3. Below \in Seq(Frames) /\ Top \in Frames
  <2>1. Front(stack) \in Seq(Frames) /\ Len(stack) \in Nat \ {0} /\ \A k \in 1 .. Len(stack) : stack[k] \in Frames
    BY <1>1, FrontIs
  <2>2. stack[Len(stack)] \in Frames
    BY <2>1
  <2> QED
    BY <2>1, <2>2 DEF Below, Top
<1>4. Range(stack) = Range(Below) \cup {Top}
  BY <1>2, <1>3, RangeAppend
<1>5. StackInv(trigger, Append(Below, Top))
  BY <1>2 DEF IndInv
<1>6. StackInv(trigger, Below) /\ Fits(trigger, Below, Top)
  BY <1>3, <1>5, StackIs
<1>7. \A x \in Range(Below) : Suspended(Range(Append(Below, Top)), Top, x)
  BY <1>3, <1>5, BelowIsSuspended
<1>8. \A x \in Range(stack) : x \in Frames
  BY <1>1, RangeIs, ElementOfSeq
<1>9. \A x \in Range(Below) : x \in Frames
  BY <1>4, <1>8
<1>10. \A x \in Range(Below) : Over(trigger, x, Top)
  BY <1>6 DEF Fits
<1>11. \A x \in Range(stack) : Knows(active, enabled, Range(stack), x)
  BY DEF IndInv, KnowInv
<1>12. \A x \in Range(Below) : Suspended(Range(stack), Top, x)
  BY <1>2, <1>7
<1> QED
  BY <1>2, <1>3, <1>4, <1>6, <1>8, <1>9, <1>10, <1>11, <1>12

\* Who gets an event
LEMMA DeliveriesAre ==
  ASSUME Typed, WellMade, NEW e \in Events
  PROVE  /\ Deliveries(e) \in Seq(Owed)
         /\ \A q \in Range(Deliveries(e)) :
              /\ q.of = e
              /\ q.to # "root" => q.to \in Range(listening) /\ HearsIn(trigger, q.to, e)
              /\ q.to = "root" => e = StopOn
         /\ e # StopOn /\ Range(listening) = {} => Deliveries(e) = <<>>
         /\ e = StopOn => Len(Deliveries(e)) = 1
         /\ Deliveries(Quiet) = <<>>
<1> DEFINE heard(x) == {t \in Transitions : Hears(t, x)}
           due(x) == Those(listening, heard(x))
           to(x) == [k \in DOMAIN due(x) |-> [to |-> due(x)[k], of |-> x]]
           stop(x) == IF x = StopOn THEN <<[to |-> "root", of |-> x]>> ELSE <<>>
<1>1. listening \in Seq(Transitions) /\ trigger \in Wirings
  BY DEF Typed
<1>2. \A x : Deliveries(x) = to(x) \o stop(x)
  BY DEF Deliveries
<1>3. \A t \in Transitions : trigger[t] # "completion" => trigger[t] # StopOn /\ trigger[t] # Quiet
  BY <1>1 DEF WellMade, StopIsForRoot
<1>4. StopOn[1] # "done" /\ StopOn # Quiet /\ Quiet[1] # "done"
  BY MachineEvents DEF WellMade, StopIsForRoot
<1>5. \A x : due(x) \in Seq(Transitions) /\ \A t : t \in Range(due(x)) <=> t \in Range(listening) /\ t \in heard(x)
  BY <1>1, ThoseAre, ThoseHold
<1>6. \A x, t : t \in heard(x) <=> t \in Transitions /\ HearsIn(trigger, t, x)
  BY DEF Hears, HearsIn
<1>7. heard(StopOn) = {} /\ heard(Quiet) = {}
  BY <1>3, <1>4 DEF Hears
<1> HIDE DEF heard, due
<1>8. ASSUME NEW x \in Events
      PROVE  /\ to(x) \in Seq(Owed)
             /\ \A q \in Range(to(x)) : q.of = x /\ q.to # "root" /\ q.to \in Range(listening) /\ HearsIn(trigger, q.to, x)
             /\ Range(due(x)) = {} => to(x) = <<>>
  <2>1. Len(due(x)) \in Nat /\ DOMAIN due(x) = 1 .. Len(due(x)) /\ \A k \in 1 .. Len(due(x)) : due(x)[k] \in Transitions
    BY <1>5, LenProperties, ElementOfSeq
  <2>2. \A k \in 1 .. Len(due(x)) : due(x)[k] \in Range(due(x))
    BY <1>5, RangeIs
  <2>3. \A k \in 1 .. Len(due(x)) : [to |-> due(x)[k], of |-> x] \in Owed
    BY <2>1 DEF Owed
  <2>4. to(x) \in [1 .. Len(due(x)) -> Owed]
    BY <2>1, <2>3
  <2>5. to(x) \in Seq(Owed)
    BY <2>1, <2>4
  <2>6. ASSUME NEW q \in Range(to(x))
        PROVE  q.of = x /\ q.to # "root" /\ q.to \in Range(listening) /\ HearsIn(trigger, q.to, x)
    <3>1. PICK k \in 1 .. Len(due(x)) : q = [to |-> due(x)[k], of |-> x]
      BY <2>1 DEF Range
    <3>2. q.of = x /\ q.to = due(x)[k] /\ q.to \in Range(due(x)) /\ q.to \in Transitions
      BY <3>1, <2>1, <2>2
    <3>3. "root" \notin Transitions
      BY ShapeIs
    <3> QED
      BY <3>2, <3>3, <1>5, <1>6
  <2>7. ASSUME Range(due(x)) = {} PROVE to(x) = <<>>
    <3>1. 1 .. Len(due(x)) = {}
      BY <2>2, <2>7
    <3>2. Len(due(x)) = 0
      BY <2>1, <3>1
    <3> QED
      BY <2>1, <3>1
  <2> QED
    BY <2>5, <2>6, <2>7
<1>9. ASSUME NEW x \in Events
      PROVE  /\ stop(x) \in Seq(Owed)
             /\ \A q \in Range(stop(x)) : q.of = x /\ q.to = "root" /\ x = StopOn
             /\ x = StopOn => Len(stop(x)) = 1
             /\ x # StopOn => stop(x) = <<>>
  <2>1. [to |-> "root", of |-> x] \in Owed
    BY DEF Owed
  <2>2. CASE x = StopOn
    <3>1. stop(x) = <<[to |-> "root", of |-> x]>>
      BY <2>2
    <3>2. stop(x) \in Seq(Owed) /\ Len(stop(x)) = 1 /\ stop(x)[1] = [to |-> "root", of |-> x]
      BY <2>1, <3>1
    <3>3. ASSUME NEW q \in Range(stop(x)) PROVE q = [to |-> "root", of |-> x]
      <4> HIDE DEF stop
      <4>1. PICK k \in 1 .. Len(stop(x)) : stop(x)[k] = q
        BY <3>2, RangeIs
      <4> QED
        BY <3>2, <4>1
    <3> QED
      BY <2>2, <3>2, <3>3
  <2>3. CASE x # StopOn
    <3>1. stop(x) = <<>>
      BY <2>3
    <3>2. stop(x) \in Seq(Owed) /\ Range(stop(x)) = {}
      BY <3>1, EmptyRange, EmptySeq
    <3> QED
      BY <2>3, <3>1, <3>2
  <2> QED
    BY <2>2, <2>3
<1> HIDE DEF to, stop
<1>10. ASSUME NEW x \in Events
       PROVE  /\ Deliveries(x) \in Seq(Owed)
              /\ Len(Deliveries(x)) = Len(to(x)) + Len(stop(x))
              /\ \A q \in Range(Deliveries(x)) : q \in Range(to(x)) \/ q \in Range(stop(x))
              /\ stop(x) = <<>> => Deliveries(x) = to(x)
              /\ to(x) = <<>> => Deliveries(x) = stop(x)
  <2> DEFINE r == to(x)
             l == stop(x)
  <2>1. Deliveries(x) = r \o l /\ r \in Seq(Owed) /\ l \in Seq(Owed)
    BY <1>2, <1>8, <1>9
  <2> HIDE DEF r, l
  <2>2. /\ r \o l \in Seq(Owed) /\ Len(r \o l) = Len(r) + Len(l)
        /\ \A q \in Range(r \o l) : q \in Range(r) \/ q \in Range(l)
        /\ r = <<>> => r \o l = l
        /\ l = <<>> => r \o l = r
    BY <2>1, ConcatIs
  <2> QED
    BY <2>1, <2>2 DEF r, l
<1>11. Quiet \in Events /\ StopOn \in Events
  BY EventsAre
<1>12. \A q \in Range(Deliveries(e)) :
         /\ q.of = e
         /\ q.to # "root" => q.to \in Range(listening) /\ HearsIn(trigger, q.to, e)
         /\ q.to = "root" => e = StopOn
  BY <1>8, <1>9, <1>10
<1>13. e # StopOn /\ Range(listening) = {} => Deliveries(e) = <<>>
  BY <1>5, <1>8, <1>9, <1>10
<1>14. e = StopOn => Len(Deliveries(e)) = 1
  BY <1>5, <1>7, <1>8, <1>9, <1>10
<1>15. Deliveries(Quiet) = <<>>
  BY <1>4, <1>5, <1>7, <1>8, <1>9, <1>10, <1>11
<1> QED
  BY <1>10, <1>12, <1>13, <1>14, <1>15

-----------------------------------------------------------------------------
(* What a step that changes little leaves as it is *)

LEMMA KnowsKept ==
  ASSUME NEW a, NEW en, NEW F, NEW F2, NEW x, Knows(a, en, F, x), \A n : Stopping(F, n) => Stopping(F2, n)
  PROVE  Knows(a, en, F2, x)
  BY DEF Knows

\* The last but one of those that the root starts waits, or the last, or the root.
LastWait(b) == \E k \in 1 .. Len(b) : k >= Len(First) - 1 /\ AllWait(b, k)

\* Calls that return, go on or are made above those that wait leave them alone.
LEMMA WaitKept ==
  ASSUME NEW a, NEW p, NEW a2, NEW p2, NEW b \in Seq(Frames), NEW f \in Frames, NEW s2 \in Seq(Frames),
         WaitInv(a, p, Append(b, f)),
         \/ a2 \subseteq a
         \/ \A k \in 1 .. Len(b) : AllWait(b, k) =>
              (k > Len(First) => a2 = {}) /\ (k = Len(First) => a2 \subseteq {"root"}),
         Len(b) <= Len(s2) /\ Len(s2) <= Len(b) + 2,
         \A k \in 1 .. Len(b) : s2[k] = b[k],
         Len(b) + 1 <= Len(s2) => ~Waits(s2[Len(b) + 1]),
         LastWait(b) /\ p = <<>> /\ f.op \in {"start", "post"} =>
           p2 = <<>> /\ \A g \in Range(s2) : g \in Range(b) \/ g.op \in {"start", "post"}
  PROVE  WaitInv(a2, p2, s2)
<1> DEFINE s == Append(b, f)
           n == Len(b)
<1>1. /\ s \in Seq(Frames) /\ Len(s) = n + 1 /\ n \in Nat
      /\ \A k \in 1 .. n : s[k] = b[k]
      /\ s[n + 1] = f
  BY AppendIs
<1>2. Range(s) = Range(b) \cup {f}
  BY RangeAppend
<1>3. Len(s2) \in Nat /\ Len(First) \in Nat
  BY LenProperties, ShapeIs
<1>4. /\ \A k \in 1 .. Len(s) - 1 : Waits(s[k]) => AllWait(s, k)
      /\ \A k \in 1 .. Len(s) : AllWait(s, k) =>
           /\ k <= Len(First) + 1
           /\ s[k].of = IF k = Len(First) + 1 THEN "root" ELSE First[Len(First) + 1 - k]
           /\ k > Len(First) => a = {}
           /\ k = Len(First) => a \subseteq {"root"}
           /\ k >= Len(First) - 1 /\ k < Len(s) =>
                p = <<>> /\ \A g \in Range(s) : g.op \in {"start", "post"}
  BY DEF WaitInv
<1> HIDE DEF s, n
<1>5. \A k \in 1 .. n : (AllWait(s2, k) <=> AllWait(s, k)) /\ (AllWait(b, k) <=> AllWait(s, k))
  <2> TAKE k \in 1 .. n
  <2>1. \A j \in 1 .. k : s2[j] = s[j] /\ b[j] = s[j]
    BY <1>1 DEF n
  <2> QED
    BY <2>1 DEF AllWait
<1>6. ASSUME NEW k \in 1 .. Len(s2) - 1, Waits(s2[k]) PROVE AllWait(s2, k)
  <2>1. k \in 1 .. n
    <3>1. k # n + 1
      BY <1>6, <1>1, <1>3 DEF n
    <3> QED
      BY <3>1, <1>1, <1>3 DEF n
  <2>2. Waits(s[k]) /\ k \in 1 .. Len(s) - 1
    BY <1>1, <1>6, <2>1 DEF n
  <2> QED
    BY <2>1, <2>2, <1>4, <1>5
<1>7. ASSUME NEW k \in 1 .. Len(s2), AllWait(s2, k)
      PROVE  /\ k <= Len(First) + 1
             /\ s2[k].of = IF k = Len(First) + 1 THEN "root" ELSE First[Len(First) + 1 - k]
             /\ k > Len(First) => a2 = {}
             /\ k = Len(First) => a2 \subseteq {"root"}
             /\ k >= Len(First) - 1 /\ k < Len(s2) =>
                  p2 = <<>> /\ \A g \in Range(s2) : g.op \in {"start", "post"}
  <2>1. k \in 1 .. n
    <3>1. \A j \in 1 .. k : Waits(s2[j])
      BY <1>7 DEF AllWait
    <3>2. ~(n + 1 \in 1 .. k)
      BY <3>1, <1>1, <1>3 DEF n
    <3> QED
      BY <3>2, <1>1, <1>3
  <2>2. k \in 1 .. Len(s) /\ k < Len(s) /\ AllWait(s, k) /\ AllWait(b, k) /\ s2[k] = s[k]
    BY <2>1, <1>1, <1>5, <1>7 DEF n
  <2>3. /\ k <= Len(First) + 1
        /\ s[k].of = IF k = Len(First) + 1 THEN "root" ELSE First[Len(First) + 1 - k]
        /\ k > Len(First) => a = {}
        /\ k = Len(First) => a \subseteq {"root"}
        /\ k >= Len(First) - 1 => p = <<>> /\ \A g \in Range(s) : g.op \in {"start", "post"}
    BY <2>2, <1>4
  <2>4. (k > Len(First) => a2 = {}) /\ (k = Len(First) => a2 \subseteq {"root"})
    <3>1. CASE a2 \subseteq a
      BY <3>1, <2>3
    <3>2. CASE \A j \in 1 .. Len(b) : AllWait(b, j) =>
                 (j > Len(First) => a2 = {}) /\ (j = Len(First) => a2 \subseteq {"root"})
      BY <3>2, <2>1, <2>2 DEF n
    <3> QED
      BY <3>1, <3>2
  <2>5. ASSUME k >= Len(First) - 1 PROVE p2 = <<>> /\ \A g \in Range(s2) : g.op \in {"start", "post"}
    <3>1. p = <<>> /\ f.op \in {"start", "post"} /\ \A g \in Range(b) : g.op \in {"start", "post"}
      BY <2>3, <2>5, <1>2
    <3>2. LastWait(b)
      BY <2>1, <2>2, <2>5 DEF LastWait, n
    <3> QED
      BY <3>1, <3>2
  <2> QED
    BY <2>2, <2>3, <2>4, <2>5
<1> QED
  BY <1>6, <1>7 DEF WaitInv

\* A call that is neither a start, a stop nor about to stop sources excuses nothing.
Neutral(f) == f.op \in {"post", "process"} \/ (f.op = "fire" /\ f.at # "sources") \/ Waits(f)

LEMMA NeutralIs ==
  ASSUME NEW f, Neutral(f)
  PROVE  /\ \A n, t : ~Enables(f, n, t) /\ ~Leaves(f, n) /\ ~Disables(f, t)
         /\ \A n : ~Stops(f, n)
  BY DEF Neutral, Enables, Leaves, Disables, Stops, Moving, Waits

\* What is enabled stays so if as many are being disabled, and as many are excused.
LEMMA EnabledKept ==
  ASSUME NEW a, NEW en, NEW li, NEW F, NEW F2, EnabledInv(a, en, li, F),
         \A t \in Transitions : Disabling(F, t) <=> Disabling(F2, t),
         \A t \in Transitions : \A n \in a : n \in Range(Sources[t]) /\ t \notin en /\ Excused(F, n, t) => Excused(F2, n, t)
  PROVE  EnabledInv(a, en, li, F2)
<1>1. /\ \A t \in Transitions : t \in Range(li) <=> t \in en /\ ~Disabling(F, t)
      /\ \A t \in en : \E n \in Range(Sources[t]) : n \in a
      /\ \A t \in Transitions : \A n \in a : n \in Range(Sources[t]) => t \in en \/ Excused(F, n, t)
  BY DEF EnabledInv
<1>2. \A t \in Transitions : t \in Range(li) <=> t \in en /\ ~Disabling(F2, t)
  BY <1>1
<1>3. \A t \in Transitions : \A n \in a : n \in Range(Sources[t]) => t \in en \/ Excused(F2, n, t)
  BY <1>1
<1> QED
  BY <1>1, <1>2, <1>3 DEF EnabledInv

\* Neutral calls that return, and calls that are made above them
LEMMA NeutralKept ==
  ASSUME NEW a, NEW en, NEW li, NEW se, NEW B, NEW f, NEW F2, Neutral(f), B \subseteq F2,
         \A g \in F2 : g \in B \/ Neutral(g) \/ (g.op = "stop" /\ g.at = "transitions")
                         \/ (g.op = "fire" /\ g.at = "sources") \/ g = f,
         EnabledInv(a, en, li, B \cup {f}), SeenInv(a, se, B \cup {f})
  PROVE  EnabledInv(a, en, li, F2) /\ SeenInv(a, se, F2)
<1> DEFINE F == B \cup {f}
<1>1. /\ \A n, t : ~Enables(f, n, t) /\ ~Leaves(f, n) /\ ~Disables(f, t)
      /\ \A n : ~Stops(f, n)
  BY NeutralIs
<1>2. \A g \in F2 : g \in B \/ ((\A t : ~Disables(g, t)) /\ (\A n : ~(Stops(g, n) /\ g.at = "end")))
  <2> TAKE g \in F2
  <2>1. CASE Neutral(g)
    BY <2>1, NeutralIs
  <2>2. CASE g.op = "stop" /\ g.at = "transitions"
    BY <2>2 DEF Disables, Moving
  <2>3. CASE g.op = "fire"
    BY <2>3 DEF Disables, Moving, Stops
  <2> QED
    BY <2>1, <2>2, <2>3, <1>1
<1>3. \A t \in Transitions : Disabling(F, t) <=> Disabling(F2, t)
  BY <1>1, <1>2 DEF Disabling
<1>4. \A n, t : Excused(F, n, t) => Excused(F2, n, t)
  BY <1>1 DEF Excused
<1>5. EnabledInv(a, en, li, F2)
  BY <1>3, <1>4, EnabledKept
<1>6. \A n : (\E g \in F : Stops(g, n) /\ g.at = "end") <=> (\E g \in F2 : Stops(g, n) /\ g.at = "end")
  BY <1>1, <1>2
<1>7. SeenInv(a, se, F2)
  BY <1>6 DEF SeenInv
<1> QED
  BY <1>5, <1>7

-----------------------------------------------------------------------------
(* The nodes, in their order *)

LEMMA FromIs ==
  ASSUME NEW i \in Nat
  PROVE  /\ \A n : n \in From(i) <=> \E j \in 1 .. Len(Nodes) : j >= i /\ Nodes[j] = n
         /\ From(i) \subseteq From(i - 1) /\ From(i) \subseteq Range(Nodes)
<1>1. \A n : n \in From(i) <=> \E j \in 1 .. Len(Nodes) : j >= i /\ Nodes[j] = n
  BY DEF From
<1>2. \A n : n \in From(i - 1) <=> \E j \in 1 .. Len(Nodes) : j >= i - 1 /\ Nodes[j] = n
  BY DEF From
<1>3. \A j \in 1 .. Len(Nodes) : j >= i => j >= i - 1
  OBVIOUS
<1>4. From(i) \subseteq From(i - 1)
  BY <1>1, <1>2, <1>3
<1>5. From(i) \subseteq Range(Nodes)
  BY <1>1, ShapeIs
<1> QED
  BY <1>1, <1>4, <1>5

LEMMA AfterFrom ==
  ASSUME NamedOnce, NEW i \in Nat, NEW m \in From(i - 1), NEW n, Before(m, n)
  PROVE  n \in From(i)
<1>1. PICK j \in 1 .. Len(Nodes) : j >= i - 1 /\ Nodes[j] = m
  BY DEF From
<1>2. PICK k, l \in 1 .. Len(Nodes) : k < l /\ Nodes[k] = m /\ Nodes[l] = n
  BY DEF Before
<1>3. k = j
  BY <1>1, <1>2 DEF NamedOnce
<1>4. l >= i
  BY <1>1, <1>2, <1>3
<1> QED
  BY <1>2, <1>4 DEF From

\* What a reaction is one of
LEMMA ReactionIs ==
  ASSUME WellMade, NEW w \in Wirings, NEW t \in Transitions, IsReaction(w[t])
  PROVE  \E n \in Range(Nodes) : /\ Range(Sources[t]) = {n} /\ n # "root" /\ Alone(n)
                                 /\ t \in Range(TransitionsOf(n))
<1>1. PICK n \in Range(Nodes) : Range(Sources[t]) = {n}
  BY DEF WellMade, ReactionsGoForward
<1>2. n # "root"
  BY ShapeIs
<1>3. Alone(n)
  <2> SUFFICES ASSUME NEW u \in Transitions, n \in Range(Sources[u]) PROVE Range(Sources[u]) = {n}
    BY DEF Alone
  <2>1. Range(Sources[u]) = Range(Sources[t])
    BY <1>1 DEF WellMade, Connected
  <2> QED
    BY <1>1, <2>1
<1>4. t \in Range(TransitionsOf(n))
  <2>1. t \in Range(Outgoing[n])
    BY <1>1 DEF WellMade, Connected
  <2> QED
    BY <1>2, <2>1 DEF TransitionsOf
<1> QED
  BY <1>1, <1>2, <1>3, <1>4

\* The transitions of a node are those it is a source of.
LEMMA SourceHas ==
  ASSUME WellMade, NEW t \in Transitions, NEW n \in Range(Sources[t])
  PROVE  n \in Range(Nodes) /\ n # "root" /\ n \in All /\ t \in Range(TransitionsOf(n))
<1>1. n \in Range(Nodes) /\ n # "root"
  BY ShapeIs
<1>2. t \in Range(Outgoing[n])
  BY <1>1 DEF WellMade, Connected
<1> QED
  BY <1>1, <1>2 DEF TransitionsOf, All

-----------------------------------------------------------------------------
(* A transition that is called is one that may be. *)

LEMMA HeardFits ==
  ASSUME WellMade, IndInv, Runs("post", "deliver"), pending # <<>>,
         NEW t \in Transitions, NEW e, Head(pending).to = t, Head(pending).of = e, t \in Range(listening)
  PROVE  \A x \in Range(Below) : Over(trigger, x, Frame("process", t, e))
<1> DEFINE d == Head(pending)
           F == Range(stack)
           g == Frame("process", t, e)
<1>1. /\ ~AtRest /\ Top.op = "post"
  BY DEF Runs
<1>2. /\ F = Range(Below) \cup {Top}
      /\ \A x \in Range(Below) : x \in Frames /\ Over(trigger, x, Top) /\ Suspended(F, Top, x)
      /\ \A x \in F : Knows(active, enabled, F, x)
  BY <1>1, NowIs
<1>3. pending \in Seq(Owed) /\ trigger \in Wirings /\ stack \in Seq(Frames)
  BY DEF IndInv, Typed
<1>4. d \in Range(pending)
  BY <1>3, TailIs
<1>5. OwedInv(trigger, pending, stack, d) /\ ~Posts(Top, Quiet)
  BY <1>4 DEF IndInv, PendingInv, Top
<1>6. HearsIn(trigger, t, e)
  <2>1. t # "root"
    BY ShapeIs
  <2> QED
    BY <1>5, <2>1 DEF OwedInv
<1>7. t \in enabled /\ \E n \in Range(Sources[t]) : n \in active
  BY DEF IndInv, EnabledInv
<1>8. g.op = "process" /\ g.of = t /\ g.at = e
  BY FrameIs
<1> HIDE DEF d, g, F
<1> SUFFICES ASSUME NEW x \in Range(Below) PROVE Over(trigger, x, g)
  BY DEF g
<1>9. x \in Frames /\ x \in F /\ Suspended(F, Top, x) /\ Knows(active, enabled, F, x)
  BY <1>2
<1>10. CASE x.op \notin {"start", "stop"}
  BY <1>8, <1>10 DEF Over, Waits, Started, Stops
<1>11. CASE x.op \in {"start", "stop"}
  <2>1. OfMachine(e) /\ (Stops(x, "root") => x.at = "subnodes" /\ LateEvent(x.i, e))
    BY <1>5, <1>9, <1>11 DEF OwedInv, d, F
  <2>2. IsReaction(trigger[t]) /\ trigger[t] = e
    <3>1. e[1] # "done"
      BY <2>1 DEF OfMachine
    <3> QED
      BY <3>1, <2>1, <1>6 DEF HearsIn, IsReaction
  <2>3. PICK n \in Range(Nodes) : /\ Range(Sources[t]) = {n} /\ n # "root" /\ Alone(n)
                                  /\ t \in Range(TransitionsOf(n))
    BY <1>3, <2>2, ReactionIs
  <2>4. n \in active
    BY <1>7, <2>3
  <2>5. x.op = "stop" => x.of # n /\ x.at # "disable"
    <3> SUFFICES ASSUME x.op = "stop" PROVE x.of # n /\ x.at # "disable"
      OBVIOUS
    <3>1. x.at = "end" \/ (x.at = "subnodes" /\ x.of = "root")
      BY <1>5, <1>9 DEF Suspended
    <3>2. x.at = "end" => \A u \in Range(TransitionsOf(x.of)) : u \notin enabled
      BY <1>9 DEF Knows
    <3> QED
      BY <3>1, <3>2, <2>3, <1>7
  <2>6. Started(x) => x.of # n
    <3> SUFFICES ASSUME Started(x), x.of = n PROVE FALSE
      OBVIOUS
    <3>1. x.op = "start" /\ x.at = "enable" /\ x.i = 1
      BY <1>5, <1>9 DEF Suspended, Started, Waits
    <3>2. \A u \in Range(TransitionsOf(n)) : u \notin enabled
      BY <3>1, <1>9, <2>3 DEF Knows, Moving
    <3> QED
      BY <3>2, <2>3, <1>7
  <2>7. ASSUME Waits(x) PROVE x.of \notin Range(Destinations[t])
    <3>1. Len(stack) \in Nat \ {0} /\ Len(Below) = Len(stack) - 1 /\ Below \in Seq(Frames)
          /\ \A k \in 1 .. Len(stack) - 1 : Below[k] = stack[k]
      BY <1>1, <1>3, FrontIs DEF Below, AtRest
    <3>2. PICK k \in 1 .. Len(Below) : Below[k] = x
      BY <3>1, RangeIs
    <3>3. k \in 1 .. Len(stack) - 1 /\ k \in 1 .. Len(stack) /\ k < Len(stack) /\ stack[k] = x
      BY <3>1, <3>2
    <3>4. AllWait(stack, k)
      BY <3>3, <2>7 DEF IndInv, WaitInv
    <3>5. /\ k <= Len(First) + 1
          /\ x.of = IF k = Len(First) + 1 THEN "root" ELSE First[Len(First) + 1 - k]
          /\ ~(k >= Len(First) - 1)
      BY <3>3, <3>4 DEF IndInv, WaitInv
    <3>6. Len(First) + 1 - k \in 3 .. Len(First) /\ x.of = First[Len(First) + 1 - k]
      BY <3>3, <3>5, ShapeIs
    <3> QED
      BY <3>6, <2>2, <1>3 DEF WellMade, ReactionsGoForward
  <2>8. ASSUME Stops(x, "root")
        PROVE  x.at = "subnodes" /\ n \in From(x.i) /\ Range(Destinations[t]) \subseteq From(x.i)
    <3>1. x.at = "subnodes" /\ LateEvent(x.i, e) /\ x.i \in Nat
      BY <2>1, <2>8, <1>9, FramesAre
    <3>2. e # Quiet
      BY <1>3, <2>2 DEF WellMade, StopIsForRoot, IsReaction
    <3>3. PICK m \in About(e) : m \in From(x.i - 1)
      BY <3>1, <3>2 DEF LateEvent
    <3>4. m # "root"
      <4>1. m \in Range(Nodes)
        BY <3>3, ShapeIs DEF From
      <4> QED
        BY <4>1, ShapeIs
    <3>5. \A c \in Range(Destinations[t]) : Before(m, c)
      BY <3>3, <3>4, <2>2, <1>3 DEF WellMade, ReactionsGoForward
    <3>6. Range(Destinations[t]) \subseteq From(x.i)
      BY <3>1, <3>3, <3>5, AfterFrom DEF WellMade
    <3>7. n \in From(x.i)
      <4>1. PICK j \in 1 .. Len(Nodes) : Nodes[j] = n
        BY <2>3, ShapeIs
      <4>2. SUFFICES ASSUME j < x.i PROVE FALSE
        BY <4>1, <3>1 DEF From
      <4>3. Stopping(F, n)
        BY <4>1, <4>2, <2>4, <2>8, <3>1, <1>9 DEF Knows
      <4>4. PICK y \in F : Stops(y, n)
        BY <4>3 DEF Stopping
      <4>5. y \in Range(Below) /\ Suspended(F, Top, y) /\ Knows(active, enabled, F, y)
        BY <4>4, <1>1, <1>2 DEF Stops
      <4>6. y.op = "stop" /\ y.at = "end" /\ y.of = n
        BY <4>4, <4>5, <1>5, <2>3 DEF Suspended, Stops
      <4>7. \A u \in Range(TransitionsOf(n)) : u \notin enabled
        BY <4>5, <4>6 DEF Knows
      <4> QED
        BY <4>7, <2>3, <1>7
    <3> QED
      BY <3>1, <3>6, <3>7
  <2>9. Acts(g) => IsReaction(trigger[g.of])
    BY <2>2, <1>8
  <2>10. Stops(x, "root") /\ x.at = "subnodes" => Late(x.i, g)
    BY <2>8, <2>3, <1>8 DEF Late
  <2>11. Started(x) \/ x.op = "stop" => x.of \notin Range(Sources[g.of])
    BY <2>3, <2>5, <2>6, <1>8
  <2>12. Waits(x) => x.of \notin Range(Destinations[g.of])
    BY <2>7, <1>8
  <2>13. Stops(x, "root") => x.at # "end"
    BY <2>8
  <2> QED
    BY <2>9, <2>10, <2>11, <2>12, <2>13, <1>8 DEF Over, Stops
<1> QED
  BY <1>10, <1>11

-----------------------------------------------------------------------------
(* The router *)

LEMMA PostReturnsKeeps ==
  ASSUME WellMade, IndInv, PostReturns
  PROVE  IndInv'
<1> DEFINE b == Below
           f == Top
           F == Range(stack)
           B == Range(b)
<1>1. /\ ~AtRest /\ f.op = "post" /\ pending = <<>> /\ stack' = b
      /\ UNCHANGED <<trigger, active, enabled, listening, completions, pending, seen>>
  BY DEF PostReturns, Runs
<1>2. /\ b \in Seq(Frames) /\ f \in Frames /\ stack = Append(b, f) /\ F = B \cup {f}
      /\ StackInv(trigger, b) /\ Fits(trigger, b, f)
      /\ \A x \in F : x \in Frames /\ Knows(active, enabled, F, x)
  BY <1>1, NowIs
<1> HIDE DEF b, f
<1>3. Typed'
  BY <1>1, <1>2 DEF IndInv, Typed
<1>4. StackInv(trigger', stack')
  BY <1>1, <1>2
<1>5. \A n : Stopping(F, n) => Stopping(B, n)
  BY <1>1, <1>2 DEF Stopping, Stops
<1>6. KnowInv(active', enabled', Range(stack'))
  <2>1. \A x \in B : Knows(active, enabled, B, x)
    BY <1>2, <1>5, KnowsKept
  <2> QED
    BY <2>1, <1>1 DEF KnowInv
<1>7. WaitInv(active', pending', stack')
  <2>1. WaitInv(active, pending, Append(b, f))
    BY <1>2 DEF IndInv
  <2>2. Len(b) \in Nat
    BY <1>2, LenProperties
  <2>3. WaitInv(active, <<>>, b)
    BY <1>1, <1>2, <2>1, <2>2, WaitKept
  <2> QED
    BY <2>3, <1>1
<1>8. RootInv(active', pending', stack')
  <2> SUFFICES ASSUME "root" \notin active PROVE RootInv(active, pending, b)
    BY <1>1 DEF RootInv
  <2>1. active = {} /\ (\A x \in F : x.op = "post" \/ Waits(x)) /\ (\A q \in Range(pending) : q.to = "root")
    BY DEF IndInv, RootInv
  <2>2. ASSUME b # <<>> PROVE b[Len(b)].op # "start"
    <3>1. b[Len(b)] \in B
      <4>1. Len(b) \in 1 .. Len(b)
        BY <1>2, <2>2, EmptySeq, LenProperties
      <4> QED
        BY <1>2, <4>1, RangeIs
    <3>2. OnTop(b[Len(b)], f)
      BY <1>2, <2>2 DEF Fits
    <3> QED
      BY <2>1, <3>1, <3>2, <1>1, <1>2 DEF OnTop, Waits
  <2> QED
    BY <2>1, <2>2, <1>2 DEF RootInv
<1>9. PendingInv(trigger', pending', stack')
  <2>1. Range(pending) = {}
    BY <1>1, EmptyRange, EmptySeq
  <2>2. \A x \in F : x.op = "process" => HearsIn(trigger, x.of, x.at)
    BY DEF IndInv, PendingInv
  <2> QED
    BY <2>1, <2>2, <1>1, <1>2 DEF PendingInv
<1>10. EnabledInv(active', enabled', listening', Range(stack')) /\ SeenInv(active', seen', Range(stack'))
  <2>1. EnabledInv(active, enabled, listening, B \cup {f}) /\ SeenInv(active, seen, B \cup {f})
    BY <1>2 DEF IndInv
  <2>2. Neutral(f)
    BY <1>1 DEF Neutral
  <2>3. EnabledInv(active, enabled, listening, B) /\ SeenInv(active, seen, B)
    BY <2>1, <2>2, NeutralKept
  <2> QED
    BY <2>3, <1>1
<1> QED
  BY <1>3, <1>4, <1>6, <1>7, <1>8, <1>9, <1>10 DEF IndInv

\* The root is stopped by an event that nobody else is given, and nothing is under way.
LEMMA StopRootKeeps ==
  ASSUME WellMade, IndInv, Deliver, Head(pending).to = "root", "root" \in active
  PROVE  IndInv'
<1> DEFINE b == Below
           f == Top
           F == Range(stack)
           B == Range(b)
           g == Frame("stop", "root", "transitions")
           s2 == Append(stack, g)
           F2 == F \cup {g}
<1>1. /\ ~AtRest /\ f.op = "post" /\ pending # <<>> /\ stack' = s2 /\ pending' = Tail(pending)
      /\ UNCHANGED <<trigger, active, enabled, listening, completions, seen>>
  BY DEF Deliver, Runs
<1>2. /\ b \in Seq(Frames) /\ f \in Frames /\ stack = Append(b, f) /\ F = B \cup {f}
      /\ \A x \in F : x \in Frames /\ Knows(active, enabled, F, x)
  BY <1>1, NowIs
<1>3. pending \in Seq(Owed) /\ stack \in Seq(Frames)
  BY DEF IndInv, Typed
<1>4. Head(pending) \in Range(pending) /\ Tail(pending) \in Seq(Owed) /\ Len(Tail(pending)) = Len(pending) - 1
  BY <1>1, <1>3, TailIs
<1>5. Len(stack) = 1 /\ Len(pending) = 1 /\ ~Posts(f, Quiet)
  BY <1>1, <1>4 DEF IndInv, PendingInv, OwedInv, Top
<1>6. b = <<>> /\ B = {} /\ F = {f}
  <2>1. Len(b) = 0
    BY <1>1, <1>3, <1>5, FrontIs DEF AtRest, Below
  <2>2. b = <<>>
    BY <2>1, <1>2, EmptySeq
  <2>3. B = {}
    BY <2>2, <1>2, EmptyRange
  <2> QED
    BY <2>2, <2>3, <1>2
<1>7. pending' = <<>> /\ Range(pending') = {}
  <2>1. Len(Tail(pending)) = 0
    BY <1>4, <1>5
  <2>2. Tail(pending) = <<>>
    BY <2>1, <1>4, EmptySeq
  <2>3. Range(Tail(pending)) = {}
    BY <2>2, <1>4, EmptyRange
  <2> QED
    BY <2>2, <2>3, <1>1
<1>8. g \in Frames /\ g.op = "stop" /\ g.of = "root" /\ g.at = "transitions" /\ g.i = 1
  BY FrameIs, NewFrames DEF All
<1>9. TransitionsOf("root") = <<>> /\ Len(TransitionsOf("root")) = 0
  BY DEF TransitionsOf
<1> HIDE DEF b, f, g
<1>10. s2 \in Seq(Frames) /\ Range(s2) = F2 /\ F2 = {f, g}
  <2>1. s2 \in Seq(Frames)
    BY <1>3, <1>8, AppendIs
  <2>2. Range(s2) = F \cup {g}
    BY <1>3, <1>8, RangeAppend
  <2> QED
    BY <2>1, <2>2, <1>6
<1>11. Typed'
  BY <1>1, <1>4, <1>10 DEF IndInv, Typed
<1>12. StackInv(trigger', stack')
  <2>1. StackInv(trigger, Append(b, f))
    BY <1>2 DEF IndInv
  <2>2. Over(trigger, f, g)
    BY <1>1, <1>8 DEF Over, Waits, Started, Stops
  <2>3. OnTop(f, g)
    BY <1>1, <1>5, <1>8 DEF OnTop
  <2>4. StackInv(trigger, Append(Append(b, f), g))
    BY <2>1, <2>2, <2>3, <1>2, <1>6, <1>8, StackPushes
  <2> QED
    BY <2>4, <1>1, <1>2
<1>13. KnowInv(active', enabled', Range(stack'))
  <2>1. Knows(active, enabled, F2, f)
    BY <1>1 DEF Knows, Waits, Started, Moving, Stops
  <2>2. Knows(active, enabled, F2, g)
    BY <1>8, <1>9 DEF Knows, Waits, Started, Moving, Stops
  <2> QED
    BY <2>1, <2>2, <1>1, <1>10 DEF KnowInv
<1>14. WaitInv(active', pending', stack')
  <2>1. WaitInv(active, pending, Append(b, f))
    BY <1>2 DEF IndInv
  <2>2. Len(b) = 0 /\ Len(s2) = 2 /\ s2[1] = f
    BY <1>3, <1>5, <1>6, <1>8, <1>2, AppendIs, EmptySeq
  <2>3. ~Waits(f)
    BY <1>1 DEF Waits
  <2>4. Len(b) <= Len(s2) /\ Len(s2) <= Len(b) + 2 /\ (\A k \in 1 .. Len(b) : s2[k] = b[k]) /\ ~Waits(s2[Len(b) + 1])
    BY <2>2, <2>3
  <2> HIDE DEF s2
  <2>5. WaitInv(active, <<>>, s2)
    BY <1>1, <1>2, <1>10, <2>1, <2>4, WaitKept
  <2> QED
    BY <2>5, <1>1, <1>7
<1>15. RootInv(active', pending', stack')
  BY <1>1 DEF RootInv
<1>16. PendingInv(trigger', pending', stack')
  <2>1. \A x \in F2 : x.op # "process"
    BY <1>1, <1>8, <1>10
  <2> QED
    BY <2>1, <1>1, <1>7, <1>10 DEF PendingInv
<1>17. EnabledInv(active', enabled', listening', Range(stack')) /\ SeenInv(active', seen', Range(stack'))
  <2>1. EnabledInv(active, enabled, listening, B \cup {f}) /\ SeenInv(active, seen, B \cup {f})
    BY <1>2 DEF IndInv
  <2>2. Neutral(f)
    BY <1>1 DEF Neutral
  <2>3. EnabledInv(active, enabled, listening, F2) /\ SeenInv(active, seen, F2)
    BY <2>1, <2>2, <1>6, <1>8, <1>10, NeutralKept
  <2> QED
    BY <2>3, <1>1, <1>10
<1> QED
  BY <1>11, <1>12, <1>13, <1>14, <1>15, <1>16, <1>17 DEF IndInv

\* The forms in which it is used: a call goes on, and it calls another.
LEMMA WaitSwaps ==
  ASSUME NEW a, NEW p, NEW a2, NEW p2, NEW b \in Seq(Frames), NEW f \in Frames, NEW h \in Frames,
         WaitInv(a, p, Append(b, f)), a2 \subseteq a, ~Waits(h),
         LastWait(b) /\ p = <<>> /\ f.op \in {"start", "post"} => p2 = <<>> /\ h.op \in {"start", "post"}
  PROVE  WaitInv(a2, p2, Append(b, h))
<1> DEFINE s2 == Append(b, h)
<1>1. /\ s2 \in Seq(Frames) /\ Len(s2) = Len(b) + 1 /\ Len(b) \in Nat
      /\ \A k \in 1 .. Len(b) : s2[k] = b[k]
      /\ s2[Len(b) + 1] = h
  BY AppendIs
<1>2. Range(s2) = Range(b) \cup {h}
  BY RangeAppend
<1> HIDE DEF s2
<1>3. Len(b) <= Len(s2) /\ Len(s2) <= Len(b) + 2 /\ ~Waits(s2[Len(b) + 1])
  BY <1>1
<1>4. LastWait(b) /\ p = <<>> /\ f.op \in {"start", "post"} =>
        p2 = <<>> /\ \A x \in Range(s2) : x \in Range(b) \/ x.op \in {"start", "post"}
  BY <1>2
<1>5. WaitInv(a2, p2, s2)
  BY <1>1, <1>3, <1>4, WaitKept
<1> QED
  BY <1>5 DEF s2

LEMMA WaitPushes ==
  ASSUME NEW a, NEW p, NEW a2, NEW p2, NEW b \in Seq(Frames), NEW f \in Frames, NEW h \in Frames, NEW g \in Frames,
         WaitInv(a, p, Append(b, f)), ~Waits(h),
         \/ a2 \subseteq a
         \/ \A k \in 1 .. Len(b) : AllWait(b, k) =>
              (k > Len(First) => a2 = {}) /\ (k = Len(First) => a2 \subseteq {"root"}),
         LastWait(b) /\ p = <<>> /\ f.op \in {"start", "post"} => p2 = <<>> /\ h.op \in {"start", "post"} /\ g.op \in {"start", "post"}
  PROVE  WaitInv(a2, p2, Append(Append(b, h), g))
<1> DEFINE s1 == Append(b, h)
           s2 == Append(s1, g)
<1>1. /\ s1 \in Seq(Frames) /\ Len(s1) = Len(b) + 1 /\ Len(b) \in Nat
      /\ \A k \in 1 .. Len(b) : s1[k] = b[k]
      /\ s1[Len(b) + 1] = h
  BY AppendIs
<1>2. Range(s1) = Range(b) \cup {h}
  BY RangeAppend
<1> HIDE DEF s1
<1>3. /\ s2 \in Seq(Frames) /\ Len(s2) = Len(s1) + 1
      /\ \A k \in 1 .. Len(s1) : s2[k] = s1[k]
      /\ Range(s2) = Range(s1) \cup {g}
  BY <1>1, AppendIs, RangeAppend
<1> HIDE DEF s2
<1>4. Len(b) <= Len(s2) /\ Len(s2) <= Len(b) + 2 /\ ~Waits(s2[Len(b) + 1]) /\ \A k \in 1 .. Len(b) : s2[k] = b[k]
  <2>1. \A k \in 1 .. Len(b) : k \in 1 .. Len(s1)
    BY <1>1
  <2>2. Len(b) + 1 \in 1 .. Len(s1)
    BY <1>1
  <2> QED
    BY <2>1, <2>2, <1>1, <1>3
<1>5. LastWait(b) /\ p = <<>> /\ f.op \in {"start", "post"} =>
        p2 = <<>> /\ \A x \in Range(s2) : x \in Range(b) \/ x.op \in {"start", "post"}
  BY <1>2, <1>3
<1>6. WaitInv(a2, p2, s2)
  BY <1>3, <1>4, <1>5, WaitKept
<1> QED
  BY <1>6 DEF s2, s1

\* The listener that is called next, and one that has been removed meanwhile
LEMMA CallKeeps ==
  ASSUME WellMade, IndInv, Deliver, Head(pending).to # "root", Head(pending).to \in Range(listening)
  PROVE  IndInv'
<1> DEFINE b == Below
           f == Top
           F == Range(stack)
           B == Range(b)
           t == Head(pending).to
           e == Head(pending).of
           g == Frame("process", t, e)
           s2 == Append(stack, g)
           F2 == F \cup {g}
<1>1. /\ Runs("post", "deliver") /\ ~AtRest /\ f.op = "post" /\ pending # <<>> /\ stack' = s2 /\ pending' = Tail(pending)
      /\ UNCHANGED <<trigger, active, enabled, listening, completions, seen>>
  BY DEF Deliver, Runs
<1>2. /\ b \in Seq(Frames) /\ f \in Frames /\ stack = Append(b, f) /\ F = B \cup {f}
      /\ StackInv(trigger, b) /\ Fits(trigger, b, f)
      /\ \A x \in F : x \in Frames /\ Knows(active, enabled, F, x)
  BY <1>1, NowIs
<1>3. pending \in Seq(Owed) /\ stack \in Seq(Frames) /\ Range(listening) \subseteq Transitions
  BY RangeIs, ElementOfSeq DEF IndInv, Typed
<1>4. /\ Head(pending) \in Range(pending) /\ Head(pending) \in Owed
      /\ Tail(pending) \in Seq(Owed) /\ Len(Tail(pending)) = Len(pending) - 1 /\ Len(pending) \in Nat
      /\ Range(Tail(pending)) \subseteq Range(pending)
  BY <1>1, <1>3, TailIs
<1>5. ~Posts(f, Quiet) /\ HearsIn(trigger, t, e) /\ \A q \in Range(pending) : OwedInv(trigger, pending, stack, q)
  BY <1>1, <1>4 DEF IndInv, PendingInv, OwedInv, Top
<1>6. t \in Transitions /\ e \in Events
  BY <1>3, <1>4 DEF Owed
<1>7. \A x \in B : Over(trigger, x, g)
  BY <1>1, <1>6, HeardFits
<1>8. g \in Frames /\ g.op = "process" /\ g.of = t /\ g.at = e
  BY <1>6, FrameIs, NewFrames
<1> HIDE DEF b, f, g, t, e
<1>10. s2 \in Seq(Frames) /\ Range(s2) = F2 /\ Len(s2) = Len(stack) + 1 /\ s2[Len(stack) + 1] = g /\ s2 # <<>>
  BY <1>3, <1>8, AppendIs, RangeAppend
<1>11. Typed'
  BY <1>1, <1>4, <1>10 DEF IndInv, Typed
<1>12. StackInv(trigger', stack')
  <2>1. StackInv(trigger, Append(b, f))
    BY <1>2 DEF IndInv
  <2>2. Over(trigger, f, g)
    BY <1>1, <1>8 DEF Over, Waits, Started, Stops
  <2>3. OnTop(f, g)
    BY <1>1, <1>5, <1>8 DEF OnTop
  <2>4. StackInv(trigger, Append(Append(b, f), g))
    BY <2>1, <2>2, <2>3, <1>2, <1>7, <1>8, StackPushes
  <2> QED
    BY <2>4, <1>1, <1>2
<1>13. KnowInv(active', enabled', Range(stack'))
  <2>1. \A n : Stopping(F, n) => Stopping(F2, n)
    BY DEF Stopping
  <2>2. \A x \in F : Knows(active, enabled, F2, x)
    BY <2>1, <1>2, KnowsKept
  <2>3. Knows(active, enabled, F2, g)
    BY <1>8 DEF Knows, Waits, Started, Moving, Stops
  <2> QED
    BY <2>2, <2>3, <1>1, <1>10 DEF KnowInv
<1>14. WaitInv(active', pending', stack')
  <2>1. WaitInv(active, pending, Append(b, f))
    BY <1>2 DEF IndInv
  <2>2. ~Waits(f)
    BY <1>1 DEF Waits
  <2>3. WaitInv(active, Tail(pending), Append(Append(b, f), g))
    BY <1>1, <1>2, <1>8, <2>1, <2>2, WaitPushes
  <2> QED
    BY <2>3, <1>1, <1>2
<1>15. RootInv(active', pending', stack')
  <2>1. "root" \in active
    BY <1>3, <1>4, <1>6, ShapeIs DEF IndInv, RootInv, t
  <2> QED
    BY <2>1, <1>1 DEF RootInv
<1>16. PendingInv(trigger', pending', stack')
  <2>1. \A x \in F2 : x.op = "process" => HearsIn(trigger, x.of, x.at)
    BY <1>5, <1>8 DEF IndInv, PendingInv
  <2>2. TakesPending(g) /\ ~Posts(g, Quiet)
    BY <1>8 DEF TakesPending, Posts
  <2>3. ASSUME NEW q \in Range(Tail(pending)) PROVE OwedInv(trigger, Tail(pending), s2, q)
    <3>1. OwedInv(trigger, pending, stack, q)
      BY <2>3, <1>4, <1>5
    <3>2. q.to # "root"
      <4> SUFFICES ASSUME Len(pending) = 1 PROVE FALSE
        BY <3>1 DEF OwedInv
      <4>1. Len(Tail(pending)) = 0
        BY <1>4
      <4>2. Range(Tail(pending)) = {}
        BY <4>1, <1>4, EmptySeq, EmptyRange
      <4> QED
        BY <4>2, <2>3
    <3>3. g.op \notin {"start", "stop"} /\ ~Stops(g, "root")
      BY <1>8 DEF Stops
    <3> QED
      BY <3>1, <3>2, <3>3, <1>10 DEF OwedInv
  <2> QED
    BY <2>1, <2>2, <2>3, <1>1, <1>10 DEF PendingInv
<1>17. EnabledInv(active', enabled', listening', Range(stack')) /\ SeenInv(active', seen', Range(stack'))
  <2>1. EnabledInv(active, enabled, listening, B \cup {f}) /\ SeenInv(active, seen, B \cup {f})
    BY <1>2 DEF IndInv
  <2>2. Neutral(f) /\ Neutral(g)
    BY <1>1, <1>8 DEF Neutral
  <2>3. B \subseteq F2 /\ \A x \in F2 : x \in B \/ Neutral(x)
    BY <2>2, <1>2
  <2>4. EnabledInv(active, enabled, listening, F2) /\ SeenInv(active, seen, F2)
    BY <2>1, <2>2, <2>3, NeutralKept
  <2> QED
    BY <2>4, <1>1, <1>10
<1> QED
  BY <1>11, <1>12, <1>13, <1>14, <1>15, <1>16, <1>17 DEF IndInv

LEMMA SkipKeeps ==
  ASSUME WellMade, IndInv, Deliver, stack' = stack
  PROVE  IndInv'
<1> DEFINE f == Top
<1>1. /\ ~AtRest /\ f.op = "post" /\ pending # <<>> /\ pending' = Tail(pending) /\ completions' = completions
      /\ UNCHANGED <<trigger, active, enabled, listening, seen>>
  BY DEF Deliver, Runs
<1>2. pending \in Seq(Owed) /\ stack \in Seq(Frames) /\ stack # <<>>
  BY <1>1 DEF IndInv, Typed, AtRest
<1>3. /\ Tail(pending) \in Seq(Owed) /\ Len(Tail(pending)) = Len(pending) - 1 /\ Len(pending) \in Nat
      /\ Range(Tail(pending)) \subseteq Range(pending)
  BY <1>1, <1>2, TailIs
<1>4. Typed'
  BY <1>1, <1>3 DEF IndInv, Typed
<1>5. WaitInv(active', pending', stack')
  BY <1>1 DEF IndInv, WaitInv
<1>6. RootInv(active', pending', stack')
  BY <1>1, <1>3 DEF IndInv, RootInv
<1>7. PendingInv(trigger', pending', stack')
  <2>1. ASSUME NEW q \in Range(Tail(pending)) PROVE OwedInv(trigger, Tail(pending), stack, q)
    <3>1. OwedInv(trigger, pending, stack, q)
      BY <2>1, <1>3 DEF IndInv, PendingInv
    <3>2. q.to # "root"
      <4> SUFFICES ASSUME Len(pending) = 1 PROVE FALSE
        BY <3>1 DEF OwedInv
      <4>1. Len(Tail(pending)) = 0
        BY <1>3
      <4>2. Range(Tail(pending)) = {}
        BY <4>1, <1>3, EmptySeq, EmptyRange
      <4> QED
        BY <4>2, <2>1
    <3> QED
      BY <3>1, <3>2 DEF OwedInv
  <2>2. /\ stack # <<>> /\ TakesPending(stack[Len(stack)]) /\ ~Posts(stack[Len(stack)], Quiet)
        /\ \A x \in Range(stack) : x.op = "process" => HearsIn(trigger, x.of, x.at)
    BY <1>1, <1>2 DEF IndInv, PendingInv
  <2> QED
    BY <2>1, <2>2, <1>1 DEF PendingInv
<1> QED
  BY <1>1, <1>4, <1>5, <1>6, <1>7 DEF IndInv

LEMMA DeliverKeeps ==
  ASSUME WellMade, IndInv, Deliver
  PROVE  IndInv'
<1> DEFINE to == Head(pending).to
<1>1. CASE to = "root" /\ "root" \in active
  BY <1>1, StopRootKeeps
<1>2. CASE to # "root" /\ to \in Range(listening)
  BY <1>2, CallKeeps
<1>3. CASE (to = "root" /\ "root" \notin active) \/ (to # "root" /\ to \notin Range(listening))
  <2>1. stack' = stack
    BY <1>3 DEF Deliver
  <2> QED
    BY <2>1, SkipKeeps
<1> QED
  BY <1>1, <1>2, <1>3

-----------------------------------------------------------------------------
(* Events that are posted *)

\* An event of whom the call on top is about is late enough for the root's stop below it.
LEMMA LateIs ==
  ASSUME WellMade, NEW w \in Wirings, NEW x \in Frames, NEW f \in Frames, NEW e, Over(w, x, f),
         Stops(x, "root"), x.at = "subnodes",
         \/ f.op \in {"start", "stop"} /\ About(e) = {f.of}
         \/ f.op = "fire" /\ About(e) = Range(Sources[f.of])
  PROVE  LateEvent(x.i, e)
<1>1. Late(x.i, f) /\ x.op = "stop"
  BY DEF Over, Stops
<1>2. x.i \in Nat /\ (f.op = "fire" => f.of \in Transitions)
  BY FramesAre
<1>3. From(x.i) \subseteq From(x.i - 1)
  BY <1>2, FromIs
<1>4. CASE f.op \in {"start", "stop"} /\ About(e) = {f.of}
  BY <1>1, <1>3, <1>4 DEF Late, LateEvent
<1>5. CASE f.op = "fire" /\ About(e) = Range(Sources[f.of])
  <2>1. IsReaction(w[f.of]) /\ Range(Sources[f.of]) \subseteq From(x.i)
    BY <1>1, <1>5 DEF Over, Acts, Late
  <2>2. PICK n : Range(Sources[f.of]) = {n}
    BY <2>1, <1>2, <1>5, ReactionIs
  <2> QED
    BY <2>1, <2>2, <1>3, <1>5 DEF LateEvent
<1> QED
  BY <1>4, <1>5

\* A post may be over anything that lets it.
LEMMA PostFits ==
  ASSUME NEW w, NEW b \in Seq(Frames), NEW h \in Frames, NEW e \in Events, StackInv(w, Append(b, h)),
         \A x \in Range(b) \cup {h} : Stops(x, "root") /\ x.at = "subnodes" => LateEvent(x.i, e),
         OnTop(h, Frame("post", e, "deliver"))
  PROVE  StackInv(w, Append(Append(b, h), Frame("post", e, "deliver")))
<1> DEFINE g == Frame("post", e, "deliver")
<1>1. g \in Frames /\ g.op = "post" /\ g.of = e
  BY NewFrames, FrameIs
<1> HIDE DEF g
<1>2. \A x \in Range(b) \cup {h} : Over(w, x, g)
  BY <1>1 DEF Over, Acts, Stops, Late
<1>3. StackInv(w, Append(Append(b, h), g))
  BY <1>1, <1>2, StackPushes DEF g
<1> QED
  BY <1>3 DEF g

\* What is owed when the machine posts an event of its own
LEMMA PostedPending ==
  ASSUME WellMade, IndInv, NEW e \in Events, OfMachine(e), NEW s2 \in Seq(Frames), s2 # <<>>,
         s2[Len(s2)] = Frame("post", e, "deliver"),
         Range(listening) = {} \/ \A x \in Range(s2) : Stops(x, "root") => x.at = "subnodes" /\ LateEvent(x.i, e),
         \A x \in Range(s2) : x.op = "process" => x \in Range(stack),
         \/ pending = <<>>
         \/ Len(stack) # 1 /\ \A x \in Range(s2) : x.op \in {"start", "stop"} => x \in Range(stack)
  PROVE  /\ PendingInv(trigger, pending \o Deliveries(e), s2)
         /\ pending \o Deliveries(e) \in Seq(Owed)
         /\ Range(listening) = {} /\ pending = <<>> => pending \o Deliveries(e) = <<>>
<1> DEFINE p == pending
           r == Deliveries(e)
           p2 == p \o r
<1>1. /\ p \in Seq(Owed) /\ Typed
  BY DEF IndInv, Typed
<1>2. e # StopOn
  BY DEF WellMade, StopIsForRoot
<1>3. /\ r \in Seq(Owed)
      /\ \A q \in Range(r) : q.of = e /\ q.to # "root" /\ q.to \in Range(listening) /\ HearsIn(trigger, q.to, e)
      /\ Range(listening) = {} => r = <<>>
  BY <1>1, <1>2, DeliveriesAre
<1> HIDE DEF p, r
<1>4. /\ p2 \in Seq(Owed) /\ (\A q \in Range(p2) : q \in Range(p) \/ q \in Range(r))
      /\ p = <<>> => p2 = r
  BY <1>1, <1>3, ConcatIs
<1>5. \A q \in Range(p) : OwedInv(trigger, p, stack, q)
  BY DEF IndInv, PendingInv, p
<1>6. p = <<>> => Range(p) = {}
  BY <1>1, EmptyRange
<1> HIDE DEF p2
<1>7. ASSUME NEW q \in Range(p) PROVE OwedInv(trigger, p2, s2, q)
  <2>1. p # <<>>
    BY <1>6, <1>7
  <2>2. Len(stack) # 1 /\ \A x \in Range(s2) : x.op \in {"start", "stop"} => x \in Range(stack)
    BY <2>1 DEF p
  <2>3. OwedInv(trigger, p, stack, q)
    BY <1>5, <1>7
  <2>4. \A x \in Range(s2) : Stops(x, "root") => x.op = "stop"
    BY DEF Stops
  <2> QED
    BY <2>2, <2>3, <2>4 DEF OwedInv
<1>8. ASSUME NEW q \in Range(r) PROVE OwedInv(trigger, p2, s2, q)
  <2>1. q.of = e /\ q.to # "root" /\ HearsIn(trigger, q.to, e) /\ Range(listening) # {}
    BY <1>3, <1>8
  <2> QED
    BY <2>1 DEF OwedInv
<1>9. TakesPending(s2[Len(s2)]) /\ ~Posts(s2[Len(s2)], Quiet)
  <2>1. e # Quiet
    BY MachineEvents
  <2> QED
    BY <2>1, FrameIs DEF TakesPending, Posts
<1>10. \A x \in Range(s2) : x.op = "process" => HearsIn(trigger, x.of, x.at)
  BY DEF IndInv, PendingInv
<1>11. PendingInv(trigger, p2, s2)
  BY <1>4, <1>7, <1>8, <1>9, <1>10 DEF PendingInv
<1> QED
  BY <1>3, <1>4, <1>11 DEF p2, p, r

LEMMA EmptyPending ==
  ASSUME NEW w, NEW s2, \A x \in Range(s2) : x.op = "process" => HearsIn(w, x.of, x.at)
  PROVE  PendingInv(w, <<>>, s2)
<1>1. Range(<<>>) = {}
  BY EmptyRange, EmptySeq
<1> QED
  BY <1>1 DEF PendingInv

\* Only the frames at the end of a stop count.
LEMMA SeenKept ==
  ASSUME NEW a, NEW se, NEW B, NEW f, NEW F2, B \subseteq F2, SeenInv(a, se, B \cup {f}),
         \A g \in F2 \cup {f} : g \in B \/ g.op # "stop" \/ g.at # "end"
  PROVE  SeenInv(a, se, F2)
<1>1. \A n : (\E g \in B \cup {f} : Stops(g, n) /\ g.at = "end") <=> (\E g \in F2 : Stops(g, n) /\ g.at = "end")
  BY DEF Stops
<1> QED
  BY <1>1 DEF SeenInv

\* Where only a post or a waiting start may be on top, the root is active.
LEMMA RootIs ==
  ASSUME IndInv, ~AtRest, Top.op # "post", ~Waits(Top)
  PROVE  "root" \in active
<1>1. Top \in Range(stack)
  BY NowIs
<1> QED
  BY <1>1 DEF IndInv, RootInv

LEMMA NonePending ==
  ASSUME IndInv, ~AtRest, ~TakesPending(Top)
  PROVE  pending = <<>>
  BY DEF IndInv, PendingInv, Top

-----------------------------------------------------------------------------
(* Transitions *)

LEMMA ProcessEventKeeps ==
  ASSUME WellMade, IndInv, ProcessEvent
  PROVE  IndInv'
<1> DEFINE b == Below
           f == Top
           F == Range(stack)
           B == Range(b)
           t == Top.of
           h == Frame("fire", t, "announce")
           done == IF trigger[t] = "completion" THEN completions[t] \cup {Top.at[2]} ELSE {}
<1>1. /\ ~AtRest /\ f.op = "process" /\ completions' = [completions EXCEPT ![t] = done]
      /\ stack' = b \/ stack' = Append(b, h)
      /\ UNCHANGED <<trigger, active, enabled, listening, pending, seen>>
  BY DEF ProcessEvent
<1>2. /\ b \in Seq(Frames) /\ f \in Frames /\ stack = Append(b, f) /\ F = B \cup {f}
      /\ StackInv(trigger, b) /\ Fits(trigger, b, f)
      /\ \A x \in F : x \in Frames /\ Knows(active, enabled, F, x)
  BY <1>1, NowIs
<1>3. t \in Transitions /\ h \in Frames /\ h.op = "fire" /\ h.of = t /\ h.at = "announce" /\ h.i = 1
  BY <1>1, <1>2, FramesAre, NewFrames, FrameIs
<1>4. HearsIn(trigger, t, f.at)
  BY <1>1, <1>2 DEF IndInv, PendingInv
<1>5. b # <<>> /\ b[Len(b)].op = "post" /\ ~Posts(b[Len(b)], Quiet)
  BY <1>1, <1>2 DEF Fits, OnTop
<1>6. Len(b) \in Nat \ {0} /\ Len(stack) = Len(b) + 1 /\ Len(stack) # 1
  BY <1>2, <1>5, AppendIs, EmptySeq, LenProperties
<1>7. completions' \in [Transitions -> SUBSET Range(Nodes)]
  <2>1. completions \in [Transitions -> SUBSET Range(Nodes)]
    BY DEF IndInv, Typed
  <2>2. trigger[t] = "completion" => f.at[2] \in Range(Nodes)
    BY <1>3, <1>4, ShapeIs DEF HearsIn
  <2>3. done \in SUBSET Range(Nodes)
    BY <2>1, <2>2, <1>3
  <2> HIDE DEF done
  <2> QED
    BY <2>1, <2>3, <1>1
<1>8. "root" \in active
  BY <1>1, RootIs DEF Waits
<1> HIDE DEF b, f, h, t, done
<1>9. /\ stack' \in Seq(Frames) /\ stack' # <<>>
      /\ Range(stack') = B \/ Range(stack') = B \cup {h}
      /\ stack'[Len(stack')] = b[Len(b)] \/ stack'[Len(stack')] = h
  <2>1. CASE stack' = b
    BY <2>1, <1>2, <1>5
  <2>2. CASE stack' = Append(b, h)
    BY <2>2, <1>2, <1>3, AppendIs, RangeAppend
  <2> QED
    BY <1>1, <2>1, <2>2
<1>10. B \subseteq Range(stack') /\ \A x \in Range(stack') : x \in B \/ x = h
  BY <1>9
<1>11. Typed'
  BY <1>1, <1>7, <1>9 DEF IndInv, Typed
<1>12. StackInv(trigger', stack')
  <2>1. StackInv(trigger, Append(b, f))
    BY <1>2 DEF IndInv
  <2>2. h.of = f.of
    BY <1>3 DEF t, f
  <2>3. StackInv(trigger, Append(b, h))
    BY <2>1, <2>2, <1>1, <1>2, <1>3, StackSwaps
  <2> QED
    BY <2>3, <1>1, <1>2
<1>13. KnowInv(active', enabled', Range(stack'))
  <2>1. \A n : Stopping(F, n) => Stopping(Range(stack'), n)
    BY <1>1, <1>2, <1>10 DEF Stopping, Stops
  <2>2. \A x \in B : Knows(active, enabled, Range(stack'), x)
    BY <2>1, <1>2, KnowsKept
  <2>3. Knows(active, enabled, Range(stack'), h)
    BY <1>3 DEF Knows, Waits, Started, Moving, Stops
  <2> QED
    BY <2>2, <2>3, <1>1, <1>10 DEF KnowInv
<1>14. WaitInv(active', pending', stack')
  <2>1. WaitInv(active, pending, Append(b, f))
    BY <1>2 DEF IndInv
  <2>2. CASE stack' = b
    <3>1. Len(b) \in Nat /\ Len(b) <= Len(b) /\ Len(b) <= Len(b) + 2 /\ ~(Len(b) + 1 <= Len(b))
      BY <1>6
    <3>2. WaitInv(active, pending, b)
      BY <1>1, <1>2, <2>1, <3>1, WaitKept
    <3> QED
      BY <3>2, <2>2, <1>1
  <2>3. CASE stack' = Append(b, h)
    <3>1. ~Waits(h)
      BY <1>3 DEF Waits
    <3>2. WaitInv(active, pending, Append(b, h))
      BY <1>1, <1>2, <1>3, <2>1, <3>1, WaitSwaps
    <3> QED
      BY <3>2, <2>3, <1>1
  <2> QED
    BY <1>1, <2>2, <2>3
<1>15. RootInv(active', pending', stack')
  BY <1>1, <1>8 DEF RootInv
<1>16. PendingInv(trigger', pending', stack')
  <2>1. \A x \in Range(stack') : x.op = "process" => HearsIn(trigger, x.of, x.at)
    BY <1>2, <1>3, <1>10 DEF IndInv, PendingInv
  <2>2. TakesPending(stack'[Len(stack')]) /\ ~Posts(stack'[Len(stack')], Quiet)
    BY <1>3, <1>5, <1>9 DEF TakesPending, Posts, Moving
  <2>3. ASSUME NEW q \in Range(pending) PROVE OwedInv(trigger, pending, stack', q)
    <3>1. OwedInv(trigger, pending, stack, q)
      BY <2>3 DEF IndInv, PendingInv
    <3>2. \A x \in Range(stack') : x \in F \/ x = h
      BY <1>2, <1>10
    <3>3. h.op \notin {"start", "stop"} /\ ~Stops(h, "root")
      BY <1>3 DEF Stops
    <3> QED
      BY <3>1, <3>2, <3>3, <1>6 DEF OwedInv
  <2> QED
    BY <2>1, <2>2, <2>3, <1>1, <1>9 DEF PendingInv
<1>17. EnabledInv(active', enabled', listening', Range(stack')) /\ SeenInv(active', seen', Range(stack'))
  <2>1. EnabledInv(active, enabled, listening, B \cup {f}) /\ SeenInv(active, seen, B \cup {f})
    BY <1>2 DEF IndInv
  <2>2. Neutral(f) /\ Neutral(h)
    BY <1>1, <1>3 DEF Neutral
  <2>3. EnabledInv(active, enabled, listening, Range(stack')) /\ SeenInv(active, seen, Range(stack'))
    BY <2>1, <2>2, <1>10, NeutralKept
  <2> QED
    BY <2>3, <1>1
<1> QED
  BY <1>11, <1>12, <1>13, <1>14, <1>15, <1>16, <1>17 DEF IndInv

LEMMA MovedIs ==
  ASSUME NEW at, NEW i
  PROVE  Moved(at, i) = To(Top, at, i)
  BY DEF Moved, To

LEMMA FireAnnounceKeeps ==
  ASSUME WellMade, IndInv, FireAnnounce
  PROVE  IndInv'
<1> DEFINE b == Below
           f == Top
           F == Range(stack)
           B == Range(b)
           t == Top.of
           e == Event("firing", t)
           h == To(Top, "sources", 1)
           g == Frame("post", e, "deliver")
           s2 == Append(Append(b, h), g)
           F2 == B \cup {h, g}
<1>1. /\ ~AtRest /\ f.op = "fire" /\ f.at = "announce"
      /\ stack' = s2 /\ pending' = pending \o Deliveries(e)
      /\ UNCHANGED <<trigger, active, enabled, listening, completions, seen>>
  BY MovedIs DEF FireAnnounce, Runs, Post
<1>2. /\ b \in Seq(Frames) /\ f \in Frames /\ stack = Append(b, f) /\ F = B \cup {f}
      /\ StackInv(trigger, b) /\ Fits(trigger, b, f)
      /\ \A x \in B : x \in Frames /\ Over(trigger, x, f) /\ Suspended(F, f, x)
      /\ \A x \in F : x \in Frames /\ Knows(active, enabled, F, x)
  BY <1>1, NowIs
<1>3. /\ t \in Transitions /\ h \in Frames /\ h.op = "fire" /\ h.of = t /\ h.at = "sources" /\ h.i = 1
      /\ e \in Events /\ g \in Frames /\ g.op = "post" /\ g.of = e /\ g.at = "deliver"
  <2>1. t \in Transitions
    BY <1>1, <1>2, FramesAre
  <2>2. h \in Frames /\ h.op = "fire" /\ h.of = t /\ h.at = "sources" /\ h.i = 1
    BY <1>1, <1>2, ToIs
  <2>3. e \in Events
    BY <2>1, EventsAre
  <2> QED
    BY <2>1, <2>2, <2>3, NewFrames, FrameIs
<1>4. OfMachine(e) /\ About(e) = Range(Sources[t]) /\ e # Quiet
  BY MachineEvents
<1>5. "root" \in active
  BY <1>1, RootIs DEF Waits
<1>6. trigger \in Wirings
  BY DEF IndInv, Typed
<1>7. b # <<>> /\ Len(stack) # 1
  <2>1. b # <<>>
    BY <1>1, <1>2 DEF Fits
  <2>2. Len(b) \in Nat \ {0} /\ Len(stack) = Len(b) + 1
    BY <2>1, <1>2, AppendIs, EmptySeq, LenProperties
  <2> QED
    BY <2>1, <2>2
<1>8. t = f.of
  OBVIOUS
<1> HIDE DEF b, f, h, t, e, g
<1>9. /\ s2 \in Seq(Frames) /\ s2 # <<>> /\ Range(s2) = F2 /\ s2[Len(s2)] = g
  <2>1. Append(b, h) \in Seq(Frames) /\ Range(Append(b, h)) = B \cup {h}
    BY <1>2, <1>3, AppendIs, RangeAppend
  <2>2. s2 \in Seq(Frames) /\ s2 # <<>> /\ Len(s2) = Len(Append(b, h)) + 1 /\ s2[Len(Append(b, h)) + 1] = g
    BY <2>1, <1>3, AppendIs
  <2>3. Range(s2) = B \cup {h} \cup {g}
    <3> DEFINE s1 == Append(b, h)
    <3> HIDE DEF s1
    <3>1. s1 \in Seq(Frames) /\ Range(s1) = B \cup {h}
      BY <2>1 DEF s1
    <3>2. Range(Append(s1, g)) = Range(s1) \cup {g}
      BY <3>1, <1>3, RangeAppend
    <3> QED
      BY <3>1, <3>2 DEF s1
  <2> QED
    BY <2>2, <2>3
<1>10. StackInv(trigger, Append(b, h))
  <2>1. StackInv(trigger, Append(b, f))
    BY <1>2 DEF IndInv
  <2> QED
    BY <2>1, <1>1, <1>2, <1>3, <1>8, StackSwaps
<1>11. \A x \in B \cup {h} : Stops(x, "root") => x.at = "subnodes" /\ LateEvent(x.i, e)
  <2> SUFFICES ASSUME NEW x \in B, Stops(x, "root") PROVE x.at = "subnodes" /\ LateEvent(x.i, e)
    BY <1>3 DEF Stops
  <2>1. x.at = "end" => f.op = "post"
    BY <1>2 DEF Over
  <2>2. x.at = "subnodes"
    BY <2>1, <1>1, <1>2 DEF Suspended, Stops, Posts
  <2>3. LateEvent(x.i, e)
    BY <2>2, <1>1, <1>2, <1>4, <1>6, <1>8, LateIs
  <2> QED
    BY <2>2, <2>3
<1>12. StackInv(trigger', stack')
  <2>1. OnTop(h, g)
    BY <1>3 DEF OnTop, Posts
  <2>2. StackInv(trigger, Append(Append(b, h), Frame("post", e, "deliver")))
    BY <2>1, <1>2, <1>3, <1>10, <1>11, PostFits DEF g
  <2> QED
    BY <2>2, <1>1 DEF g
<1>13. PendingInv(trigger, pending \o Deliveries(e), s2) /\ pending \o Deliveries(e) \in Seq(Owed)
  <2>1. \A x \in Range(s2) : Stops(x, "root") => x.at = "subnodes" /\ LateEvent(x.i, e)
    BY <1>3, <1>9, <1>11 DEF Stops
  <2>2. \A x \in Range(s2) : x.op \in {"process", "start", "stop"} => x \in Range(stack)
    BY <1>2, <1>3, <1>9
  <2>3. s2[Len(s2)] = Frame("post", e, "deliver")
    BY <1>9 DEF g
  <2> HIDE DEF s2
  <2> QED
    BY <2>1, <2>2, <2>3, <1>3, <1>4, <1>7, <1>9, PostedPending
<1>14. Typed'
  BY <1>1, <1>9, <1>13 DEF IndInv, Typed
<1>15. KnowInv(active', enabled', Range(stack'))
  <2>1. \A n : Stopping(F, n) => Stopping(F2, n)
    BY <1>1, <1>2 DEF Stopping, Stops
  <2>2. \A x \in B : Knows(active, enabled, F2, x)
    BY <2>1, <1>2, KnowsKept
  <2>3. Knows(active, enabled, F2, g)
    BY <1>3 DEF Knows, Waits, Started, Moving, Stops
  <2>4. Knows(active, enabled, F2, h)
    <3>1. \A j \in 1 .. Len(Sources[t]) : ~(j < 1)
      BY <1>3, ShapeIs
    <3> QED
      BY <3>1, <1>3 DEF Knows, Waits, Started, Moving, Stops
  <2> QED
    BY <2>2, <2>3, <2>4, <1>1, <1>9 DEF KnowInv
<1>16. WaitInv(active', pending', stack')
  <2>1. WaitInv(active, pending, Append(b, f))
    BY <1>2 DEF IndInv
  <2>2. ~Waits(h)
    BY <1>3 DEF Waits
  <2>3. f.op \notin {"start", "post"}
    BY <1>1
  <2>4. WaitInv(active, pending \o Deliveries(e), s2)
    BY <1>2, <1>3, <2>1, <2>2, <2>3, WaitPushes
  <2> QED
    BY <2>4, <1>1
<1>17. RootInv(active', pending', stack')
  BY <1>1, <1>5 DEF RootInv
<1>18. EnabledInv(active', enabled', listening', Range(stack')) /\ SeenInv(active', seen', Range(stack'))
  <2>1. EnabledInv(active, enabled, listening, B \cup {f}) /\ SeenInv(active, seen, B \cup {f})
    BY <1>2 DEF IndInv
  <2>2. Neutral(f) /\ Neutral(g)
    BY <1>1, <1>3 DEF Neutral
  <2>3. \A x \in F2 : x \in B \/ Neutral(x) \/ (x.op = "fire" /\ x.at = "sources")
    BY <2>2, <1>3
  <2>4. EnabledInv(active, enabled, listening, F2) /\ SeenInv(active, seen, F2)
    BY <2>1, <2>2, <2>3, NeutralKept
  <2> QED
    BY <2>4, <1>1, <1>9
<1> QED
  BY <1>1, <1>12, <1>13, <1>14, <1>15, <1>16, <1>17, <1>18 DEF IndInv

\* A transition stops its sources: the next one is stopped, if it is active.
LEMMA FireSourceKeeps ==
  ASSUME WellMade, IndInv, FireSource
  PROVE  IndInv'
<1> DEFINE b == Below
           f == Top
           F == Range(stack)
           B == Range(b)
           t == Top.of
           i == Top.i
           srcs == Sources[Top.of]
           n == srcs[i]
           h == IF i > Len(srcs) THEN To(Top, "destinations", 1) ELSE To(Top, "sources", i + 1)
           g == Frame("stop", n, "transitions")
           calls == i <= Len(srcs) /\ n \in active
           s1 == Append(b, h)
           s2 == IF calls THEN Append(s1, g) ELSE s1
           F2 == IF calls THEN B \cup {h, g} ELSE B \cup {h}
<1>1. /\ ~AtRest /\ f.op = "fire" /\ f.at = "sources"
      /\ UNCHANGED <<trigger, active, enabled, listening, completions, pending, seen>>
  BY DEF FireSource, Runs
<1>2. /\ b \in Seq(Frames) /\ f \in Frames /\ stack = Append(b, f) /\ F = B \cup {f}
      /\ StackInv(trigger, b) /\ Fits(trigger, b, f)
      /\ \A x \in B : x \in Frames /\ Over(trigger, x, f) /\ Suspended(F, f, x)
      /\ \A x \in F : x \in Frames /\ Knows(active, enabled, F, x)
  BY <1>1, NowIs
<1>3. t \in Transitions /\ i \in Nat \ {0} /\ Len(srcs) \in Nat
  <2>1. t \in Transitions /\ i \in Nat
    BY <1>1, <1>2, FramesAre
  <2>2. i # 0
    BY <1>1, <1>2 DEF Knows
  <2> QED
    BY <2>1, <2>2, ShapeIs
<1>4. stack' = s2
  <2>1. CASE i > Len(srcs)
    <3>1. ~calls
      BY <2>1, <1>3
    <3> QED
      BY <2>1, <3>1, MovedIs DEF FireSource
  <2>2. CASE ~(i > Len(srcs)) /\ n \in active
    <3>1. calls
      BY <2>2, <1>3
    <3> QED
      BY <2>2, <3>1, MovedIs DEF FireSource
  <2>3. CASE ~(i > Len(srcs)) /\ n \notin active
    BY <2>3, MovedIs DEF FireSource
  <2> QED
    BY <2>1, <2>2, <2>3
<1>5. /\ h \in Frames /\ h.op = "fire" /\ h.of = t
      /\ i > Len(srcs) => h.at = "destinations" /\ h.i = 1
      /\ ~(i > Len(srcs)) => h.at = "sources" /\ h.i = i + 1
  BY <1>1, <1>2, <1>3, ToIs
<1>6. calls => /\ n \in Range(srcs) /\ n \in All /\ n # "root" /\ i \in 1 .. Len(srcs)
               /\ g \in Frames /\ g.op = "stop" /\ g.of = n /\ g.at = "transitions" /\ g.i = 1
  <2> SUFFICES ASSUME calls
               PROVE  /\ n \in Range(srcs) /\ n \in All /\ n # "root" /\ i \in 1 .. Len(srcs)
                      /\ g \in Frames /\ g.op = "stop" /\ g.of = n /\ g.at = "transitions" /\ g.i = 1
    OBVIOUS
  <2>1. i \in 1 .. Len(srcs)
    BY <1>3
  <2>2. n \in Range(srcs)
    <3>1. srcs \in Seq(Range(Nodes))
      BY <1>3, ShapeIs
    <3> HIDE DEF srcs
    <3> QED
      BY <2>1, <3>1, RangeIs
  <2>3. n \in Range(Nodes) /\ n # "root"
    BY <2>2, <1>3, ShapeIs
  <2>4. n \in All
    BY <2>3 DEF All
  <2>5. g \in Frames /\ g.op = "stop" /\ g.of = n /\ g.at = "transitions" /\ g.i = 1
    BY <2>4, NewFrames, FrameIs
  <2> QED
    BY <2>1, <2>2, <2>3, <2>4, <2>5
<1>7. "root" \in active /\ pending = <<>>
  BY <1>1, RootIs, NonePending DEF Waits, TakesPending, Moving
<1>8. t = f.of /\ i = f.i /\ srcs = Sources[t] /\ n = srcs[i]
  OBVIOUS
<1> HIDE DEF b, f, h, t, i, g, srcs, n
<1>9. s1 \in Seq(Frames) /\ Range(s1) = B \cup {h}
  BY <1>2, <1>5, AppendIs, RangeAppend
<1>10. s2 \in Seq(Frames) /\ Range(s2) = F2
  <2>1. CASE calls
    <3> HIDE DEF s1
    <3>1. Append(s1, g) \in Seq(Frames) /\ Range(Append(s1, g)) = B \cup {h} \cup {g}
      BY <2>1, <1>6, <1>9, AppendIs, RangeAppend
    <3> QED
      BY <2>1, <3>1
  <2>2. CASE ~calls
    BY <2>2, <1>9
  <2> QED
    BY <2>1, <2>2
<1>11. Typed'
  BY <1>1, <1>4, <1>10 DEF IndInv, Typed
<1>12. StackInv(trigger', stack')
  <2>1. StackInv(trigger, Append(b, f))
    BY <1>2 DEF IndInv
  <2>2. StackInv(trigger, s1)
    BY <2>1, <1>1, <1>2, <1>5, <1>8, StackSwaps
  <2>3. CASE calls
    <3>1. ASSUME NEW x \in B PROVE Over(trigger, x, g)
      <4>1. Over(trigger, x, f) /\ Suspended(F, f, x) /\ x \in Frames
        BY <1>2
      <4>2. x.op = "stop" => x.at # "end" \/ x.of # "root"
        BY <4>1, <1>1 DEF Over, Stops
      <4>3. Started(x) \/ x.op = "stop" => x.of # n
        BY <4>1, <1>1, <1>6, <1>8, <2>3 DEF Over, Acts, Started
      <4>4. ASSUME Stops(x, "root"), x.at = "subnodes" PROVE Late(x.i, g)
        <5>1. Range(srcs) \subseteq From(x.i)
          BY <4>1, <4>4, <1>1, <1>8 DEF Over, Late, Acts
        <5>2. From(x.i) \subseteq From(x.i - 1)
          BY <4>1, FramesAre, FromIs
        <5> QED
          BY <5>1, <5>2, <1>6, <2>3 DEF Late, Acts
      <4> QED
        BY <4>2, <4>3, <4>4, <1>6, <2>3 DEF Over, Acts, Stops
    <3>2. Over(trigger, h, g)
      BY <1>5, <1>6, <2>3 DEF Over, Waits, Started, Stops
    <3>3. OnTop(h, g)
      <4>1. h.at = "sources" /\ h.i - 1 = i
        BY <1>3, <1>5, <1>6, <2>3
      <4> QED
        BY <4>1, <1>5, <1>6, <1>8, <2>3 DEF OnTop, Moving, Posts
    <3>4. StackInv(trigger, Append(Append(b, h), g))
      BY <2>2, <2>3, <3>1, <3>2, <3>3, <1>2, <1>5, <1>6, StackPushes
    <3> QED
      BY <2>3, <3>4, <1>1, <1>4
  <2>4. CASE ~calls
    BY <2>2, <2>4, <1>1, <1>4
  <2> QED
    BY <2>3, <2>4
<1>13. KnowInv(active', enabled', Range(stack'))
  <2>1. \A m : Stopping(F, m) => Stopping(F2, m)
    BY <1>1, <1>2 DEF Stopping, Stops
  <2>2. \A x \in B : Knows(active, enabled, F2, x)
    BY <2>1, <1>2, KnowsKept
  <2>3. calls => Knows(active, enabled, F2, g)
    <3>1. \A j \in 1 .. Len(TransitionsOf(n)) : ~(j < 1)
      BY <1>3, ShapeIs
    <3> QED
      BY <3>1, <1>6 DEF Knows, Waits, Started, Moving, Stops
  <2>4. ASSUME h.at = "sources", NEW j \in 1 .. Len(srcs), j < h.i, srcs[j] \in active PROVE Stopping(F2, srcs[j])
    <3>1. CASE j = i
      <4>1. calls
        BY <3>1, <2>4, <1>8
      <4>2. g \in F2 /\ Stops(g, n)
        BY <4>1, <1>6 DEF Stops
      <4> QED
        BY <4>2, <3>1, <1>8 DEF Stopping
    <3>2. CASE j # i
      <4>1. j < f.i
        BY <3>2, <2>4, <1>3, <1>5, <1>8
      <4>2. Stopping(F, srcs[j])
        BY <4>1, <2>4, <1>1, <1>2, <1>8 DEF Knows, Moving
      <4> QED
        BY <4>2, <2>1
    <3> QED
      BY <3>1, <3>2
  <2>5. h.i # 0
    BY <1>3, <1>5
  <2>6. Knows(active, enabled, F2, h)
    BY <2>4, <2>5, <1>5, <1>8 DEF Knows, Waits, Started, Moving, Stops
  <2> QED
    BY <2>2, <2>3, <2>6, <1>1, <1>4, <1>10 DEF KnowInv
<1>14. WaitInv(active', pending', stack')
  <2>1. WaitInv(active, pending, Append(b, f))
    BY <1>2 DEF IndInv
  <2>2. ~Waits(h)
    BY <1>5 DEF Waits
  <2>3. f.op \notin {"start", "post"}
    BY <1>1
  <2>4. CASE calls
    <3>1. WaitInv(active, pending, Append(Append(b, h), g))
      BY <1>2, <1>5, <1>6, <2>1, <2>2, <2>3, <2>4, WaitPushes
    <3> QED
      BY <3>1, <2>4, <1>1, <1>4
  <2>5. CASE ~calls
    <3>1. WaitInv(active, pending, Append(b, h))
      BY <1>2, <1>5, <2>1, <2>2, <2>3, WaitSwaps
    <3> QED
      BY <3>1, <2>5, <1>1, <1>4
  <2> QED
    BY <2>4, <2>5
<1>15. RootInv(active', pending', stack')
  BY <1>1, <1>7 DEF RootInv
<1>16. PendingInv(trigger', pending', stack')
  <2>1. \A x \in F2 : x.op = "process" => HearsIn(trigger, x.of, x.at)
    BY <1>2, <1>5, <1>6 DEF IndInv, PendingInv
  <2>2. PendingInv(trigger, <<>>, s2)
    BY <2>1, <1>10, EmptyPending
  <2> QED
    BY <2>2, <1>1, <1>4, <1>7
<1>17. EnabledInv(active', enabled', listening', Range(stack'))
  <2>1. EnabledInv(active, enabled, listening, F)
    BY DEF IndInv
  <2>2. \A u \in Transitions : Disabling(F, u) <=> Disabling(F2, u)
    BY <1>1, <1>2, <1>5, <1>6 DEF Disabling, Disables, Moving
  <2>3. ASSUME NEW u \in Transitions, NEW m \in active, m \in Range(Sources[u]), Excused(F, m, u)
        PROVE  Excused(F2, m, u)
    <3>1. PICK y \in F : Enables(y, m, u) \/ Leaves(y, m)
      BY <2>3 DEF Excused
    <3>2. CASE y \in B
      BY <3>1, <3>2 DEF Excused
    <3>3. CASE y = f
      <4>1. PICK j \in 1 .. Len(srcs) : j >= i /\ srcs[j] = m
        BY <3>1, <3>3, <1>1, <1>8 DEF Enables, Leaves, Moving, Stops
      <4>2. ~(i > Len(srcs))
        BY <4>1, <1>3
      <4>3. CASE j = i
        <5>1. calls
          BY <4>1, <4>2, <4>3, <1>3, <1>8
        <5>2. g \in F2 /\ Stops(g, m)
          BY <5>1, <4>1, <4>3, <1>6, <1>8 DEF Stops
        <5> QED
          BY <5>2 DEF Excused, Leaves
      <4>4. CASE j # i
        <5>1. j >= h.i
          BY <4>1, <4>2, <4>4, <1>3, <1>5
        <5>2. Leaves(h, m) /\ h \in F2
          BY <5>1, <4>1, <4>2, <1>5, <1>8 DEF Leaves, Moving
        <5> QED
          BY <5>2 DEF Excused
      <4> QED
        BY <4>3, <4>4
    <3> QED
      BY <3>1, <3>2, <3>3, <1>2
  <2>4. EnabledInv(active, enabled, listening, F2)
    BY <2>1, <2>2, <2>3, EnabledKept
  <2> QED
    BY <2>4, <1>1, <1>4, <1>10
<1>18. SeenInv(active', seen', Range(stack'))
  <2>1. SeenInv(active, seen, B \cup {f})
    BY <1>2 DEF IndInv
  <2>2. \A x \in F2 \cup {f} : x \in B \/ x.op # "stop" \/ x.at # "end"
    BY <1>1, <1>5, <1>6
  <2>3. SeenInv(active, seen, F2)
    BY <2>1, <2>2, SeenKept
  <2> QED
    BY <2>3, <1>1, <1>4, <1>10
<1> QED
  BY <1>11, <1>12, <1>13, <1>14, <1>15, <1>16, <1>17, <1>18 DEF IndInv

\* It has started them all, and says so.
LEMMA FiredKeeps ==
  ASSUME WellMade, IndInv, FireDestination, Top.i > Len(Destinations[Top.of])
  PROVE  IndInv'
<1> DEFINE b == Below
           f == Top
           F == Range(stack)
           B == Range(b)
           t == Top.of
           e == Event("fired", t)
           g == Frame("post", e, "deliver")
           s2 == Append(b, g)
           F2 == B \cup {g}
<1>1. /\ ~AtRest /\ f.op = "fire" /\ f.at = "destinations"
      /\ stack' = s2 /\ pending' = pending \o Deliveries(e)
      /\ UNCHANGED <<trigger, active, enabled, listening, completions, seen>>
  BY DEF FireDestination, Runs, Post
<1>2. /\ b \in Seq(Frames) /\ f \in Frames /\ stack = Append(b, f) /\ F = B \cup {f}
      /\ StackInv(trigger, b) /\ Fits(trigger, b, f)
      /\ \A x \in B : x \in Frames /\ Over(trigger, x, f) /\ Suspended(F, f, x)
      /\ \A x \in F : x \in Frames /\ Knows(active, enabled, F, x)
  BY <1>1, NowIs
<1>3. /\ t \in Transitions
      /\ e \in Events /\ g \in Frames /\ g.op = "post" /\ g.of = e /\ g.at = "deliver"
  <2>1. t \in Transitions
    BY <1>1, <1>2, FramesAre
  <2>2. e \in Events
    BY <2>1, EventsAre
  <2> QED
    BY <2>1, <2>2, NewFrames, FrameIs
<1>4. OfMachine(e) /\ About(e) = Range(Sources[t]) /\ e # Quiet
  BY MachineEvents
<1>5. "root" \in active /\ pending = <<>>
  BY <1>1, RootIs, NonePending DEF Waits, TakesPending, Moving
<1>6. trigger \in Wirings
  BY DEF IndInv, Typed
<1>7. t = f.of
  OBVIOUS
<1> HIDE DEF b, f, t, e, g
<1>8. s2 \in Seq(Frames) /\ s2 # <<>> /\ Range(s2) = F2 /\ s2[Len(s2)] = g
  BY <1>2, <1>3, AppendIs, RangeAppend
<1>9. \A x \in F2 : Stops(x, "root") => x.at = "subnodes" /\ LateEvent(x.i, e)
  <2> SUFFICES ASSUME NEW x \in B, Stops(x, "root") PROVE x.at = "subnodes" /\ LateEvent(x.i, e)
    BY <1>3 DEF Stops
  <2>1. x.at = "end" => f.op = "post"
    BY <1>2 DEF Over
  <2>2. x.at = "subnodes"
    BY <2>1, <1>1, <1>2 DEF Suspended, Stops, Posts
  <2>3. LateEvent(x.i, e)
    BY <2>2, <1>1, <1>2, <1>4, <1>6, <1>7, LateIs
  <2> QED
    BY <2>2, <2>3
<1>10. StackInv(trigger', stack')
  <2>1. \A x \in B : Over(trigger, x, g)
    BY <1>3, <1>9 DEF Over, Acts, Stops, Late
  <2>2. b # <<>> /\ OnTop(b[Len(b)], f)
    BY <1>1, <1>2 DEF Fits
  <2>3. OnTop(b[Len(b)], g)
    BY <2>2, <1>1, <1>3 DEF OnTop, Posts
  <2>4. StackInv(trigger, s2)
    BY <2>1, <2>2, <2>3, <1>2, <1>3, StackIs DEF Fits
  <2> QED
    BY <2>4, <1>1
<1>11. PendingInv(trigger, pending \o Deliveries(e), s2) /\ pending \o Deliveries(e) \in Seq(Owed)
  <2>1. \A x \in Range(s2) : Stops(x, "root") => x.at = "subnodes" /\ LateEvent(x.i, e)
    BY <1>8, <1>9
  <2>2. \A x \in Range(s2) : x.op = "process" => x \in Range(stack)
    BY <1>2, <1>3, <1>8
  <2>3. s2[Len(s2)] = Frame("post", e, "deliver")
    BY <1>8 DEF g
  <2> HIDE DEF s2
  <2> QED
    BY <2>1, <2>2, <2>3, <1>3, <1>4, <1>5, <1>8, PostedPending
<1>12. Typed'
  BY <1>1, <1>8, <1>11 DEF IndInv, Typed
<1>13. KnowInv(active', enabled', Range(stack'))
  <2>1. \A n : Stopping(F, n) => Stopping(F2, n)
    BY <1>1, <1>2 DEF Stopping, Stops
  <2>2. \A x \in B : Knows(active, enabled, F2, x)
    BY <2>1, <1>2, KnowsKept
  <2>3. Knows(active, enabled, F2, g)
    BY <1>3 DEF Knows, Waits, Started, Moving, Stops
  <2> QED
    BY <2>2, <2>3, <1>1, <1>8 DEF KnowInv
<1>14. WaitInv(active', pending', stack')
  <2>1. WaitInv(active, pending, Append(b, f))
    BY <1>2 DEF IndInv
  <2>2. ~Waits(g) /\ f.op \notin {"start", "post"}
    BY <1>1, <1>3 DEF Waits
  <2>3. WaitInv(active, pending \o Deliveries(e), s2)
    BY <1>2, <1>3, <2>1, <2>2, WaitSwaps
  <2> QED
    BY <2>3, <1>1
<1>15. RootInv(active', pending', stack')
  BY <1>1, <1>5 DEF RootInv
<1>16. EnabledInv(active', enabled', listening', Range(stack')) /\ SeenInv(active', seen', Range(stack'))
  <2>1. EnabledInv(active, enabled, listening, B \cup {f}) /\ SeenInv(active, seen, B \cup {f})
    BY <1>2 DEF IndInv
  <2>2. Neutral(f) /\ Neutral(g)
    BY <1>1, <1>3 DEF Neutral
  <2>3. EnabledInv(active, enabled, listening, F2) /\ SeenInv(active, seen, F2)
    BY <2>1, <2>2, NeutralKept
  <2> QED
    BY <2>3, <1>1, <1>8
<1> QED
  BY <1>1, <1>10, <1>11, <1>12, <1>13, <1>14, <1>15, <1>16 DEF IndInv

\* The next one is started, unless it is active.
LEMMA FireDestinationKeeps ==
  ASSUME WellMade, IndInv, FireDestination
  PROVE  IndInv'
<1> DEFINE b == Below
           f == Top
           F == Range(stack)
           B == Range(b)
           t == Top.of
           i == Top.i
           dsts == Destinations[Top.of]
           n == dsts[i]
           h == To(Top, "destinations", i + 1)
           g == Frame("start", n, "begin")
           calls == n \notin active
           s1 == Append(b, h)
           s2 == IF calls THEN Append(s1, g) ELSE s1
           F2 == IF calls THEN B \cup {h, g} ELSE B \cup {h}
<1> SUFFICES ASSUME ~(i > Len(dsts)) PROVE IndInv'
  BY FiredKeeps
<1>1. /\ ~AtRest /\ f.op = "fire" /\ f.at = "destinations" /\ stack' = s2
      /\ UNCHANGED <<trigger, active, enabled, listening, completions, pending, seen>>
  BY MovedIs DEF FireDestination, Runs
<1>2. /\ b \in Seq(Frames) /\ f \in Frames /\ stack = Append(b, f) /\ F = B \cup {f}
      /\ StackInv(trigger, b) /\ Fits(trigger, b, f)
      /\ \A x \in B : x \in Frames /\ Over(trigger, x, f) /\ Suspended(F, f, x)
      /\ \A x \in F : x \in Frames /\ Knows(active, enabled, F, x)
  BY <1>1, NowIs
<1>3. t \in Transitions /\ i \in Nat \ {0} /\ Len(dsts) \in Nat
  <2>1. t \in Transitions /\ i \in Nat
    BY <1>1, <1>2, FramesAre
  <2>2. i # 0
    BY <1>1, <1>2 DEF Knows
  <2> QED
    BY <2>1, <2>2, ShapeIs
<1>4. h \in Frames /\ h.op = "fire" /\ h.of = t /\ h.at = "destinations" /\ h.i = i + 1
  BY <1>1, <1>2, <1>3, ToIs
<1>5. /\ n \in Range(dsts) /\ n \in All /\ i \in 1 .. Len(dsts)
      /\ g \in Frames /\ g.op = "start" /\ g.of = n /\ g.at = "begin" /\ n # "root"
  <2>1. i \in 1 .. Len(dsts)
    BY <1>3
  <2>2. n \in Range(dsts)
    <3>1. dsts \in Seq(Range(Nodes))
      BY <1>3, ShapeIs
    <3> HIDE DEF dsts
    <3> QED
      BY <2>1, <3>1, RangeIs
  <2>3. n \in Range(Nodes) /\ n # "root"
    BY <2>2, <1>3, ShapeIs
  <2>4. n \in All
    BY <2>3 DEF All
  <2>5. g \in Frames /\ g.op = "start" /\ g.of = n /\ g.at = "begin"
    BY <2>4, NewFrames, FrameIs
  <2> QED
    BY <2>1, <2>2, <2>3, <2>4, <2>5
<1>6. "root" \in active /\ pending = <<>> /\ trigger \in Wirings
  BY <1>1, RootIs, NonePending DEF Waits, TakesPending, Moving, IndInv, Typed
<1>7. t = f.of /\ i = f.i /\ dsts = Destinations[t] /\ n = dsts[i]
  OBVIOUS
<1> HIDE DEF b, f, h, t, i, g, dsts, n
<1>8. s1 \in Seq(Frames) /\ Range(s1) = B \cup {h}
  BY <1>2, <1>4, AppendIs, RangeAppend
<1>9. s2 \in Seq(Frames) /\ Range(s2) = F2
  <2> HIDE DEF s1
  <2>1. Append(s1, g) \in Seq(Frames) /\ Range(Append(s1, g)) = B \cup {h} \cup {g}
    BY <1>5, <1>8, AppendIs, RangeAppend
  <2> QED
    BY <2>1, <1>8
<1>10. Typed'
  BY <1>1, <1>9 DEF IndInv, Typed
<1>11. StackInv(trigger', stack')
  <2>1. StackInv(trigger, Append(b, f))
    BY <1>2 DEF IndInv
  <2>2. StackInv(trigger, s1)
    BY <2>1, <1>1, <1>2, <1>4, <1>7, StackSwaps
  <2>3. CASE calls
    <3>1. ASSUME NEW x \in B PROVE Over(trigger, x, g)
      <4>1. Over(trigger, x, f) /\ x \in Frames /\ Knows(active, enabled, F, x)
        BY <1>2
      <4>2. Stops(x, "root") => x.at # "end"
        BY <4>1, <1>1 DEF Over, Stops
      <4>3. x.op \in {"start", "stop"} => x.of # n
        BY <4>1, <1>1, <1>5, <1>7, <2>3 DEF Over, Acts, Started, Waits, Knows
      <4>4. Started(x) \/ x.op = "stop" => Alone(n)
        <5>1. Started(x) \/ x.op = "stop" => IsReaction(trigger[t])
          BY <4>1, <1>1, <1>7 DEF Over, Acts, Started
        <5>2. IsReaction(trigger[t]) => Alone(n)
          BY <1>3, <1>5, <1>6, <1>7 DEF WellMade, ReactionsGoForward
        <5> QED
          BY <5>1, <5>2
      <4>5. Stops(x, "root") /\ x.at = "subnodes" => Late(x.i, g)
        BY <4>1, <1>1, <1>5, <1>7 DEF Over, Late, Acts
      <4> QED
        BY <4>2, <4>3, <4>4, <4>5, <1>5 DEF Over, Acts, Stops
    <3>2. Over(trigger, h, g)
      BY <1>4, <1>5 DEF Over, Waits, Started, Stops
    <3>3. OnTop(h, g)
      <4>1. h.i - 1 = i
        BY <1>3, <1>4
      <4> QED
        BY <4>1, <1>4, <1>5, <1>7 DEF OnTop, Moving, Posts
    <3>4. StackInv(trigger, Append(Append(b, h), g))
      BY <2>2, <3>1, <3>2, <3>3, <1>2, <1>4, <1>5, StackPushes
    <3> QED
      BY <2>3, <3>4, <1>1
  <2>4. CASE ~calls
    BY <2>2, <2>4, <1>1
  <2> QED
    BY <2>3, <2>4
<1>12. KnowInv(active', enabled', Range(stack'))
  <2>1. \A m : Stopping(F, m) => Stopping(F2, m)
    BY <1>1, <1>2 DEF Stopping, Stops
  <2>2. \A x \in B : Knows(active, enabled, F2, x)
    BY <2>1, <1>2, KnowsKept
  <2>3. calls => Knows(active, enabled, F2, g)
    BY <1>5 DEF Knows, Waits, Started, Moving, Stops
  <2>4. h.i # 0
    BY <1>3, <1>4
  <2>5. Knows(active, enabled, F2, h)
    BY <2>4, <1>4 DEF Knows, Waits, Started, Moving, Stops
  <2> QED
    BY <2>2, <2>3, <2>5, <1>1, <1>9 DEF KnowInv
<1>13. WaitInv(active', pending', stack')
  <2>1. WaitInv(active, pending, Append(b, f))
    BY <1>2 DEF IndInv
  <2>2. ~Waits(h) /\ f.op \notin {"start", "post"}
    BY <1>1, <1>4 DEF Waits
  <2>3. WaitInv(active, pending, Append(Append(b, h), g))
    BY <1>2, <1>4, <1>5, <2>1, <2>2, WaitPushes
  <2>4. WaitInv(active, pending, Append(b, h))
    BY <1>2, <1>4, <2>1, <2>2, WaitSwaps
  <2> QED
    BY <2>3, <2>4, <1>1
<1>14. RootInv(active', pending', stack')
  BY <1>1, <1>6 DEF RootInv
<1>15. PendingInv(trigger', pending', stack')
  <2>1. \A x \in F2 : x.op = "process" => HearsIn(trigger, x.of, x.at)
    BY <1>2, <1>4, <1>5 DEF IndInv, PendingInv
  <2>2. PendingInv(trigger, <<>>, s2)
    BY <2>1, <1>9, EmptyPending
  <2> QED
    BY <2>2, <1>1, <1>6
<1>16. EnabledInv(active', enabled', listening', Range(stack')) /\ SeenInv(active', seen', Range(stack'))
  <2>1. EnabledInv(active, enabled, listening, B \cup {f}) /\ SeenInv(active, seen, B \cup {f})
    BY <1>2 DEF IndInv
  <2>2. Neutral(f) /\ Neutral(g) /\ Neutral(h)
    BY <1>1, <1>4, <1>5 DEF Neutral, Waits
  <2>3. B \subseteq F2 /\ \A x \in F2 : x \in B \/ Neutral(x)
    BY <2>2
  <2> HIDE DEF F2
  <2>4. EnabledInv(active, enabled, listening, F2) /\ SeenInv(active, seen, F2)
    BY <2>1, <2>2, <2>3, NeutralKept
  <2> QED
    BY <2>4, <1>1, <1>9
<1> QED
  BY <1>10, <1>11, <1>12, <1>13, <1>14, <1>15, <1>16 DEF IndInv

-----------------------------------------------------------------------------
(* Starting a node *)

\* Without an active subnode no transition is enabled.
LEMMA NoneEnabled ==
  ASSUME IndInv, active \subseteq {"root"}
  PROVE  enabled = {} /\ Range(listening) = {}
<1>1. enabled \subseteq Transitions /\ Range(listening) \subseteq Transitions
  BY RangeIs, ElementOfSeq DEF IndInv, Typed
<1>2. ASSUME NEW t \in enabled PROVE FALSE
  <2>1. \E n \in Range(Sources[t]) : n \in active
    BY <1>2 DEF IndInv, EnabledInv
  <2> QED
    BY <1>1, <2>1, ShapeIs
<1>3. Range(listening) \subseteq enabled
  BY <1>1 DEF IndInv, EnabledInv
<1> QED
  BY <1>2, <1>3

\* The root and the first two subnodes are started before anything can be enabled.
LEMMA LastStarts ==
  ASSUME IndInv, ~AtRest, Waits(Top), NEW k \in 1 .. Len(Below), AllWait(Below, k), k >= Len(First) - 1
  PROVE  /\ active \subseteq {"root"} /\ Range(listening) = {}
         /\ k <= Len(First)
         /\ k = Len(First) => Top.of = "root" /\ active = {}
<1> DEFINE b == Below
           m == Len(b)
<1>1. b \in Seq(Frames) /\ Top \in Frames /\ stack = Append(b, Top) /\ Fits(trigger, b, Top)
  BY NowIs
<1>2. /\ Len(stack) = m + 1 /\ m \in Nat
      /\ \A j \in 1 .. m : stack[j] = b[j]
      /\ stack[m + 1] = Top
  BY <1>1, AppendIs
<1>3. Len(First) \in Nat
  BY ShapeIs
<1>4. k \in 1 .. m
  OBVIOUS
<1> HIDE DEF b, m
<1>5. AllWait(stack, k)
  BY <1>2, <1>4 DEF AllWait, b
<1>6. \A x \in Range(stack) : x.op \in {"start", "post"}
  BY <1>2, <1>4, <1>5 DEF IndInv, WaitInv
<1>7. m \in 1 .. m /\ b # <<>>
  BY <1>1, <1>2, <1>4, EmptySeq DEF m
<1>8. Waits(stack[m])
  <2>1. OnTop(b[m], Top) /\ b[m] = stack[m]
    BY <1>1, <1>2, <1>7 DEF Fits, m
  <2>2. stack[m] \in Range(stack)
    <3>1. m \in 1 .. Len(stack) /\ stack \in Seq(Frames)
      BY <1>2, <1>7 DEF IndInv, Typed
    <3> QED
      BY <3>1, RangeIs
  <2> QED
    BY <2>1, <2>2, <1>6 DEF OnTop, Waits, Moving
<1>9. AllWait(stack, m)
  <2>1. m \in 1 .. Len(stack) - 1
    BY <1>2, <1>7
  <2> QED
    BY <2>1, <1>8 DEF IndInv, WaitInv
<1>10. AllWait(stack, m + 1)
  <2>1. \A j \in 1 .. m + 1 : j \in 1 .. m \/ j = m + 1
    BY <1>2
  <2> QED
    BY <2>1, <1>2, <1>9 DEF AllWait
<1>11. /\ m + 1 <= Len(First) + 1
       /\ m + 1 = Len(First) + 1 => Top.of = "root"
       /\ m + 1 > Len(First) => active = {}
       /\ m + 1 = Len(First) => active \subseteq {"root"}
  <2>1. m + 1 \in 1 .. Len(stack)
    BY <1>2
  <2>2. /\ m + 1 <= Len(First) + 1
        /\ stack[m + 1].of = IF m + 1 = Len(First) + 1 THEN "root" ELSE First[Len(First) + 1 - (m + 1)]
        /\ m + 1 > Len(First) => active = {}
        /\ m + 1 = Len(First) => active \subseteq {"root"}
    BY <2>1, <1>10 DEF IndInv, WaitInv
  <2> QED
    BY <2>2, <1>2
<1>12. active \subseteq {"root"}
  BY <1>2, <1>3, <1>4, <1>11
<1>13. k <= Len(First) /\ (k = Len(First) => m + 1 = Len(First) + 1)
  BY <1>2, <1>3, <1>4, <1>11
<1>14. k = Len(First) => Top.of = "root" /\ active = {}
  BY <1>2, <1>3, <1>11, <1>13
<1> QED
  BY <1>12, <1>13, <1>14, NoneEnabled

\* What is under way goes on when a node is started that none of the calls has done with.
LEMMA KnowsStart ==
  ASSUME WellMade, IndInv, ~AtRest, Waits(Top), NEW x \in Range(Below), NEW F2,
         \A m : Stopping(Range(stack), m) => Stopping(F2, m)
  PROVE  Knows(active \cup {Top.of}, enabled, F2, x)
<1> DEFINE f == Top
           n == Top.of
           F == Range(stack)
           a2 == active \cup {n}
<1>1. /\ F = Range(Below) \cup {f} /\ f \in Frames /\ f \in F
      /\ \A y \in Range(Below) : y \in Frames /\ Over(trigger, y, f)
      /\ Suspended(F, f, x)
      /\ \A y \in F : y \in Frames /\ Knows(active, enabled, F, y)
  BY NowIs
<1>2. f.op = "start" /\ n \notin active /\ n \in All
  BY <1>1, FramesAre DEF Waits, Knows
<1>3. x \in Frames /\ Over(trigger, x, f) /\ Knows(active, enabled, F, x)
  BY <1>1
<1>4. n = f.of
  OBVIOUS
<1> HIDE DEF f, n, F
<1>5. Waits(x) => x.of \notin a2
  BY <1>2, <1>3, <1>4 DEF Knows, Over, Waits
<1>6. ASSUME Moving(x, "fire", "sources"), NEW j \in 1 .. Len(Sources[x.of]), j < x.i, Sources[x.of][j] \in a2
      PROVE  Stopping(F2, Sources[x.of][j])
  <2>1. CASE Sources[x.of][j] \in active
    BY <2>1, <1>3, <1>6 DEF Knows, F
  <2>2. CASE Sources[x.of][j] = n
    <3>1. x.i \in Nat /\ x.of \in Transitions /\ x.op = "fire" /\ x.at = "sources"
      BY <1>3, <1>6, FramesAre DEF Moving
    <3>2. x.i - 1 \in 1 .. Len(Sources[x.of]) /\ Stopping(F, Sources[x.of][x.i - 1])
      BY <3>1, <1>1, <1>6 DEF Suspended
    <3>3. PICK y \in F : Stops(y, Sources[x.of][x.i - 1])
      BY <3>2 DEF Stopping
    <3>4. y \in Range(Below) /\ Over(trigger, y, f) /\ y.op = "stop"
      BY <3>3, <1>1, <1>2 DEF Stops
    <3>5. Alone(n) /\ n # y.of
      BY <3>4, <1>2, <1>4 DEF Over
    <3>6. n \in Range(Sources[x.of]) /\ y.of \in Range(Sources[x.of])
      <4> DEFINE srcs == Sources[x.of]
      <4>1. srcs \in Seq(Range(Nodes))
        BY <3>1, ShapeIs
      <4>2. srcs[j] = n /\ srcs[x.i - 1] = y.of /\ j \in 1 .. Len(srcs) /\ x.i - 1 \in 1 .. Len(srcs)
        BY <3>2, <3>3, <2>2 DEF Stops
      <4> HIDE DEF srcs
      <4>3. n \in Range(srcs) /\ y.of \in Range(srcs)
        BY <4>1, <4>2, RangeIs
      <4> QED
        BY <4>3 DEF srcs
    <3>7. y.of = n
      BY <3>1, <3>5, <3>6 DEF Alone
    <3> QED
      BY <3>5, <3>7
  <2> QED
    BY <2>1, <2>2, <1>6
<1>7. ASSUME Stops(x, "root"), x.at = "subnodes", NEW j \in 1 .. Len(Nodes), j < x.i, Nodes[j] \in a2
      PROVE  Stopping(F2, Nodes[j])
  <2>1. CASE Nodes[j] \in active
    BY <2>1, <1>3, <1>7 DEF Knows, F
  <2>2. CASE Nodes[j] = n
    <3>1. n \in From(x.i) /\ x.i \in Nat
      BY <1>2, <1>3, <1>4, <1>7, FramesAre DEF Over, Late, Stops
    <3>2. PICK k \in 1 .. Len(Nodes) : k >= x.i /\ Nodes[k] = n
      BY <3>1 DEF From
    <3>3. k = j
      BY <2>2, <3>2 DEF WellMade, NamedOnce
    <3> QED
      BY <3>1, <3>2, <3>3, <1>7
  <2> QED
    BY <2>1, <2>2, <1>7
<1>8. Stops(x, "root") => x.at # "end"
  BY <1>2, <1>3 DEF Over
<1>9. active \subseteq a2
  OBVIOUS
<1> HIDE DEF a2
<1>10. /\ Started(x) => x.of \in a2
       /\ x.op = "stop" => x.of \in a2 /\ x.i # 0
  BY <1>3, <1>9 DEF Knows
<1>11. Knows(a2, enabled, F2, x)
  BY <1>3, <1>5, <1>6, <1>7, <1>8, <1>10 DEF Knows
<1> QED
  BY <1>11 DEF a2, n

LEMMA StartBeginKeeps ==
  ASSUME WellMade, IndInv, StartBegin
  PROVE  IndInv'
<1> DEFINE b == Below
           f == Top
           F == Range(stack)
           B == Range(b)
           n == Top.of
           e == Event("start", n)
           h == To(Top, "enable", 1)
           g == Frame("post", e, "deliver")
           s2 == Append(Append(b, h), g)
           F2 == B \cup {h, g}
           a2 == active \cup {n}
           p2 == pending \o Deliveries(e)
<1>1. /\ ~AtRest /\ f.op = "start" /\ f.at = "begin" /\ Waits(f)
      /\ stack' = s2 /\ pending' = p2
      /\ active' = a2 /\ seen' = seen \cup {n}
      /\ UNCHANGED <<trigger, enabled, listening, completions>>
  BY MovedIs DEF StartBegin, Runs, Post, Waits
<1>2. /\ b \in Seq(Frames) /\ f \in Frames /\ stack = Append(b, f) /\ F = B \cup {f}
      /\ StackInv(trigger, b) /\ Fits(trigger, b, f)
      /\ \A x \in B : x \in Frames /\ Over(trigger, x, f) /\ Suspended(F, f, x)
      /\ \A x \in F : x \in Frames /\ Knows(active, enabled, F, x)
  BY <1>1, NowIs
<1>3. /\ n \in All /\ h \in Frames /\ h.op = "start" /\ h.of = n /\ h.at = "enable" /\ h.i = 1
      /\ e \in Events /\ g \in Frames /\ g.op = "post" /\ g.of = e /\ g.at = "deliver"
  <2>1. n \in All
    BY <1>1, <1>2, FramesAre
  <2>2. h \in Frames /\ h.op = "start" /\ h.of = n /\ h.at = "enable" /\ h.i = 1
    BY <1>1, <1>2, ToIs
  <2>3. e \in Events
    BY <2>1, EventsAre
  <2> QED
    BY <2>1, <2>2, <2>3, NewFrames, FrameIs
<1>4. OfMachine(e) /\ About(e) = {n} /\ e # Quiet
  BY MachineEvents
<1>5. pending = <<>> /\ trigger \in Wirings /\ active \subseteq All /\ seen \subseteq All
  BY <1>1, NonePending DEF TakesPending, Moving, IndInv, Typed
<1>6. n \notin active
  BY <1>1, <1>2 DEF Knows
<1>7. n = f.of
  OBVIOUS
<1>8. \A m : Stopping(F, m) => Stopping(F2, m)
  BY <1>1, <1>2 DEF Stopping, Stops
<1>9. \A x \in B : Knows(a2, enabled, F2, x)
  BY <1>1, <1>8, KnowsStart
<1>10. ASSUME NEW k \in 1 .. Len(b), AllWait(b, k), k >= Len(First) - 1
       PROVE  /\ Range(listening) = {} /\ k <= Len(First)
              /\ k = Len(First) => n = "root" /\ active = {}
  BY <1>1, <1>10, LastStarts
<1>11. "root" \in a2
  <2>1. "root" \notin active => n = "root"
    BY <1>1 DEF IndInv, RootInv, Top, AtRest
  <2> QED
    BY <2>1
<1> HIDE DEF b, f, h, n, e, g, p2
<1>12. /\ s2 \in Seq(Frames) /\ s2 # <<>> /\ Range(s2) = F2 /\ s2[Len(s2)] = g
  <2> DEFINE s1 == Append(b, h)
  <2>1. s1 \in Seq(Frames) /\ Range(s1) = B \cup {h}
    BY <1>2, <1>3, AppendIs, RangeAppend
  <2> HIDE DEF s1
  <2>2. /\ Append(s1, g) \in Seq(Frames) /\ Append(s1, g) # <<>> /\ Len(Append(s1, g)) = Len(s1) + 1
        /\ Append(s1, g)[Len(s1) + 1] = g
        /\ Range(Append(s1, g)) = B \cup {h} \cup {g}
    BY <2>1, <1>3, AppendIs, RangeAppend
  <2> QED
    BY <2>2 DEF s1
<1>13. \A x \in B \cup {h} : Stops(x, "root") => x.at = "subnodes" /\ LateEvent(x.i, e)
  <2> SUFFICES ASSUME NEW x \in B, Stops(x, "root") PROVE x.at = "subnodes" /\ LateEvent(x.i, e)
    BY <1>3 DEF Stops
  <2>1. x.at = "end" => f.op = "post"
    BY <1>2 DEF Over
  <2>2. x.at = "subnodes"
    BY <2>1, <1>1, <1>2 DEF Suspended, Stops, Posts
  <2>3. LateEvent(x.i, e)
    BY <2>2, <1>1, <1>2, <1>4, <1>5, <1>7, LateIs
  <2> QED
    BY <2>2, <2>3
<1>14. StackInv(trigger', stack')
  <2>1. StackInv(trigger, Append(b, f))
    BY <1>2 DEF IndInv
  <2>2. StackInv(trigger, Append(b, h))
    BY <2>1, <1>1, <1>2, <1>3, <1>7, StackSwaps
  <2>3. OnTop(h, g)
    BY <1>3 DEF OnTop, Posts
  <2>4. StackInv(trigger, Append(Append(b, h), Frame("post", e, "deliver")))
    BY <2>2, <2>3, <1>2, <1>3, <1>13, PostFits DEF g
  <2> QED
    BY <2>4, <1>1 DEF g
<1>15. /\ PendingInv(trigger, p2, s2) /\ p2 \in Seq(Owed)
       /\ Range(listening) = {} => p2 = <<>>
  <2>1. \A x \in Range(s2) : Stops(x, "root") => x.at = "subnodes" /\ LateEvent(x.i, e)
    BY <1>3, <1>12, <1>13 DEF Stops
  <2>2. \A x \in Range(s2) : x.op = "process" => x \in Range(stack)
    BY <1>2, <1>3, <1>12
  <2>3. s2[Len(s2)] = Frame("post", e, "deliver")
    BY <1>12 DEF g
  <2> HIDE DEF s2
  <2> QED
    BY <2>1, <2>2, <2>3, <1>3, <1>4, <1>5, <1>12, PostedPending DEF p2
<1>16. Typed'
  BY <1>1, <1>3, <1>5, <1>12, <1>15 DEF IndInv, Typed
<1>17. KnowInv(active', enabled', Range(stack'))
  <2>1. Knows(a2, enabled, F2, g)
    BY <1>3 DEF Knows, Waits, Started, Moving, Stops
  <2>2. Alone(n) => \A t \in Range(TransitionsOf(n)) : t \notin enabled
    <3> SUFFICES ASSUME Alone(n), NEW t \in Range(TransitionsOf(n)), t \in enabled PROVE FALSE
      OBVIOUS
    <3>1. t \in Transitions /\ n \in Range(Sources[t])
      BY <1>3, ShapeIs
    <3>2. Range(Sources[t]) = {n}
      BY <3>1 DEF Alone
    <3>3. \E m \in Range(Sources[t]) : m \in active
      BY DEF IndInv, EnabledInv
    <3> QED
      BY <3>2, <3>3, <1>6
  <2>3. Knows(a2, enabled, F2, h)
    BY <2>2, <1>3 DEF Knows, Waits, Started, Moving, Stops
  <2> QED
    BY <2>1, <2>3, <1>1, <1>9, <1>12 DEF KnowInv
<1>18. WaitInv(active', pending', stack')
  <2>1. WaitInv(active, pending, Append(b, f))
    BY <1>2 DEF IndInv
  <2>2. ~Waits(h)
    BY <1>3 DEF Waits
  <2>3. LastWait(b) => p2 = <<>>
    BY <1>10, <1>15 DEF LastWait
  <2>4. ASSUME NEW k \in 1 .. Len(b), AllWait(b, k)
        PROVE  (k > Len(First) => a2 = {}) /\ (k = Len(First) => a2 \subseteq {"root"})
    <3>1. k \in Nat /\ Len(First) \in Nat
      BY ShapeIs
    <3>2. CASE k >= Len(First) - 1
      <4>1. k <= Len(First) /\ (k = Len(First) => n = "root" /\ active = {})
        BY <3>2, <2>4, <1>10
      <4> QED
        BY <4>1, <3>1
    <3>3. CASE ~(k >= Len(First) - 1)
      BY <3>1, <3>3
    <3> QED
      BY <3>2, <3>3
  <2> HIDE DEF a2
  <2>5. WaitInv(a2, p2, s2)
    BY <1>1, <1>2, <1>3, <2>1, <2>2, <2>3, <2>4, WaitPushes
  <2> QED
    BY <2>5, <1>1
<1>19. RootInv(active', pending', stack')
  BY <1>1, <1>11 DEF RootInv
<1>20. EnabledInv(active', enabled', listening', Range(stack'))
  <2>1. EnabledInv(active, enabled, listening, F)
    BY DEF IndInv
  <2>2. \A t \in Transitions : Disabling(F, t) <=> Disabling(F2, t)
    BY <1>1, <1>2, <1>3 DEF Disabling, Disables, Moving
  <2>3. \A m, t : ~Enables(f, m, t) /\ ~Leaves(f, m)
    BY <1>1, NeutralIs DEF Neutral
  <2>4. ASSUME NEW t \in Transitions, NEW m \in a2, m \in Range(Sources[t]) PROVE t \in enabled \/ Excused(F2, m, t)
    <3>1. CASE m \in active
      <4>1. t \in enabled \/ Excused(F, m, t)
        BY <2>1, <2>4, <3>1 DEF EnabledInv
      <4> QED
        BY <4>1, <2>3, <1>2 DEF Excused
    <3>2. CASE m = n
      <4>1. t \in Range(TransitionsOf(n))
        BY <2>4, <3>2, SourceHas
      <4>2. \E j \in 1 .. Len(TransitionsOf(n)) : TransitionsOf(n)[j] = t
        BY <4>1, <1>3, ShapeIs
      <4>3. HasFrom(n, t, 1)
        BY <4>2 DEF HasFrom
      <4>4. Enables(h, m, t) /\ h \in F2
        BY <4>3, <3>2, <1>3 DEF Enables
      <4> QED
        BY <4>4 DEF Excused
    <3> QED
      BY <3>1, <3>2
  <2>5. EnabledInv(a2, enabled, listening, F2)
    BY <2>1, <2>2, <2>4 DEF EnabledInv
  <2> QED
    BY <2>5, <1>1, <1>12
<1>21. SeenInv(active', seen', Range(stack'))
  <2>1. SeenInv(active, seen, F)
    BY DEF IndInv
  <2>2. \A m : (\E x \in F : Stops(x, m) /\ x.at = "end") <=> (\E x \in F2 : Stops(x, m) /\ x.at = "end")
    BY <1>1, <1>2, <1>3 DEF Stops
  <2>3. ~\E x \in F2 : Stops(x, n) /\ x.at = "end"
    <3>1. \A x \in F : Stops(x, n) => n \in active
      BY <1>2 DEF Knows, Stops
    <3> QED
      BY <3>1, <2>2, <1>6
  <2>4. SeenInv(a2, seen \cup {n}, F2)
    BY <2>1, <2>2, <2>3 DEF SeenInv
  <2> QED
    BY <2>4, <1>1, <1>12
<1> QED
  BY <1>1, <1>14, <1>15, <1>16, <1>17, <1>18, <1>19, <1>20, <1>21 DEF IndInv

\* A start or a stop goes on, and nothing else changes.
LEMMA GoesOn ==
  ASSUME WellMade, IndInv, ~AtRest, Top.op \in {"start", "stop"}, ~Waits(Top),
         NEW h \in Frames, h.op = Top.op, h.of = Top.of, ~Waits(h), Top.at # "end", h.at # "end",
         ~\E t : Disables(Top, t), ~\E t : Disables(h, t),
         Knows(active, enabled, Range(Below) \cup {h}, h),
         \A t \in Transitions : \A m \in active :
           m \in Range(Sources[t]) /\ t \notin enabled /\ (Enables(Top, m, t) \/ Leaves(Top, m))
             => Enables(h, m, t) \/ Leaves(h, m),
         stack' = Append(Below, h),
         UNCHANGED <<trigger, active, enabled, listening, completions, pending, seen>>
  PROVE  IndInv'
<1> DEFINE b == Below
           f == Top
           F == Range(stack)
           B == Range(b)
           s2 == Append(b, h)
           F2 == B \cup {h}
<1>1. /\ b \in Seq(Frames) /\ f \in Frames /\ stack = Append(b, f) /\ F = B \cup {f}
      /\ StackInv(trigger, b) /\ Fits(trigger, b, f)
      /\ \A x \in F : x \in Frames /\ Knows(active, enabled, F, x)
  BY NowIs
<1>2. "root" \in active /\ pending = <<>>
  BY RootIs, NonePending DEF TakesPending, Moving
<1>3. f.op \in {"start", "stop"} /\ f.op = h.op /\ f.of = h.of /\ f.at # "end"
  OBVIOUS
<1>4. \A t \in Transitions : \A m \in active :
        m \in Range(Sources[t]) /\ t \notin enabled /\ (Enables(f, m, t) \/ Leaves(f, m))
          => Enables(h, m, t) \/ Leaves(h, m)
  OBVIOUS
<1>5. \A t : ~Disables(f, t) /\ ~Disables(h, t)
  OBVIOUS
<1> HIDE DEF b, f
<1>6. s2 \in Seq(Frames) /\ Range(s2) = F2
  BY <1>1, AppendIs, RangeAppend
<1>7. Typed'
  BY <1>1, <1>6 DEF IndInv, Typed, b
<1>8. StackInv(trigger', stack')
  <2>1. StackInv(trigger, Append(b, f))
    BY <1>1 DEF IndInv
  <2>2. StackInv(trigger, s2)
    BY <2>1, <1>1, <1>3, StackSwaps
  <2> QED
    BY <2>2 DEF b
<1>9. KnowInv(active', enabled', Range(stack'))
  <2>1. \A n : Stopping(F, n) => Stopping(F2, n)
    BY <1>1, <1>3 DEF Stopping, Stops
  <2>2. \A x \in B : Knows(active, enabled, F2, x)
    BY <2>1, <1>1, KnowsKept
  <2>3. Knows(active, enabled, F2, h)
    BY DEF b
  <2>4. KnowInv(active, enabled, F2)
    BY <2>2, <2>3 DEF KnowInv
  <2> QED
    BY <2>4, <1>6 DEF b
<1>10. WaitInv(active', pending', stack')
  <2>1. WaitInv(active, pending, Append(b, f))
    BY <1>1 DEF IndInv
  <2>2. WaitInv(active, pending, s2)
    BY <2>1, <1>1, <1>3, WaitSwaps
  <2> QED
    BY <2>2 DEF b
<1>11. RootInv(active', pending', stack')
  BY <1>2 DEF RootInv
<1>12. PendingInv(trigger', pending', stack')
  <2>1. \A x \in F2 : x.op = "process" => HearsIn(trigger, x.of, x.at)
    BY <1>1, <1>3 DEF IndInv, PendingInv
  <2>2. PendingInv(trigger, <<>>, s2)
    BY <2>1, <1>6, EmptyPending
  <2> QED
    BY <2>2, <1>2 DEF b
<1>13. EnabledInv(active', enabled', listening', Range(stack'))
  <2>1. EnabledInv(active, enabled, listening, F)
    BY DEF IndInv
  <2>2. \A t \in Transitions : Disabling(F, t) <=> Disabling(F2, t)
    BY <1>1, <1>5 DEF Disabling
  <2>3. ASSUME NEW t \in Transitions, NEW m \in active, m \in Range(Sources[t]), t \notin enabled, Excused(F, m, t)
        PROVE  Excused(F2, m, t)
    <3>1. PICK y \in F : Enables(y, m, t) \/ Leaves(y, m)
      BY <2>3 DEF Excused
    <3>2. CASE y \in B
      BY <3>1, <3>2 DEF Excused
    <3>3. CASE y = f
      <4>1. Enables(h, m, t) \/ Leaves(h, m)
        BY <3>1, <3>3, <2>3, <1>4
      <4> QED
        BY <4>1 DEF Excused
    <3> QED
      BY <3>1, <3>2, <3>3, <1>1
  <2>4. EnabledInv(active, enabled, listening, F2)
    BY <2>1, <2>2, <2>3, EnabledKept
  <2> QED
    BY <2>4, <1>6 DEF b
<1>14. SeenInv(active', seen', Range(stack'))
  <2>1. SeenInv(active, seen, B \cup {f})
    BY <1>1 DEF IndInv
  <2>2. \A x \in F2 \cup {f} : x \in B \/ x.op # "stop" \/ x.at # "end"
    BY <1>3
  <2>3. SeenInv(active, seen, F2)
    BY <2>1, <2>2, SeenKept
  <2> QED
    BY <2>3, <1>6 DEF b
<1> QED
  BY <1>7, <1>8, <1>9, <1>10, <1>11, <1>12, <1>13, <1>14 DEF IndInv

\* Who is enabling the transitions of a node
LEMMA StartIs ==
  ASSUME IndInv, ~AtRest, Top.op = "start", ~Waits(Top)
  PROVE  /\ Top.of \in All /\ Top.i \in Nat \ {0} /\ Top.of \in active
         /\ Len(TransitionsOf(Top.of)) \in Nat
         /\ Top.at = "look" => Top.i \in 1 .. Len(TransitionsOf(Top.of)) /\ TransitionsOf(Top.of)[Top.i] \in enabled
         /\ \A j \in 1 .. Len(TransitionsOf(Top.of)) :
              TransitionsOf(Top.of)[j] \in Transitions /\ Top.of \in Range(Sources[TransitionsOf(Top.of)[j]])
<1>1. Top \in Frames /\ Knows(active, enabled, Range(stack), Top)
  BY NowIs
<1>2. Top.of \in All /\ Top.i \in Nat /\ Top.at \in {"begin", "enable", "look"}
  BY <1>1, FramesAre
<1>3. Top.of \in active
  BY <1>1 DEF Knows, Started, Waits
<1>4. Len(TransitionsOf(Top.of)) \in Nat /\ TransitionsOf(Top.of) \in Seq(Transitions)
  BY <1>2, ShapeIs
<1>5. Top.at = "look" => Top.i \in 1 .. Len(TransitionsOf(Top.of)) /\ TransitionsOf(Top.of)[Top.i] \in enabled
  BY <1>1 DEF Knows, Moving
<1>6. Top.i # 0
  <2>1. Top.at = "enable" => Top.i # 0
    BY <1>1 DEF Knows, Moving
  <2>2. Top.at = "look" => Top.i # 0
    BY <1>4, <1>5
  <2>3. Top.at # "begin"
    BY DEF Waits
  <2> QED
    BY <1>2, <2>1, <2>2, <2>3
<1>7. ASSUME NEW j \in 1 .. Len(TransitionsOf(Top.of))
      PROVE  TransitionsOf(Top.of)[j] \in Transitions /\ Top.of \in Range(Sources[TransitionsOf(Top.of)[j]])
  <2> DEFINE ts == TransitionsOf(Top.of)
  <2>1. ts \in Seq(Transitions) /\ \A t \in Range(ts) : t \in Transitions /\ Top.of \in Range(Sources[t])
    BY <1>2, ShapeIs
  <2>2. j \in 1 .. Len(ts)
    OBVIOUS
  <2> HIDE DEF ts
  <2>3. ts[j] \in Range(ts)
    BY <2>1, <2>2, RangeIs
  <2> QED
    BY <2>1, <2>3 DEF ts
<1> QED
  BY <1>2, <1>3, <1>4, <1>5, <1>6, <1>7

LEMMA StartLookKeeps ==
  ASSUME WellMade, IndInv, StartLook
  PROVE  IndInv'
<1> DEFINE f == Top
           n == Top.of
           i == Top.i
           h == To(Top, "enable", i + 1)
<1>1. /\ ~AtRest /\ f.op = "start" /\ f.at = "look" /\ ~Waits(f)
      /\ UNCHANGED <<trigger, active, enabled, listening, completions, pending, seen>>
  BY DEF StartLook, Runs, Waits
<1>2. n \in All /\ i \in Nat \ {0} /\ n \in active /\ i \in 1 .. Len(TransitionsOf(n)) /\ Len(TransitionsOf(n)) \in Nat
  BY <1>1, StartIs
<1>3. stack' = Append(Below, h)
  BY <1>2, MovedIs DEF StartLook
<1>4. h \in Frames /\ h.op = "start" /\ h.of = n /\ h.at = "enable" /\ h.i = i + 1
  <2>1. Top \in Frames
    BY <1>1, NowIs
  <2> QED
    BY <2>1, <1>1, <1>2, ToIs
<1>5. h.of = f.of /\ h.op = f.op /\ n = f.of /\ i = f.i
  BY <1>1, <1>4
<1> HIDE DEF h, n, i
<1>6. Knows(active, enabled, Range(Below) \cup {h}, h)
  <2>1. h.i # 0 /\ h.i # 1
    BY <1>2, <1>4
  <2> QED
    BY <2>1, <1>2, <1>4 DEF Knows, Waits, Started, Moving, Stops
<1>7. ~Waits(h) /\ f.at # "end" /\ h.at # "end" /\ (~\E t : Disables(f, t)) /\ ~\E t : Disables(h, t)
  BY <1>1, <1>4 DEF Waits, Disables, Moving
<1>8. \A m, t : Enables(f, m, t) \/ Leaves(f, m) => Enables(h, m, t)
  BY <1>1, <1>4, <1>5 DEF Enables, Leaves, Stops, Moving
<1> QED
  BY <1>1, <1>3, <1>4, <1>5, <1>6, <1>7, <1>8, GoesOn

\* The next transition is enabled already.
LEMMA StartHasKeeps ==
  ASSUME WellMade, IndInv, Runs("start", "enable"), Top.i <= Len(TransitionsOf(Top.of)),
         TransitionsOf(Top.of)[Top.i] \in enabled, stack' = Append(Below, Moved("look", Top.i)),
         UNCHANGED <<trigger, active, enabled, listening, completions, pending, seen>>
  PROVE  IndInv'
<1> DEFINE f == Top
           n == Top.of
           i == Top.i
           h == To(Top, "look", i)
<1>1. /\ ~AtRest /\ f.op = "start" /\ f.at = "enable" /\ ~Waits(f)
  BY DEF Runs, Waits
<1>2. n \in All /\ i \in Nat \ {0} /\ n \in active /\ Len(TransitionsOf(n)) \in Nat
  BY <1>1, StartIs
<1>3. stack' = Append(Below, h) /\ i \in 1 .. Len(TransitionsOf(n)) /\ TransitionsOf(n)[i] \in enabled
  BY <1>2, MovedIs
<1>4. h \in Frames /\ h.op = "start" /\ h.of = n /\ h.at = "look" /\ h.i = i
  <2>1. Top \in Frames
    BY <1>1, NowIs
  <2> QED
    BY <2>1, <1>1, <1>2, ToIs
<1>5. h.of = f.of /\ h.op = f.op /\ n = f.of /\ i = f.i
  BY <1>1, <1>4
<1> HIDE DEF h, n, i
<1>6. Knows(active, enabled, Range(Below) \cup {h}, h)
  BY <1>2, <1>3, <1>4 DEF Knows, Waits, Started, Moving, Stops
<1>7. ~Waits(h) /\ f.at # "end" /\ h.at # "end" /\ (~\E t : Disables(f, t)) /\ ~\E t : Disables(h, t)
  BY <1>1, <1>4 DEF Waits, Disables, Moving
<1>8. ASSUME NEW m, NEW t, t \notin enabled, Enables(f, m, t) \/ Leaves(f, m) PROVE Enables(h, m, t)
  <2>1. m = n /\ HasFrom(n, t, i)
    BY <1>1, <1>5, <1>8 DEF Enables, Leaves, Stops, Moving
  <2>2. PICK j \in 1 .. Len(TransitionsOf(n)) : j >= i /\ TransitionsOf(n)[j] = t
    BY <2>1 DEF HasFrom
  <2>3. j >= i + 1
    <3>1. j # i
      BY <2>2, <1>3, <1>8
    <3> QED
      BY <3>1, <2>2, <1>2
  <2>4. HasFrom(n, t, i + 1)
    BY <2>2, <2>3 DEF HasFrom
  <2> QED
    BY <2>1, <2>4, <1>4 DEF Enables
<1> QED
  BY <1>1, <1>3, <1>4, <1>5, <1>6, <1>7, <1>8, GoesOn

\* It has enabled them all.
LEMMA StartReturnsKeeps ==
  ASSUME WellMade, IndInv, Runs("start", "enable"), Top.i > Len(TransitionsOf(Top.of)), stack' = Below,
         UNCHANGED <<trigger, active, enabled, listening, completions, pending, seen>>
  PROVE  IndInv'
<1> DEFINE b == Below
           f == Top
           F == Range(stack)
           B == Range(b)
<1>1. /\ ~AtRest /\ f.op = "start" /\ f.at = "enable" /\ ~Waits(f) /\ stack' = b
  BY DEF Runs, Waits
<1>2. /\ b \in Seq(Frames) /\ f \in Frames /\ stack = Append(b, f) /\ F = B \cup {f}
      /\ StackInv(trigger, b)
      /\ \A x \in F : x \in Frames /\ Knows(active, enabled, F, x)
  BY <1>1, NowIs
<1>3. "root" \in active /\ pending = <<>>
  BY <1>1, RootIs, NonePending DEF TakesPending, Moving
<1>4. ~\E j \in 1 .. Len(TransitionsOf(f.of)) : j >= f.i
  BY <1>1, StartIs
<1> HIDE DEF b, f
<1>5. Typed'
  BY <1>1, <1>2 DEF IndInv, Typed
<1>6. StackInv(trigger', stack')
  BY <1>1, <1>2
<1>7. KnowInv(active', enabled', Range(stack'))
  <2>1. \A n : Stopping(F, n) => Stopping(B, n)
    BY <1>1, <1>2 DEF Stopping, Stops
  <2>2. \A x \in B : Knows(active, enabled, B, x)
    BY <2>1, <1>2, KnowsKept
  <2> QED
    BY <2>2, <1>1 DEF KnowInv
<1>8. WaitInv(active', pending', stack')
  <2>1. WaitInv(active, pending, Append(b, f))
    BY <1>2 DEF IndInv
  <2>2. Len(b) \in Nat
    BY <1>2, LenProperties
  <2>3. WaitInv(active, <<>>, b)
    BY <1>2, <2>1, <2>2, WaitKept
  <2> QED
    BY <2>3, <1>1, <1>3
<1>9. RootInv(active', pending', stack')
  BY <1>3 DEF RootInv
<1>10. PendingInv(trigger', pending', stack')
  <2>1. \A x \in B : x.op = "process" => HearsIn(trigger, x.of, x.at)
    BY <1>2 DEF IndInv, PendingInv
  <2>2. PendingInv(trigger, <<>>, b)
    BY <2>1, EmptyPending
  <2> QED
    BY <2>2, <1>1, <1>3
<1>11. EnabledInv(active', enabled', listening', Range(stack'))
  <2>1. EnabledInv(active, enabled, listening, F)
    BY DEF IndInv
  <2>2. \A t \in Transitions : Disabling(F, t) <=> Disabling(B, t)
    BY <1>1, <1>2 DEF Disabling, Disables, Moving
  <2>3. \A m, t : ~Enables(f, m, t) /\ ~Leaves(f, m)
    BY <1>1, <1>4 DEF Enables, HasFrom, Leaves, Stops, Moving
  <2>4. \A m, t : Excused(F, m, t) => Excused(B, m, t)
    BY <2>3, <1>2 DEF Excused
  <2>5. EnabledInv(active, enabled, listening, B)
    BY <2>1, <2>2, <2>4, EnabledKept
  <2> QED
    BY <2>5, <1>1
<1>12. SeenInv(active', seen', Range(stack'))
  <2>1. SeenInv(active, seen, B \cup {f})
    BY <1>2 DEF IndInv
  <2>2. \A x \in B \cup {f} : x \in B \/ x.op # "stop" \/ x.at # "end"
    BY <1>1
  <2>3. SeenInv(active, seen, B)
    BY <2>1, <2>2, SeenKept
  <2> QED
    BY <2>3, <1>1
<1> QED
  BY <1>5, <1>6, <1>7, <1>8, <1>9, <1>10, <1>11, <1>12 DEF IndInv

\* A call that tells the router posts an event that nobody hears of.
LEMMA QuietPost ==
  ASSUME WellMade, IndInv, ~AtRest, Top.op \in {"start", "stop"}, ~Waits(Top),
         NEW h \in Frames, h.op = Top.op, h.of = Top.of,
         \/ h.op = "start" /\ h.at = "look"
         \/ h.op = "stop" /\ h.at = "disable",
         stack' = Append(Append(Below, h), Frame("post", Quiet, "deliver")),
         pending' = pending \o Deliveries(Quiet),
         UNCHANGED <<trigger, active, seen>>
  PROVE  /\ stack' \in Seq(Frames) /\ Range(stack') = Range(Below) \cup {h, Frame("post", Quiet, "deliver")}
         /\ pending' = <<>> /\ pending' \in Seq(Owed)
         /\ StackInv(trigger', stack')
         /\ WaitInv(active', pending', stack')
         /\ RootInv(active', pending', stack')
         /\ PendingInv(trigger', pending', stack')
         /\ Top.at # "end" => SeenInv(active', seen', Range(stack'))
<1> DEFINE b == Below
           f == Top
           F == Range(stack)
           B == Range(b)
           g == Frame("post", Quiet, "deliver")
           s2 == Append(Append(b, h), g)
           F2 == B \cup {h, g}
<1>1. /\ b \in Seq(Frames) /\ f \in Frames /\ stack = Append(b, f) /\ F = B \cup {f}
      /\ StackInv(trigger, b) /\ Fits(trigger, b, f)
  BY NowIs
<1>2. "root" \in active /\ pending = <<>>
  BY RootIs, NonePending DEF TakesPending, Moving
<1>3. Quiet \in Events /\ g \in Frames /\ g.op = "post" /\ g.of = Quiet /\ g.at = "deliver"
  BY EventsAre, NewFrames, FrameIs
<1>4. Deliveries(Quiet) = <<>> /\ Deliveries(Quiet) \in Seq(Owed)
  BY <1>3, DeliveriesAre DEF IndInv
<1>5. pending' = <<>> /\ pending' \in Seq(Owed)
  BY <1>2, <1>4, ConcatIs
<1>6. f.op \in {"start", "stop"} /\ h.op = f.op /\ h.of = f.of
  OBVIOUS
<1> HIDE DEF b, f, g
<1>7. s2 \in Seq(Frames) /\ Range(s2) = F2
  <2> DEFINE s1 == Append(b, h)
  <2>1. s1 \in Seq(Frames) /\ Range(s1) = B \cup {h}
    BY <1>1, AppendIs, RangeAppend
  <2> HIDE DEF s1
  <2>2. Append(s1, g) \in Seq(Frames) /\ Range(Append(s1, g)) = B \cup {h} \cup {g}
    BY <2>1, <1>3, AppendIs, RangeAppend
  <2> QED
    BY <2>2 DEF s1
<1>8. stack' = s2
  BY DEF b, g
<1>9. StackInv(trigger', stack')
  <2>1. StackInv(trigger, Append(b, f))
    BY <1>1 DEF IndInv
  <2>2. StackInv(trigger, Append(b, h))
    BY <2>1, <1>1, <1>6, StackSwaps
  <2>3. OnTop(h, g)
    BY <1>3 DEF OnTop, Posts
  <2>4. \A x \in B \cup {h} : Stops(x, "root") /\ x.at = "subnodes" => LateEvent(x.i, Quiet)
    BY DEF LateEvent
  <2>5. StackInv(trigger, Append(Append(b, h), Frame("post", Quiet, "deliver")))
    BY <2>2, <2>3, <2>4, <1>1, <1>3, PostFits DEF g
  <2> QED
    BY <2>5, <1>8 DEF g
<1>10. WaitInv(active', pending', stack')
  <2>1. WaitInv(active, pending, Append(b, f))
    BY <1>1 DEF IndInv
  <2>2. ~Waits(h)
    BY DEF Waits
  <2>3. LastWait(b) /\ pending = <<>> /\ f.op \in {"start", "post"} => h.op \in {"start", "post"} /\ g.op \in {"start", "post"}
    BY <1>3, <1>6
  <2>4. WaitInv(active, <<>>, s2)
    BY <1>1, <1>2, <1>3, <2>1, <2>2, <2>3, WaitPushes
  <2> QED
    BY <2>4, <1>5, <1>8
<1>11. RootInv(active', pending', stack')
  BY <1>2 DEF RootInv
<1>12. PendingInv(trigger', pending', stack')
  <2>1. \A x \in F2 : x.op = "process" => HearsIn(trigger, x.of, x.at)
    BY <1>1, <1>3, <1>6 DEF IndInv, PendingInv
  <2>2. PendingInv(trigger, <<>>, s2)
    BY <2>1, <1>7, EmptyPending
  <2> QED
    BY <2>2, <1>5, <1>8
<1>13. ASSUME f.at # "end" PROVE SeenInv(active', seen', Range(stack'))
  <2>1. SeenInv(active, seen, B \cup {f})
    BY <1>1 DEF IndInv
  <2>2. \A x \in F2 \cup {f} : x \in B \/ x.op # "stop" \/ x.at # "end"
    BY <1>3, <1>13
  <2>3. SeenInv(active, seen, F2)
    BY <2>1, <2>2, SeenKept
  <2> QED
    BY <2>3, <1>7, <1>8
<1> QED
  BY <1>5, <1>7, <1>8, <1>9, <1>10, <1>11, <1>12, <1>13 DEF b, g, f

\* A transition is enabled: it has been left by nobody who knows of it.
LEMMA StartAddsKeeps ==
  ASSUME WellMade, IndInv, Runs("start", "enable"), Top.i <= Len(TransitionsOf(Top.of)),
         NEW u, u = TransitionsOf(Top.of)[Top.i], u \notin enabled,
         enabled' = enabled \cup {u}, listening' = Append(listening, u),
         completions' = [completions EXCEPT ![u] = {}],
         Post(Append(Below, Moved("look", Top.i)), Quiet),
         UNCHANGED <<trigger, active, seen>>
  PROVE  IndInv'
<1> DEFINE b == Below
           f == Top
           F == Range(stack)
           B == Range(b)
           n == Top.of
           i == Top.i
           h == To(Top, "look", i)
           g == Frame("post", Quiet, "deliver")
           F2 == B \cup {h, g}
           en2 == enabled \cup {u}
<1>1. /\ ~AtRest /\ f.op = "start" /\ f.at = "enable" /\ ~Waits(f) /\ Started(f)
      /\ stack' = Append(Append(b, h), g) /\ pending' = pending \o Deliveries(Quiet)
  BY MovedIs DEF Runs, Waits, Started, Post
<1>2. /\ f \in Frames /\ F = B \cup {f}
      /\ \A x \in B : x \in Frames /\ Over(trigger, x, f) /\ Suspended(F, f, x)
      /\ \A x \in F : x \in Frames /\ Knows(active, enabled, F, x)
  BY <1>1, NowIs
<1>3. /\ n \in All /\ i \in Nat \ {0} /\ n \in active /\ Len(TransitionsOf(n)) \in Nat
      /\ i \in 1 .. Len(TransitionsOf(n))
      /\ u \in Transitions /\ n \in Range(Sources[u])
  <2>1. n \in All /\ i \in Nat \ {0} /\ n \in active /\ Len(TransitionsOf(n)) \in Nat
    BY <1>1, StartIs
  <2>2. i \in 1 .. Len(TransitionsOf(n))
    BY <2>1
  <2> QED
    BY <1>1, <2>1, <2>2, StartIs
<1>4. h \in Frames /\ h.op = "start" /\ h.of = n /\ h.at = "look" /\ h.i = i
  BY <1>1, <1>2, <1>3, ToIs
<1>5. g.op = "post" /\ g.at = "deliver" /\ g.of = Quiet
  BY FrameIs
<1>6. n = f.of /\ i = f.i /\ u = TransitionsOf(n)[i]
  OBVIOUS
<1> HIDE DEF h, n, i
<1>7. /\ stack' \in Seq(Frames) /\ Range(stack') = F2
      /\ pending' = <<>> /\ pending' \in Seq(Owed)
      /\ StackInv(trigger', stack') /\ WaitInv(active', pending', stack')
      /\ RootInv(active', pending', stack') /\ PendingInv(trigger', pending', stack')
      /\ SeenInv(active', seen', Range(stack'))
  BY <1>1, <1>4, <1>6, QuietPost
<1> HIDE DEF b, f, g
<1>8. Typed'
  <2>1. /\ listening \in Seq(Transitions) /\ enabled \in SUBSET Transitions
        /\ completions \in [Transitions -> SUBSET Range(Nodes)]
    BY DEF IndInv, Typed
  <2>2. Append(listening, u) \in Seq(Transitions)
    BY <2>1, <1>3, AppendIs
  <2>3. [completions EXCEPT ![u] = {}] \in [Transitions -> SUBSET Range(Nodes)]
    BY <2>1
  <2> QED
    BY <2>1, <2>2, <2>3, <1>3, <1>7 DEF IndInv, Typed
<1>9. KnowInv(active', enabled', Range(stack'))
  <2>1. \A m : Stopping(F, m) => Stopping(F2, m)
    BY <1>1, <1>2 DEF Stopping, Stops
  <2>2. ASSUME NEW x \in B PROVE Knows(active, en2, F2, x)
    <3>1. x \in Frames /\ Over(trigger, x, f) /\ Knows(active, enabled, F2, x)
      BY <1>2, <2>1, KnowsKept
    <3>2. x.op \in {"start", "stop"} => x.of # n /\ x.of \in All
      BY <3>1, <1>1, <1>6, FramesAre DEF Over
    <3>3. x.op \in {"start", "stop"} /\ Alone(n) => u \notin Range(TransitionsOf(x.of))
      <4> SUFFICES ASSUME x.op \in {"start", "stop"}, Alone(n), u \in Range(TransitionsOf(x.of)) PROVE FALSE
        OBVIOUS
      <4>1. x.of \in Range(Sources[u])
        BY <3>2, ShapeIs
      <4>2. Range(Sources[u]) = {n}
        BY <1>3 DEF Alone
      <4> QED
        BY <3>2, <4>1, <4>2
    <3>4. Started(x) \/ x.op = "stop" => Alone(n)
      BY <3>1, <1>1, <1>6 DEF Over
    <3>5. Started(x) \/ x.op = "stop" => u \notin Range(TransitionsOf(x.of))
      BY <3>3, <3>4 DEF Started
    <3>6. x.op = "stop" => \A j \in 1 .. Len(TransitionsOf(x.of)) : TransitionsOf(x.of)[j] # u
      BY <3>2, <3>5, ShapeIs
    <3>7. x.op = "stop" /\ x.at \in {"transitions", "disable"} =>
            \A j \in 1 .. Len(TransitionsOf(x.of)) : j < x.i => TransitionsOf(x.of)[j] \notin en2
      BY <3>1, <3>6 DEF Knows
    <3>8. x.op = "stop" /\ x.at \in {"subnodes", "end"} => \A t \in Range(TransitionsOf(x.of)) : t \notin en2
      BY <3>1, <3>5 DEF Knows
    <3>9. Moving(x, "start", "enable") =>
            x.i # 0 /\ (x.i = 1 /\ Alone(x.of) => \A t \in Range(TransitionsOf(x.of)) : t \notin en2)
      BY <3>1, <3>5 DEF Knows, Started, Moving
    <3>10. enabled \subseteq en2
      OBVIOUS
    <3> HIDE DEF en2, F2
    <3> QED
      BY <3>1, <3>7, <3>8, <3>9, <3>10 DEF Knows
  <2>3. Knows(active, en2, F2, g)
    BY <1>5 DEF Knows, Waits, Started, Moving, Stops
  <2>4. Knows(active, en2, F2, h)
    BY <1>3, <1>4, <1>6 DEF Knows, Waits, Started, Moving, Stops
  <2>5. KnowInv(active, en2, F2)
    BY <2>2, <2>3, <2>4 DEF KnowInv
  <2> QED
    BY <2>5, <1>7
<1>10. EnabledInv(active', enabled', listening', Range(stack'))
  <2>1. EnabledInv(active, enabled, listening, F)
    BY DEF IndInv
  <2>2. \A t : ~Disabling(F, t) /\ ~Disabling(F2, t)
    <3>1. \A x \in B : ~(x.op = "stop" /\ x.at = "disable")
      BY <1>1, <1>2 DEF Suspended, Posts
    <3> QED
      BY <3>1, <1>1, <1>2, <1>4, <1>5 DEF Disabling, Disables, Moving
  <2>3. listening \in Seq(Transitions)
    BY DEF IndInv, Typed
  <2>4. Range(Append(listening, u)) = Range(listening) \cup {u}
    BY <2>3, <1>3, RangeAppend
  <2>5. \A t \in Transitions : t \in Range(Append(listening, u)) <=> t \in en2 /\ ~Disabling(F2, t)
    BY <2>1, <2>2, <2>4 DEF EnabledInv
  <2>6. \A t \in en2 : \E m \in Range(Sources[t]) : m \in active
    BY <2>1, <1>3 DEF EnabledInv
  <2>7. ASSUME NEW t \in Transitions, NEW m \in active, m \in Range(Sources[t]), t \notin en2 PROVE Excused(F2, m, t)
    <3>1. Excused(F, m, t)
      BY <2>1, <2>7 DEF EnabledInv
    <3>2. PICK y \in F : Enables(y, m, t) \/ Leaves(y, m)
      BY <3>1 DEF Excused
    <3>3. CASE y \in B
      BY <3>2, <3>3 DEF Excused
    <3>4. CASE y = f
      <4>1. m = n /\ HasFrom(n, t, i)
        BY <3>2, <3>4, <1>1, <1>6 DEF Enables, Leaves, Stops, Moving
      <4>2. PICK j \in 1 .. Len(TransitionsOf(n)) : j >= i /\ TransitionsOf(n)[j] = t
        BY <4>1 DEF HasFrom
      <4>3. j >= i + 1
        <5>1. j # i
          BY <4>2, <2>7, <1>6
        <5> QED
          BY <5>1, <4>2, <1>3
      <4>4. HasFrom(n, t, i + 1)
        BY <4>2, <4>3 DEF HasFrom
      <4>5. Enables(h, m, t)
        BY <4>1, <4>4, <1>4 DEF Enables
      <4> QED
        BY <4>5 DEF Excused
    <3> QED
      BY <3>2, <3>3, <3>4, <1>2
  <2>8. EnabledInv(active, en2, Append(listening, u), F2)
    BY <2>5, <2>6, <2>7 DEF EnabledInv
  <2> QED
    BY <2>8, <1>7
<1> QED
  BY <1>7, <1>8, <1>9, <1>10 DEF IndInv

LEMMA StartEnableKeeps ==
  ASSUME WellMade, IndInv, StartEnable
  PROVE  IndInv'
<1> DEFINE ts == TransitionsOf(Top.of)
<1>0. Runs("start", "enable") /\ UNCHANGED <<trigger, active, seen>>
  BY DEF StartEnable
<1>1. CASE /\ Top.i > Len(ts)
           /\ stack' = Below
           /\ UNCHANGED <<enabled, listening, completions, pending>>
  BY <1>0, <1>1, StartReturnsKeeps
<1>2. CASE /\ Top.i <= Len(ts) /\ ts[Top.i] \in enabled
           /\ stack' = Append(Below, Moved("look", Top.i))
           /\ UNCHANGED <<enabled, listening, completions, pending>>
  BY <1>0, <1>2, StartHasKeeps
<1>3. CASE /\ Top.i <= Len(ts) /\ ts[Top.i] \notin enabled
           /\ enabled' = enabled \cup {ts[Top.i]}
           /\ listening' = Append(listening, ts[Top.i])
           /\ completions' = [completions EXCEPT ![ts[Top.i]] = {}]
           /\ Post(Append(Below, Moved("look", Top.i)), Quiet)
  BY <1>0, <1>3, StartAddsKeeps
<1> QED
  BY <1>1, <1>2, <1>3 DEF StartEnable

-----------------------------------------------------------------------------
(* Stopping a node *)

LEMMA StopIs ==
  ASSUME IndInv, ~AtRest, Top.op = "stop"
  PROVE  /\ Top.of \in All /\ Top.i \in Nat \ {0} /\ Top.of \in active
         /\ TransitionsOf(Top.of) \in Seq(Transitions) /\ Len(TransitionsOf(Top.of)) \in Nat
         /\ \A j \in 1 .. Len(TransitionsOf(Top.of)) : TransitionsOf(Top.of)[j] \in Range(TransitionsOf(Top.of))
         /\ "root" \in active /\ pending = <<>>
         /\ ~Waits(Top)
<1>1. Top \in Frames /\ Knows(active, enabled, Range(stack), Top)
  BY NowIs
<1>2. Top.of \in All /\ Top.i \in Nat
  BY <1>1, FramesAre
<1>3. Top.of \in active /\ Top.i # 0
  BY <1>1 DEF Knows
<1>4. TransitionsOf(Top.of) \in Seq(Transitions) /\ Len(TransitionsOf(Top.of)) \in Nat
  BY <1>2, ShapeIs
<1>5. ~Waits(Top)
  BY DEF Waits
<1>6. "root" \in active /\ pending = <<>>
  BY <1>5, RootIs, NonePending DEF TakesPending, Moving
<1>7. \A j \in 1 .. Len(TransitionsOf(Top.of)) : TransitionsOf(Top.of)[j] \in Range(TransitionsOf(Top.of))
  BY <1>4, RangeIs
<1> QED
  BY <1>2, <1>3, <1>4, <1>5, <1>6, <1>7

\* A call that goes on within the same stop
LEMMA StopGoes ==
  ASSUME IndInv, ~AtRest, Top.op = "stop", NEW at \in {"transitions", "disable", "subnodes", "end"}, NEW i \in Nat
  PROVE  /\ To(Top, at, i) \in Frames /\ To(Top, at, i).op = "stop" /\ To(Top, at, i).of = Top.of
         /\ To(Top, at, i).at = at /\ To(Top, at, i).i = i /\ ~Waits(To(Top, at, i))
<1>1. Top \in Frames
  BY NowIs
<1>2. /\ To(Top, at, i) \in Frames /\ To(Top, at, i).op = "stop" /\ To(Top, at, i).of = Top.of
      /\ To(Top, at, i).at = at /\ To(Top, at, i).i = i
  BY <1>1, ToIs
<1> QED
  BY <1>2 DEF Waits

\* All its transitions are disabled.
LEMMA StopDisabledKeeps ==
  ASSUME WellMade, IndInv, Runs("stop", "transitions"), Top.i > Len(TransitionsOf(Top.of)),
         stack' = Append(Below, Moved("subnodes", 1)),
         UNCHANGED <<trigger, active, enabled, listening, completions, pending, seen>>
  PROVE  IndInv'
<1> DEFINE f == Top
           n == Top.of
           i == Top.i
           h == To(Top, "subnodes", 1)
<1>1. /\ ~AtRest /\ f.op = "stop" /\ f.at = "transitions" /\ stack' = Append(Below, h)
  BY MovedIs DEF Runs
<1>2. /\ n \in All /\ i \in Nat \ {0} /\ n \in active /\ ~Waits(f)
      /\ TransitionsOf(n) \in Seq(Transitions) /\ Len(TransitionsOf(n)) \in Nat
  BY <1>1, StopIs
<1>3. Knows(active, enabled, Range(stack), f)
  BY <1>1, NowIs
<1>4. h \in Frames /\ h.op = "stop" /\ h.of = n /\ h.at = "subnodes" /\ h.i = 1 /\ ~Waits(h)
  BY <1>1, StopGoes
<1>5. h.of = f.of /\ h.op = f.op /\ n = f.of /\ i = f.i /\ i > Len(TransitionsOf(n))
  BY <1>1, <1>4
<1> HIDE DEF h, n, i, f
<1>6. \A t \in Range(TransitionsOf(n)) : t \notin enabled
  <2>1. \A j \in 1 .. Len(TransitionsOf(n)) : TransitionsOf(n)[j] \notin enabled
    <3>1. \A j \in 1 .. Len(TransitionsOf(n)) : j < i
      BY <1>2, <1>5
    <3> QED
      BY <3>1, <1>1, <1>3, <1>5 DEF Knows
  <2> QED
    BY <2>1, <1>2, ShapeIs
<1>7. Knows(active, enabled, Range(Below) \cup {h}, h)
  <2>1. \A j \in 1 .. Len(Nodes) : ~(j < 1)
    BY ShapeIs
  <2> QED
    BY <2>1, <1>2, <1>4, <1>6 DEF Knows, Waits, Started, Moving, Stops
<1>8. f.at # "end" /\ h.at # "end" /\ (~\E t : Disables(f, t)) /\ ~\E t : Disables(h, t)
  BY <1>1, <1>4 DEF Disables, Moving
<1>9. ASSUME NEW t \in Transitions, NEW m \in Range(Sources[t]), Enables(f, m, t) \/ Leaves(f, m) PROVE Leaves(h, m)
  <2>1. CASE Stops(f, m)
    BY <2>1, <1>4, <1>5 DEF Leaves, Stops
  <2>2. CASE Stops(f, "root")
    <3>1. \E j \in 1 .. Len(Nodes) : Nodes[j] = m
      BY <1>9, ShapeIs
    <3>2. m \in From(1)
      BY <3>1, ShapeIs DEF From
    <3> QED
      BY <3>2, <2>2, <1>4, <1>5 DEF Leaves, Stops
  <2> QED
    BY <2>1, <2>2, <1>1, <1>9 DEF Leaves, Enables, Moving
<1>10. /\ Top.op \in {"start", "stop"} /\ ~Waits(Top) /\ h.op = Top.op /\ h.of = Top.of
       /\ Top.at # "end" /\ ~\E t : Disables(Top, t)
       /\ \A t \in Transitions : \A m \in active :
           m \in Range(Sources[t]) /\ t \notin enabled /\ (Enables(Top, m, t) \/ Leaves(Top, m))
             => Enables(h, m, t) \/ Leaves(h, m)
  BY <1>1, <1>2, <1>4, <1>5, <1>8, <1>9 DEF f
<1> QED
  BY <1>1, <1>4, <1>7, <1>8, <1>10, GoesOn

\* The next one is disabled already.
LEMMA StopSkipsKeeps ==
  ASSUME WellMade, IndInv, Runs("stop", "transitions"), Top.i <= Len(TransitionsOf(Top.of)),
         TransitionsOf(Top.of)[Top.i] \notin enabled,
         stack' = Append(Below, Moved("transitions", Top.i + 1)),
         UNCHANGED <<trigger, active, enabled, listening, completions, pending, seen>>
  PROVE  IndInv'
<1> DEFINE f == Top
           n == Top.of
           i == Top.i
           h == To(Top, "transitions", i + 1)
<1>1. /\ ~AtRest /\ f.op = "stop" /\ f.at = "transitions" /\ stack' = Append(Below, h)
  BY MovedIs DEF Runs
<1>2. n \in All /\ i \in Nat \ {0} /\ n \in active /\ ~Waits(f) /\ Len(TransitionsOf(n)) \in Nat
  BY <1>1, StopIs
<1>3. Knows(active, enabled, Range(stack), f)
  BY <1>1, NowIs
<1>4. h \in Frames /\ h.op = "stop" /\ h.of = n /\ h.at = "transitions" /\ h.i = i + 1 /\ ~Waits(h)
  <2>1. i + 1 \in Nat
    BY <1>2
  <2> HIDE DEF i
  <2> QED
    BY <1>1, <2>1, StopGoes
<1>5. h.of = f.of /\ h.op = f.op /\ n = f.of /\ i = f.i /\ TransitionsOf(n)[i] \notin enabled
  BY <1>1, <1>4
<1> HIDE DEF h, n, i, f
<1>6. ASSUME NEW j \in 1 .. Len(TransitionsOf(n)), j < i + 1 PROVE TransitionsOf(n)[j] \notin enabled
  <2>1. j = i \/ j < i
    BY <1>2, <1>6
  <2> QED
    BY <2>1, <1>1, <1>3, <1>5 DEF Knows
<1>7. Knows(active, enabled, Range(Below) \cup {h}, h)
  <2>1. h.i # 0
    BY <1>2, <1>4
  <2> QED
    BY <2>1, <1>2, <1>4, <1>6 DEF Knows, Waits, Started, Moving, Stops
<1>8. f.at # "end" /\ h.at # "end" /\ (~\E t : Disables(f, t)) /\ ~\E t : Disables(h, t)
  BY <1>1, <1>4 DEF Disables, Moving
<1>9. ASSUME NEW t, NEW m, Enables(f, m, t) \/ Leaves(f, m) PROVE Leaves(h, m)
  BY <1>1, <1>4, <1>5, <1>9 DEF Leaves, Enables, Moving, Stops
<1>10. /\ Top.op \in {"start", "stop"} /\ ~Waits(Top) /\ h.op = Top.op /\ h.of = Top.of
       /\ Top.at # "end" /\ ~\E t : Disables(Top, t)
       /\ \A t \in Transitions : \A m \in active :
           m \in Range(Sources[t]) /\ t \notin enabled /\ (Enables(Top, m, t) \/ Leaves(Top, m))
             => Enables(h, m, t) \/ Leaves(h, m)
  BY <1>1, <1>2, <1>4, <1>5, <1>8, <1>9 DEF f
<1> QED
  BY <1>1, <1>4, <1>7, <1>8, <1>10, GoesOn

\* The next one stops listening.
LEMMA StopSilencesKeeps ==
  ASSUME WellMade, IndInv, Runs("stop", "transitions"), Top.i <= Len(TransitionsOf(Top.of)),
         NEW u, u = TransitionsOf(Top.of)[Top.i], u \in enabled,
         listening' = Those(listening, Transitions \ {u}),
         Post(Append(Below, Moved("disable", Top.i)), Quiet),
         UNCHANGED <<trigger, active, enabled, completions, seen>>
  PROVE  IndInv'
<1> DEFINE b == Below
           f == Top
           F == Range(stack)
           B == Range(b)
           n == Top.of
           i == Top.i
           h == To(Top, "disable", i)
           g == Frame("post", Quiet, "deliver")
           F2 == B \cup {h, g}
<1>1. /\ ~AtRest /\ f.op = "stop" /\ f.at = "transitions" /\ ~Waits(f)
      /\ stack' = Append(Append(b, h), g) /\ pending' = pending \o Deliveries(Quiet)
  BY MovedIs DEF Runs, Waits, Post
<1>2. /\ f \in Frames /\ F = B \cup {f}
      /\ \A x \in B : x \in Frames /\ Over(trigger, x, f) /\ Suspended(F, f, x)
      /\ \A x \in F : x \in Frames /\ Knows(active, enabled, F, x)
  BY <1>1, NowIs
<1>3. /\ n \in All /\ i \in Nat \ {0} /\ n \in active /\ Len(TransitionsOf(n)) \in Nat
      /\ i \in 1 .. Len(TransitionsOf(n)) /\ u \in Transitions /\ n # "root"
  <2>1. n \in All /\ i \in Nat \ {0} /\ n \in active /\ Len(TransitionsOf(n)) \in Nat
    BY <1>1, StopIs
  <2>2. i \in 1 .. Len(TransitionsOf(n))
    BY <2>1
  <2>3. u \in Transitions
    BY DEF IndInv, Typed
  <2>4. n # "root"
    BY <2>2 DEF TransitionsOf
  <2> QED
    BY <2>1, <2>2, <2>3, <2>4
<1>4. h \in Frames /\ h.op = "stop" /\ h.of = n /\ h.at = "disable" /\ h.i = i
  <2> HIDE DEF i
  <2> QED
    BY <1>1, <1>3, StopGoes
<1>5. g.op = "post" /\ g.at = "deliver" /\ g.of = Quiet
  BY FrameIs
<1>6. n = f.of /\ i = f.i /\ u = TransitionsOf(n)[i]
  OBVIOUS
<1> HIDE DEF h, n, i
<1>7. /\ stack' \in Seq(Frames) /\ Range(stack') = F2
      /\ pending' = <<>> /\ pending' \in Seq(Owed)
      /\ StackInv(trigger', stack') /\ WaitInv(active', pending', stack')
      /\ RootInv(active', pending', stack') /\ PendingInv(trigger', pending', stack')
      /\ SeenInv(active', seen', Range(stack'))
  BY <1>1, <1>4, <1>6, QuietPost
<1> HIDE DEF b, f, g
<1>8. listening \in Seq(Transitions)
  BY DEF IndInv, Typed
<1>9. Typed'
  <2>1. Those(listening, Transitions \ {u}) \in Seq(Transitions)
    BY <1>8, ThoseAre
  <2> QED
    BY <2>1, <1>7 DEF IndInv, Typed
<1>10. KnowInv(active', enabled', Range(stack'))
  <2>1. \A m : Stopping(F, m) => Stopping(F2, m)
    BY <1>1, <1>2, <1>4, <1>6 DEF Stopping, Stops
  <2>2. \A x \in B : Knows(active, enabled, F2, x)
    BY <2>1, <1>2, KnowsKept
  <2>3. Knows(active, enabled, F2, g)
    BY <1>5 DEF Knows, Waits, Started, Moving, Stops
  <2>4. \A j \in 1 .. Len(TransitionsOf(n)) : j < i => TransitionsOf(n)[j] \notin enabled
    BY <1>1, <1>2, <1>6 DEF Knows
  <2>5. Knows(active, enabled, F2, h)
    BY <2>4, <1>3, <1>4, <1>6 DEF Knows, Waits, Started, Moving, Stops
  <2>6. KnowInv(active, enabled, F2)
    BY <2>2, <2>3, <2>5 DEF KnowInv
  <2> QED
    BY <2>6, <1>7
<1>11. EnabledInv(active', enabled', listening', Range(stack'))
  <2>1. EnabledInv(active, enabled, listening, F)
    BY DEF IndInv
  <2>2. \A x \in B : ~(x.op = "stop" /\ x.at = "disable")
    BY <1>1, <1>2 DEF Suspended, Posts
  <2>3. \A t : ~Disabling(F, t)
    BY <2>2, <1>1, <1>2 DEF Disabling, Disables, Moving
  <2>4. \A t : Disabling(F2, t) <=> t = u
    BY <2>2, <1>4, <1>5, <1>6 DEF Disabling, Disables, Moving
  <2>5. \A t : t \in Range(Those(listening, Transitions \ {u})) <=> t \in Range(listening) /\ t \in Transitions \ {u}
    BY <1>8, ThoseHold
  <2>6. \A t \in Transitions : t \in Range(Those(listening, Transitions \ {u})) <=> t \in enabled /\ ~Disabling(F2, t)
    BY <2>1, <2>3, <2>4, <2>5 DEF EnabledInv
  <2>7. ASSUME NEW t \in Transitions, NEW m \in active, m \in Range(Sources[t]), t \notin enabled PROVE Excused(F2, m, t)
    <3>1. Excused(F, m, t)
      BY <2>1, <2>7 DEF EnabledInv
    <3>2. PICK y \in F : Enables(y, m, t) \/ Leaves(y, m)
      BY <3>1 DEF Excused
    <3>3. CASE y \in B
      BY <3>2, <3>3 DEF Excused
    <3>4. CASE y = f
      <4>1. Stops(h, m)
        BY <3>2, <3>4, <1>1, <1>3, <1>4, <1>6 DEF Enables, Leaves, Stops, Moving
      <4> QED
        BY <4>1 DEF Excused, Leaves
    <3> QED
      BY <3>2, <3>3, <3>4, <1>2
  <2>8. \A t \in enabled : \E m \in Range(Sources[t]) : m \in active
    BY <2>1 DEF EnabledInv
  <2>9. EnabledInv(active, enabled, Those(listening, Transitions \ {u}), F2)
    BY <2>6, <2>7, <2>8 DEF EnabledInv
  <2> QED
    BY <2>9, <1>7
<1> QED
  BY <1>7, <1>9, <1>10, <1>11 DEF IndInv

LEMMA StopTransitionKeeps ==
  ASSUME WellMade, IndInv, StopTransition
  PROVE  IndInv'
<1> DEFINE ts == TransitionsOf(Top.of)
<1>0. Runs("stop", "transitions") /\ UNCHANGED <<trigger, active, enabled, completions, seen>>
  BY DEF StopTransition
<1>1. CASE /\ Top.i > Len(ts)
           /\ stack' = Append(Below, Moved("subnodes", 1))
           /\ UNCHANGED <<listening, pending>>
  BY <1>0, <1>1, StopDisabledKeeps
<1>2. CASE /\ Top.i <= Len(ts) /\ ts[Top.i] \notin enabled
           /\ stack' = Append(Below, Moved("transitions", Top.i + 1))
           /\ UNCHANGED <<listening, pending>>
  BY <1>0, <1>2, StopSkipsKeeps
<1>3. CASE /\ Top.i <= Len(ts) /\ ts[Top.i] \in enabled
           /\ listening' = Those(listening, Transitions \ {ts[Top.i]})
           /\ Post(Append(Below, Moved("disable", Top.i)), Quiet)
  BY <1>0, <1>3, StopSilencesKeeps
<1> QED
  BY <1>1, <1>2, <1>3 DEF StopTransition

\* A transition is disabled: the other sources of it that are active are about to be
\* stopped too.
LEMMA StopDisableKeeps ==
  ASSUME WellMade, IndInv, StopDisable
  PROVE  IndInv'
<1> DEFINE b == Below
           f == Top
           F == Range(stack)
           B == Range(b)
           n == Top.of
           i == Top.i
           u == TransitionsOf(n)[i]
           h == To(Top, "transitions", i + 1)
           s2 == Append(b, h)
           F2 == B \cup {h}
<1>1. /\ ~AtRest /\ f.op = "stop" /\ f.at = "disable" /\ ~Waits(f)
      /\ stack' = s2 /\ enabled' = enabled \ {u}
      /\ UNCHANGED <<trigger, active, listening, completions, pending, seen>>
  BY MovedIs DEF StopDisable, Runs, Waits
<1>2. /\ b \in Seq(Frames) /\ f \in Frames /\ stack = Append(b, f) /\ F = B \cup {f}
      /\ StackInv(trigger, b) /\ Fits(trigger, b, f)
      /\ \A x \in B : x \in Frames /\ Over(trigger, x, f) /\ Suspended(F, f, x)
      /\ \A x \in F : x \in Frames /\ Knows(active, enabled, F, x)
  BY <1>1, NowIs
<1>3. /\ n \in All /\ i \in Nat \ {0} /\ n \in active /\ Len(TransitionsOf(n)) \in Nat
      /\ "root" \in active /\ pending = <<>>
  BY <1>1, StopIs
<1>4. i \in 1 .. Len(TransitionsOf(n)) /\ u \in enabled
  BY <1>1, <1>2 DEF Knows, Moving
<1>5. n # "root" /\ u \in Transitions /\ n \in Range(Sources[u])
  <2>1. u \in Range(TransitionsOf(n))
    BY <1>1, <1>4, StopIs
  <2>2. n # "root"
    BY <1>3, <1>4 DEF TransitionsOf
  <2> QED
    BY <2>1, <2>2, <1>3, ShapeIs
<1>6. h \in Frames /\ h.op = "stop" /\ h.of = n /\ h.at = "transitions" /\ h.i = i + 1 /\ ~Waits(h)
  <2>1. i + 1 \in Nat
    BY <1>3
  <2> QED
    BY <2>1, <1>1, StopGoes
<1>7. n = f.of /\ i = f.i /\ u = TransitionsOf(n)[i]
  OBVIOUS
<1> HIDE DEF b, f, h, n, i, u
<1>8. s2 \in Seq(Frames) /\ Range(s2) = F2
  BY <1>2, <1>6, AppendIs, RangeAppend
<1>9. Typed'
  BY <1>1, <1>8 DEF IndInv, Typed
<1>10. StackInv(trigger', stack')
  <2>1. StackInv(trigger, Append(b, f))
    BY <1>2 DEF IndInv
  <2>2. StackInv(trigger, s2)
    BY <2>1, <1>1, <1>2, <1>6, <1>7, StackSwaps
  <2> QED
    BY <2>2, <1>1
<1>11. KnowInv(active', enabled', Range(stack'))
  <2>1. \A m : Stopping(F, m) => Stopping(F2, m)
    BY <1>1, <1>2, <1>6, <1>7 DEF Stopping, Stops
  <2>2. ASSUME NEW x \in B PROVE Knows(active, enabled \ {u}, F2, x)
    <3>1. Knows(active, enabled, F2, x)
      BY <2>1, <1>2, KnowsKept
    <3>2. ~Moving(x, "start", "look") /\ ~Moving(x, "stop", "disable")
      BY <1>1, <1>2 DEF Suspended, Moving, Waits, Posts
    <3> QED
      BY <3>1, <3>2 DEF Knows
  <2>3. ASSUME NEW j \in 1 .. Len(TransitionsOf(n)), j < h.i PROVE TransitionsOf(n)[j] \notin enabled \ {u}
    <3>1. CASE j = i
      BY <3>1, <1>7
    <3>2. CASE j # i
      <4>1. j < f.i
        BY <3>2, <2>3, <1>3, <1>6, <1>7
      <4>2. TransitionsOf(n)[j] \notin enabled
        BY <4>1, <1>1, <1>2, <1>7 DEF Knows
      <4> QED
        BY <4>2
    <3> QED
      BY <3>1, <3>2
  <2>4. h.i # 0
    BY <1>3, <1>6
  <2>5. Knows(active, enabled \ {u}, F2, h)
    BY <2>3, <2>4, <1>3, <1>6 DEF Knows, Waits, Started, Moving, Stops
  <2>6. KnowInv(active, enabled \ {u}, F2)
    BY <2>2, <2>5 DEF KnowInv
  <2> QED
    BY <2>6, <1>1, <1>8
<1>12. WaitInv(active', pending', stack')
  <2>1. WaitInv(active, pending, Append(b, f))
    BY <1>2 DEF IndInv
  <2>2. f.op \notin {"start", "post"}
    BY <1>1
  <2>3. WaitInv(active, pending, s2)
    BY <2>1, <2>2, <1>2, <1>6, WaitSwaps
  <2> QED
    BY <2>3, <1>1
<1>13. RootInv(active', pending', stack')
  BY <1>1, <1>3 DEF RootInv
<1>14. PendingInv(trigger', pending', stack')
  <2>1. \A x \in F2 : x.op = "process" => HearsIn(trigger, x.of, x.at)
    BY <1>2, <1>6 DEF IndInv, PendingInv
  <2>2. PendingInv(trigger, <<>>, s2)
    BY <2>1, <1>8, EmptyPending
  <2> QED
    BY <2>2, <1>1, <1>3
<1>15. EnabledInv(active', enabled', listening', Range(stack'))
  <2>1. EnabledInv(active, enabled, listening, F)
    BY DEF IndInv
  <2>2. \A x \in B : ~(x.op = "stop" /\ x.at = "disable")
    BY <1>1, <1>2 DEF Suspended, Posts
  <2>3. \A t : Disabling(F, t) <=> t = u
    BY <2>2, <1>1, <1>2, <1>7 DEF Disabling, Disables, Moving
  <2>4. \A t : ~Disabling(F2, t)
    BY <2>2, <1>6 DEF Disabling, Disables, Moving
  <2>5. \A t \in Transitions : t \in Range(listening) <=> t \in enabled \ {u} /\ ~Disabling(F2, t)
    BY <2>1, <2>3, <2>4 DEF EnabledInv
  <2>6. \A t \in enabled \ {u} : \E m \in Range(Sources[t]) : m \in active
    BY <2>1 DEF EnabledInv
  <2>7. ASSUME NEW t \in Transitions, NEW m \in active, m \in Range(Sources[t]), t \notin enabled
        PROVE  Excused(F2, m, t)
    <3>1. PICK y \in F : Enables(y, m, t) \/ Leaves(y, m)
      BY <2>1, <2>7 DEF EnabledInv, Excused
    <3>2. CASE y \in B
      BY <3>1, <3>2 DEF Excused
    <3>3. CASE y = f
      <4>1. Stops(h, m)
        BY <3>1, <3>3, <1>1, <1>6, <1>7 DEF Enables, Leaves, Stops, Moving
      <4> QED
        BY <4>1 DEF Excused, Leaves
    <3> QED
      BY <3>1, <3>2, <3>3, <1>2
  <2>8. ASSUME NEW m \in active, m \in Range(Sources[u]) PROVE Excused(F2, m, u)
    <3>1. CASE m = n
      BY <3>1, <1>6 DEF Excused, Leaves, Stops
    <3>2. CASE m # n
      <4> DEFINE y == b[Len(b)]
      <4>1. b # <<>> /\ OnTop(y, f)
        BY <1>1, <1>2 DEF Fits
      <4>2. y \in B /\ y \in Frames
        <5>1. Len(b) \in 1 .. Len(b)
          BY <4>1, <1>2
        <5>2. y \in B
          BY <5>1, <1>2, RangeIs
        <5> QED
          BY <5>2, <1>2
      <4> HIDE DEF y
      <4>3. Knows(active, enabled, F, y)
        BY <4>2, <1>2
      <4>4. ASSUME Stopping(F, m) PROVE Excused(F2, m, u)
        <5>1. PICK z \in F : Stops(z, m)
          BY <4>4 DEF Stopping
        <5>2. z \in B
          BY <5>1, <3>2, <1>2, <1>7 DEF Stops
        <5> QED
          BY <5>1, <5>2 DEF Excused, Leaves
      <4>5. CASE Moving(y, "fire", "sources") /\ y.i - 1 \in 1 .. Len(Sources[y.of]) /\ n = Sources[y.of][y.i - 1]
        <5>1. y.of \in Transitions /\ y.i \in Nat
          BY <4>2, <4>5, FramesAre DEF Moving
        <5>2. n \in Range(Sources[y.of])
          <6>1. \E k \in 1 .. Len(Sources[y.of]) : Sources[y.of][k] = n
            BY <4>5
          <6> QED
            BY <5>1, <6>1, ShapeIs
        <5>3. Range(Sources[u]) = Range(Sources[y.of])
          BY <5>1, <5>2, <1>5 DEF WellMade, Connected
        <5>4. PICK j \in 1 .. Len(Sources[y.of]) : Sources[y.of][j] = m
          BY <5>1, <5>3, <2>8, ShapeIs
        <5>5. CASE j >= y.i
          <6>1. Leaves(y, m)
            BY <5>4, <5>5, <4>5 DEF Leaves
          <6> QED
            BY <6>1, <4>2 DEF Excused
        <5>6. CASE j < y.i
          <6>1. Stopping(F, m)
            BY <5>4, <5>6, <4>3, <4>5 DEF Knows
          <6> QED
            BY <6>1, <4>4
        <5> QED
          BY <5>1, <5>4, <5>5, <5>6, ShapeIs
      <4>6. CASE Stops(y, "root") /\ y.at = "subnodes" /\ y.i - 1 \in 1 .. Len(Nodes) /\ n = Nodes[y.i - 1]
        <5>1. y.i \in Nat
          BY <4>2, FramesAre
        <5>2. m \in Range(Nodes)
          BY <2>8, <1>5, ShapeIs
        <5>3. PICK j \in 1 .. Len(Nodes) : Nodes[j] = m
          BY <5>2, ShapeIs
        <5>4. CASE j >= y.i
          <6>1. m \in From(y.i)
            BY <5>1, <5>3, <5>4, FromIs
          <6> QED
            BY <6>1, <4>2, <4>6 DEF Excused, Leaves
        <5>5. CASE j < y.i
          <6>1. Stopping(F, m)
            BY <5>3, <5>5, <4>3, <4>6 DEF Knows
          <6> QED
            BY <6>1, <4>4
        <5> QED
          BY <5>1, <5>3, <5>4, <5>5, ShapeIs
      <4> QED
        BY <4>1, <4>5, <4>6, <1>1, <1>5, <1>7 DEF OnTop
    <3> QED
      BY <3>1, <3>2
  <2>9. \A t \in Transitions : \A m \in active : m \in Range(Sources[t]) => t \in enabled \ {u} \/ Excused(F2, m, t)
    BY <2>7, <2>8
  <2>10. EnabledInv(active, enabled \ {u}, listening, F2)
    BY <2>5, <2>6, <2>9 DEF EnabledInv
  <2> QED
    BY <2>10, <1>1, <1>8
<1>16. SeenInv(active', seen', Range(stack'))
  <2>1. SeenInv(active, seen, B \cup {f})
    BY <1>2 DEF IndInv
  <2>2. \A x \in F2 \cup {f} : x \in B \/ x.op # "stop" \/ x.at # "end"
    BY <1>1, <1>6
  <2>3. SeenInv(active, seen, F2)
    BY <2>1, <2>2, SeenKept
  <2> QED
    BY <2>3, <1>1, <1>8
<1> QED
  BY <1>9, <1>10, <1>11, <1>12, <1>13, <1>14, <1>15, <1>16 DEF IndInv

\* Only the root has subnodes, and what goes on below it when it stops them is an event.
LEMMA SubnodesAre ==
  ASSUME IndInv, ~AtRest, Top.op = "stop"
  PROVE  /\ Top.i <= Len(SubnodesOf(Top.of)) => Top.of = "root"
         /\ Top.of = "root" =>
              /\ SubnodesOf(Top.of) = Nodes /\ TransitionsOf(Top.of) = <<>>
              /\ \A x \in Range(Below) : x.op = "post"
<1>1. Top.i \in Nat \ {0}
  BY StopIs
<1>2. ASSUME Top.i <= Len(SubnodesOf(Top.of)), Top.of # "root" PROVE FALSE
  <2>1. Len(SubnodesOf(Top.of)) = 0
    BY <1>2 DEF SubnodesOf
  <2> QED
    BY <2>1, <1>1, <1>2
<1>3. ASSUME Top.of = "root", NEW x \in Range(Below) PROVE x.op = "post"
  BY <1>3, NowIs DEF Over, Stops
<1> QED
  BY <1>2, <1>3 DEF SubnodesOf, TransitionsOf

\* The root has come to a subnode that is not active.
LEMMA StopPassesKeeps ==
  ASSUME WellMade, IndInv, Runs("stop", "subnodes"), Top.i <= Len(SubnodesOf(Top.of)),
         SubnodesOf(Top.of)[Top.i] \notin active,
         stack' = Append(Below, Moved("subnodes", Top.i + 1)),
         UNCHANGED <<trigger, active, enabled, listening, completions, pending, seen>>
  PROVE  IndInv'
<1> DEFINE f == Top
           F == Range(stack)
           i == Top.i
           h == To(Top, "subnodes", i + 1)
<1>1. ~AtRest /\ f.op = "stop" /\ f.at = "subnodes" /\ stack' = Append(Below, h)
  BY MovedIs DEF Runs
<1>2. f.of = "root" /\ TransitionsOf(f.of) = <<>> /\ Nodes[i] \notin active
  BY <1>1, SubnodesAre
<1>3. i \in Nat \ {0} /\ f.of \in active
  BY <1>1, StopIs
<1>4. h \in Frames /\ h.op = "stop" /\ h.of = "root" /\ h.at = "subnodes" /\ h.i = i + 1 /\ ~Waits(h)
  <2>1. i + 1 \in Nat
    BY <1>3
  <2> QED
    BY <2>1, <1>1, <1>2, StopGoes
<1>5. F = Range(Below) \cup {f} /\ Knows(active, enabled, F, f)
  BY <1>1, NowIs
<1> HIDE DEF h
<1>6. Knows(active, enabled, Range(Below) \cup {h}, h)
  <2>1. \A m : Stopping(F, m) => Stopping(Range(Below) \cup {h}, m)
    BY <1>1, <1>2, <1>4, <1>5 DEF Stopping, Stops
  <2>2. ASSUME NEW j \in 1 .. Len(Nodes), j < h.i, Nodes[j] \in active
        PROVE  Stopping(Range(Below) \cup {h}, Nodes[j])
    <3>1. j # i
      BY <2>2, <1>2
    <3>2. j < f.i
      BY <2>2, <3>1, <1>3, <1>4
    <3>3. Stopping(F, Nodes[j])
      BY <2>2, <3>2, <1>1, <1>2, <1>5 DEF Knows, Stops
    <3> QED
      BY <3>3, <2>1
  <2>3. h.i # 0
    BY <1>3, <1>4
  <2>4. \A t \in Range(TransitionsOf(h.of)) : t \notin enabled
    BY <1>1, <1>2, <1>4, <1>5 DEF Knows
  <2> QED
    BY <2>2, <2>3, <2>4, <1>2, <1>3, <1>4 DEF Knows, Waits, Started, Moving, Stops
<1>7. ASSUME NEW t \in Transitions, NEW m \in active, Enables(f, m, t) \/ Leaves(f, m)
      PROVE  Enables(h, m, t) \/ Leaves(h, m)
  <2>1. Stops(f, m) \/ m \in From(i)
    BY <1>1, <1>7 DEF Enables, Leaves, Stops, Moving
  <2>2. CASE Stops(f, m)
    BY <2>2, <1>2, <1>4 DEF Leaves, Stops
  <2>3. CASE m \in From(i)
    <3>1. PICK j \in 1 .. Len(Nodes) : j >= i /\ Nodes[j] = m
      BY <2>3, <1>3, FromIs
    <3>2. j # i
      BY <3>1, <1>2
    <3>3. j >= h.i /\ h.i \in Nat
      BY <3>1, <3>2, <1>3, <1>4
    <3>4. m \in From(h.i)
      BY <3>1, <3>3, FromIs
    <3> QED
      BY <3>4, <1>4 DEF Leaves, Stops
  <2> QED
    BY <2>1, <2>2, <2>3
<1>8. (~\E t : Disables(f, t)) /\ (~\E t : Disables(h, t)) /\ ~Waits(f)
  BY <1>1, <1>4 DEF Disables, Moving, Waits
<1> QED
  BY <1>1, <1>2, <1>4, <1>6, <1>7, <1>8, GoesOn

\* The root has come to one that is.
LEMMA StopCallsKeeps ==
  ASSUME WellMade, IndInv, Runs("stop", "subnodes"), Top.i <= Len(SubnodesOf(Top.of)),
         NEW n, n = SubnodesOf(Top.of)[Top.i], n \in active,
         stack' = Append(Append(Below, Moved("subnodes", Top.i + 1)), Frame("stop", n, "transitions")),
         UNCHANGED <<trigger, active, enabled, listening, completions, pending, seen>>
  PROVE  IndInv'
<1> DEFINE b == Below
           f == Top
           F == Range(stack)
           B == Range(b)
           i == Top.i
           h == To(Top, "subnodes", i + 1)
           g == Frame("stop", n, "transitions")
           s1 == Append(b, h)
           s2 == Append(s1, g)
           F2 == B \cup {h, g}
<1>1. ~AtRest /\ f.op = "stop" /\ f.at = "subnodes" /\ stack' = s2
  BY MovedIs DEF Runs
<1>2. /\ b \in Seq(Frames) /\ f \in Frames /\ stack = Append(b, f) /\ F = B \cup {f}
      /\ StackInv(trigger, b) /\ Fits(trigger, b, f)
      /\ \A x \in B : x \in Frames /\ Over(trigger, x, f) /\ Suspended(F, f, x)
      /\ \A x \in F : x \in Frames /\ Knows(active, enabled, F, x)
  BY <1>1, NowIs
<1>3. /\ f.of = "root" /\ TransitionsOf("root") = <<>> /\ n = Nodes[i] /\ i <= Len(Nodes)
      /\ \A x \in B : x.op = "post"
  BY <1>1, SubnodesAre
<1>4. i \in Nat \ {0} /\ "root" \in active /\ pending = <<>>
  BY <1>1, StopIs
<1>5. i \in 1 .. Len(Nodes) /\ n \in Range(Nodes) /\ n \in All /\ n # "root"
  <2>1. i \in 1 .. Len(Nodes)
    BY <1>3, <1>4, ShapeIs
  <2>2. n \in Range(Nodes)
    BY <2>1, <1>3, ShapeIs
  <2> QED
    BY <2>1, <2>2, ShapeIs DEF All
<1>6. h \in Frames /\ h.op = "stop" /\ h.of = "root" /\ h.at = "subnodes" /\ h.i = i + 1 /\ ~Waits(h)
  <2>1. i + 1 \in Nat
    BY <1>4
  <2> QED
    BY <2>1, <1>1, <1>3, StopGoes
<1>7. g \in Frames /\ g.op = "stop" /\ g.of = n /\ g.at = "transitions" /\ g.i = 1
  BY <1>5, NewFrames, FrameIs
<1>8. i = f.i
  OBVIOUS
<1> HIDE DEF b, f, h, i, g
<1>9. s1 \in Seq(Frames) /\ Range(s1) = B \cup {h}
  BY <1>2, <1>6, AppendIs, RangeAppend
<1>10. s2 \in Seq(Frames) /\ Range(s2) = F2
  <2> HIDE DEF s1
  <2>1. Append(s1, g) \in Seq(Frames) /\ Range(Append(s1, g)) = B \cup {h} \cup {g}
    BY <1>7, <1>9, AppendIs, RangeAppend
  <2> QED
    BY <2>1
<1>11. Typed'
  BY <1>1, <1>10 DEF IndInv, Typed
<1>12. StackInv(trigger', stack')
  <2>1. StackInv(trigger, Append(b, f))
    BY <1>2 DEF IndInv
  <2>2. StackInv(trigger, s1)
    BY <2>1, <1>1, <1>2, <1>3, <1>6, StackSwaps
  <2>3. \A x \in B : Over(trigger, x, g)
    BY <1>3, <1>5, <1>7 DEF Over, Acts, Stops, Waits, Started
  <2>4. n \in From(h.i - 1)
    <3>1. h.i - 1 = i
      BY <1>4, <1>6
    <3>2. \E j \in 1 .. Len(Nodes) : j >= i /\ Nodes[j] = n
      BY <1>3, <1>4, <1>5
    <3>3. n \in From(i)
      BY <3>2, <1>4, FromIs
    <3> QED
      BY <3>1, <3>3
  <2>5. Over(trigger, h, g)
    BY <2>4, <1>5, <1>6, <1>7 DEF Over, Acts, Stops, Waits, Started, Late
  <2>6. OnTop(h, g)
    <3>1. h.i - 1 = i
      BY <1>4, <1>6
    <3> QED
      BY <3>1, <1>3, <1>5, <1>6, <1>7 DEF OnTop, Posts, Stops
  <2>7. StackInv(trigger, s2)
    BY <2>2, <2>3, <2>5, <2>6, <1>2, <1>6, <1>7, StackPushes
  <2> QED
    BY <2>7, <1>1
<1>13. KnowInv(active', enabled', Range(stack'))
  <2>1. \A m : Stopping(F, m) => Stopping(F2, m)
    BY <1>1, <1>2, <1>3, <1>6 DEF Stopping, Stops
  <2>2. \A x \in B : Knows(active, enabled, F2, x)
    BY <2>1, <1>2, KnowsKept
  <2>3. Knows(active, enabled, F2, g)
    <3>1. \A j \in 1 .. Len(TransitionsOf(n)) : ~(j < 1)
      BY <1>5, ShapeIs
    <3> QED
      BY <3>1, <1>5, <1>7 DEF Knows, Waits, Started, Moving, Stops
  <2>4. ASSUME NEW j \in 1 .. Len(Nodes), j < h.i, Nodes[j] \in active PROVE Stopping(F2, Nodes[j])
    <3>1. CASE j = i
      BY <3>1, <1>3, <1>7 DEF Stopping, Stops
    <3>2. CASE j # i
      <4>1. j < f.i
        BY <3>2, <2>4, <1>4, <1>6, <1>8
      <4>2. Stopping(F, Nodes[j])
        BY <4>1, <2>4, <1>1, <1>2, <1>3 DEF Knows, Stops
      <4> QED
        BY <4>2, <2>1
    <3> QED
      BY <3>1, <3>2
  <2>5. h.i # 0
    BY <1>4, <1>6
  <2>6. \A t \in Range(TransitionsOf(h.of)) : t \notin enabled
    BY <1>1, <1>2, <1>3, <1>6 DEF Knows
  <2>7. Knows(active, enabled, F2, h)
    BY <2>4, <2>5, <2>6, <1>4, <1>6 DEF Knows, Waits, Started, Moving, Stops
  <2>8. KnowInv(active, enabled, F2)
    BY <2>2, <2>3, <2>7 DEF KnowInv
  <2> QED
    BY <2>8, <1>1, <1>10
<1>14. WaitInv(active', pending', stack')
  <2>1. WaitInv(active, pending, Append(b, f))
    BY <1>2 DEF IndInv
  <2>2. f.op \notin {"start", "post"}
    BY <1>1
  <2>3. WaitInv(active, pending, s2)
    BY <1>2, <1>6, <1>7, <2>1, <2>2, WaitPushes
  <2> QED
    BY <2>3, <1>1
<1>15. RootInv(active', pending', stack')
  BY <1>4 DEF RootInv
<1>16. PendingInv(trigger', pending', stack')
  <2>1. \A x \in F2 : x.op = "process" => HearsIn(trigger, x.of, x.at)
    BY <1>2, <1>6, <1>7 DEF IndInv, PendingInv
  <2>2. PendingInv(trigger, <<>>, s2)
    BY <2>1, <1>10, EmptyPending
  <2> QED
    BY <2>2, <1>1, <1>4
<1>17. EnabledInv(active', enabled', listening', Range(stack'))
  <2>1. EnabledInv(active, enabled, listening, F)
    BY DEF IndInv
  <2>2. \A u \in Transitions : Disabling(F, u) <=> Disabling(F2, u)
    BY <1>1, <1>2, <1>6, <1>7 DEF Disabling, Disables, Moving
  <2>3. ASSUME NEW u \in Transitions, NEW m \in active, m \in Range(Sources[u]), Excused(F, m, u)
        PROVE  Excused(F2, m, u)
    <3>1. PICK y \in F : Enables(y, m, u) \/ Leaves(y, m)
      BY <2>3 DEF Excused
    <3>2. CASE y \in B
      BY <3>1, <3>2 DEF Excused
    <3>3. CASE y = f
      <4>1. Stops(f, m) \/ m \in From(i)
        BY <3>1, <3>3, <1>1, <1>8 DEF Enables, Leaves, Stops, Moving
      <4>2. CASE Stops(f, m)
        BY <4>2, <1>3, <1>6 DEF Excused, Leaves, Stops
      <4>3. CASE m \in From(i)
        <5>1. PICK j \in 1 .. Len(Nodes) : j >= i /\ Nodes[j] = m
          BY <4>3, <1>4, FromIs
        <5>2. CASE j = i
          BY <5>1, <5>2, <1>3, <1>7 DEF Excused, Leaves, Stops
        <5>3. CASE j # i
          <6>1. j >= h.i /\ h.i \in Nat
            BY <5>1, <5>3, <1>4, <1>6
          <6>2. m \in From(h.i)
            BY <5>1, <6>1, FromIs
          <6> QED
            BY <6>2, <1>6 DEF Excused, Leaves, Stops
        <5> QED
          BY <5>2, <5>3
      <4> QED
        BY <4>1, <4>2, <4>3
    <3> QED
      BY <3>1, <3>2, <3>3, <1>2
  <2>4. EnabledInv(active, enabled, listening, F2)
    BY <2>1, <2>2, <2>3, EnabledKept
  <2> QED
    BY <2>4, <1>1, <1>10
<1>18. SeenInv(active', seen', Range(stack'))
  <2>1. SeenInv(active, seen, B \cup {f})
    BY <1>2 DEF IndInv
  <2>2. \A x \in F2 \cup {f} : x \in B \/ x.op # "stop" \/ x.at # "end"
    BY <1>1, <1>6, <1>7
  <2>3. SeenInv(active, seen, F2)
    BY <2>1, <2>2, SeenKept
  <2> QED
    BY <2>3, <1>1, <1>10
<1> QED
  BY <1>11, <1>12, <1>13, <1>14, <1>15, <1>16, <1>17, <1>18 DEF IndInv

\* Who has stopped all its subnodes tells so; for the root, none is active any more.
LEMMA StopTellsKeeps ==
  ASSUME WellMade, IndInv, Runs("stop", "subnodes"), Top.i > Len(SubnodesOf(Top.of)),
         seen' = seen \ {Top.of},
         Post(Append(Below, Moved("end", 1)), Event("stop", Top.of)),
         UNCHANGED <<trigger, active, enabled, listening, completions>>
  PROVE  IndInv'
<1> DEFINE b == Below
           f == Top
           F == Range(stack)
           B == Range(b)
           n == Top.of
           i == Top.i
           e == Event("stop", n)
           h == To(Top, "end", 1)
           g == Frame("post", e, "deliver")
           s1 == Append(b, h)
           s2 == Append(s1, g)
           F2 == B \cup {h, g}
<1>1. /\ ~AtRest /\ f.op = "stop" /\ f.at = "subnodes"
      /\ stack' = s2 /\ pending' = pending \o Deliveries(e) /\ seen' = seen \ {n}
  BY MovedIs DEF Runs, Post
<1>2. /\ b \in Seq(Frames) /\ f \in Frames /\ stack = Append(b, f) /\ F = B \cup {f}
      /\ StackInv(trigger, b) /\ Fits(trigger, b, f)
      /\ \A x \in B : x \in Frames /\ Over(trigger, x, f) /\ Suspended(F, f, x)
      /\ \A x \in F : x \in Frames /\ Knows(active, enabled, F, x)
  BY <1>1, NowIs
<1>3. /\ n \in All /\ i \in Nat \ {0} /\ n \in active /\ "root" \in active /\ pending = <<>>
  BY <1>1, StopIs
<1>4. n = "root" => i > Len(Nodes) /\ \A x \in B : x.op = "post"
  BY <1>1, SubnodesAre
<1>5. h \in Frames /\ h.op = "stop" /\ h.of = n /\ h.at = "end" /\ h.i = 1 /\ ~Waits(h)
  BY <1>1, StopGoes
<1>6. e \in Events /\ g \in Frames /\ g.op = "post" /\ g.at = "deliver" /\ g.of = e
  <2>1. e \in Events
    BY <1>3, EventsAre
  <2> QED
    BY <2>1, NewFrames, FrameIs
<1>7. OfMachine(e) /\ About(e) = {n}
  BY MachineEvents
<1>8. n = f.of /\ i = f.i
  OBVIOUS
<1>9. active \subseteq All
  BY DEF IndInv, Typed
<1> HIDE DEF b, f, h, g, n, i, e
<1>10. s1 \in Seq(Frames) /\ Range(s1) = B \cup {h}
  BY <1>2, <1>5, AppendIs, RangeAppend
<1>11. /\ s2 \in Seq(Frames) /\ Range(s2) = F2 /\ s2 # <<>> /\ s2[Len(s2)] = g
  <2> HIDE DEF s1
  <2>1. /\ Append(s1, g) \in Seq(Frames) /\ Range(Append(s1, g)) = B \cup {h} \cup {g}
        /\ Append(s1, g) # <<>> /\ Append(s1, g)[Len(Append(s1, g))] = g
    BY <1>6, <1>10, AppendIs, RangeAppend
  <2> QED
    BY <2>1
<1>12. n = "root" => active \subseteq {"root"}
  <2> SUFFICES ASSUME n = "root", NEW m \in active, m # "root" PROVE FALSE
    OBVIOUS
  <2>1. m \in Range(Nodes)
    BY <1>9 DEF All
  <2>2. PICK j \in 1 .. Len(Nodes) : Nodes[j] = m
    BY <2>1, ShapeIs
  <2>3. j < f.i
    BY <1>3, <1>4, <1>8, ShapeIs
  <2>4. Stopping(F, m)
    BY <2>2, <2>3, <1>1, <1>2, <1>8 DEF Knows, Stops
  <2>5. PICK z \in F : Stops(z, m)
    BY <2>4 DEF Stopping
  <2>6. z \in B
    BY <2>5, <1>2, <1>8 DEF Stops
  <2> QED
    BY <2>5, <2>6, <1>4 DEF Stops
<1>13. ASSUME NEW x \in B, Stops(x, "root") PROVE n # "root" /\ x.at = "subnodes" /\ LateEvent(x.i, e)
  <2>1. Over(trigger, x, f) /\ Suspended(F, f, x) /\ x \in Frames
    BY <1>2
  <2>2. x.at = "subnodes"
    BY <2>1, <1>1, <1>13 DEF Over, Suspended, Stops, Posts
  <2>3. LateEvent(x.i, e)
    <3>1. trigger \in Wirings
      BY DEF IndInv, Typed
    <3> QED
      BY <2>1, <2>2, <3>1, <1>1, <1>2, <1>7, <1>8, <1>13, LateIs
  <2>4. n # "root"
    BY <1>4, <1>13 DEF Stops
  <2> QED
    BY <2>2, <2>3, <2>4
<1>14. /\ PendingInv(trigger, pending \o Deliveries(e), s2)
       /\ pending \o Deliveries(e) \in Seq(Owed)
  <2>1. CASE n = "root"
    <3>1. Range(listening) = {}
      BY <2>1, <1>12, NoneEnabled
    <3>2. \A x \in Range(s2) : x.op = "process" => x \in Range(stack)
      BY <1>2, <1>5, <1>6, <1>11
    <3>3. s2[Len(s2)] = Frame("post", e, "deliver")
      BY <1>11 DEF g
    <3> HIDE DEF s2
    <3> QED
      BY <3>1, <3>2, <3>3, <1>3, <1>6, <1>7, <1>11, PostedPending
  <2>2. CASE n # "root"
    <3>1. \A x \in Range(s2) : Stops(x, "root") => x.at = "subnodes" /\ LateEvent(x.i, e)
      BY <2>2, <1>5, <1>6, <1>11, <1>13 DEF Stops
    <3>2. \A x \in Range(s2) : x.op = "process" => x \in Range(stack)
      BY <1>2, <1>5, <1>6, <1>11
    <3>3. s2[Len(s2)] = Frame("post", e, "deliver")
      BY <1>11 DEF g
    <3> HIDE DEF s2
    <3> QED
      BY <3>1, <3>2, <3>3, <1>3, <1>6, <1>7, <1>11, PostedPending
  <2> QED
    BY <2>1, <2>2
<1>15. Typed'
  <2>1. seen \ {n} \in SUBSET All
    BY DEF IndInv, Typed
  <2> QED
    BY <2>1, <1>1, <1>11, <1>14 DEF IndInv, Typed
<1>16. StackInv(trigger', stack')
  <2>1. StackInv(trigger, Append(b, f))
    BY <1>2 DEF IndInv
  <2>2. StackInv(trigger, Append(b, h))
    BY <2>1, <1>1, <1>2, <1>5, <1>8, StackSwaps
  <2>3. \A x \in B \cup {h} : Stops(x, "root") /\ x.at = "subnodes" => LateEvent(x.i, e)
    BY <1>5, <1>13
  <2>4. OnTop(h, Frame("post", e, "deliver"))
    BY <1>5, <1>6 DEF OnTop, Posts, g
  <2>5. StackInv(trigger, Append(Append(b, h), Frame("post", e, "deliver")))
    BY <2>2, <2>3, <2>4, <1>2, <1>5, <1>6, PostFits
  <2> QED
    BY <2>5, <1>1 DEF g
<1>17. KnowInv(active', enabled', Range(stack'))
  <2>1. \A m : Stopping(F, m) => Stopping(F2, m)
    BY <1>1, <1>2, <1>5, <1>8 DEF Stopping, Stops
  <2>2. \A x \in B : Knows(active, enabled, F2, x)
    BY <2>1, <1>2, KnowsKept
  <2>3. Knows(active, enabled, F2, g)
    BY <1>6 DEF Knows, Waits, Started, Moving, Stops
  <2>4. \A t \in Range(TransitionsOf(h.of)) : t \notin enabled
    BY <1>1, <1>2, <1>5, <1>8 DEF Knows
  <2>5. Knows(active, enabled, F2, h)
    BY <2>4, <1>3, <1>5, <1>12 DEF Knows, Waits, Started, Moving, Stops
  <2>6. KnowInv(active, enabled, F2)
    BY <2>2, <2>3, <2>5 DEF KnowInv
  <2> QED
    BY <2>6, <1>1, <1>11
<1>18. WaitInv(active', pending', stack')
  <2>1. WaitInv(active, pending, Append(b, f))
    BY <1>2 DEF IndInv
  <2>2. f.op \notin {"start", "post"}
    BY <1>1
  <2>3. WaitInv(active, pending \o Deliveries(e), s2)
    BY <1>2, <1>5, <1>6, <2>1, <2>2, WaitPushes
  <2> QED
    BY <2>3, <1>1
<1>19. RootInv(active', pending', stack')
  BY <1>3 DEF RootInv
<1>20. PendingInv(trigger', pending', stack')
  BY <1>1, <1>14
<1>21. EnabledInv(active', enabled', listening', Range(stack'))
  <2>1. EnabledInv(active, enabled, listening, F)
    BY DEF IndInv
  <2>2. \A u \in Transitions : Disabling(F, u) <=> Disabling(F2, u)
    BY <1>1, <1>2, <1>5, <1>6 DEF Disabling, Disables, Moving
  <2>3. ASSUME NEW u \in Transitions, NEW m \in active, m \in Range(Sources[u]), Excused(F, m, u)
        PROVE  Excused(F2, m, u)
    <3>1. PICK y \in F : Enables(y, m, u) \/ Leaves(y, m)
      BY <2>3 DEF Excused
    <3>2. CASE y \in B
      BY <3>1, <3>2 DEF Excused
    <3>3. CASE y = f
      <4>1. ~(n = "root" /\ m \in From(i))
        BY <1>3, <1>4, FromIs, ShapeIs
      <4>2. Stops(f, m)
        BY <4>1, <3>1, <3>3, <1>1, <1>8 DEF Enables, Leaves, Stops, Moving
      <4> QED
        BY <4>2, <1>5, <1>8 DEF Excused, Leaves, Stops
    <3> QED
      BY <3>1, <3>2, <3>3, <1>2
  <2>4. EnabledInv(active, enabled, listening, F2)
    BY <2>1, <2>2, <2>3, EnabledKept
  <2> QED
    BY <2>4, <1>1, <1>11
<1>22. SeenInv(active', seen', Range(stack'))
  <2>1. SeenInv(active, seen, F)
    BY DEF IndInv
  <2>2. ASSUME NEW m \in All
        PROVE  m \in seen \ {n} <=> m \in active /\ ~\E x \in F2 : Stops(x, m) /\ x.at = "end"
    <3>1. CASE m = n
      BY <3>1, <1>5 DEF Stops
    <3>2. CASE m # n
      <4>1. (\E x \in F2 : Stops(x, m) /\ x.at = "end") <=> \E x \in F : Stops(x, m) /\ x.at = "end"
        BY <3>2, <1>1, <1>2, <1>5, <1>6, <1>8 DEF Stops
      <4> QED
        BY <4>1, <3>2, <2>1 DEF SeenInv
    <3> QED
      BY <3>1, <3>2
  <2>3. SeenInv(active, seen \ {n}, F2)
    BY <2>2 DEF SeenInv
  <2> QED
    BY <2>3, <1>1, <1>11
<1> QED
  BY <1>15, <1>16, <1>17, <1>18, <1>19, <1>20, <1>21, <1>22 DEF IndInv

LEMMA StopSubnodeKeeps ==
  ASSUME WellMade, IndInv, StopSubnode
  PROVE  IndInv'
<1> DEFINE nodes == SubnodesOf(Top.of)
           rest == Append(Below, Moved("subnodes", Top.i + 1))
<1>1. /\ Runs("stop", "subnodes") /\ UNCHANGED <<trigger, active, enabled, listening, completions>>
      /\ Top.i \in Nat /\ Len(nodes) \in Nat
  <2>1. Runs("stop", "subnodes") /\ UNCHANGED <<trigger, active, enabled, listening, completions>>
    BY DEF StopSubnode
  <2>2. Top.i \in Nat
    BY <2>1, StopIs DEF Runs
  <2>3. Len(nodes) \in Nat
    BY ShapeIs DEF SubnodesOf
  <2> QED
    BY <2>1, <2>2, <2>3
<1>2. CASE Top.i > Len(nodes)
  BY <1>1, <1>2, StopTellsKeeps DEF StopSubnode
<1>3. CASE Top.i <= Len(nodes)
  <2>1. ~(Top.i > Len(nodes))
    BY <1>1, <1>3
  <2>2. /\ UNCHANGED <<pending, seen>>
        /\ stack' = IF nodes[Top.i] \in active THEN Append(rest, Frame("stop", nodes[Top.i], "transitions")) ELSE rest
    BY <2>1 DEF StopSubnode
  <2>3. CASE nodes[Top.i] \in active
    BY <2>2, <2>3, <1>1, <1>3, StopCallsKeeps
  <2>4. CASE nodes[Top.i] \notin active
    BY <2>2, <2>4, <1>1, <1>3, StopPassesKeeps
  <2> QED
    BY <2>3, <2>4
<1> QED
  BY <1>1, <1>2, <1>3

\* A node is stopped: none of its transitions is enabled, and whoever is under way has
\* not started it.
LEMMA StopEndKeeps ==
  ASSUME WellMade, IndInv, StopEnd
  PROVE  IndInv'
<1> DEFINE b == Below
           f == Top
           F == Range(stack)
           B == Range(b)
           n == Top.of
           a2 == active \ {n}
<1>1. /\ ~AtRest /\ f.op = "stop" /\ f.at = "end" /\ stack' = b /\ active' = a2
      /\ UNCHANGED <<trigger, enabled, listening, completions, pending, seen>>
  BY DEF StopEnd, Runs
<1>2. /\ b \in Seq(Frames) /\ f \in Frames /\ stack = Append(b, f) /\ F = B \cup {f}
      /\ StackInv(trigger, b) /\ Fits(trigger, b, f)
      /\ \A x \in B : x \in Frames /\ Over(trigger, x, f) /\ Suspended(F, f, x)
      /\ \A x \in F : x \in Frames /\ Knows(active, enabled, F, x)
  BY <1>1, NowIs
<1>3. n \in All /\ n \in active /\ "root" \in active /\ pending = <<>>
  BY <1>1, StopIs
<1>4. n = "root" => active \subseteq {"root"} /\ \A x \in B : x.op = "post"
  <2>1. n = "root" => \A x \in B : x.op = "post"
    BY <1>1, SubnodesAre
  <2>2. n = "root" => active \subseteq {"root"}
    BY <1>1, <1>2 DEF Knows, Stops
  <2> QED
    BY <2>1, <2>2
<1>5. \A t \in Range(TransitionsOf(n)) : t \notin enabled
  BY <1>1, <1>2 DEF Knows
<1>6. n = f.of
  OBVIOUS
<1> HIDE DEF b, f, n
<1>7. Typed'
  BY <1>1, <1>2 DEF IndInv, Typed
<1>8. StackInv(trigger', stack')
  BY <1>1, <1>2
<1>9. \A m : m # n /\ Stopping(F, m) => Stopping(B, m)
  BY <1>2, <1>6 DEF Stopping, Stops
<1>10. KnowInv(active', enabled', Range(stack'))
  <2>1. ASSUME NEW x \in B PROVE Knows(a2, enabled, B, x)
    <3>1. Knows(active, enabled, F, x) /\ Over(trigger, x, f)
      BY <1>2
    <3>2. Started(x) \/ x.op = "stop" => x.of # n
      BY <3>1, <1>1, <1>6 DEF Over, Started
    <3> QED
      BY <3>1, <3>2, <1>9 DEF Knows
  <2>2. KnowInv(a2, enabled, B)
    BY <2>1 DEF KnowInv
  <2> QED
    BY <2>2, <1>1
<1>11. WaitInv(active', pending', stack')
  <2>1. WaitInv(active, pending, Append(b, f))
    BY <1>2 DEF IndInv
  <2>2. f.op \notin {"start", "post"}
    BY <1>1
  <2>3. Len(b) <= Len(b) /\ Len(b) <= Len(b) + 2 /\ ~(Len(b) + 1 <= Len(b))
    BY <1>2
  <2>4. WaitInv(a2, pending, b)
    BY <2>1, <2>2, <2>3, <1>2, WaitKept
  <2> QED
    BY <2>4, <1>1
<1>12. RootInv(active', pending', stack')
  <2> SUFFICES ASSUME "root" \notin a2 PROVE RootInv(a2, <<>>, b)
    BY <1>1, <1>3 DEF RootInv
  <2>1. n = "root"
    BY <1>3
  <2>2. a2 = {} /\ \A x \in B : x.op = "post"
    BY <2>1, <1>4
  <2>3. b # <<>> => b[Len(b)] \in B
    <3>1. b # <<>> => Len(b) \in 1 .. Len(b)
      BY <1>2
    <3> QED
      BY <3>1, <1>2, RangeIs
  <2>4. Range(<<>>) = {}
    BY DEF Range
  <2> QED
    BY <2>2, <2>3, <2>4 DEF RootInv
<1>13. PendingInv(trigger', pending', stack')
  <2>1. \A x \in B : x.op = "process" => HearsIn(trigger, x.of, x.at)
    BY <1>2 DEF IndInv, PendingInv
  <2>2. PendingInv(trigger, <<>>, b)
    BY <2>1, EmptyPending
  <2> QED
    BY <2>2, <1>1, <1>3
<1>14. EnabledInv(active', enabled', listening', Range(stack'))
  <2>1. EnabledInv(active, enabled, listening, F)
    BY DEF IndInv
  <2>2. \A t : Disabling(F, t) <=> Disabling(B, t)
    BY <1>1, <1>2 DEF Disabling, Disables, Moving
  <2>3. \A t \in Transitions : t \in Range(listening) <=> t \in enabled /\ ~Disabling(B, t)
    BY <2>1, <2>2 DEF EnabledInv
  <2>4. ASSUME NEW t \in enabled PROVE \E m \in Range(Sources[t]) : m \in a2
    <3>1. PICK m \in Range(Sources[t]) : m \in active
      BY <2>1 DEF EnabledInv
    <3>2. t \in Transitions
      BY DEF IndInv, Typed
    <3>3. t \in Range(TransitionsOf(m))
      BY <3>2, SourceHas
    <3>4. m # n
      BY <3>3, <1>5
    <3> QED
      BY <3>1, <3>4
  <2>5. ASSUME NEW t \in Transitions, NEW m \in a2, m \in Range(Sources[t]), t \notin enabled PROVE Excused(B, m, t)
    <3>1. PICK y \in F : Enables(y, m, t) \/ Leaves(y, m)
      BY <2>1, <2>5 DEF EnabledInv, Excused
    <3>2. y # f
      BY <3>1, <2>5, <1>1, <1>6 DEF Enables, Leaves, Stops, Moving
    <3> QED
      BY <3>1, <3>2, <1>2 DEF Excused
  <2>6. EnabledInv(a2, enabled, listening, B)
    BY <2>3, <2>4, <2>5 DEF EnabledInv
  <2> QED
    BY <2>6, <1>1
<1>15. SeenInv(active', seen', Range(stack'))
  <2>1. SeenInv(active, seen, F)
    BY DEF IndInv
  <2>2. ASSUME NEW m \in All
        PROVE  m \in seen <=> m \in a2 /\ ~\E x \in B : Stops(x, m) /\ x.at = "end"
    <3>1. CASE m = n
      <4>1. Stops(f, m) /\ f \in F
        BY <3>1, <1>1, <1>2, <1>6 DEF Stops
      <4> QED
        BY <4>1, <3>1, <2>1, <1>1 DEF SeenInv
    <3>2. CASE m # n
      <4>1. (\E x \in B : Stops(x, m) /\ x.at = "end") <=> \E x \in F : Stops(x, m) /\ x.at = "end"
        BY <3>2, <1>2, <1>6 DEF Stops
      <4> QED
        BY <4>1, <3>2, <2>1 DEF SeenInv
    <3> QED
      BY <3>1, <3>2
  <2>3. SeenInv(a2, seen, B)
    BY <2>2 DEF SeenInv
  <2> QED
    BY <2>3, <1>1
<1> QED
  BY <1>7, <1>8, <1>10, <1>11, <1>12, <1>13, <1>14, <1>15 DEF IndInv

-----------------------------------------------------------------------------
(* What starts it all *)

LEMMA RestIs ==
  ASSUME IndInv, AtRest
  PROVE  stack = <<>> /\ Range(stack) = {} /\ pending = <<>>
<1>1. stack = <<>>
  BY DEF AtRest
<1>2. Range(<<>>) = {}
  BY DEF Range
<1>3. pending = <<>>
  BY <1>1 DEF IndInv, PendingInv
<1> QED
  BY <1>1, <1>2, <1>3

\* The first subnodes wait in a row for the root to be started.
LEMMA StartRootKeeps ==
  ASSUME WellMade, IndInv, StartRoot
  PROVE  IndInv'
<1> DEFINE L == Len(First)
           b == [k \in DOMAIN First |-> Frame("start", First[Len(First) + 1 - k], "begin")]
           g == Frame("start", "root", "begin")
           s2 == Append(b, g)
           who(k) == IF k = L + 1 THEN "root" ELSE First[L + 1 - k]
<1>1. /\ AtRest /\ "root" \notin active /\ stack' = s2
      /\ UNCHANGED <<trigger, active, enabled, listening, completions, pending, seen>>
  BY DEF StartRoot
<1>2. Range(stack) = {} /\ pending = <<>>
  BY <1>1, RestIs
<1>3. active = {}
  BY <1>1 DEF IndInv, RootInv
<1>4. enabled = {} /\ Range(listening) = {}
  BY <1>3, NoneEnabled
<1>5. L \in Nat /\ DOMAIN First = 1 .. L /\ \A k \in 1 .. L : First[k] \in Range(Nodes)
  BY ShapeAssumption, ShapeIs
<1>6. \A k \in 1 .. L : L + 1 - k \in 1 .. L
  BY <1>5
<1>7. ASSUME NEW k \in 1 .. L PROVE b[k] \in Frames /\ b[k].op = "start" /\ b[k].at = "begin" /\ b[k].of = First[L + 1 - k]
  <2>1. First[L + 1 - k] \in All
    BY <1>5, <1>6 DEF All
  <2>2. b[k] = Frame("start", First[L + 1 - k], "begin")
    BY <1>5
  <2> QED
    BY <2>1, <2>2, NewFrames, FrameIs
<1>8. b \in Seq(Frames) /\ Len(b) = L
  <2>1. b \in [1 .. L -> Frames]
    BY <1>5, <1>7
  <2> QED
    BY <2>1, <1>5
<1>9. g \in Frames /\ g.op = "start" /\ g.at = "begin" /\ g.of = "root"
  BY NewFrames, FrameIs DEF All
<1> HIDE DEF b, g
<1>10. s2 \in Seq(Frames) /\ Len(s2) = L + 1 /\ s2 # <<>>
  BY <1>8, <1>9, AppendIs
<1>11. ASSUME NEW k \in 1 .. L + 1
       PROVE  s2[k] \in Frames /\ s2[k].op = "start" /\ s2[k].at = "begin" /\ s2[k].of = who(k)
  <2>1. CASE k = L + 1
    BY <2>1, <1>8, <1>9, AppendIs
  <2>2. CASE k # L + 1
    <3>1. k \in 1 .. L
      BY <2>2, <1>5
    <3>2. s2[k] = b[k]
      BY <3>1, <1>8, <1>9, AppendIs
    <3> QED
      BY <3>1, <3>2, <1>5, <1>7
  <2> QED
    BY <2>1, <2>2
<1>12. ASSUME NEW k \in 1 .. L + 1, NEW l \in 1 .. L + 1, k < l PROVE who(k) # who(l)
  <2>1. k \in 1 .. L /\ k # L + 1 /\ First[L + 1 - k] \in Range(Nodes)
    BY <1>5, <1>6, <1>12
  <2>2. CASE l = L + 1
    BY <2>1, <2>2, ShapeIs
  <2>3. CASE l # L + 1
    <3>1. l \in 1 .. L
      BY <2>3, <1>5
    <3>2. L + 1 - k # L + 1 - l
      BY <2>1, <3>1, <1>5, <1>12
    <3>3. First[L + 1 - k] # First[L + 1 - l]
      BY <2>1, <3>1, <3>2, <1>6 DEF WellMade, NamedOnce
    <3> QED
      BY <2>1, <2>3, <3>3
  <2> QED
    BY <2>2, <2>3
<1> HIDE DEF who, s2
<1>13. \A x \in Range(s2) : x \in Frames /\ x.op = "start" /\ x.at = "begin"
  <2>1. ASSUME NEW x \in Range(s2) PROVE \E k \in 1 .. L + 1 : s2[k] = x
    BY <1>10, RangeIs
  <2> QED
    BY <2>1, <1>11
<1>14. Typed'
  BY <1>1, <1>10 DEF IndInv, Typed
<1>15. StackInv(trigger', stack')
  <2>1. ASSUME NEW k \in 1 .. L + 1, NEW l \in 1 .. L + 1, k < l PROVE Over(trigger, s2[k], s2[l])
    <3>1. s2[k].of # s2[l].of
      BY <2>1, <1>11, <1>12
    <3>2. s2[k].op = "start" /\ s2[k].at = "begin" /\ s2[l].op = "start"
      BY <1>11
    <3> QED
      BY <3>1, <3>2 DEF Over, Acts, Waits, Started, Stops
  <2>2. ASSUME NEW k \in 1 .. L PROVE OnTop(s2[k], s2[k + 1])
    <3>1. k \in 1 .. L + 1 /\ k + 1 \in 1 .. L + 1
      BY <1>5
    <3>2. s2[k].op = "start" /\ s2[k].at = "begin" /\ s2[k + 1].op = "start"
      BY <3>1, <1>11
    <3> QED
      BY <3>2 DEF OnTop, Posts, Waits
  <2>3. s2[1].op = "start"
    <3>1. 1 \in 1 .. L + 1
      BY <1>5
    <3> QED
      BY <3>1, <1>11
  <2>4. L + 1 - 1 = L
    BY <1>5
  <2>5. StackInv(trigger, s2)
    BY <2>1, <2>2, <2>3, <2>4, <1>10 DEF StackInv
  <2> QED
    BY <2>5, <1>1
<1>16. KnowInv(active', enabled', Range(stack'))
  <2>1. KnowInv({}, {}, Range(s2))
    BY <1>13 DEF KnowInv, Knows, Waits, Started, Moving, Stops
  <2> QED
    BY <2>1, <1>1, <1>3, <1>4
<1>17. WaitInv(active', pending', stack')
  <2>1. ASSUME NEW k \in 1 .. L + 1 PROVE AllWait(s2, k)
    <3>1. \A j \in 1 .. k : j \in 1 .. L + 1
      BY <1>5
    <3> QED
      BY <3>1, <1>11 DEF AllWait, Waits
  <2>2. \A k \in 1 .. L + 1 - 1 : k \in 1 .. L + 1
    BY <1>5
  <2>3. \A f \in Range(s2) : f.op \in {"start", "post"}
    BY <1>13
  <2>4. \A k \in 1 .. L + 1 : k <= L + 1 /\ s2[k].of = IF k = L + 1 THEN "root" ELSE First[L + 1 - k]
    BY <1>11 DEF who
  <2>5. WaitInv({}, <<>>, s2)
    BY <2>1, <2>2, <2>3, <2>4, <1>10 DEF WaitInv
  <2> QED
    BY <2>5, <1>1, <1>2, <1>3
<1>18. RootInv(active', pending', stack')
  <2>1. s2[Len(s2)].of = "root"
    <3>1. L + 1 \in 1 .. L + 1
      BY <1>5
    <3> QED
      BY <3>1, <1>10, <1>11 DEF who
  <2>2. Range(<<>>) = {}
    BY DEF Range
  <2>3. RootInv({}, <<>>, s2)
    BY <2>1, <2>2, <1>13 DEF RootInv, Waits
  <2> QED
    BY <2>3, <1>1, <1>2, <1>3
<1>19. PendingInv(trigger', pending', stack')
  <2>1. \A x \in Range(s2) : x.op = "process" => HearsIn(trigger, x.of, x.at)
    BY <1>13
  <2>2. PendingInv(trigger, <<>>, s2)
    BY <2>1, EmptyPending
  <2> QED
    BY <2>2, <1>1, <1>2
<1>20. EnabledInv(active', enabled', listening', Range(stack'))
  <2>1. EnabledInv({}, {}, listening, Range(s2))
    BY <1>4 DEF EnabledInv
  <2> QED
    BY <2>1, <1>1, <1>3, <1>4
<1>21. SeenInv(active', seen', Range(stack'))
  <2>1. \A m \in All : m \notin seen
    BY <1>3 DEF IndInv, SeenInv
  <2>2. SeenInv({}, seen, Range(s2))
    BY <2>1 DEF SeenInv
  <2> QED
    BY <2>2, <1>1, <1>3
<1> QED
  BY <1>14, <1>15, <1>16, <1>17, <1>18, <1>19, <1>20, <1>21 DEF IndInv

\* An event from outside finds nothing under way.
LEMMA WorldKeeps ==
  ASSUME WellMade, IndInv, NEW e \in Events, World(e)
  PROVE  IndInv'
<1> DEFINE g == Frame("post", e, "deliver")
           s2 == <<g>>
           p2 == Deliveries(e)
<1>1. AtRest /\ UNCHANGED <<trigger, active, enabled, listening, completions, seen>>
  BY DEF World
<1>2. stack = <<>> /\ Range(stack) = {} /\ pending = <<>>
  BY <1>1, RestIs
<1>3. g \in Frames /\ g.op = "post" /\ g.at = "deliver" /\ g.of = e
  BY NewFrames, FrameIs
<1>4. Typed
  BY DEF IndInv
<1>5. /\ p2 \in Seq(Owed)
      /\ \A q \in Range(p2) :
           /\ q.of = e
           /\ q.to # "root" => q.to \in Range(listening) /\ HearsIn(trigger, q.to, e)
           /\ q.to = "root" => e = StopOn
      /\ e = StopOn => Len(p2) = 1
      /\ e = Quiet => p2 = <<>>
  BY <1>4, DeliveriesAre
<1>6. pending' = p2
  <2>1. pending \in Seq(Owed)
    BY <1>4 DEF Typed
  <2>2. pending \o Deliveries(e) = Deliveries(e)
    BY <2>1, <1>2, <1>5, ConcatIs
  <2> QED
    BY <2>2 DEF World, Post
<1>7. stack' = s2
  BY DEF World, Post
<1> HIDE DEF g, p2
<1>8. s2 \in Seq(Frames) /\ Len(s2) = 1 /\ s2[1] = g /\ s2 # <<>>
  BY <1>3
<1>9. Range(s2) = {g}
  <2>1. \A x : x \in Range(s2) <=> \E k \in 1 .. Len(s2) : s2[k] = x
    BY <1>8, RangeIs
  <2> HIDE DEF s2
  <2>2. 1 .. Len(s2) = {1}
    BY <1>8
  <2> QED
    BY <2>1, <2>2, <1>8
<1> HIDE DEF s2
<1>10. Typed'
  BY <1>1, <1>4, <1>5, <1>6, <1>7, <1>8 DEF Typed
<1>11. StackInv(trigger', stack')
  <2>1. StackInv(trigger, s2)
    BY <1>3, <1>8 DEF StackInv
  <2> QED
    BY <2>1, <1>1, <1>7
<1>12. KnowInv(active', enabled', Range(stack'))
  <2>1. KnowInv(active, enabled, {g})
    BY <1>3 DEF KnowInv, Knows, Waits, Started, Moving, Stops
  <2> QED
    BY <2>1, <1>1, <1>7, <1>9
<1>13. WaitInv(active', pending', stack')
  <2>1. ~AllWait(s2, 1)
    BY <1>3, <1>8 DEF AllWait, Waits
  <2>2. 1 .. Len(s2) = {1} /\ 1 .. Len(s2) - 1 = {}
    BY <1>8
  <2>3. WaitInv(active, p2, s2)
    BY <2>1, <2>2 DEF WaitInv
  <2> QED
    BY <2>3, <1>1, <1>6, <1>7
<1>14. RootInv(active', pending', stack')
  <2> SUFFICES ASSUME "root" \notin active PROVE RootInv(active, p2, s2)
    BY <1>1, <1>6, <1>7 DEF RootInv
  <2>1. active = {}
    BY DEF IndInv, RootInv
  <2>2. Range(listening) = {}
    BY <2>1, NoneEnabled
  <2>3. \A q \in Range(p2) : q.to = "root"
    BY <2>2, <1>5
  <2>4. s2[Len(s2)].op = "post"
    BY <1>3, <1>8
  <2> QED
    BY <2>1, <2>3, <2>4, <1>3, <1>9 DEF RootInv
<1>15. PendingInv(trigger', pending', stack')
  <2>1. p2 # <<>> => s2 # <<>> /\ TakesPending(s2[Len(s2)]) /\ ~Posts(s2[Len(s2)], Quiet)
    BY <1>3, <1>5, <1>8 DEF TakesPending, Posts
  <2>2. \A q \in Range(p2) : OwedInv(trigger, p2, s2, q)
    BY <1>3, <1>5, <1>8, <1>9 DEF OwedInv, Stops
  <2>3. PendingInv(trigger, p2, s2)
    BY <2>1, <2>2, <1>3, <1>9 DEF PendingInv
  <2> QED
    BY <2>3, <1>1, <1>6, <1>7
<1>16. EnabledInv(active', enabled', listening', Range(stack'))
  <2>1. EnabledInv(active, enabled, listening, {})
    BY <1>2 DEF IndInv
  <2>2. \A t \in Transitions : Disabling({}, t) <=> Disabling({g}, t)
    BY <1>3 DEF Disabling, Disables, Moving
  <2>3. \A t \in Transitions : \A n \in active : ~Excused({}, n, t)
    BY DEF Excused
  <2>4. EnabledInv(active, enabled, listening, {g})
    BY <2>1, <2>2, <2>3, EnabledKept
  <2> QED
    BY <2>4, <1>1, <1>7, <1>9
<1>17. SeenInv(active', seen', Range(stack'))
  <2>1. SeenInv(active, seen, {})
    BY <1>2 DEF IndInv
  <2>2. SeenInv(active, seen, {g})
    BY <2>1, <1>3 DEF SeenInv, Stops
  <2> QED
    BY <2>2, <1>1, <1>7, <1>9
<1> QED
  BY <1>10, <1>11, <1>12, <1>13, <1>14, <1>15, <1>16, <1>17 DEF IndInv

LEMMA InputKeeps ==
  ASSUME WellMade, IndInv, Input \/ Complete
  PROVE  IndInv'
<1>1. CASE Input
  <2>1. PICK e \in Inputs : World(e)
    BY <1>1 DEF Input
  <2>2. e \in Events
    BY EventsAre
  <2> QED
    BY <2>1, <2>2, WorldKeeps
<1>2. CASE Complete
  <2>1. PICK n \in active \ {"root"} : World(Event("done", n))
    BY <1>2 DEF Complete
  <2>2. n \in All
    BY DEF IndInv, Typed
  <2>3. Event("done", n) \in Events
    BY <2>2, EventsAre
  <2> QED
    BY <2>1, <2>3, WorldKeeps
<1> QED
  BY <1>1, <1>2

LEMMA InitHolds ==
  ASSUME Init
  PROVE  IndInv
<1>1. Range(<<>>) = {}
  BY DEF Range
<1>2. Len(<<>>) = 0 /\ 1 .. 0 = {} /\ 1 .. 0 - 1 = {}
  OBVIOUS
<1>3. stack = <<>> /\ pending = <<>> /\ active = {} /\ enabled = {} /\ seen = {} /\ listening = <<>>
  BY DEF Init
<1>4. Typed
  BY DEF Init, Typed
<1>5. StackInv(trigger, <<>>)
  BY <1>2 DEF StackInv
<1>6. KnowInv({}, {}, {})
  BY DEF KnowInv
<1>7. WaitInv({}, <<>>, <<>>)
  BY <1>2 DEF WaitInv
<1>8. RootInv({}, <<>>, <<>>)
  BY <1>1 DEF RootInv
<1>9. PendingInv(trigger, <<>>, <<>>)
  BY <1>1 DEF PendingInv
<1>10. EnabledInv({}, {}, <<>>, {})
  BY <1>1 DEF EnabledInv
<1>11. SeenInv({}, {}, {})
  BY DEF SeenInv
<1> QED
  BY <1>1, <1>3, <1>4, <1>5, <1>6, <1>7, <1>8, <1>9, <1>10, <1>11 DEF IndInv

LEMMA NextKeeps ==
  ASSUME WellMade, IndInv, [Next]_vars
  PROVE  IndInv'
<1>1. CASE StartRoot
  BY <1>1, StartRootKeeps
<1>2. CASE Input \/ Complete
  BY <1>2, InputKeeps
<1>3. CASE PostReturns \/ Deliver \/ ProcessEvent
  BY <1>3, PostReturnsKeeps, DeliverKeeps, ProcessEventKeeps
<1>4. CASE Fire
  BY <1>4, FireAnnounceKeeps, FireSourceKeeps, FireDestinationKeeps DEF Fire
<1>5. CASE Start
  BY <1>5, StartBeginKeeps, StartEnableKeeps, StartLookKeeps DEF Start
<1>6. CASE Stop
  BY <1>6, StopTransitionKeeps, StopDisableKeeps, StopSubnodeKeeps, StopEndKeeps DEF Stop
<1>7. CASE UNCHANGED vars
  <2>1. Typed'
    BY <1>7 DEF IndInv, Typed, vars
  <2> QED
    BY <2>1, <1>7 DEF IndInv, vars
<1> QED
  BY <1>1, <1>2, <1>3, <1>4, <1>5, <1>6, <1>7 DEF Next, Call

-----------------------------------------------------------------------------
\* What the calls on the stack know of the nodes and the transitions stays true, whatever
\* transition reacts to whichever of their events (Behaviors/StateNode.cc, Transition.cc).
THEOREM MachineInvariance ==
  ASSUME WellMade
  PROVE  Spec => []IndInv
<1>1. Init => IndInv
  BY InitHolds
<1>2. IndInv /\ [Next]_vars => IndInv'
  BY NextKeeps
<1> QED
  BY <1>1, <1>2, PTL DEF Spec

\* Between events a machine that is well made has the transitions enabled and listening
\* whose sources are active, nothing active under a root that is not, and everyone who
\* follows the events of its nodes knows which are active.
THEOREM ActivityHolds ==
  ASSUME WellMade
  PROVE  Spec => []ActivityAgrees
<1>1. IndInv => ActivityAgrees
  <2> SUFFICES ASSUME IndInv PROVE ActivityAgrees
    OBVIOUS
  <2>1. Typed
    BY DEF IndInv
  <2>2. Range(listening) \subseteq Transitions
    <3>1. listening \in Seq(Transitions)
      BY <2>1 DEF Typed
    <3>2. ASSUME NEW t \in Range(listening) PROVE t \in Transitions
      <4>1. PICK k \in 1 .. Len(listening) : listening[k] = t
        BY <3>1, RangeIs
      <4> QED
        BY <3>1, <4>1
    <3> QED
      BY <3>2
  <2>3. TypeOK
    BY <2>1, <2>2 DEF TypeOK, Typed
  <2>4. EnabledWhereActive
    <3> SUFFICES ASSUME AtRest
                 PROVE  /\ Range(listening) = enabled
                        /\ enabled = {t \in Transitions : Range(Sources[t]) \cap active # {}}
      BY DEF EnabledWhereActive
    <3>1. EnabledInv(active, enabled, listening, {})
      BY RestIs DEF IndInv
    <3>2. \A t : ~Disabling({}, t) /\ \A n : ~Excused({}, n, t)
      BY DEF Disabling, Excused
    <3>3. enabled \subseteq Transitions
      BY <2>1 DEF Typed
    <3>4. \A t \in Transitions : t \in Range(listening) <=> t \in enabled
      BY <3>1, <3>2 DEF EnabledInv
    <3>5. \A t \in Transitions : t \in enabled <=> Range(Sources[t]) \cap active # {}
      <4>1. ASSUME NEW t \in enabled PROVE Range(Sources[t]) \cap active # {}
        BY <3>1 DEF EnabledInv
      <4>2. ASSUME NEW t \in Transitions, NEW n \in active, n \in Range(Sources[t]) PROVE t \in enabled
        BY <3>1, <3>2, <4>2 DEF EnabledInv
      <4> QED
        BY <4>1, <4>2
    <3> QED
      BY <3>3, <3>4, <3>5, <2>2
  <2>5. NoneSurvivesRoot
    BY DEF NoneSurvivesRoot, IndInv, RootInv
  <2>6. EventsTell
    <3> SUFFICES ASSUME AtRest PROVE seen = active
      BY DEF EventsTell
    <3>1. SeenInv(active, seen, {})
      BY RestIs DEF IndInv
    <3>2. seen \subseteq All /\ active \subseteq All
      BY <2>1 DEF Typed
    <3>3. \A m \in All : m \in seen <=> m \in active
      BY <3>1 DEF SeenInv
    <3> QED
      BY <3>2, <3>3
  <2> QED
    BY <2>3, <2>4, <2>5, <2>6 DEF ActivityAgrees
<1> QED
  BY <1>1, MachineInvariance, PTL

===============================================================================
