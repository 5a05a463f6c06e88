------------------------- MODULE EventRouter_proofs -------------------------
(***************************************************************************)
(* Proofs about EventRouter and the generators on top of it, for any       *)
(* numbers of event generators, sources and subscribers, any chains of     *)
(* EventGeneratorBase, any depth of nesting and any number of calls.       *)
(* IndInv is about the queue and the stack, and knows of the vectors of    *)
(* subscribers only whether they are empty; TypeInv, DeliveryInv and       *)
(* NewsInv say the rest, and see the steps of the router by what they do   *)
(* to postings (StepIs).  The steps of a generator are of the same kinds,  *)
(* so that these invariants hold with generators too; GenInv relates what  *)
(* each of them believes, what it wants and what the router knows of it to *)
(* the posts and the loops that are under way.                             *)
(***************************************************************************)
EXTENDS EventGenerator, FiniteSetTheorems, SequenceTheorems, TLAPS

IsSeq(s) == s \in Seq({s[n] : n \in DOMAIN s})

Queued(p) == \E n \in DOMAIN postings : postings[n] = p

Fields ==
  {"e", "t", "l", "serving", "in", "client", "then", "id", "due", "sent", "cut",
   "trapped", "reentered"}

IsFrame(n) ==
  /\ DOMAIN frames[n] = Fields
  /\ frames[n].serving \in 0 .. n
  /\ frames[n].in \in {"router", "trapper", "listener"}
  /\ frames[n].in # "router" => frames[n].serving # 0
  /\ frames[n].id \in 1 .. posted
  /\ frames[n].trapped \in BOOLEAN /\ frames[n].reentered \in BOOLEAN

ShapeInv ==
  /\ IsSeq(frames) /\ \A n \in 1 .. Top : IsFrame(n)
  /\ postings \in Seq(1 .. Top)
  /\ posted \in Nat
  /\ latest \in [Listeners -> Int] /\ \A el \in Listeners : latest[el] <= posted

\* The queue is in the order of the stack, and the activation on top serves its
\* front, or what another one finished for it.
QueueInv ==
  /\ \A m, n \in DOMAIN postings : m < n => postings[m] < postings[n]
  /\ Top > 0 /\ frames[Top].serving # 0 /\ postings # <<>> => Head(postings) = frames[Top].serving

\* Below the top, everyone waits for a handler, and a trapper that has called the
\* router is marked in the posting it has.
StackInv ==
  \A k \in 1 .. Top : k < Top =>
    /\ frames[k].in # "router"
    /\ frames[k].in = "trapper" => frames[frames[k].serving].reentered

\* A posting goes to listeners after all trappers had their turn; once trapped it
\* is neither queued nor served.
TrapInv ==
  /\ \A p \in 1 .. Top : frames[p].sent # <<>> => frames[p].t = <<>>
  /\ \A k \in 1 .. Top : frames[k].in = "listener" => frames[frames[k].serving].t = <<>>
  /\ \A p \in 1 .. Top : Top > 0 /\ frames[Top].in = "trapper" /\ p = frames[Top].serving =>
       \/ frames[p].reentered
       \/ frames[p].sent = <<>> /\ \A k \in 1 .. Top : k < Top => frames[k].serving # p
  /\ \A p \in 1 .. Top : frames[p].trapped /\ ~frames[p].reentered =>
       frames[p].sent = <<>> /\ ~Queued(p) /\ \A k \in 1 .. Top : frames[k].serving # p

\* Later postings have larger numbers, no queued one is older than what somebody
\* was given, and one that has left the queue has no listeners left.
OrderInv ==
  /\ \A m, n \in 1 .. Top : m < n => frames[m].id < frames[n].id
  /\ \A p \in 1 .. Top : Queued(p) => \A el \in Listeners : latest[el] <= frames[p].id
  /\ \A k, p \in 1 .. Top : frames[k].serving = p =>
       Queued(p) \/ frames[p].l = <<>> \/ frames[p].reentered

IndInv == ShapeInv /\ QueueInv /\ StackInv /\ TrapInv /\ OrderInv

-----------------------------------------------------------------------------
(* Sequences of anything. *)

\* Append of any sequence, whatever its elements are
LEMMA AppendIsSeq ==
  ASSUME NEW s, IsSeq(s), NEW x
  PROVE  /\ IsSeq(Append(s, x))
         /\ Len(s) \in Nat /\ DOMAIN s = 1 .. Len(s)
         /\ Len(Append(s, x)) = Len(s) + 1
         /\ \A n \in 1 .. Len(s) : Append(s, x)[n] = s[n]
         /\ Append(s, x)[Len(s) + 1] = x
<1> DEFINE S == {s[n] : n \in DOMAIN s}
           T == S \cup {x}
<1>1. s \in Seq(S)
  BY DEF IsSeq
<1>2. Len(s) \in Nat /\ DOMAIN s = 1 .. Len(s)
  BY <1>1, LenProperties
<1>3. s \in Seq(T)
  BY <1>1, SeqMonotonic, S \subseteq T
<1>4. /\ Append(s, x) \in Seq(T)
      /\ Len(Append(s, x)) = Len(s) + 1
      /\ \A n \in 1 .. Len(s) : Append(s, x)[n] = s[n]
      /\ Append(s, x)[Len(s) + 1] = x
  BY <1>3, x \in T, AppendProperties
<1> DEFINE a == Append(s, x)
<1>5. DOMAIN a = 1 .. Len(s) + 1
  BY <1>2, <1>4, LenProperties
<1>6. T \subseteq {a[n] : n \in DOMAIN a}
  BY <1>2, <1>4, <1>5, SMT
<1>7. IsSeq(a)
  BY <1>4, <1>6, SeqMonotonic DEF IsSeq
<1> QED
  BY <1>2, <1>4, <1>7

\* A sequence without its last element
LEMMA FrontIsSeq ==
  ASSUME NEW s, IsSeq(s), s # <<>>
  PROVE  /\ IsSeq(Front(s))
         /\ Len(s) \in Nat \ {0} /\ DOMAIN s = 1 .. Len(s)
         /\ Len(Front(s)) = Len(s) - 1
         /\ \A n \in 1 .. Len(s) - 1 : Front(s)[n] = s[n]
<1> DEFINE S == {s[n] : n \in DOMAIN s}
           f == Front(s)
           R == {f[n] : n \in 1 .. Len(s) - 1}
<1>1. s \in Seq(S)
  BY DEF IsSeq
<1>2. Len(s) \in Nat \ {0} /\ DOMAIN s = 1 .. Len(s)
  BY <1>1, LenProperties, EmptySeq
<1>3. \A n \in 1 .. Len(s) - 1 : s[n] \in S
  BY <1>2
<1>4. /\ f \in Seq(S)
      /\ Len(f) = Len(s) - 1
      /\ \A n \in 1 .. Len(s) - 1 : f[n] = s[n]
  BY <1>2, <1>3, SubSeqProperties DEF Front
<1>5. DOMAIN f = 1 .. Len(s) - 1
  BY <1>4, LenProperties
<1>6. IsSeq(f)
  <2>1. f \in [1 .. Len(f) -> S]
    BY <1>4, LenProperties
  <2>2. f \in [1 .. Len(f) -> {f[n] : n \in DOMAIN f}]
    BY <2>1
  <2>3. Len(f) \in Nat
    BY <1>2, <1>4
  <2> QED
    BY <2>2, <2>3, SeqDef DEF IsSeq
<1> QED
  BY <1>2, <1>4, <1>6

\* A change that leaves the domain alone.
LEMMA UpdateIsSeq ==
  ASSUME NEW s, IsSeq(s), NEW f, f = [n \in DOMAIN s |-> f[n]]
  PROVE  /\ IsSeq(f) /\ Len(f) = Len(s)
         /\ Len(s) \in Nat /\ DOMAIN s = 1 .. Len(s) /\ DOMAIN f = 1 .. Len(s)
<1>1. s \in Seq({s[n] : n \in DOMAIN s})
  BY DEF IsSeq
<1>2. Len(s) \in Nat /\ DOMAIN s = 1 .. Len(s)
  BY <1>1, LenProperties
<1>3. DOMAIN f = 1 .. Len(s)
  BY <1>2
<1>4. f \in [1 .. Len(s) -> {f[n] : n \in DOMAIN f}]
  BY <1>2, <1>3
<1>5. f \in Seq({f[n] : n \in DOMAIN f})
  BY <1>2, <1>4, SeqDef
<1>6. Len(f) = Len(s)
  BY <1>2, <1>3, <1>5, LenProperties, SMT
<1> QED
  BY <1>2, <1>3, <1>5, <1>6 DEF IsSeq

-----------------------------------------------------------------------------
\* The invariant holds before the first call.
LEMMA InitiallyHolds == Init => IndInv
<1> SUFFICES ASSUME Init PROVE IndInv
  OBVIOUS
<1>1. Top = 0 /\ DOMAIN frames = {} /\ DOMAIN postings = {}
  BY DEF Init, Top
<1>2. IsSeq(frames)
  BY DEF Init, IsSeq
<1>3. ShapeInv
  BY <1>1, <1>2 DEF Init, ShapeInv
<1> QED
  BY <1>1, <1>3 DEF IndInv, QueueInv, StackInv, TrapInv, OrderInv

\* What the invariant says of the lengths, used everywhere.
LEMMA Lengths ==
  ASSUME IndInv
  PROVE  /\ Top \in Nat /\ DOMAIN frames = 1 .. Top /\ (frames = <<>> <=> Top = 0)
         /\ Len(postings) \in Nat /\ DOMAIN postings = 1 .. Len(postings)
         /\ postings # <<>> => Head(postings) = postings[1] /\ 1 \in DOMAIN postings
<1>1. frames \in Seq({frames[n] : n \in DOMAIN frames})
  BY DEF IndInv, ShapeInv, IsSeq
<1>2. Top \in Nat /\ DOMAIN frames = 1 .. Top /\ (frames = <<>> <=> Top = 0)
  BY <1>1, LenProperties, EmptySeq DEF Top
<1>3. Len(postings) \in Nat /\ DOMAIN postings = 1 .. Len(postings)
  BY LenProperties DEF IndInv, ShapeInv
<1>4. postings # <<>> => Len(postings) # 0
  BY EmptySeq DEF IndInv, ShapeInv
<1> QED
  BY <1>2, <1>3, <1>4

\* A stack of k activations that agrees with the present one in all that the
\* invariant mentions, but that a trapper on its top is marked.
Carried(stack, k) ==
  /\ IsSeq(stack) /\ Len(stack) = k
  /\ \A n \in 1 .. k :
       /\ DOMAIN stack[n] = Fields
       /\ stack[n].t = frames[n].t /\ stack[n].l = frames[n].l
       /\ stack[n].serving = frames[n].serving /\ stack[n].in = frames[n].in
       /\ stack[n].id = frames[n].id /\ stack[n].sent = frames[n].sent
       /\ stack[n].trapped = frames[n].trapped
       /\ stack[n].reentered \in BOOLEAN
       /\ stack[n].reentered <=>
            frames[n].reentered \/ (frames[k].in = "trapper" /\ frames[k].serving = n)

\* The step that every call of the program and every post of the router takes.
LEMMA PushPreserves ==
  ASSUME IndInv,
         NEW k \in Nat, k = Top \/ (k = Top - 1 /\ postings = <<>>),
         k = Top /\ k > 0 => frames[k].in # "router",
         NEW stack, Carried(stack, k),
         NEW ms, NEW e, NEW then, processEvent(stack, ms, e, then), latest' = latest
  PROVE  IndInv'
<1> DEFINE new == PostingStatus(ms, e, then)
<1>1. /\ Top \in Nat /\ DOMAIN frames = 1 .. Top
      /\ Len(postings) \in Nat /\ DOMAIN postings = 1 .. Len(postings)
      /\ postings # <<>> => Head(postings) = postings[1] /\ 1 \in DOMAIN postings
  BY Lengths
<1>2. /\ IsSeq(frames') /\ Top' = k + 1
      /\ \A n \in 1 .. k : frames'[n] = stack[n]
      /\ frames'[k + 1] = new
  BY AppendIsSeq DEF Carried, processEvent, Top
<1>3. /\ DOMAIN new = Fields /\ new.serving = 0 /\ new.in = "router" /\ new.id = posted + 1
      /\ new.sent = <<>> /\ new.trapped = FALSE /\ new.reentered = FALSE
  BY DEF PostingStatus, Fields
<1>4. \A p \in 1 .. Top : IsFrame(p)
  BY DEF IndInv, ShapeInv
<1>5. postings \in Seq(1 .. Top) /\ posted \in Nat
  BY DEF IndInv, ShapeInv
<1>6. postings \in Seq(1 .. k)
  <2>1. CASE postings = <<>>
    BY <2>1, EmptySeq
  <2>2. CASE k = Top
    BY <2>2, <1>5
  <2> QED
    BY <2>1, <2>2
<1>7. postings' = Append(postings, k + 1) /\ posted' = posted + 1
  BY DEF processEvent, Carried
<1>8. /\ postings' \in Seq(1 .. k + 1)
      /\ Len(postings') = Len(postings) + 1
      /\ \A i \in 1 .. Len(postings) : postings'[i] = postings[i]
      /\ postings'[Len(postings) + 1] = k + 1
  <2>1. postings \in Seq(1 .. k + 1)
    BY <1>6, SeqMonotonic, 1 .. k \subseteq 1 .. k + 1
  <2> QED
    BY <2>1, <1>7, AppendProperties, k + 1 \in 1 .. k + 1
<1>9. DOMAIN postings' = 1 .. Len(postings) + 1
  BY <1>8, <1>1, LenProperties
<1>10. \A i \in DOMAIN postings : postings[i] \in 1 .. k
  BY <1>6, <1>1, ElementOfSeq
<1>11. \A p \in 1 .. k + 1 : Queued(p)' <=> Queued(p) \/ p = k + 1
  BY <1>1, <1>8, <1>9, <1>10 DEF Queued
<1>12. \A n \in 1 .. k : IsFrame(n) /\ n \in 1 .. Top
  BY <1>4, <1>1
\* The fields of the old activations, in the new stack.
<1>13. \A n \in 1 .. k :
       /\ DOMAIN frames'[n] = Fields
       /\ frames'[n].t = frames[n].t /\ frames'[n].l = frames[n].l
       /\ frames'[n].serving = frames[n].serving /\ frames'[n].in = frames[n].in
       /\ frames'[n].id = frames[n].id /\ frames'[n].sent = frames[n].sent
       /\ frames'[n].trapped = frames[n].trapped
       /\ frames'[n].reentered \in BOOLEAN
       /\ frames'[n].reentered <=>
            frames[n].reentered \/ (frames[k].in = "trapper" /\ frames[k].serving = n)
  BY <1>2 DEF Carried
<1>14. ShapeInv'
  <2>1. \A n \in 1 .. k : IsFrame(n)'
    <3> SUFFICES ASSUME NEW n \in 1 .. k PROVE IsFrame(n)'
      OBVIOUS
    <3>1. IsFrame(n)
      BY <1>12
    <3>2. frames'[n].id \in 1 .. posted'
      BY <3>1, <1>13, <1>7, <1>5 DEF IsFrame
    <3>3. frames'[n].trapped \in BOOLEAN /\ frames'[n].reentered \in BOOLEAN
      BY <3>1, <1>13 DEF IsFrame
    <3>4. /\ DOMAIN frames'[n] = Fields /\ frames'[n].serving \in 0 .. n
          /\ frames'[n].in \in {"router", "trapper", "listener"}
          /\ frames'[n].in # "router" => frames'[n].serving # 0
      BY <3>1, <1>13 DEF IsFrame
    <3> QED
      BY <3>2, <3>3, <3>4 DEF IsFrame, Fields
  <2>2. IsFrame(k + 1)'
    <3>1. frames'[k + 1].id \in 1 .. posted'
      BY <1>2, <1>3, <1>5, <1>7
    <3>2. frames'[k + 1].serving \in 0 .. k + 1
      BY <1>2, <1>3
    <3> QED
      BY <1>2, <1>3, <3>1, <3>2 DEF IsFrame, Fields
  <2>3. \A n \in 1 .. Top' : IsFrame(n)'
    BY <1>2, <2>1, <2>2
  <2> QED
    BY <1>2, <1>5, <1>7, <1>8, <2>3 DEF IndInv, ShapeInv
<1>15. QueueInv'
  BY <1>1, <1>2, <1>3, <1>8, <1>9, <1>10 DEF IndInv, QueueInv
\* Everybody below the new activation waits for a handler.
<1>16. \A n \in 1 .. k :
       /\ frames[n].in # "router"
       /\ frames[n].in = "trapper" => frames'[frames[n].serving].reentered
  <2> SUFFICES ASSUME NEW n \in 1 .. k
               PROVE  /\ frames[n].in # "router"
                      /\ frames[n].in = "trapper" => frames'[frames[n].serving].reentered
    OBVIOUS
  <2>1. frames[n].in # "router" => frames[n].serving \in 1 .. k
    BY <1>12 DEF IsFrame
  <2>2. CASE n < Top
    BY <2>1, <2>2, <1>12, <1>13 DEF IndInv, StackInv
  <2>3. CASE n = Top
    BY <2>1, <2>3, <1>12, <1>13, <1>1
  <2> QED
    BY <2>2, <2>3, <1>1
<1>17. StackInv'
  BY <1>2, <1>13, <1>16 DEF StackInv
<1>18. \A n \in 1 .. k : frames[n].serving \in 1 .. k
  BY <1>12, <1>16 DEF IsFrame
<1>19. TrapInv'
  <2>1. \A p \in 1 .. k + 1 : frames'[p].sent # <<>> => frames'[p].t = <<>>
    BY <1>2, <1>3, <1>12, <1>13 DEF IndInv, TrapInv
  <2>2. \A n \in 1 .. k + 1 : frames'[n].in = "listener" => frames'[frames'[n].serving].t = <<>>
    BY <1>2, <1>3, <1>12, <1>13, <1>18 DEF IndInv, TrapInv
  <2>3. frames'[k + 1].in # "trapper"
    BY <1>2, <1>3
  <2>4. \A p \in 1 .. k + 1 : frames'[p].trapped /\ ~frames'[p].reentered =>
          frames'[p].sent = <<>> /\ ~Queued(p)' /\ \A n \in 1 .. k + 1 : frames'[n].serving # p
    <3> SUFFICES ASSUME NEW p \in 1 .. k + 1, frames'[p].trapped, ~frames'[p].reentered
                 PROVE  frames'[p].sent = <<>> /\ ~Queued(p)' /\ \A n \in 1 .. k + 1 : frames'[n].serving # p
      OBVIOUS
    <3>1. p \in 1 .. k
      BY <1>2, <1>3
    <3>2. frames[p].trapped /\ ~frames[p].reentered
      BY <3>1, <1>13
    <3>3. frames[p].sent = <<>> /\ ~Queued(p) /\ \A n \in 1 .. Top : frames[n].serving # p
      BY <3>1, <3>2, <1>12 DEF IndInv, TrapInv
    <3> QED
      BY <3>1, <3>3, <1>2, <1>3, <1>11, <1>12, <1>13
  <2> QED
    BY <2>1, <2>2, <2>3, <2>4, <1>2 DEF TrapInv
<1>20. OrderInv'
  <2>1. \A m, n \in 1 .. k + 1 : m < n => frames'[m].id < frames'[n].id
    <3>1. \A n \in 1 .. k : frames[n].id \in 1 .. posted
      BY <1>12 DEF IsFrame
    <3>2. \A m, n \in 1 .. k : m < n => frames[m].id < frames[n].id
      BY <1>12 DEF IndInv, OrderInv
    <3>3. frames'[k + 1].id = posted + 1 /\ \A n \in 1 .. k : frames'[n].id = frames[n].id
      BY <1>2, <1>3, <1>13
    <3>4. ASSUME NEW m \in 1 .. k + 1, NEW n \in 1 .. k + 1, m < n
          PROVE  frames'[m].id < frames'[n].id
      <4>1. m \in 1 .. k
        BY <3>4
      <4>2. CASE n \in 1 .. k
        BY <3>4, <4>1, <4>2, <3>2, <3>3
      <4>3. CASE n = k + 1
        BY <4>1, <4>3, <3>1, <3>3, <1>5
      <4> QED
        BY <4>2, <4>3
    <3> QED
      BY <3>4
  <2>2. \A p \in 1 .. k + 1 : Queued(p)' => \A el \in Listeners : latest'[el] <= frames'[p].id
    <3>1. \A el \in Listeners : latest[el] \in Int /\ latest[el] <= posted
      BY DEF IndInv, ShapeInv
    <3>2. \A p \in 1 .. k : Queued(p) => \A el \in Listeners : latest[el] <= frames[p].id
      BY <1>12 DEF IndInv, OrderInv
    <3> QED
      BY <3>1, <3>2, <1>2, <1>3, <1>5, <1>11, <1>12, <1>13
  <2>3. \A n, p \in 1 .. k + 1 : frames'[n].serving = p =>
          Queued(p)' \/ frames'[p].l = <<>> \/ frames'[p].reentered
    <3> SUFFICES ASSUME NEW n \in 1 .. k + 1, NEW p \in 1 .. k + 1, frames'[n].serving = p
                 PROVE  Queued(p)' \/ frames'[p].l = <<>> \/ frames'[p].reentered
      OBVIOUS
    <3>1. n \in 1 .. k /\ frames[n].serving = p /\ p \in 1 .. k
      BY <1>2, <1>3, <1>13, <1>18
    <3>2. Queued(p) \/ frames[p].l = <<>> \/ frames[p].reentered
      BY <3>1, <1>12 DEF IndInv, OrderInv
    <3> QED
      BY <3>1, <3>2, <1>11, <1>13
  <2> QED
    BY <2>1, <2>2, <2>3, <1>2 DEF OrderInv
<1> QED
  BY <1>14, <1>15, <1>17, <1>19, <1>20 DEF IndInv

\* The other steps change the activation on top, and the posting p it serves.
Touched(p, t, l, sent, trapped, serving, in) ==
  /\ IsSeq(frames') /\ Top' = Top
  /\ \A n \in 1 .. Top :
       /\ DOMAIN frames'[n] = Fields
       /\ frames'[n].id = frames[n].id
       /\ frames'[n].reentered = frames[n].reentered
       /\ frames'[n].t = IF n = p THEN t ELSE frames[n].t
       /\ frames'[n].l = IF n = p THEN l ELSE frames[n].l
       /\ frames'[n].sent = IF n = p THEN sent ELSE frames[n].sent
       /\ frames'[n].trapped = IF n = p THEN trapped ELSE frames[n].trapped
       /\ frames'[n].serving = IF n = Top THEN serving ELSE frames[n].serving
       /\ frames'[n].in = IF n = Top THEN in ELSE frames[n].in

\* The steps within process(), and the one that begins it: the queue is kept.
LEMMA KeepPreserves ==
  ASSUME IndInv, Top > 0,
         NEW p \in 1 .. Top, NEW t, NEW l, NEW sent,
         NEW in \in {"router", "trapper", "listener"},
         Touched(p, t, l, sent, frames[p].trapped, p, in),
         \/ frames[Top].serving = p
         \/ postings # <<>> /\ p = Head(postings),
         frames[p].t = <<>> => t = <<>>,
         frames[p].l = <<>> => l = <<>>,
         in = "trapper" => frames[p].t # <<>>,
         in = "listener" => t = <<>>,
         sent = frames[p].sent \/ in = "listener",
         postings' = postings, posted' = posted,
         latest' \in [Listeners -> Int],
         \A el \in Listeners : latest'[el] = latest[el] \/ latest'[el] = frames[p].id
  PROVE  IndInv'
<1>1. /\ Top \in Nat /\ DOMAIN postings = 1 .. Len(postings) /\ Len(postings) \in Nat
      /\ postings # <<>> => Head(postings) = postings[1] /\ 1 \in DOMAIN postings
  BY Lengths
<1>2. \A n \in 1 .. Top : IsFrame(n)
  BY DEF IndInv, ShapeInv
<1>3. \A n \in 1 .. Top :
       /\ DOMAIN frames'[n] = Fields
       /\ frames'[n].id = frames[n].id
       /\ frames'[n].reentered = frames[n].reentered
       /\ frames'[n].trapped = frames[n].trapped
       /\ frames'[n].t = IF n = p THEN t ELSE frames[n].t
       /\ frames'[n].l = IF n = p THEN l ELSE frames[n].l
       /\ frames'[n].sent = IF n = p THEN sent ELSE frames[n].sent
       /\ frames'[n].serving = IF n = Top THEN p ELSE frames[n].serving
       /\ frames'[n].in = IF n = Top THEN in ELSE frames[n].in
  BY DEF Touched
<1>4. \A q : Queued(q)' <=> Queued(q)
  BY DEF Queued
<1>5. \A i \in DOMAIN postings : postings[i] \in 1 .. Top
  BY <1>1, ElementOfSeq DEF IndInv, ShapeInv
<1>6. Top' = Top /\ IsSeq(frames')
  BY DEF Touched
<1>7. Queued(p) \/ frames[Top].serving = p
  BY <1>1 DEF Queued
<1>8. ShapeInv'
  <2>1. ASSUME NEW n \in 1 .. Top PROVE IsFrame(n)'
    <3>1. IsFrame(n) /\ n \in Nat
      BY <1>2
    <3>2. frames'[n].serving \in 0 .. n
      BY <3>1, <1>1, <1>3 DEF IsFrame
    <3>3. /\ DOMAIN frames'[n] = Fields
          /\ frames'[n].in \in {"router", "trapper", "listener"}
          /\ frames'[n].in # "router" => frames'[n].serving # 0
          /\ frames'[n].id \in 1 .. posted'
      BY <3>1, <1>3 DEF IsFrame
    <3>4. frames'[n].trapped \in BOOLEAN /\ frames'[n].reentered \in BOOLEAN
      BY <3>1, <1>3 DEF IsFrame
    <3> QED
      BY <3>2, <3>3, <3>4 DEF IsFrame, Fields
  <2>2. \A el \in Listeners : latest'[el] <= posted
    <3>1. frames[p].id <= posted
      BY <1>2 DEF IsFrame, IndInv, ShapeInv
    <3> QED
      BY <3>1 DEF IndInv, ShapeInv
  <2> QED
    BY <1>6, <2>1, <2>2 DEF IndInv, ShapeInv
<1>9. QueueInv'
  <2>1. postings # <<>> => Head(postings) = p
    BY DEF IndInv, QueueInv
  <2> QED
    BY <1>1, <1>6, <1>3, <2>1 DEF IndInv, QueueInv
<1>10. StackInv'
  <2> SUFFICES ASSUME NEW k \in 1 .. Top, k < Top
               PROVE  /\ frames'[k].in # "router"
                      /\ frames'[k].in = "trapper" => frames'[frames'[k].serving].reentered
    BY <1>6 DEF StackInv
  <2>1. /\ frames[k].in # "router"
        /\ frames[k].in = "trapper" => frames[frames[k].serving].reentered
    BY DEF IndInv, StackInv
  <2>2. frames[k].serving \in 1 .. Top
    BY <2>1, <1>2, <1>1 DEF IsFrame
  <2>3. frames'[k].in = frames[k].in /\ frames'[k].serving = frames[k].serving
    BY <1>3
  <2> QED
    BY <2>1, <2>2, <2>3, <1>3
\* Whoever else serves p has it at a listener, or at a trapper that has called.
<1>11. ASSUME in = "trapper", ~frames[p].reentered
       PROVE  \A k \in 1 .. Top : k < Top => frames[k].serving # p
  <2> SUFFICES ASSUME NEW k \in 1 .. Top, k < Top, frames[k].serving = p PROVE FALSE
    OBVIOUS
  <2>1. frames[k].in # "router" /\ frames[k].in # "trapper"
    BY <1>11 DEF IndInv, StackInv
  <2>2. frames[k].in = "listener"
    BY <2>1, <1>2 DEF IsFrame
  <2> QED
    BY <2>2, <1>11 DEF IndInv, TrapInv
<1>12. TrapInv'
  <2>1. ASSUME NEW q \in 1 .. Top PROVE frames'[q].sent # <<>> => frames'[q].t = <<>>
    BY <1>3 DEF IndInv, TrapInv
  <2>2. ASSUME NEW k \in 1 .. Top, frames'[k].in = "listener"
        PROVE  frames'[frames'[k].serving].t = <<>>
    <3>1. CASE k = Top
      BY <2>2, <3>1, <1>3
    <3>2. CASE k # Top
      <4>1. frames[k].in = "listener" /\ frames'[k].serving = frames[k].serving
        BY <2>2, <3>2, <1>3
      <4>2. frames[k].serving \in 1 .. Top
        BY <4>1, <1>2, <1>1 DEF IsFrame
      <4>3. frames[frames[k].serving].t = <<>>
        BY <4>1 DEF IndInv, TrapInv
      <4> QED
        BY <4>1, <4>2, <4>3, <1>3
    <3> QED
      BY <3>1, <3>2
  <2>3. ASSUME NEW q \in 1 .. Top, frames'[Top].in = "trapper", q = frames'[Top].serving
        PROVE  \/ frames'[q].reentered
               \/ frames'[q].sent = <<>> /\ \A k \in 1 .. Top : k < Top => frames'[k].serving # q
    <3>1. in = "trapper" /\ q = p
      BY <2>3, <1>1, <1>3
    <3>2. frames'[p].sent = <<>>
      BY <3>1, <1>3 DEF IndInv, TrapInv
    <3>3. frames'[p].reentered = frames[p].reentered
      BY <1>3
    <3>4. CASE frames[p].reentered
      BY <3>1, <3>3, <3>4
    <3>5. CASE ~frames[p].reentered
      BY <3>1, <3>2, <3>5, <1>3, <1>11
    <3> QED
      BY <3>4, <3>5
  <2>4. ASSUME NEW q \in 1 .. Top, frames'[q].trapped, ~frames'[q].reentered
        PROVE  frames'[q].sent = <<>> /\ ~Queued(q)' /\ \A k \in 1 .. Top : frames'[k].serving # q
    <3>1. frames[q].trapped /\ ~frames[q].reentered
      BY <2>4, <1>3
    <3>2. frames[q].sent = <<>> /\ ~Queued(q) /\ \A k \in 1 .. Top : frames[k].serving # q
      BY <3>1 DEF IndInv, TrapInv
    <3>3. q # p
      BY <3>2, <1>1, <1>7
    <3> QED
      BY <3>2, <3>3, <1>3, <1>4
  <2> QED
    BY <2>1, <2>2, <2>3, <2>4, <1>6 DEF TrapInv
<1>13. OrderInv'
  <2>1. \A m, n \in 1 .. Top : m < n => frames'[m].id < frames'[n].id
    BY <1>3 DEF IndInv, OrderInv
  <2>2. ASSUME NEW q \in 1 .. Top, Queued(q), NEW el \in Listeners
        PROVE  latest'[el] <= frames'[q].id
    <3>1. latest[el] <= frames[q].id
      BY <2>2 DEF IndInv, OrderInv
    <3>2. p = Head(postings) /\ postings # <<>>
      BY <2>2, <1>1 DEF IndInv, QueueInv, Queued
    <3>3. p <= q
      BY <2>2, <3>2, <1>1, <1>5 DEF IndInv, QueueInv, Queued
    <3>4. frames[p].id <= frames[q].id
      BY <3>3, <1>2 DEF IndInv, OrderInv, IsFrame
    <3> QED
      BY <3>1, <3>4, <1>3
  <2>3. ASSUME NEW k \in 1 .. Top, NEW q \in 1 .. Top, frames'[k].serving = q
        PROVE  Queued(q)' \/ frames'[q].l = <<>> \/ frames'[q].reentered
    <3>1. Queued(q) \/ frames[q].l = <<>> \/ frames[q].reentered
      BY <2>3, <1>1, <1>3, <1>7 DEF IndInv, OrderInv
    <3> QED
      BY <3>1, <1>3, <1>4
  <2> QED
    BY <2>1, <2>2, <2>3, <1>4, <1>6 DEF OrderInv
<1> QED
  BY <1>8, <1>9, <1>10, <1>12, <1>13 DEF IndInv

\* process() ends, and the loop pops the queue.
LEMMA CompletePreserves ==
  ASSUME IndInv, Top > 0,
         NEW p \in 1 .. Top, frames[Top].serving = p,
         NEW trapped \in BOOLEAN,
         Touched(p, frames[p].t, frames[p].l, frames[p].sent, trapped, 0, "router"),
         \/ trapped = frames[p].trapped /\ frames[p].l = <<>>
         \/ frames[Top].in = "trapper",
         postings' = IF postings = <<>> THEN <<>> ELSE Tail(postings),
         posted' = posted, latest' = latest
  PROVE  IndInv'
<1>1. /\ Top \in Nat /\ DOMAIN postings = 1 .. Len(postings) /\ Len(postings) \in Nat
      /\ postings # <<>> => Head(postings) = postings[1] /\ 1 \in DOMAIN postings
  BY Lengths
<1>2. \A n \in 1 .. Top : IsFrame(n)
  BY DEF IndInv, ShapeInv
<1>3. \A n \in 1 .. Top :
       /\ DOMAIN frames'[n] = Fields
       /\ frames'[n].id = frames[n].id
       /\ frames'[n].reentered = frames[n].reentered
       /\ frames'[n].trapped = IF n = p THEN trapped ELSE frames[n].trapped
       /\ frames'[n].t = frames[n].t
       /\ frames'[n].l = frames[n].l
       /\ frames'[n].sent = frames[n].sent
       /\ frames'[n].serving = IF n = Top THEN 0 ELSE frames[n].serving
       /\ frames'[n].in = IF n = Top THEN "router" ELSE frames[n].in
  BY DEF Touched
<1>4. Top' = Top /\ IsSeq(frames')
  BY DEF Touched
<1>5. /\ postings' \in Seq(1 .. Top)
      /\ Len(postings') \in Nat /\ DOMAIN postings' = 1 .. Len(postings')
      /\ Len(postings') <= Len(postings)
      /\ postings # <<>> => /\ Len(postings') = Len(postings) - 1
                            /\ \A i \in DOMAIN postings' : postings'[i] = postings[i + 1]
      /\ postings = <<>> => DOMAIN postings' = {}
  <2>1. CASE postings = <<>>
    BY <2>1, EmptySeq
  <2>2. CASE postings # <<>>
    <3>1. /\ postings' \in Seq(1 .. Top) /\ Len(postings') = Len(postings) - 1
          /\ \A i \in 1 .. Len(postings') : postings'[i] = postings[i + 1]
      BY <2>2, HeadTailProperties DEF IndInv, ShapeInv
    <3> QED
      BY <2>2, <3>1, <1>1, LenProperties
  <2> QED
    BY <2>1, <2>2
<1>6. \A i \in DOMAIN postings : postings[i] \in 1 .. Top
  BY <1>1, ElementOfSeq DEF IndInv, ShapeInv
\* What is popped is p.
<1>7. postings # <<>> => postings[1] = p
  BY <1>1 DEF IndInv, QueueInv
<1>8. \A m, n \in DOMAIN postings : m < n => postings[m] < postings[n]
  BY DEF IndInv, QueueInv
<1>9. ASSUME NEW q \in 1 .. Top PROVE Queued(q)' <=> Queued(q) /\ q # p
  <2>1. CASE postings = <<>>
    BY <2>1, <1>1, <1>5, EmptySeq DEF Queued
  <2>2. CASE postings # <<>>
    <3>1. ASSUME Queued(q)' PROVE Queued(q) /\ q # p
      <4>1. PICK i \in DOMAIN postings' : postings'[i] = q
        BY <3>1 DEF Queued
      <4>2. i + 1 \in DOMAIN postings /\ postings[i + 1] = q /\ 1 < i + 1
        BY <4>1, <2>2, <1>1, <1>5
      <4>3. p < q
        BY <4>2, <2>2, <1>1, <1>7, <1>8
      <4> QED
        BY <4>2, <4>3 DEF Queued
    <3>2. ASSUME Queued(q), q # p PROVE Queued(q)'
      <4>1. PICK i \in DOMAIN postings : postings[i] = q
        BY <3>2 DEF Queued
      <4>2. i # 1
        BY <4>1, <3>2, <2>2, <1>7
      <4>3. i - 1 \in DOMAIN postings' /\ postings'[i - 1] = q
        BY <4>1, <4>2, <2>2, <1>1, <1>5
      <4> QED
        BY <4>3 DEF Queued
    <3> QED
      BY <3>1, <3>2
  <2> QED
    BY <2>1, <2>2
<1>10. ShapeInv'
  <2>1. ASSUME NEW n \in 1 .. Top PROVE IsFrame(n)'
    <3>1. IsFrame(n) /\ n \in Nat
      BY <1>2
    <3>2. frames'[n].serving \in 0 .. n
      BY <3>1, <1>1, <1>3 DEF IsFrame
    <3>3. /\ DOMAIN frames'[n] = Fields
          /\ frames'[n].in \in {"router", "trapper", "listener"}
          /\ frames'[n].in # "router" => frames'[n].serving # 0
          /\ frames'[n].id \in 1 .. posted'
      BY <3>1, <1>3 DEF IsFrame
    <3>4. frames'[n].trapped \in BOOLEAN /\ frames'[n].reentered \in BOOLEAN
      BY <3>1, <1>3 DEF IsFrame
    <3> QED
      BY <3>2, <3>3, <3>4 DEF IsFrame, Fields
  <2> QED
    BY <1>4, <1>5, <2>1 DEF IndInv, ShapeInv
<1>11. QueueInv'
  <2>1. ASSUME NEW m \in DOMAIN postings', NEW n \in DOMAIN postings', m < n
        PROVE  postings'[m] < postings'[n]
    <3>1. postings # <<>>
      BY <2>1, <1>5
    <3>2. m + 1 \in DOMAIN postings /\ n + 1 \in DOMAIN postings /\ m + 1 < n + 1
      BY <2>1, <3>1, <1>1, <1>5
    <3> QED
      BY <3>1, <3>2, <1>5, <1>8
  <2> QED
    BY <2>1, <1>1, <1>3, <1>4 DEF QueueInv
<1>12. StackInv'
  <2> SUFFICES ASSUME NEW k \in 1 .. Top, k < Top
               PROVE  /\ frames'[k].in # "router"
                      /\ frames'[k].in = "trapper" => frames'[frames'[k].serving].reentered
    BY <1>4 DEF StackInv
  <2>1. /\ frames[k].in # "router"
        /\ frames[k].in = "trapper" => frames[frames[k].serving].reentered
    BY DEF IndInv, StackInv
  <2>2. frames[k].serving \in 1 .. Top
    BY <2>1, <1>2, <1>1 DEF IsFrame
  <2>3. frames'[k].in = frames[k].in /\ frames'[k].serving = frames[k].serving
    BY <1>3
  <2> QED
    BY <2>1, <2>2, <2>3, <1>3
\* Nobody else serves what a trapper traps, unless it has called the router.
<1>13. frames[Top].in = "trapper" /\ ~frames[p].reentered =>
         frames[p].sent = <<>> /\ \A k \in 1 .. Top : k < Top => frames[k].serving # p
  BY DEF IndInv, TrapInv
<1>14. TrapInv'
  <2>1. \A q \in 1 .. Top : frames'[q].sent # <<>> => frames'[q].t = <<>>
    BY <1>3 DEF IndInv, TrapInv
  <2>2. ASSUME NEW k \in 1 .. Top, frames'[k].in = "listener"
        PROVE  frames'[frames'[k].serving].t = <<>>
    <3>1. frames[k].in = "listener" /\ frames'[k].serving = frames[k].serving
      BY <2>2, <1>3
    <3>2. frames[k].serving \in 1 .. Top
      BY <3>1, <1>2, <1>1 DEF IsFrame
    <3> QED
      BY <3>1, <3>2, <1>3 DEF IndInv, TrapInv
  <2>3. frames'[Top].in # "trapper"
    BY <1>1, <1>3
  <2>4. ASSUME NEW q \in 1 .. Top, frames'[q].trapped, ~frames'[q].reentered
        PROVE  frames'[q].sent = <<>> /\ ~Queued(q)' /\ \A k \in 1 .. Top : frames'[k].serving # q
    <3>1. ~frames[q].reentered
      BY <2>4, <1>3
    <3>2. CASE q = p
      <4>1. frames[Top].in = "trapper"
        <5>1. CASE frames[p].trapped
          BY <5>1, <3>1, <3>2, <1>1 DEF IndInv, TrapInv
        <5>2. CASE ~frames[p].trapped
          BY <5>2, <2>4, <3>2, <1>3
        <5> QED
          BY <5>1, <5>2
      <4>2. frames[p].sent = <<>> /\ \A k \in 1 .. Top : k < Top => frames[k].serving # p
        BY <4>1, <3>1, <3>2, <1>13
      <4> QED
        BY <4>2, <3>2, <1>1, <1>3, <1>9
    <3>3. CASE q # p
      <4>1. frames[q].trapped
        BY <3>3, <2>4, <1>3
      <4>2. frames[q].sent = <<>> /\ ~Queued(q) /\ \A k \in 1 .. Top : frames[k].serving # q
        BY <3>1, <4>1 DEF IndInv, TrapInv
      <4> QED
        BY <4>2, <1>3, <1>9
    <3> QED
      BY <3>2, <3>3
  <2> QED
    BY <2>1, <2>2, <2>3, <2>4, <1>4 DEF TrapInv
<1>15. OrderInv'
  <2>1. \A m, n \in 1 .. Top : m < n => frames'[m].id < frames'[n].id
    BY <1>3 DEF IndInv, OrderInv
  <2>2. ASSUME NEW q \in 1 .. Top, Queued(q)', NEW el \in Listeners
        PROVE  latest'[el] <= frames'[q].id
    BY <2>2, <1>3, <1>9 DEF IndInv, OrderInv
  <2>3. ASSUME NEW k \in 1 .. Top, NEW q \in 1 .. Top, frames'[k].serving = q
        PROVE  Queued(q)' \/ frames'[q].l = <<>> \/ frames'[q].reentered
    <3>1. k # Top /\ frames[k].serving = q
      BY <2>3, <1>3
    <3>2. Queued(q) \/ frames[q].l = <<>> \/ frames[q].reentered
      BY <3>1 DEF IndInv, OrderInv
    <3>3. CASE q = p
      <4>1. frames[p].l = <<>> \/ frames[p].reentered
        BY <3>1, <3>3, <1>1, <1>13
      <4> QED
        BY <4>1, <3>3, <1>3
    <3>4. CASE q # p
      BY <3>2, <3>4, <1>3, <1>9
    <3> QED
      BY <3>3, <3>4
  <2> QED
    BY <2>1, <2>2, <2>3, <1>4 DEF OrderInv
<1> QED
  BY <1>10, <1>11, <1>12, <1>14, <1>15 DEF IndInv

\* An activation returns, and leaves the one below it on top.
LEMMA PopPreserves ==
  ASSUME IndInv, frames # <<>>, postings = <<>>, frames' = Front(frames),
         postings' = postings, posted' = posted, latest' = latest
  PROVE  IndInv'
<1>1. Top \in Nat \ {0} /\ IsSeq(frames') /\ Top' = Top - 1
  BY FrontIsSeq DEF IndInv, ShapeInv, Top
<1>2. \A n \in 1 .. Top' : n \in 1 .. Top /\ n < Top /\ frames'[n] = frames[n]
  BY <1>1, FrontIsSeq DEF IndInv, ShapeInv, Top
<1>3. \A n \in 1 .. Top : IsFrame(n)
  BY DEF IndInv, ShapeInv
<1>4. \A n \in 1 .. Top' :
        /\ frames[n].in # "router"
        /\ frames[n].serving \in 1 .. n /\ frames[n].serving \in 1 .. Top'
        /\ frames[n].in = "trapper" => frames[frames[n].serving].reentered
  BY <1>1, <1>2, <1>3 DEF IndInv, StackInv, IsFrame
<1>5. \A q : ~Queued(q) /\ ~Queued(q)'
  BY EmptySeq DEF Queued
<1>6. ShapeInv'
  <2>1. \A n \in 1 .. Top' : IsFrame(n)'
    BY <1>2, <1>3 DEF IsFrame
  <2>2. postings' \in Seq(1 .. Top')
    BY EmptySeq
  <2> QED
    BY <1>1, <2>1, <2>2 DEF IndInv, ShapeInv
<1>7. QueueInv'
  BY DEF IndInv, QueueInv
<1>8. StackInv'
  BY <1>1, <1>2, <1>4 DEF StackInv
<1>9. TrapInv'
  <2>1. \A q \in 1 .. Top' : frames'[q].sent # <<>> => frames'[q].t = <<>>
    BY <1>2 DEF IndInv, TrapInv
  <2>2. \A k \in 1 .. Top' : frames'[k].in = "listener" => frames'[frames'[k].serving].t = <<>>
    BY <1>2, <1>4 DEF IndInv, TrapInv
  <2>3. \A q \in 1 .. Top' : Top' > 0 /\ frames'[Top'].in = "trapper" /\ q = frames'[Top'].serving =>
          frames'[q].reentered
    BY <1>1, <1>2, <1>4
  <2>4. \A q \in 1 .. Top' : frames'[q].trapped /\ ~frames'[q].reentered =>
          frames'[q].sent = <<>> /\ \A k \in 1 .. Top' : frames'[k].serving # q
    BY <1>2 DEF IndInv, TrapInv
  <2> QED
    BY <2>1, <2>2, <2>3, <2>4, <1>5 DEF TrapInv
<1>10. OrderInv'
  BY <1>2, <1>5 DEF IndInv, OrderInv
<1> QED
  BY <1>6, <1>7, <1>8, <1>9, <1>10 DEF IndInv

-----------------------------------------------------------------------------
(* What the program calls, and what the router goes on with. *)

\* A handler that calls the router leaves the frames below as they were.
LEMMA CallingCarried ==
  ASSUME IndInv, InProgram
  PROVE  Carried(Calling, Top) /\ (Top > 0 => frames[Top].in # "router")
<1>1. Top \in Nat /\ DOMAIN frames = 1 .. Top /\ (frames = <<>> <=> Top = 0)
  BY Lengths
<1>2. \A n \in 1 .. Top : IsFrame(n)
  BY DEF IndInv, ShapeInv
<1>3. Top > 0 => frames[Top].in # "router"
  BY <1>1 DEF InProgram, Callers
<1>4. CASE frames # <<>> /\ frames[Top].in = "trapper"
  <2> DEFINE p == frames[Top].serving
             marked == [frames EXCEPT ![p].reentered = TRUE]
  <2>1. Calling = marked /\ p \in 1 .. Top
    BY <1>1, <1>2, <1>4 DEF Calling, IsFrame
  <2>2. marked = [n \in DOMAIN frames |-> marked[n]]
    OBVIOUS
  <2>3. IsSeq(marked) /\ Len(marked) = Top
    BY <2>2, UpdateIsSeq DEF IndInv, ShapeInv, Top
  <2>4. \A n \in 1 .. Top : n # p => marked[n] = frames[n]
    BY <1>1
  <2>5. marked[p] = [frames[p] EXCEPT !.reentered = TRUE]
    BY <1>1, <2>1
  <2>6. DOMAIN frames[p] = Fields
    BY <1>2, <2>1 DEF IsFrame
  <2>7. /\ DOMAIN marked[p] = Fields /\ marked[p].reentered = TRUE
        /\ marked[p].t = frames[p].t /\ marked[p].l = frames[p].l
        /\ marked[p].serving = frames[p].serving /\ marked[p].in = frames[p].in
        /\ marked[p].id = frames[p].id /\ marked[p].sent = frames[p].sent
        /\ marked[p].trapped = frames[p].trapped
    BY <2>5, <2>6 DEF Fields
  <2>8. \A n \in 1 .. Top : DOMAIN frames[n] = Fields /\ frames[n].reentered \in BOOLEAN
    BY <1>2 DEF IsFrame
  <2>9. ASSUME NEW n \in 1 .. Top
        PROVE  /\ DOMAIN marked[n] = Fields
               /\ marked[n].t = frames[n].t /\ marked[n].l = frames[n].l
               /\ marked[n].serving = frames[n].serving /\ marked[n].in = frames[n].in
               /\ marked[n].id = frames[n].id /\ marked[n].sent = frames[n].sent
               /\ marked[n].trapped = frames[n].trapped
               /\ marked[n].reentered \in BOOLEAN
               /\ marked[n].reentered <=>
                    frames[n].reentered \/ (frames[Top].in = "trapper" /\ frames[Top].serving = n)
    <3>1. CASE n = p
      BY <3>1, <2>7, <1>4
    <3>2. CASE n # p
      BY <3>2, <2>4, <2>8
    <3> QED
      BY <3>1, <3>2
  <2> HIDE DEF marked
  <2> QED
    BY <2>1, <2>3, <2>9, <1>3 DEF Carried
<1>5. CASE ~(frames # <<>> /\ frames[Top].in = "trapper")
  <2>1. Calling = frames
    BY <1>5 DEF Calling
  <2>2. \A n \in 1 .. Top : frames[Top].in # "trapper"
    BY <1>1, <1>5
  <2> QED
    BY <2>1, <2>2, <1>2, <1>3 DEF Carried, IsFrame, IndInv, ShapeInv, Top
<1> QED
  BY <1>4, <1>5

\* So does a call of processEvent() that returns,
LEMMA FrontCarried ==
  ASSUME IndInv, frames # <<>>
  PROVE  Carried(Front(frames), Top - 1) /\ Top - 1 \in Nat
<1>1. /\ Top \in Nat \ {0} /\ IsSeq(Front(frames)) /\ Len(Front(frames)) = Top - 1
      /\ \A n \in 1 .. Top - 1 : n \in 1 .. Top /\ Front(frames)[n] = frames[n]
  BY FrontIsSeq DEF IndInv, ShapeInv, Top
<1>2. \A n \in 1 .. Top : DOMAIN frames[n] = Fields /\ frames[n].reentered \in BOOLEAN
  BY DEF IndInv, ShapeInv, IsFrame
<1>3. \A n \in 1 .. Top - 1 :
        frames[Top - 1].in = "trapper" /\ frames[Top - 1].serving = n => frames[n].reentered
  <2> SUFFICES ASSUME NEW n \in 1 .. Top - 1,
                      frames[Top - 1].in = "trapper", frames[Top - 1].serving = n
               PROVE  frames[n].reentered
    OBVIOUS
  <2>1. Top - 1 \in 1 .. Top /\ Top - 1 < Top
    BY <1>1
  <2> QED
    BY <2>1 DEF IndInv, StackInv
<1> QED
  BY <1>1, <1>2, <1>3 DEF Carried

\* and a change of the subscriptions, which frames only take note of.
LEMMA DisturbedCarried ==
  ASSUME NEW k \in Nat, NEW stack, Carried(stack, k), NEW el
  PROVE  Carried(Disturbed(stack, el), k)
<1> DEFINE d == Disturbed(stack, el)
<1>1. DOMAIN stack = 1 .. k
  BY AppendIsSeq DEF Carried
<1>2. d = [n \in DOMAIN stack |-> d[n]]
  BY DEF Disturbed
<1>3. IsSeq(d) /\ Len(d) = k
  BY <1>2, UpdateIsSeq DEF Carried
<1>4. ASSUME NEW n \in 1 .. k
      PROVE  /\ DOMAIN d[n] = Fields
             /\ d[n].t = stack[n].t /\ d[n].l = stack[n].l
             /\ d[n].serving = stack[n].serving /\ d[n].in = stack[n].in
             /\ d[n].id = stack[n].id /\ d[n].sent = stack[n].sent
             /\ d[n].trapped = stack[n].trapped /\ d[n].reentered = stack[n].reentered
  <2>1. d[n] = [stack[n] EXCEPT !.cut = @ \cup {el}]
    BY <1>1 DEF Disturbed
  <2>2. DOMAIN stack[n] = Fields
    BY DEF Carried
  <2> QED
    BY <2>1, <2>2 DEF Fields
<1>5. ASSUME NEW n \in 1 .. k
      PROVE  /\ d[n].reentered \in BOOLEAN
             /\ d[n].reentered <=>
                  frames[n].reentered \/ (frames[k].in = "trapper" /\ frames[k].serving = n)
  <2>1. d[n].reentered = stack[n].reentered
    BY <1>4
  <2>2. /\ stack[n].reentered \in BOOLEAN
        /\ stack[n].reentered <=>
             frames[n].reentered \/ (frames[k].in = "trapper" /\ frames[k].serving = n)
    BY DEF Carried
  <2> HIDE DEF d
  <2> QED
    BY <2>1, <2>2
<1>6. ASSUME NEW n \in 1 .. k
      PROVE  /\ DOMAIN d[n] = Fields
             /\ d[n].t = frames[n].t /\ d[n].l = frames[n].l
             /\ d[n].serving = frames[n].serving /\ d[n].in = frames[n].in
             /\ d[n].id = frames[n].id /\ d[n].sent = frames[n].sent
             /\ d[n].trapped = frames[n].trapped
  BY <1>4 DEF Carried
<1> HIDE DEF d
<1>7. Carried(d, k)
  BY <1>3, <1>5, <1>6 DEF Carried
<1> QED
  BY <1>7 DEF d

\* One subscription added or removed, on top of what the program or the router's
\* own loop has on the stack.
LEMMA OnePreserves ==
  ASSUME IndInv,
         NEW k \in Nat, k = Top \/ (k = Top - 1 /\ postings = <<>>),
         k = Top /\ k > 0 => frames[k].in # "router",
         NEW stack, Carried(stack, k), latest' = latest,
         NEW el, NEW pattern, NEW then,
         \/ AddOne(stack, el, pattern, then)
         \/ RemoveOne(stack, el, pattern, then)
  PROVE  IndInv'
<1>1. CASE AddOne(stack, el, pattern, then)
  BY <1>1, PushPreserves DEF AddOne
<1>2. CASE RemoveOne(stack, el, pattern, then)
  BY <1>2, PushPreserves, DisturbedCarried DEF RemoveOne
<1> QED
  BY <1>1, <1>2

\* Whatever the program calls, alone or from a handler
LEMMA ProgramPreserves ==
  ASSUME IndInv, Program
  PROVE  IndInv'
<1>1. Top \in Nat
  BY Lengths
<1>2. Call => InProgram /\ latest' = latest
  BY DEF Call
<1>3. ASSUME NEW e \in Posts, PostEvent(e) PROVE IndInv'
  BY <1>1, <1>2, <1>3, CallingCarried, PushPreserves DEF PostEvent
<1>4. ASSUME NEW el, NEW pattern, Subscribe(el, pattern) PROVE IndInv'
  BY <1>1, <1>2, <1>4, CallingCarried, OnePreserves DEF Subscribe
<1>5. ASSUME NEW el, NEW pattern, Unsubscribe(el, pattern) PROVE IndInv'
  BY <1>1, <1>2, <1>5, CallingCarried, OnePreserves DEF Unsubscribe
<1>6. ASSUME NEW el, UnsubscribeAll(el) PROVE IndInv'
  <2>1. PICK g : RemoveOne(Calling, el, <<g>>, <<"remove", el, g + 1>>)
    BY <1>6 DEF UnsubscribeAll, RemoveFrom, Generators
  <2> QED
    BY <1>1, <1>2, <1>6, <2>1, CallingCarried, OnePreserves DEF UnsubscribeAll
<1>7. ASSUME NEW et, TrapEverything(et) PROVE IndInv'
  <2>1. AddOne(Calling, et, <<0>>, <<"add", et, 0 + 1>>)
    BY <1>7, NumEGIDsAssumption DEF TrapEverything, AddFrom
  <2> QED
    BY <1>1, <1>2, <1>7, <2>1, CallingCarried, OnePreserves DEF TrapEverything
<1> QED
  BY <1>3, <1>4, <1>5, <1>6, <1>7 DEF Program

-----------------------------------------------------------------------------
(* The loops of processEvent() and process(). *)

\* What the invariant says of the frames
LEMMA FramesAreRecords ==
  ASSUME IndInv
  PROVE  /\ IsSeq(frames) /\ Top \in Nat /\ Len(frames) = Top /\ DOMAIN frames = 1 .. Top
         /\ \A n \in 1 .. Top : DOMAIN frames[n] = Fields
BY Lengths DEF IndInv, ShapeInv, IsFrame, Top

\* The loop of processEvent() takes up the posting at the front.
LEMMA ServePreserves ==
  ASSUME IndInv, Serve
  PROVE  IndInv'
<1> DEFINE p == Head(postings)
           new == [frames[Top] EXCEPT !.serving = p]
<1>1. Top \in Nat /\ Top > 0 /\ p \in 1 .. Top /\ p = postings[1]
  <2>1. Top \in Nat /\ Top # 0 /\ 1 \in DOMAIN postings /\ p = postings[1]
    BY Lengths DEF Serve
  <2> QED
    BY <2>1, Lengths, ElementOfSeq DEF IndInv, ShapeInv
<1>2. /\ frames' = [n \in DOMAIN frames |-> frames'[n]]
      /\ frames'[Top] = new
      /\ \A n \in 1 .. Top : n # Top => frames'[n] = frames[n]
  <2>1. frames' = [frames EXCEPT ![Top] = new]
    BY DEF Serve
  <2>2. frames' = [n \in DOMAIN frames |-> frames'[n]]
    BY <2>1
  <2>3. DOMAIN frames = 1 .. Top /\ Top \in 1 .. Top
    BY <1>1, FramesAreRecords
  <2> HIDE DEF new
  <2> QED
    BY <2>1, <2>2, <2>3
<1>3. IsSeq(frames') /\ Top' = Top
  BY <1>2, FramesAreRecords, UpdateIsSeq DEF Top
<1>4. /\ DOMAIN new = Fields /\ new.serving = p /\ new.in = frames[Top].in
      /\ new.id = frames[Top].id /\ new.reentered = frames[Top].reentered
      /\ new.t = frames[Top].t /\ new.l = frames[Top].l
      /\ new.sent = frames[Top].sent /\ new.trapped = frames[Top].trapped
  BY <1>1, FramesAreRecords DEF Fields
<1>5. frames[Top].in = "router"
  BY <1>1 DEF IndInv, ShapeInv, IsFrame, Serve
<1>6. latest' \in [Listeners -> Int] /\ latest' = latest /\ postings # <<>>
  BY DEF Serve, IndInv, ShapeInv
<1>7. p = Head(postings)
  OBVIOUS
<1> HIDE DEF p, new
<1>8. Touched(p, frames[p].t, frames[p].l, frames[p].sent, frames[p].trapped, p, "router")
  BY <1>2, <1>3, <1>4, <1>5, FramesAreRecords DEF Touched
<1> QED
  BY <1>1, <1>5, <1>6, <1>7, <1>8, KeepPreserves DEF Serve

\* Activation p is replaced by a, and then the one on top by b.
LEMMA Replacing ==
  ASSUME IndInv, Top > 0, NEW p \in 1 .. Top, NEW a, NEW b,
         \/ frames' = [[frames EXCEPT ![p] = a] EXCEPT ![Top] = b]
         \/ frames' = [frames EXCEPT ![Top] = b] /\ a = frames[p]
         \/ frames' = [frames EXCEPT ![p] = a] /\ b = IF p = Top THEN a ELSE frames[Top]
  PROVE  /\ IsSeq(frames') /\ Top' = Top
         /\ frames'[Top] = b
         /\ p # Top => frames'[p] = a
         /\ \A n \in 1 .. Top : n # Top /\ n # p => frames'[n] = frames[n]
<1>1. DOMAIN frames = 1 .. Top /\ Top \in 1 .. Top
  BY FramesAreRecords
<1>2. frames' = [n \in DOMAIN frames |-> frames'[n]]
  OBVIOUS
<1>3. IsSeq(frames') /\ Top' = Top
  BY <1>2, FramesAreRecords, UpdateIsSeq DEF Top
<1>4. /\ frames'[Top] = b
      /\ p # Top => frames'[p] = a
      /\ \A n \in 1 .. Top : n # Top /\ n # p => frames'[n] = frames[n]
  BY <1>1
<1> QED
  BY <1>3, <1>4

\* What the activation on top has in hand.
LEMMA InHand ==
  ASSUME IndInv, frames # <<>>, frames[Top].serving # 0
  PROVE  Top \in Nat /\ Top > 0 /\ frames[Top].serving \in 1 .. Top
<1>1. Top \in Nat /\ Top > 0
  BY Lengths
<1> QED
  BY <1>1 DEF IndInv, ShapeInv, IsFrame

\* What each subscriber was offered last keeps its type.
LEMMA LatestHolds ==
  ASSUME IndInv, latest' = latest
  PROVE  latest' \in [Listeners -> Int]
BY DEF IndInv, ShapeInv

\* The next trapper is offered the event, if it subscribed to it.
LEMMA OfferTrapperPreserves ==
  ASSUME IndInv, NEW p \in 1 .. Top, OfferTrapper(p)
  PROVE  IndInv'
<1> DEFINE et == Head(frames[p].t)
           t == Tail(frames[p].t)
           a == [frames[p] EXCEPT !.t = t]
           top == IF p = Top THEN a ELSE frames[Top]
           called == [[top EXCEPT !.in = "trapper"] EXCEPT !.client = et]
           verified == verifyMapping(mappers["trappers"], et, frames[p].e)
           in == IF verified THEN "trapper" ELSE "router"
           b == IF verified THEN called ELSE top
<1>1. Top \in Nat /\ Top > 0 /\ frames[Top].serving = p /\ frames[Top].in = "router"
  BY InHand DEF OfferTrapper, InProcess
<1>2. DOMAIN frames = 1 .. Top /\ Top \in 1 .. Top /\ \A n \in 1 .. Top : DOMAIN frames[n] = Fields
  BY <1>1, FramesAreRecords
<1>3. /\ DOMAIN a = Fields /\ a.id = frames[p].id /\ a.reentered = frames[p].reentered
      /\ a.t = t /\ a.l = frames[p].l /\ a.sent = frames[p].sent
      /\ a.trapped = frames[p].trapped /\ a.serving = frames[p].serving /\ a.in = frames[p].in
  BY <1>2 DEF Fields
<1>4.   /\ in \in {"trapper", "router"}
        /\ \/ frames' = [[frames EXCEPT ![p] = a] EXCEPT ![Top] = b]
           \/ frames' = [frames EXCEPT ![p] = a] /\ b = top
        /\ DOMAIN b = Fields /\ b.id = top.id /\ b.reentered = top.reentered
        /\ b.t = top.t /\ b.l = top.l /\ b.sent = top.sent
        /\ b.trapped = top.trapped /\ b.serving = top.serving /\ b.in = in
  <2>1. DOMAIN top = Fields /\ top.in = "router"
    BY <1>1, <1>2, <1>3
  <2>2. CASE verified
    <3>1. frames' = [[frames EXCEPT ![p] = a] EXCEPT ![Top] = called]
      <4>1. frames' = [[frames EXCEPT ![p] = a] EXCEPT ![Top].in = "trapper", ![Top].client = et]
        BY <2>2 DEF OfferTrapper
      <4>2. [frames EXCEPT ![p] = a][Top] = top
        BY <1>2
      <4> QED
        BY <4>1, <4>2, <1>2
    <3> HIDE DEF top
    <3>2. /\ DOMAIN called = Fields /\ called.id = top.id /\ called.reentered = top.reentered
          /\ called.t = top.t /\ called.l = top.l /\ called.sent = top.sent
          /\ called.trapped = top.trapped /\ called.serving = top.serving /\ called.in = "trapper"
      BY <2>1 DEF Fields
    <3> HIDE DEF called
    <3> QED
      BY <2>2, <3>1, <3>2
  <2>3. CASE ~verified
    <3>1. frames' = [frames EXCEPT ![p] = a]
      BY <2>3 DEF OfferTrapper
    <3> HIDE DEF top, a
    <3> QED
      BY <2>3, <3>1, <2>1
  <2> QED
    BY <2>2, <2>3
<1>5. frames[p].t # <<>>
  BY DEF OfferTrapper
<1>6. /\ IsSeq(frames') /\ Top' = Top
      /\ frames'[Top] = b
      /\ p # Top => frames'[p] = a
      /\ \A n \in 1 .. Top : n # Top /\ n # p => frames'[n] = frames[n]
  <2> HIDE DEF a, b
  <2> QED
    BY <1>1, <1>4, Replacing
<1>7. /\ b.id = frames[Top].id /\ b.reentered = frames[Top].reentered
      /\ b.t = (IF p = Top THEN t ELSE frames[Top].t) /\ b.l = frames[Top].l
      /\ b.sent = frames[Top].sent /\ b.trapped = frames[Top].trapped
      /\ b.serving = frames[Top].serving
  <2> HIDE DEF a, b, in
  <2> QED
    BY <1>3, <1>4
<1> HIDE DEF a, b, in, t, et, verified, called, top
<1>8. Touched(p, t, frames[p].l, frames[p].sent, frames[p].trapped, p, in)
  BY <1>1, <1>2, <1>3, <1>4, <1>6, <1>7 DEF Touched
<1>9. postings' = postings /\ posted' = posted /\ latest' = latest
  BY DEF OfferTrapper
<1>10. in \in {"router", "trapper", "listener"} /\ in # "listener"
  BY <1>4
<1>11. latest' \in [Listeners -> Int]
  BY <1>9, LatestHolds
<1>12. /\ frames[p].t = <<>> => t = <<>>
       /\ in = "trapper" => frames[p].t # <<>>
       /\ in = "listener" => t = <<>>
       /\ \A el \in Listeners : latest'[el] = latest[el] \/ latest'[el] = frames[p].id
  BY <1>5, <1>9, <1>10
<1> HIDE DEF a, b, in, t, et, verified, called, top
<1>13. in = "trapper" \/ in = "router"
  BY <1>10
<1>14. CASE in = "trapper"
  BY <1>1, <1>8, <1>9, <1>11, <1>12, <1>14, KeepPreserves
<1>15. CASE in = "router"
  BY <1>1, <1>8, <1>9, <1>11, <1>12, <1>15, KeepPreserves
<1> QED
  BY <1>13, <1>14, <1>15

\* A listener returns, and the loop of process() goes on.
LEMMA ListenerReturnsPreserves ==
  ASSUME IndInv, ListenerReturns \/ TrapperReturns(FALSE)
  PROVE  IndInv'
<1> DEFINE p == frames[Top].serving
           b == [[frames[Top] EXCEPT !.in = "router"] EXCEPT !.client = NoClient]
<1>1. /\ Top \in Nat /\ Top > 0 /\ p \in 1 .. Top
      /\ DOMAIN frames = 1 .. Top /\ \A n \in 1 .. Top : DOMAIN frames[n] = Fields
  <2>1. frames # <<>> /\ frames[Top].in # "router"
    BY DEF ListenerReturns, TrapperReturns
  <2>2. Top \in Nat /\ Top > 0
    BY <2>1, Lengths
  <2>3. p # 0
    BY <2>1, <2>2 DEF IndInv, ShapeInv, IsFrame
  <2> QED
    BY <2>1, <2>3, InHand, FramesAreRecords
<1>2. frames' = [frames EXCEPT ![Top] = b]
  BY DEF ListenerReturns, TrapperReturns
<1>3. /\ DOMAIN b = Fields /\ b.id = frames[Top].id /\ b.reentered = frames[Top].reentered
      /\ b.t = frames[Top].t /\ b.l = frames[Top].l /\ b.sent = frames[Top].sent
      /\ b.trapped = frames[Top].trapped /\ b.serving = p /\ b.in = "router"
  BY <1>1 DEF Fields
<1>4. /\ IsSeq(frames') /\ Top' = Top
      /\ frames'[Top] = b
      /\ \A n \in 1 .. Top : n # Top => frames'[n] = frames[n]
  <2> HIDE DEF b, p
  <2> QED
    BY <1>1, <1>2, Replacing
<1>5. p = frames[Top].serving
  OBVIOUS
<1>6. /\ postings' = postings /\ posted' = posted /\ latest' = latest
      /\ latest' \in [Listeners -> Int]
  BY LatestHolds DEF ListenerReturns, TrapperReturns
<1> HIDE DEF b, p
<1>7. Touched(p, frames[p].t, frames[p].l, frames[p].sent, frames[p].trapped, p, "router")
  BY <1>1, <1>3, <1>4, <1>5 DEF Touched
<1> QED
  BY <1>1, <1>5, <1>6, <1>7, KeepPreserves

\* The posting p in hand is done with, and trapped or not.
LEMMA CompletedPreserves ==
  ASSUME IndInv, NEW p \in 1 .. Top, Top > 0, frames[Top].serving = p,
         NEW stack,
         \/ stack = frames /\ frames[p].l = <<>>
         \/ stack = [frames EXCEPT ![p].trapped = TRUE] /\ frames[Top].in = "trapper",
         Completed(stack), posted' = posted, latest' = latest
  PROVE  IndInv'
<1> DEFINE a == IF stack = frames THEN frames[p] ELSE [frames[p] EXCEPT !.trapped = TRUE]
           top == IF p = Top THEN a ELSE frames[Top]
           b == [[[top EXCEPT !.serving = 0] EXCEPT !.in = "router"] EXCEPT !.client = NoClient]
           trapped == IF stack = frames THEN frames[p].trapped ELSE TRUE
<1>1. /\ DOMAIN frames = 1 .. Top /\ Top \in 1 .. Top
      /\ \A n \in 1 .. Top : DOMAIN frames[n] = Fields /\ frames[n].trapped \in BOOLEAN
  BY FramesAreRecords DEF IndInv, ShapeInv, IsFrame
<1>2. /\ DOMAIN a = Fields /\ a.id = frames[p].id /\ a.reentered = frames[p].reentered
      /\ a.t = frames[p].t /\ a.l = frames[p].l /\ a.sent = frames[p].sent
      /\ a.trapped = trapped /\ a.serving = frames[p].serving /\ a.in = frames[p].in
  BY <1>1 DEF Fields
<1>3. DOMAIN top = Fields
  BY <1>1, <1>2
<1>4. /\ DOMAIN b = Fields /\ b.id = top.id /\ b.reentered = top.reentered
      /\ b.t = top.t /\ b.l = top.l /\ b.sent = top.sent
      /\ b.trapped = top.trapped /\ b.serving = 0 /\ b.in = "router"
  <2> HIDE DEF top
  <2> QED
    BY <1>3 DEF Fields
<1>5. \/ frames' = [[frames EXCEPT ![p] = a] EXCEPT ![Top] = b]
      \/ frames' = [frames EXCEPT ![Top] = b] /\ a = frames[p]
  <2>1. frames' = [stack EXCEPT ![Top] =
                     [[[stack[Top] EXCEPT !.serving = 0] EXCEPT !.in = "router"] EXCEPT !.client = NoClient]]
    BY DEF Completed
  <2>2. CASE stack = frames
    <3>1. stack[Top] = top /\ a = frames[p]
      BY <2>2
    <3> HIDE DEF a, top
    <3> QED
      BY <2>1, <2>2, <3>1
  <2>3. CASE stack # frames
    <3>1. stack = [frames EXCEPT ![p] = a]
      BY <2>3
    <3>2. stack[Top] = top
      <4> HIDE DEF a
      <4> QED
        BY <3>1, <1>1
    <3> HIDE DEF a, top
    <3> QED
      BY <2>1, <3>1, <3>2
  <2> QED
    BY <2>2, <2>3
<1>6. /\ IsSeq(frames') /\ Top' = Top
      /\ frames'[Top] = b
      /\ p # Top => frames'[p] = a
      /\ \A n \in 1 .. Top : n # Top /\ n # p => frames'[n] = frames[n]
  <2> HIDE DEF a, b, top, trapped
  <2>1. Top > 0 /\ p \in 1 .. Top
    OBVIOUS
  <2>2. CASE frames' = [[frames EXCEPT ![p] = a] EXCEPT ![Top] = b]
    BY <2>1, <2>2, Replacing
  <2>3. CASE frames' = [frames EXCEPT ![Top] = b] /\ a = frames[p]
    BY <2>1, <2>3, Replacing
  <2> QED
    BY <1>5, <2>2, <2>3
<1>7. /\ b.id = frames[Top].id /\ b.reentered = frames[Top].reentered
      /\ b.t = frames[Top].t /\ b.l = frames[Top].l /\ b.sent = frames[Top].sent
      /\ b.trapped = IF p = Top THEN trapped ELSE frames[Top].trapped
  <2> HIDE DEF a, b, trapped
  <2> QED
    BY <1>2, <1>4
<1>8. /\ trapped \in BOOLEAN
      /\ \/ trapped = frames[p].trapped /\ frames[p].l = <<>>
         \/ frames[Top].in = "trapper"
  BY <1>1
<1> HIDE DEF a, b, top, trapped
<1>9. Touched(p, frames[p].t, frames[p].l, frames[p].sent, trapped, 0, "router")
  BY <1>1, <1>2, <1>4, <1>6, <1>7 DEF Touched
<1>10. postings' = IF postings = <<>> THEN <<>> ELSE Tail(postings)
  BY DEF Completed
<1> QED
  BY <1>8, <1>9, <1>10, CompletePreserves

\* The next listener is offered the event, if it subscribed to it.
LEMMA OfferListenerPreserves ==
  ASSUME IndInv, NEW p \in 1 .. Top, OfferListener(p)
  PROVE  IndInv'
<1> DEFINE el == Head(frames[p].l)
           l == Tail(frames[p].l)
           verified == verifyMapping(mappers["listeners"], el, frames[p].e)
           sent == IF verified THEN Append(frames[p].sent, el) ELSE frames[p].sent
           next == [frames[p] EXCEPT !.l = l]
           a == IF verified THEN [next EXCEPT !.sent = sent] ELSE next
           top == IF p = Top THEN a ELSE frames[Top]
           called == [[top EXCEPT !.in = "listener"] EXCEPT !.client = el]
           in == IF verified THEN "listener" ELSE "router"
           b == IF verified THEN called ELSE top
<1>1. Top \in Nat /\ Top > 0 /\ frames[Top].serving = p /\ frames[Top].in = "router"
  BY InHand DEF OfferListener, InProcess
<1>2. DOMAIN frames = 1 .. Top /\ Top \in 1 .. Top /\ \A n \in 1 .. Top : DOMAIN frames[n] = Fields
  BY <1>1, FramesAreRecords
<1>3. DOMAIN next = Fields /\ next.sent = frames[p].sent
  BY <1>2 DEF Fields
<1>4. /\ DOMAIN a = Fields /\ a.id = frames[p].id /\ a.reentered = frames[p].reentered
      /\ a.t = frames[p].t /\ a.l = l /\ a.sent = sent
      /\ a.trapped = frames[p].trapped /\ a.serving = frames[p].serving /\ a.in = frames[p].in
  <2> HIDE DEF l
  <2>1. /\ DOMAIN next = Fields /\ next.id = frames[p].id /\ next.reentered = frames[p].reentered
        /\ next.t = frames[p].t /\ next.l = l /\ next.sent = frames[p].sent
        /\ next.trapped = frames[p].trapped /\ next.serving = frames[p].serving
        /\ next.in = frames[p].in
    BY <1>2 DEF Fields
  <2> HIDE DEF next, verified, el
  <2>2. CASE verified
    <3>1. a = [next EXCEPT !.sent = sent]
      BY <2>2
    <3> HIDE DEF a, sent
    <3> QED
      BY <2>1, <3>1 DEF Fields
  <2>3. CASE ~verified
    BY <2>1, <2>3
  <2> QED
    BY <2>2, <2>3
<1>5. DOMAIN top = Fields /\ top.in = "router"
  BY <1>1, <1>2, <1>4
<1>6. /\ \/ frames' = [[frames EXCEPT ![p] = a] EXCEPT ![Top] = b]
         \/ frames' = [frames EXCEPT ![p] = a] /\ b = top
      /\ DOMAIN b = Fields /\ b.id = top.id /\ b.reentered = top.reentered
      /\ b.t = top.t /\ b.l = top.l /\ b.sent = top.sent
      /\ b.trapped = top.trapped /\ b.serving = top.serving /\ b.in = in
  <2>1. CASE verified
    <3>1. frames' = [[[frames EXCEPT ![p] = next] EXCEPT ![p].sent = Append(@, el)]
                        EXCEPT ![Top].in = "listener", ![Top].client = el]
      BY <2>1 DEF OfferListener
    <3>2. [[frames EXCEPT ![p] = next] EXCEPT ![p].sent = Append(@, el)] = [frames EXCEPT ![p] = a]
      <4>1. [frames EXCEPT ![p] = next][p] = next
        BY <1>2
      <4>2. [next EXCEPT !.sent = Append(@, el)] = a
        BY <2>1, <1>3
      <4> HIDE DEF a, next, el
      <4> QED
        BY <4>1, <4>2
    <3>3. [frames EXCEPT ![p] = a][Top] = top
      <4> HIDE DEF a
      <4> QED
        BY <1>2
    <3>4. frames' = [[frames EXCEPT ![p] = a] EXCEPT ![Top] = called]
      <4> HIDE DEF a, el, next, top
      <4> QED
        BY <3>1, <3>2, <3>3, <1>2
    <3>5. /\ DOMAIN called = Fields /\ called.id = top.id /\ called.reentered = top.reentered
          /\ called.t = top.t /\ called.l = top.l /\ called.sent = top.sent
          /\ called.trapped = top.trapped /\ called.serving = top.serving /\ called.in = "listener"
      <4> HIDE DEF top, el
      <4> QED
        BY <1>5 DEF Fields
    <3>6. b = called /\ in = "listener"
      <4> HIDE DEF called, top
      <4> QED
        BY <2>1
    <3> HIDE DEF called, top, a, b, in
    <3> QED
      BY <3>4, <3>5, <3>6
  <2>2. CASE ~verified
    <3>1. frames' = [frames EXCEPT ![p] = a]
      BY <2>2 DEF OfferListener
    <3>2. b = top /\ in = "router"
      <4> HIDE DEF called, top
      <4> QED
        BY <2>2
    <3> HIDE DEF top, a, b, in
    <3> QED
      BY <3>1, <3>2, <1>5
  <2> QED
    BY <2>1, <2>2
<1>7. /\ IsSeq(frames') /\ Top' = Top
      /\ frames'[Top] = b
      /\ p # Top => frames'[p] = a
      /\ \A n \in 1 .. Top : n # Top /\ n # p => frames'[n] = frames[n]
  <2>1. top = IF p = Top THEN a ELSE frames[Top]
    OBVIOUS
  <2> HIDE DEF a, b, top, l, el, sent, next, called, in, verified
  <2>2. CASE frames' = [[frames EXCEPT ![p] = a] EXCEPT ![Top] = b]
    BY <1>1, <2>2, Replacing
  <2>3. CASE frames' = [frames EXCEPT ![p] = a] /\ b = top
    <3>1. b = IF p = Top THEN a ELSE frames[Top]
      BY <2>1, <2>3
    <3>2. frames' = [n \in DOMAIN frames |-> frames'[n]]
      BY <2>3
    <3>3. IsSeq(frames') /\ Top' = Top
      BY <3>2, FramesAreRecords, UpdateIsSeq DEF Top
    <3> QED
      BY <1>2, <2>3, <3>1, <3>3
  <2> QED
    BY <1>6, <2>2, <2>3
<1>8. /\ b.id = frames[Top].id /\ b.reentered = frames[Top].reentered
      /\ b.t = frames[Top].t /\ b.l = (IF p = Top THEN l ELSE frames[Top].l)
      /\ b.sent = (IF p = Top THEN sent ELSE frames[Top].sent)
      /\ b.trapped = frames[Top].trapped /\ b.serving = frames[Top].serving
  <2>1. top = IF p = Top THEN a ELSE frames[Top]
    OBVIOUS
  <2> HIDE DEF a, b, in, l, sent, top
  <2> QED
    BY <2>1, <1>4, <1>6
<1>9. (verified /\ in = "listener") \/ (in = "router" /\ sent = frames[p].sent)
  OBVIOUS
<1>10. ~verified => latest' = latest
  BY DEF OfferListener
<1>11. verified => latest' = [latest EXCEPT ![el] = frames[p].id]
  BY DEF OfferListener
<1> HIDE DEF a, b, in, l, el, sent, verified, next, called, top
<1>12. Touched(p, frames[p].t, l, sent, frames[p].trapped, p, in)
  BY <1>1, <1>2, <1>4, <1>6, <1>7, <1>8 DEF Touched
<1>13. postings' = postings /\ posted' = posted /\ frames[p].t = <<>> /\ frames[p].l # <<>>
  BY DEF OfferListener
<1>14. latest' \in [Listeners -> Int]
  <2>1. latest \in [Listeners -> Int] /\ frames[p].id \in Int
    BY DEF IndInv, ShapeInv, IsFrame
  <2> QED
    BY <2>1, <1>10, <1>11
<1>15. \A other \in Listeners : latest'[other] = latest[other] \/ latest'[other] = frames[p].id
  BY <1>10, <1>11 DEF IndInv, ShapeInv
<1>16. CASE in = "listener"
  BY <1>1, <1>12, <1>13, <1>14, <1>15, <1>16, KeepPreserves
<1>17. CASE in = "router" /\ sent = frames[p].sent
  BY <1>1, <1>12, <1>13, <1>14, <1>15, <1>17, KeepPreserves
<1> QED
  BY <1>9, <1>16, <1>17

\* Nobody is left to offer the event to.
LEMMA ExhaustedPreserves ==
  ASSUME IndInv, NEW p \in 1 .. Top, Exhausted(p)
  PROVE  IndInv'
<1>1. Top > 0 /\ frames[Top].serving = p
  BY InHand DEF Exhausted, InProcess
<1> QED
  BY <1>1, CompletedPreserves DEF Exhausted

\* A trapper returns, having taken the event or not.
LEMMA TrapperReturnsPreserves ==
  ASSUME IndInv, TrapperReturns(TRUE)
  PROVE  IndInv'
<1> DEFINE p == frames[Top].serving
<1>1. Top > 0 /\ frames[Top].in = "trapper" /\ p \in 1 .. Top
  <2>1. frames # <<>> /\ frames[Top].in = "trapper"
    BY DEF TrapperReturns
  <2>2. Top \in Nat /\ Top > 0
    BY <2>1, Lengths
  <2>3. p # 0
    BY <2>1, <2>2 DEF IndInv, ShapeInv, IsFrame
  <2> QED
    BY <2>1, <2>2, <2>3, InHand
<1>2. Completed([frames EXCEPT ![p].trapped = TRUE]) /\ posted' = posted /\ latest' = latest
  BY DEF TrapperReturns
<1> QED
  BY <1>1, <1>2, CompletedPreserves

\* A call of processEvent() returns.
LEMMA ReturnPreserves ==
  ASSUME IndInv, Return
  PROVE  IndInv'
<1> DEFINE then == frames[Top].then
           k == Top - 1
<1>1. frames # <<>> /\ postings = <<>> /\ latest' = latest
  BY DEF Return
<1>2. k \in Nat /\ Carried(Front(frames), k) /\ k # Top
  BY <1>1, FrontCarried, Lengths
<1> HIDE DEF k
<1>3. k = Top - 1
  BY DEF k
<1>4. ASSUME frames' = Front(frames), UNCHANGED <<mappers, postings, posted>> PROVE IndInv'
  BY <1>1, <1>4, PopPreserves
<1>5. ASSUME NEW el, NEW pattern, NEW next,
             \/ AddOne(Front(frames), el, pattern, next)
             \/ RemoveOne(Front(frames), el, pattern, next)
      PROVE  IndInv'
  BY <1>1, <1>2, <1>3, <1>5, OnePreserves
<1>6. ASSUME NEW el, NEW first, RemoveFrom(Front(frames), el, first) PROVE IndInv'
  BY <1>4, <1>5, <1>6 DEF RemoveFrom
<1>7. ASSUME NEW el, NEW first, AddFrom(Front(frames), el, first) PROVE IndInv'
  BY <1>4, <1>5, <1>7 DEF AddFrom
<1> QED
  BY <1>4, <1>6, <1>7 DEF Return

-----------------------------------------------------------------------------
\* Every step preserves the invariant.
LEMMA Stepping ==
  ASSUME IndInv, [Next]_vars
  PROVE  IndInv'
<1>1. CASE UNCHANGED vars
  BY <1>1 DEF vars, IndInv, ShapeInv, QueueInv, StackInv, TrapInv, OrderInv, IsFrame, Queued, Top
<1>2. CASE Program
  BY <1>2, ProgramPreserves
<1>3. CASE Dispatch
  <2>1. CASE Serve
    BY <2>1, ServePreserves
  <2>2. CASE Return
    BY <2>2, ReturnPreserves
  <2>3. ASSUME NEW p \in 1 .. Top, OfferTrapper(p) PROVE IndInv'
    BY <2>3, OfferTrapperPreserves
  <2>4. ASSUME NEW p \in 1 .. Top, OfferListener(p) PROVE IndInv'
    BY <2>4, OfferListenerPreserves
  <2>5. ASSUME NEW p \in 1 .. Top, Exhausted(p) PROVE IndInv'
    BY <2>5, ExhaustedPreserves
  <2>6. ASSUME NEW trapped \in BOOLEAN, TrapperReturns(trapped) PROVE IndInv'
    <3>1. CASE trapped = TRUE
      BY <2>6, <3>1, TrapperReturnsPreserves
    <3>2. CASE trapped = FALSE
      BY <2>6, <3>2, ListenerReturnsPreserves
    <3> QED
      BY <3>1, <3>2
  <2>7. CASE ListenerReturns
    BY <2>7, ListenerReturnsPreserves
  <2> QED
    BY <1>3, <2>1, <2>2, <2>3, <2>4, <2>5, <2>6, <2>7 DEF Dispatch
<1> QED
  BY <1>1, <1>2, <1>3 DEF Next

-----------------------------------------------------------------------------
\* The invariant that the theorems below rest on: whatever handlers post, and
\* whatever they subscribe and unsubscribe, however deep.
THEOREM Invariance == Spec => []IndInv
<1>1. IndInv /\ [Next]_vars => IndInv'
  BY Stepping
<1> QED
  BY InitiallyHolds, <1>1, PTL DEF Spec

\* The invariant is what the queue needs.
LEMMA QueueIsWhole ==
  ASSUME IndInv
  PROVE  NoPartialCompletion /\ NoDanglingPosting
<1>1. NoPartialCompletion
  BY Lengths DEF IndInv, QueueInv, NoPartialCompletion, InProcess
<1>2. NoDanglingPosting
  BY Lengths, ElementOfSeq DEF IndInv, ShapeInv, QueueInv, NoDanglingPosting
<1> QED
  BY <1>1, <1>2

\* processEvent() never finds the queue partially completed (EventRouter.cc:492),
\* and the queue never points to an activation that has returned (487).
THEOREM QueueHolds == Spec => [](NoPartialCompletion /\ NoDanglingPosting)
<1>1. IndInv => NoPartialCompletion /\ NoDanglingPosting
  BY QueueIsWhole
<1> QED
  BY Invariance, <1>1, PTL

\* A trapped event reaches no listener (EventTrapper.h:21), unless its trapper
\* called the router while it had the event.
THEOREM TrappedHolds == Spec => []TrappedUnlessReentered
<1>1. IndInv => TrappedUnlessReentered
  BY DEF IndInv, TrapInv, TrappedUnlessReentered
<1> QED
  BY Invariance, <1>1, PTL

-----------------------------------------------------------------------------
(* Vectors without some of their elements *)

\* A set of numbers has a least.
LEMMA MinOfNumbers ==
  ASSUME NEW S \in SUBSET Nat, S # {}
  PROVE  Min(S) \in S /\ \A y \in S : Min(S) <= y
<1>1. PICK x \in S : \A y \in S : ~(<<y, x>> \in OpToRel(<, Nat))
  BY NatLessThanWellFounded, WFMin, Zenon
<1>2. \A y \in S : x <= y
  <2> TAKE y \in S
  <2>1. ~(y < x)
    BY <1>1 DEF OpToRel
  <2> QED
    BY <2>1
<1> QED
  BY <1>2 DEF Min

\* The kept places counted from the front:
Rank(kept, i) == Cardinality({j \in kept : j <= i})

\* each has a number of its own, and there is one of each number.
LEMMA RanksAre ==
  ASSUME NEW n \in Nat, NEW kept \in SUBSET (1 .. n)
  PROVE  /\ Cardinality(kept) \in Nat
         /\ \A i \in kept : Rank(kept, i) \in 1 .. Cardinality(kept)
         /\ \A i, j \in kept : i < j => Rank(kept, i) < Rank(kept, j)
         /\ \A k \in 1 .. Cardinality(kept) : \E i \in kept : Rank(kept, i) = k
<1> DEFINE upTo(i) == {j \in kept : j <= i}
           c == Cardinality(kept)
<1>1. IsFiniteSet(kept) /\ c \in Nat
  <2>1. IsFiniteSet(1 .. n)
    BY FS_Interval
  <2>2. IsFiniteSet(kept)
    BY <2>1, FS_Subset
  <2> QED
    BY <2>2, FS_CardinalityType
<1>2. \A i : IsFiniteSet(upTo(i)) /\ Cardinality(upTo(i)) \in Nat /\ Cardinality(upTo(i)) <= c
  <2> TAKE i
  <2>1. upTo(i) \in SUBSET kept
    OBVIOUS
  <2> HIDE DEF upTo
  <2>2. IsFiniteSet(upTo(i)) /\ Cardinality(upTo(i)) <= Cardinality(kept)
    BY <1>1, <2>1, FS_Subset
  <2> QED
    BY <2>2, FS_CardinalityType
<1>3. \A i : Rank(kept, i) = Cardinality(upTo(i))
  BY DEF Rank
<1>4. ASSUME NEW i \in kept PROVE Rank(kept, i) \in 1 .. c
  <2>1. i \in upTo(i)
    OBVIOUS
  <2> HIDE DEF upTo
  <2>2. Cardinality(upTo(i)) # 0
    BY <1>2, <2>1, FS_EmptySet
  <2> HIDE DEF c
  <2> QED
    BY <1>1, <1>2, <1>3, <2>2
<1>5. ASSUME NEW i \in kept, NEW j \in kept, i < j PROVE Rank(kept, i) < Rank(kept, j)
  <2>1. upTo(i) \in SUBSET upTo(j) /\ j \in upTo(j) /\ j \notin upTo(i)
    <3>1. i \in Int /\ j \in Int /\ \A y \in kept : y \in Int
      OBVIOUS
    <3>2. \A y \in kept : y <= i => y <= j
      BY <3>1, <1>5
    <3>3. j <= j /\ ~(j <= i)
      BY <3>1, <1>5
    <3> QED
      BY <3>2, <3>3
  <2> HIDE DEF upTo
  <2>2. Cardinality(upTo(i)) <= Cardinality(upTo(j))
    BY <1>2, <2>1, FS_Subset
  <2>3. Cardinality(upTo(i)) # Cardinality(upTo(j))
    BY <1>2, <2>1, FS_Subset
  <2> QED
    BY <1>2, <1>3, <2>2, <2>3
<1> DEFINE f == [i \in kept |-> Rank(kept, i)]
<1>6. f \in Injection(kept, 1 .. c)
  <2>1. f \in [kept -> 1 .. c]
    BY <1>4
  <2>2. ASSUME NEW i \in kept, NEW j \in kept, f[i] = f[j] PROVE i = j
    <3>1. ~(i < j) /\ ~(j < i)
      <4>1. Rank(kept, i) = Rank(kept, j) /\ Rank(kept, i) \in Int
        BY <2>2, <1>4
      <4> QED
        BY <4>1, <1>5
    <3> QED
      BY <3>1
  <2> HIDE DEF f
  <2> QED
    BY <2>1, <2>2 DEF Injection, IsInjective
<1>7. IsFiniteSet(1 .. c) /\ Cardinality(1 .. c) = c
  <2> HIDE DEF c
  <2>1. IsFiniteSet(1 .. c) /\ Cardinality(1 .. c) = IF 1 > c THEN 0 ELSE c - 1 + 1
    BY <1>1, FS_Interval
  <2> QED
    BY <2>1, <1>1
<1>8. f \in Surjection(kept, 1 .. c)
  <2> HIDE DEF f
  <2>1. Cardinality(kept) = Cardinality(1 .. c)
    BY <1>7
  <2> HIDE DEF c
  <2> QED
    BY <1>6, <1>7, <2>1, FS_Injection
<1>9. ASSUME NEW k \in 1 .. c PROVE \E i \in kept : Rank(kept, i) = k
  <2>1. \E i \in kept : f[i] = k
    BY <1>8 DEF Surjection
  <2> QED
    BY <2>1
<1> QED
  BY <1>1, <1>4, <1>5, <1>9

\* The places of a vector that keep their elements
KeptPlaces(s, gone) == {n \in DOMAIN s : s[n] \notin gone}

\* What is left are the elements of the kept places, in their order.
LEMMA WithoutIs ==
  ASSUME NEW S, NEW s \in Seq(S), NEW gone
  PROVE  LET kept == KeptPlaces(s, gone)
         IN  /\ Without(s, gone) \in Seq(S)
             /\ kept \in SUBSET (1 .. Len(s))
             /\ Cardinality(kept) \in Nat /\ Len(Without(s, gone)) = Cardinality(kept)
             /\ \A i \in kept : /\ Rank(kept, i) \in 1 .. Cardinality(kept)
                               /\ Without(s, gone)[Rank(kept, i)] = s[i]
             /\ \A k \in 1 .. Cardinality(kept) : \E i \in kept : Rank(kept, i) = k
<1> DEFINE kept == KeptPlaces(s, gone)
           c == Cardinality(kept)
           at(k) == CHOOSE i \in kept : Rank(kept, i) = k
           t == [k \in 1 .. c |-> s[at(k)]]
<1>0. Len(s) \in Nat /\ DOMAIN s = 1 .. Len(s) /\ \A i \in 1 .. Len(s) : s[i] \in S
  BY LenProperties, ElementOfSeq
<1>1. kept \in SUBSET (1 .. Len(s))
  BY <1>0 DEF KeptPlaces
<1>2. Without(s, gone) = t
  BY DEF Without, KeptPlaces, Rank
<1> HIDE DEF kept
<1>3. /\ c \in Nat
      /\ \A i \in kept : Rank(kept, i) \in 1 .. c
      /\ \A i, j \in kept : i < j => Rank(kept, i) < Rank(kept, j)
      /\ \A k \in 1 .. c : \E i \in kept : Rank(kept, i) = k
  BY <1>0, <1>1, RanksAre
<1> HIDE DEF c
<1>4. \A k \in 1 .. c : at(k) \in kept /\ at(k) \in 1 .. Len(s) /\ Rank(kept, at(k)) = k
  BY <1>1, <1>3
<1>5. ASSUME NEW i \in kept PROVE at(Rank(kept, i)) = i
  <2> DEFINE k == Rank(kept, i)
             j == at(k)
  <2>1. k \in 1 .. c /\ j \in kept /\ Rank(kept, j) = k
    BY <1>3, <1>4
  <2> HIDE DEF at, j
  <2>2. i \in Int /\ j \in Int /\ k \in Int
    BY <1>1, <2>1
  <2>3. ~(i < j) /\ ~(j < i)
    BY <1>3, <2>1, <2>2
  <2>4. j = i
    BY <2>2, <2>3
  <2> QED
    BY <2>4 DEF j
<1> HIDE DEF at
<1>6. t \in Seq(S) /\ Len(t) = c
  <2>1. t \in [1 .. c -> S]
    BY <1>0, <1>4
  <2> QED
    BY <2>1, <1>3
<1>7. \A i \in kept : t[Rank(kept, i)] = s[i]
  BY <1>3, <1>5
<1> HIDE DEF t
<1> QED
  BY <1>1, <1>2, <1>3, <1>6, <1>7 DEF c, kept

\* Who is left in it
LEMMA WithoutHolds ==
  ASSUME NEW S, NEW s \in Seq(S), NEW gone, NEW x
  PROVE  Holds(Without(s, gone), x) <=> Holds(s, x) /\ x \notin gone
<1> DEFINE kept == KeptPlaces(s, gone)
           c == Cardinality(kept)
           t == Without(s, gone)
<1>1. /\ t \in Seq(S) /\ Len(t) = c /\ c \in Nat /\ kept \in SUBSET (1 .. Len(s))
      /\ \A i \in kept : Rank(kept, i) \in 1 .. c /\ t[Rank(kept, i)] = s[i]
      /\ \A k \in 1 .. c : \E i \in kept : Rank(kept, i) = k
  BY WithoutIs
<1>2. \A i \in DOMAIN s : i \in kept <=> s[i] \notin gone
  BY DEF KeptPlaces
<1>3. DOMAIN t = 1 .. c /\ DOMAIN s = 1 .. Len(s)
  BY <1>1, LenProperties
<1> HIDE DEF kept, t, c
<1>4. ASSUME NEW k \in DOMAIN t, t[k] = x PROVE Holds(s, x) /\ x \notin gone
  <2>1. PICK i \in kept : Rank(kept, i) = k
    BY <1>1, <1>3
  <2>2. i \in DOMAIN s /\ s[i] = x /\ s[i] \notin gone
    BY <2>1, <1>1, <1>2, <1>3, <1>4
  <2> QED
    BY <2>2 DEF Holds
<1>5. ASSUME NEW i \in DOMAIN s, s[i] = x, x \notin gone PROVE Holds(t, x)
  <2>1. i \in kept
    BY <1>5, <1>2
  <2>2. Rank(kept, i) \in DOMAIN t /\ t[Rank(kept, i)] = x
    BY <2>1, <1>1, <1>3, <1>5
  <2> QED
    BY <2>2 DEF Holds
<1>6. Holds(t, x) => Holds(s, x) /\ x \notin gone
  BY <1>4 DEF Holds
<1>7. Holds(s, x) /\ x \notin gone => Holds(t, x)
  BY <1>5 DEF Holds
<1> QED
  BY <1>6, <1>7 DEF t

\* Nobody is left of nobody.
LEMMA WithoutOfNone ==
  ASSUME NEW gone
  PROVE  Without(<<>>, gone) = <<>>
<1>1. <<>> \in Seq({}) /\ Len(<<>>) = 0
  OBVIOUS
<1>2. KeptPlaces(<<>>, gone) = {}
  BY DEF KeptPlaces
<1>3. Without(<<>>, gone) \in Seq({}) /\ Len(Without(<<>>, gone)) = 0
  BY <1>1, <1>2, WithoutIs, FS_EmptySet
<1> QED
  BY <1>3, EmptySeq

\* What one more element adds
LEMMA WithoutAppend ==
  ASSUME NEW S, NEW s \in Seq(S), NEW x \in S, NEW gone
  PROVE  Without(Append(s, x), gone) =
           IF x \in gone THEN Without(s, gone) ELSE Append(Without(s, gone), x)
<1> DEFINE a == Append(s, x)
           n == Len(s)
           old == KeptPlaces(s, gone)
           new == KeptPlaces(a, gone)
           t == Without(s, gone)
           u == Without(a, gone)
<1>1. /\ n \in Nat /\ DOMAIN s = 1 .. n
      /\ a \in Seq(S) /\ Len(a) = n + 1 /\ DOMAIN a = 1 .. n + 1
      /\ \A i \in 1 .. n : a[i] = s[i]
      /\ a[n + 1] = x
  BY LenProperties, AppendProperties
<1>2. new = IF x \in gone THEN old ELSE old \cup {n + 1}
  <2> HIDE DEF a, n
  <2>1. 1 .. n + 1 = (1 .. n) \cup {n + 1}
    BY <1>1
  <2> QED
    BY <1>1, <2>1 DEF KeptPlaces
<1>3. /\ t \in Seq(S) /\ Len(t) = Cardinality(old) /\ Cardinality(old) \in Nat /\ old \in SUBSET (1 .. n)
      /\ \A i \in old : Rank(old, i) \in 1 .. Cardinality(old) /\ t[Rank(old, i)] = s[i]
      /\ \A k \in 1 .. Cardinality(old) : \E i \in old : Rank(old, i) = k
  BY WithoutIs
<1> HIDE DEF a
<1>4. /\ u \in Seq(S) /\ Len(u) = Cardinality(new) /\ Cardinality(new) \in Nat
      /\ \A i \in new : Rank(new, i) \in 1 .. Cardinality(new) /\ u[Rank(new, i)] = a[i]
  BY <1>1, WithoutIs
<1>5. IsFiniteSet(old) /\ n + 1 \notin old
  <2> HIDE DEF old, n
  <2>1. IsFiniteSet(1 .. n)
    BY FS_Interval, <1>1
  <2>2. n + 1 \notin 1 .. n
    BY <1>1
  <2> QED
    BY <2>1, <2>2, <1>3, FS_Subset
<1> HIDE DEF n, old, new, t, u
<1>6. CASE x \in gone
  <2>1. new = old
    BY <1>2, <1>6
  <2>2. \A k \in 1 .. Len(t) : u[k] = t[k]
    <3> TAKE k \in 1 .. Len(t)
    <3>1. PICK i \in old : Rank(old, i) = k
      BY <1>3
    <3> QED
      BY <3>1, <2>1, <1>1, <1>3, <1>4
  <2>3. u = t
    BY <2>1, <2>2, <1>3, <1>4, SeqEqual
  <2> QED
    BY <2>3, <1>6 DEF u, t, a
<1>7. CASE x \notin gone
  <2>1. new = old \cup {n + 1}
    BY <1>2, <1>7
  <2>2. Cardinality(new) = Cardinality(old) + 1
    BY <2>1, <1>5, FS_AddElement
  <2>3. \A i \in old : Rank(new, i) = Rank(old, i)
    <3> TAKE i \in old
    <3>1. {j \in new : j <= i} = {j \in old : j <= i}
      <4>1. i \in 1 .. n /\ ~(n + 1 <= i)
        BY <1>1, <1>3
      <4> QED
        BY <4>1, <2>1
    <3> QED
      BY <3>1 DEF Rank
  <2>4. Rank(new, n + 1) = Cardinality(new)
    <3>1. {j \in new : j <= n + 1} = new
      <4>1. \A j \in old : j <= n + 1
        BY <1>1, <1>3
      <4> QED
        BY <4>1, <2>1, <1>1
    <3> QED
      BY <3>1 DEF Rank
  <2> DEFINE w == Append(t, x)
  <2>5. /\ w \in Seq(S) /\ Len(w) = Len(t) + 1
        /\ \A k \in 1 .. Len(t) : w[k] = t[k]
        /\ w[Len(t) + 1] = x
    BY <1>3, AppendProperties
  <2> HIDE DEF w
  <2>6. Len(u) = Len(w)
    BY <1>3, <1>4, <2>2, <2>5
  <2>7. ASSUME NEW k \in 1 .. Len(w) PROVE u[k] = w[k]
    <3>1. CASE k \in 1 .. Len(t)
      <4>1. PICK i \in old : Rank(old, i) = k
        BY <3>1, <1>3
      <4>2. u[k] = a[i] /\ a[i] = s[i] /\ t[k] = s[i]
        BY <4>1, <2>1, <2>3, <1>1, <1>3, <1>4
      <4> QED
        BY <4>2, <3>1, <2>5
    <3>2. CASE k = Len(t) + 1
      <4>1. n + 1 \in new /\ Rank(new, n + 1) = k
        BY <3>2, <2>1, <2>2, <2>4, <1>3
      <4> QED
        BY <4>1, <3>2, <2>5, <1>1, <1>4
    <3> QED
      BY <3>1, <3>2, <2>5, <1>3
  <2>8. u = w
    BY <2>5, <2>6, <2>7, <1>4, SeqEqual
  <2> QED
    BY <2>8, <1>7 DEF u, t, a, w
<1> QED
  BY <1>6, <1>7

\* The first n elements, and one more
LEMMA FirstOnes ==
  ASSUME NEW S, NEW s \in Seq(S), NEW n \in 0 .. Len(s)
  PROVE  /\ SubSeq(s, 1, n) \in Seq(S) /\ Len(SubSeq(s, 1, n)) = n
         /\ n < Len(s) => SubSeq(s, 1, n + 1) = Append(SubSeq(s, 1, n), s[n + 1]) /\ s[n + 1] \in S
         /\ n = 0 => SubSeq(s, 1, n) = <<>>
         /\ n = Len(s) => SubSeq(s, 1, n) = s
<1>1. Len(s) \in Nat /\ \A i \in 1 .. Len(s) : s[i] \in S
  BY LenProperties, ElementOfSeq
<1>2. ASSUME NEW m \in 0 .. Len(s)
      PROVE  /\ SubSeq(s, 1, m) \in Seq(S) /\ Len(SubSeq(s, 1, m)) = m
             /\ \A i \in 1 .. m : SubSeq(s, 1, m)[i] = s[i]
  <2>1. \A i \in 1 .. m : s[i] \in S
    BY <1>1
  <2>2. /\ SubSeq(s, 1, m) \in Seq(S)
        /\ Len(SubSeq(s, 1, m)) = IF 1 <= m THEN m - 1 + 1 ELSE 0
        /\ \A i \in 1 .. m - 1 + 1 : SubSeq(s, 1, m)[i] = s[1 + i - 1]
    BY <2>1, SubSeqProperties
  <2> QED
    BY <2>2
<1>3. ASSUME n < Len(s)
      PROVE  SubSeq(s, 1, n + 1) = Append(SubSeq(s, 1, n), s[n + 1]) /\ s[n + 1] \in S
  <2> DEFINE f == SubSeq(s, 1, n)
             g == SubSeq(s, 1, n + 1)
             h == Append(f, s[n + 1])
  <2>1. n + 1 \in 0 .. Len(s) /\ n + 1 \in 1 .. Len(s) /\ s[n + 1] \in S
    BY <1>1, <1>3
  <2>2. g \in Seq(S) /\ Len(g) = n + 1 /\ \A i \in 1 .. n + 1 : g[i] = s[i]
    BY <2>1, <1>2
  <2>3. f \in Seq(S) /\ Len(f) = n /\ \A i \in 1 .. n : f[i] = s[i]
    BY <1>2
  <2> HIDE DEF f, g
  <2>4. /\ h \in Seq(S) /\ Len(h) = n + 1
        /\ \A i \in 1 .. n : h[i] = f[i]
        /\ h[n + 1] = s[n + 1]
    BY <2>1, <2>3, AppendProperties
  <2> HIDE DEF h
  <2>5. \A i \in 1 .. n + 1 : g[i] = h[i]
    BY <2>2, <2>3, <2>4
  <2>6. g = h
    BY <2>2, <2>4, <2>5, SeqEqual
  <2> QED
    BY <2>1, <2>6 DEF f, g, h
<1>4. n = 0 => SubSeq(s, 1, n) = <<>>
  BY <1>2, EmptySeq
<1>5. n = Len(s) => SubSeq(s, 1, n) = s
  BY <1>2, SeqEqual
<1> QED
  BY <1>2, <1>3, <1>4, <1>5

\* Some elements go, and then one more.
LEMMA WithoutTwice ==
  ASSUME NEW S, NEW s \in Seq(S), NEW some, NEW more
  PROVE  Without(s, some \cup more) = Without(Without(s, some), more)
<1> DEFINE f(n) == SubSeq(s, 1, n)
           Agree(n) == Without(f(n), some \cup more) = Without(Without(f(n), some), more)
           Wrong == {n \in 0 .. Len(s) : ~Agree(n)}
<1>1. Len(s) \in Nat
  BY LenProperties
<1>2. ASSUME Wrong # {} PROVE FALSE
  <2> DEFINE n == Min(Wrong)
  <2>1. n \in Wrong /\ \A m \in Wrong : n <= m
    <3>1. Wrong \in SUBSET Nat
      BY <1>1
    <3> HIDE DEF Wrong
    <3> QED
      BY <3>1, <1>2, MinOfNumbers
  <2>2. n \in 0 .. Len(s) /\ ~Agree(n)
    BY <2>1
  <2> HIDE DEF n
  <2>3. n # 0
    <3>1. Agree(0)
      <4>1. 0 \in 0 .. Len(s)
        BY <1>1
      <4>2. f(0) = <<>>
        BY <4>1, FirstOnes
      <4> QED
        BY <4>2, WithoutOfNone
    <3> QED
      BY <3>1, <2>2
  <2>4. n - 1 \in 0 .. Len(s) /\ n - 1 < Len(s) /\ (n - 1) + 1 = n /\ ~(n <= n - 1)
    BY <2>2, <2>3, <1>1
  <2>5. Agree(n - 1)
    BY <2>1, <2>4
  <2>6. /\ f(n - 1) \in Seq(S) /\ s[n] \in S
        /\ f(n) = Append(f(n - 1), s[n])
    BY <2>4, FirstOnes
  <2> DEFINE g == f(n - 1)
             x == s[n]
  <2>7. /\ g \in Seq(S) /\ x \in S
        /\ Without(g, some \cup more) = Without(Without(g, some), more)
        /\ ~(Without(Append(g, x), some \cup more) = Without(Without(Append(g, x), some), more))
    BY <2>2, <2>5, <2>6
  <2> HIDE DEF g, x
  <2>8. Without(g, some) \in Seq(S)
    BY <2>7, WithoutIs
  <2>9. Without(Append(Without(g, some), x), more) =
          IF x \in more THEN Without(Without(g, some), more) ELSE Append(Without(Without(g, some), more), x)
    BY <2>7, <2>8, WithoutAppend
  <2>10. Without(Append(g, x), some) = IF x \in some THEN Without(g, some) ELSE Append(Without(g, some), x)
    BY <2>7, WithoutAppend
  <2>11. Without(Append(g, x), some \cup more) =
           IF x \in some \cup more THEN Without(g, some \cup more) ELSE Append(Without(g, some \cup more), x)
    BY <2>7, WithoutAppend
  <2> QED
    BY <2>7, <2>9, <2>10, <2>11
<1>3. Agree(Len(s))
  <2>1. Len(s) \in 0 .. Len(s)
    BY <1>1
  <2> HIDE DEF Agree
  <2> QED
    BY <2>1, <1>2
<1>4. f(Len(s)) = s
  BY <1>1, FirstOnes
<1> QED
  BY <1>3, <1>4

-----------------------------------------------------------------------------
(* Patterns and mappers *)

\* A pattern has up to three elements, and an event is one of three.
LEMMA PatternIs ==
  ASSUME NEW pattern \in Patterns
  PROVE  /\ pattern[1] \in Generators
         /\ Len(pattern) \in 1 .. 3
         /\ Len(pattern) = 1 => pattern = <<pattern[1]>>
         /\ Len(pattern) = 2 => pattern = <<pattern[1], pattern[2]>> /\ pattern[2] \in SIDs
         /\ Len(pattern) = 3 => pattern \in Events
         /\ pattern \in Seq(Generators \cup SIDs \cup Types)
<1> DEFINE X == Generators \cup SIDs \cup Types
<1>1. CASE pattern \in {<<g>> : g \in Generators}
  <2>1. PICK g \in Generators : pattern = <<g>>
    BY <1>1
  <2>2. g \in X
    OBVIOUS
  <2> HIDE DEF X
  <2>3. <<g>> \in Seq(X) /\ Len(<<g>>) = 1 /\ <<g>>[1] = g
    BY <2>2
  <2> QED
    BY <2>1, <2>3 DEF X
<1>2. CASE pattern \in Generators \X SIDs
  <2>1. PICK g \in Generators, s \in SIDs : pattern = <<g, s>>
    BY <1>2
  <2>2. g \in X /\ s \in X
    OBVIOUS
  <2> HIDE DEF X
  <2>3. <<g, s>> \in Seq(X) /\ Len(<<g, s>>) = 2 /\ <<g, s>>[1] = g /\ <<g, s>>[2] = s
    BY <2>2
  <2> QED
    BY <2>1, <2>3 DEF X
<1>3. CASE pattern \in Events
  <2>1. PICK g \in Generators, s \in SIDs, t \in Types : pattern = <<g, s, t>>
    BY <1>3 DEF Events
  <2>2. g \in X /\ s \in X /\ t \in X
    OBVIOUS
  <2> HIDE DEF X
  <2>3. <<g, s, t>> \in Seq(X) /\ Len(<<g, s, t>>) = 3 /\ <<g, s, t>>[1] = g
    BY <2>2
  <2> QED
    BY <2>1, <2>3, <1>3 DEF X
<1> QED
  BY <1>1, <1>2, <1>3 DEF Patterns

\* Which events a pattern covers
LEMMA MatchesIs ==
  ASSUME NEW pattern \in Patterns, NEW e \in Events
  PROVE  /\ Len(e) = 3
         /\ Matches(e, pattern) <=> \A i \in 1 .. Len(pattern) : pattern[i] = e[i]
<1> DEFINE X == Generators \cup SIDs \cup Types
           n == Len(pattern)
<1>1. /\ pattern \in Seq(X) /\ n \in 1 .. 3
      /\ e \in Seq(X) /\ Len(e) = 3
  <2>1. e \in Patterns
    BY DEF Patterns
  <2>2. Len(e) = 3
    BY DEF Events
  <2> QED
    BY <2>1, <2>2, PatternIs
<1> HIDE DEF X
<1>2. \A i \in 1 .. n : pattern[i] \in X /\ e[i] \in X
  BY <1>1, ElementOfSeq
<1> DEFINE f == SubSeq(pattern, 1, n)
           g == SubSeq(e, 1, n)
<1>3. f \in Seq(X) /\ Len(f) = n /\ \A i \in 1 .. n : f[i] = pattern[i]
  BY <1>1, FirstOnes
<1>4. g \in Seq(X) /\ Len(g) = n /\ \A i \in 1 .. n : g[i] = e[i]
  <2>1. /\ SubSeq(e, 1, n) \in Seq(X)
        /\ Len(SubSeq(e, 1, n)) = IF 1 <= n THEN n - 1 + 1 ELSE 0
        /\ \A i \in 1 .. n - 1 + 1 : SubSeq(e, 1, n)[i] = e[1 + i - 1]
    BY <1>1, <1>2, SubSeqProperties
  <2> QED
    BY <2>1, <1>1
<1>5. n <= Len(e)
  <2> HIDE DEF n
  <2> QED
    BY <1>1
<1>6. Matches(e, pattern) <=> f = g
  BY <1>5 DEF Matches, IsPrefix
<1> HIDE DEF f, g, n
<1>7. f = g <=> \A i \in 1 .. n : f[i] = g[i]
  BY <1>3, <1>4, SeqEqual
<1> QED
  BY <1>1, <1>3, <1>4, <1>6, <1>7 DEF n

\* They are of its generator, of which there are events for every pattern.
LEMMA MatchesGenerator ==
  ASSUME NEW pattern \in Patterns
  PROVE  /\ \A e \in Events : Matches(e, pattern) => e[1] = pattern[1]
         /\ \E e \in Events : Matches(e, pattern)
         /\ Len(pattern) = 1 => \A e \in Events : e[1] = pattern[1] => Matches(e, pattern)
<1>1. /\ pattern[1] \in Generators /\ Len(pattern) \in 1 .. 3
      /\ Len(pattern) = 1 => pattern = <<pattern[1]>>
      /\ Len(pattern) = 2 => pattern = <<pattern[1], pattern[2]>> /\ pattern[2] \in SIDs
      /\ Len(pattern) = 3 => pattern \in Events
  BY PatternIs
<1>2. \A e \in Events : Matches(e, pattern) <=> \A i \in 1 .. Len(pattern) : pattern[i] = e[i]
  BY MatchesIs
<1>3. \A e \in Events : Matches(e, pattern) => e[1] = pattern[1]
  BY <1>1, <1>2
<1>4. Len(pattern) = 1 => \A e \in Events : e[1] = pattern[1] => Matches(e, pattern)
  BY <1>2
<1>5. \E e \in Events : Matches(e, pattern)
  <2>1. CASE Len(pattern) = 1
    <3> DEFINE e == <<pattern[1], 0, "status">>
    <3>1. e \in Events /\ e[1] = pattern[1]
      BY <1>1, NumSIDsAssumption DEF Events, SIDs, Types
    <3> HIDE DEF e
    <3> QED
      BY <3>1, <1>4, <2>1
  <2>2. CASE Len(pattern) = 2
    <3> DEFINE e == <<pattern[1], pattern[2], "status">>
    <3>1. e \in Events /\ e[1] = pattern[1] /\ e[2] = pattern[2]
      BY <1>1, <2>2 DEF Events, Types
    <3> HIDE DEF e
    <3>2. \A i \in 1 .. Len(pattern) : pattern[i] = e[i]
      BY <3>1, <2>2
    <3> QED
      BY <3>1, <3>2, <1>2
  <2>3. CASE Len(pattern) = 3
    BY <2>3, <1>1, <1>2
  <2> QED
    BY <2>1, <2>2, <2>3, <1>1
<1> QED
  BY <1>3, <1>4, <1>5

\* A generator is the pattern of all its events, and an event that of itself.
LEMMA PatternsAre ==
  /\ \A g \in Generators : <<g>> \in Patterns /\ <<g>>[1] = g /\ Len(<<g>>) = 1
  /\ \A e \in Events : e \in Patterns /\ Len(e) = 3 /\ e[1] \in Generators
  /\ \A e, f \in Events : Matches(f, e) <=> f = e
<1>1. \A g \in Generators : <<g>> \in Patterns /\ <<g>>[1] = g /\ Len(<<g>>) = 1
  BY DEF Patterns
<1>2. \A e \in Events : e \in Patterns /\ Len(e) = 3 /\ e[1] \in Generators
  BY DEF Patterns, Events
<1>3. ASSUME NEW e \in Events, NEW f \in Events PROVE Matches(f, e) <=> f = e
  <2>1. Matches(f, e) <=> \A i \in 1 .. 3 : e[i] = f[i]
    BY <1>2, MatchesIs
  <2>2. e = <<e[1], e[2], e[3]>> /\ f = <<f[1], f[2], f[3]>>
    BY DEF Events
  <2>3. (\A i \in 1 .. 3 : e[i] = f[i]) <=> e[1] = f[1] /\ e[2] = f[2] /\ e[3] = f[3]
    <3>1. \A i \in 1 .. 3 : i = 1 \/ i = 2 \/ i = 3
      OBVIOUS
    <3> QED
      BY <3>1
  <2> QED
    BY <2>1, <2>2, <2>3
<1> QED
  BY <1>1, <1>2, <1>3

\* What addMapping() does to each vector
LEMMA AddMappingIs ==
  ASSUME NEW m \in Mappers, NEW el \in Clients, NEW pattern \in Patterns
  PROVE  LET new == addMapping(m, el, pattern)
         IN  /\ new \in Mappers
             /\ \A g \in Generators :
                  new.all[g] = IF Len(pattern) = 1 /\ g = pattern[1]
                                 THEN Append(m.all[g], el) ELSE m.all[g]
             /\ \A e \in Events :
                  new.filtered[e] = IF Len(pattern) # 1 /\ Matches(e, pattern)
                                      THEN Append(m.filtered[e], el) ELSE m.filtered[e]
<1> DEFINE new == addMapping(m, el, pattern)
           filtered == [e \in Events |->
             IF Matches(e, pattern) THEN Append(m.filtered[e], el) ELSE m.filtered[e]]
           all == [m.all EXCEPT ![pattern[1]] = Append(@, el)]
<1>1. /\ m.all \in [Generators -> Vectors] /\ m.filtered \in [Events -> Vectors]
      /\ DOMAIN m = {"all", "filtered"}
  BY DEF Mappers
<1>2. pattern[1] \in Generators
  BY PatternIs
<1>3. \A v \in Vectors : Append(v, el) \in Vectors
  BY AppendProperties DEF Vectors
<1>4. filtered \in [Events -> Vectors] /\ all \in [Generators -> Vectors]
  BY <1>1, <1>2, <1>3
<1>5. CASE Len(pattern) = 1
  <2>1. new = [m EXCEPT !.all = all]
    BY <1>5, <1>1, <1>2 DEF addMapping
  <2>2. \A g \in Generators : all[g] = IF g = pattern[1] THEN Append(m.all[g], el) ELSE m.all[g]
    BY <1>1, <1>2
  <2> HIDE DEF all, new
  <2> QED
    BY <2>1, <2>2, <1>1, <1>4, <1>5 DEF Mappers, new
<1>6. CASE Len(pattern) # 1
  <2>1. new = [m EXCEPT !.filtered = filtered]
    BY <1>6 DEF addMapping
  <2>2. \A e \in Events :
          filtered[e] = IF Matches(e, pattern) THEN Append(m.filtered[e], el) ELSE m.filtered[e]
    OBVIOUS
  <2> HIDE DEF filtered, new
  <2> QED
    BY <2>1, <2>2, <1>1, <1>4, <1>6 DEF Mappers, new
<1> QED
  BY <1>5, <1>6

\* What removeMapping() does to each vector
LEMMA RemoveMappingIs ==
  ASSUME NEW m \in Mappers, NEW el \in Clients, NEW pattern \in Patterns
  PROVE  LET new == removeMapping(m, el, pattern)
         IN  /\ new \in Mappers
             /\ \A g \in Generators :
                  new.all[g] = IF Len(pattern) = 1 /\ g = pattern[1]
                                 THEN Without(m.all[g], {el}) ELSE m.all[g]
             /\ \A e \in Events :
                  new.filtered[e] = IF Matches(e, pattern)
                                      THEN Without(m.filtered[e], {el}) ELSE m.filtered[e]
<1> DEFINE new == removeMapping(m, el, pattern)
           filtered == [e \in Events |->
             IF Matches(e, pattern) THEN Without(m.filtered[e], {el}) ELSE m.filtered[e]]
           changed == [m.all EXCEPT ![pattern[1]] = Without(@, {el})]
           all == IF Len(pattern) = 1 THEN changed ELSE m.all
<1>1. /\ m.all \in [Generators -> Vectors] /\ m.filtered \in [Events -> Vectors]
  BY DEF Mappers
<1>2. pattern[1] \in Generators
  BY PatternIs
<1>3. \A v \in Vectors : Without(v, {el}) \in Vectors
  BY WithoutIs DEF Vectors
<1>4. filtered \in [Events -> Vectors] /\ changed \in [Generators -> Vectors]
  BY <1>1, <1>2, <1>3
<1>5. new = [all |-> all, filtered |-> filtered]
  BY DEF removeMapping
<1>6. \A g \in Generators : changed[g] = IF g = pattern[1] THEN Without(m.all[g], {el}) ELSE m.all[g]
  BY <1>1, <1>2
<1>7. \A e \in Events :
        filtered[e] = IF Matches(e, pattern) THEN Without(m.filtered[e], {el}) ELSE m.filtered[e]
  OBVIOUS
<1> HIDE DEF filtered, changed, new
<1>8. all \in [Generators -> Vectors]
  BY <1>1, <1>4
<1>9. \A g \in Generators :
        all[g] = IF Len(pattern) = 1 /\ g = pattern[1] THEN Without(m.all[g], {el}) ELSE m.all[g]
  BY <1>6
<1> HIDE DEF all
<1> QED
  BY <1>4, <1>5, <1>7, <1>8, <1>9 DEF Mappers, new

\* Who is to receive an event: both who subscribed to it and who did to its generator.
LEMMA GetMappingIs ==
  ASSUME NEW m \in Mappers, NEW e \in Events
  PROVE  /\ getMapping(m, e) \in Vectors
         /\ getMapping(m, e) = <<>> <=> m.filtered[e] = <<>> /\ m.all[e[1]] = <<>>
         /\ \A el : Holds(getMapping(m, e), el) <=> verifyMapping(m, el, e)
<1> DEFINE f == m.filtered[e]
           a == m.all[e[1]]
           t == f \o a
<1>1. f \in Seq(Clients) /\ a \in Seq(Clients)
  BY PatternsAre DEF Mappers, Vectors
<1>2. t = getMapping(m, e)
  BY DEF getMapping
<1> HIDE DEF f, a
<1>3. /\ Len(f) \in Nat /\ DOMAIN f = 1 .. Len(f)
      /\ Len(a) \in Nat /\ DOMAIN a = 1 .. Len(a)
  BY <1>1, LenProperties
<1>4. /\ t \in Seq(Clients) /\ Len(t) = Len(f) + Len(a)
      /\ \A i \in 1 .. Len(f) + Len(a) : t[i] = IF i <= Len(f) THEN f[i] ELSE a[i - Len(f)]
  BY <1>1, ConcatProperties
<1> HIDE DEF t
<1>5. DOMAIN t = 1 .. Len(f) + Len(a)
  BY <1>4, LenProperties
<1>6. t = <<>> <=> f = <<>> /\ a = <<>>
  <2>1. (t = <<>> <=> Len(t) = 0) /\ (f = <<>> <=> Len(f) = 0) /\ (a = <<>> <=> Len(a) = 0)
    BY <1>1, <1>4, EmptySeq
  <2> QED
    BY <2>1, <1>3, <1>4
<1>7. ASSUME NEW el PROVE Holds(t, el) <=> Holds(a, el) \/ Holds(f, el)
  <2>1. ASSUME NEW i \in DOMAIN t, t[i] = el PROVE Holds(a, el) \/ Holds(f, el)
    <3>1. CASE i <= Len(f)
      <4>1. i \in DOMAIN f /\ f[i] = el
        BY <3>1, <2>1, <1>3, <1>4, <1>5
      <4> QED
        BY <4>1 DEF Holds
    <3>2. CASE ~(i <= Len(f))
      <4>1. i - Len(f) \in DOMAIN a /\ a[i - Len(f)] = el
        BY <3>2, <2>1, <1>3, <1>4, <1>5
      <4> QED
        BY <4>1 DEF Holds
    <3> QED
      BY <3>1, <3>2
  <2>2. ASSUME NEW i \in DOMAIN f, f[i] = el PROVE Holds(t, el)
    <3>1. i \in DOMAIN t /\ t[i] = el
      BY <2>2, <1>3, <1>4, <1>5
    <3> QED
      BY <3>1 DEF Holds
  <2>3. ASSUME NEW i \in DOMAIN a, a[i] = el PROVE Holds(t, el)
    <3>1. i + Len(f) \in 1 .. Len(f) + Len(a) /\ ~(i + Len(f) <= Len(f)) /\ (i + Len(f)) - Len(f) = i
      BY <1>3
    <3>2. i + Len(f) \in DOMAIN t /\ t[i + Len(f)] = el
      BY <3>1, <2>3, <1>4, <1>5
    <3> QED
      BY <3>2 DEF Holds
  <2>4. Holds(t, el) => Holds(a, el) \/ Holds(f, el)
    BY <2>1 DEF Holds
  <2>5. Holds(f, el) => Holds(t, el)
    BY <2>2 DEF Holds
  <2>6. Holds(a, el) => Holds(t, el)
    BY <2>3 DEF Holds
  <2> QED
    BY <2>4, <2>5, <2>6
<1>8. \A el : verifyMapping(m, el, e) <=> Holds(a, el) \/ Holds(f, el)
  BY DEF verifyMapping, a, f
<1> QED
  BY <1>2, <1>4, <1>6, <1>7, <1>8 DEF f, a, Vectors

\* An append is to nobody's loss.
LEMMA AppendHolds ==
  ASSUME NEW S, NEW s \in Seq(S), NEW x \in S
  PROVE  /\ Append(s, x) # <<>> /\ Holds(Append(s, x), x)
         /\ \A y : Holds(s, y) => Holds(Append(s, x), y)
<1> DEFINE t == Append(s, x)
<1>1. /\ t \in Seq(S) /\ Len(t) = Len(s) + 1
      /\ \A i \in 1 .. Len(s) : t[i] = s[i]
      /\ t[Len(s) + 1] = x
  BY AppendProperties
<1> HIDE DEF t
<1>2. Len(s) \in Nat /\ DOMAIN s = 1 .. Len(s) /\ DOMAIN t = 1 .. Len(s) + 1
  BY <1>1, LenProperties
<1>3. t # <<>>
  BY <1>1, <1>2, EmptySeq
<1>4. Holds(t, x)
  BY <1>1, <1>2 DEF Holds
<1>5. \A y : Holds(s, y) => Holds(t, y)
  BY <1>1, <1>2 DEF Holds
<1> QED
  BY <1>3, <1>4, <1>5 DEF t

-----------------------------------------------------------------------------
(* The queries *)

MapperPair == [{"trappers", "listeners"} -> Mappers]

\* What the queries tell follows from what the vectors hold.
LEMMA QueriesTell ==
  ASSUME mappers \in MapperPair
  PROVE  QueriesAgree
<1>1. DOMAIN mappers = {"trappers", "listeners"} /\ \A kind \in DOMAIN mappers : mappers[kind] \in Mappers
  BY DEF MapperPair
<1>2. ASSUME NEW e \in Events, NEW m \in Mappers
      PROVE  hasMapping(m, e) <=> getMapping(m, e) # <<>>
  <2>1. \A f \in Events : Matches(f, e) <=> f = e
    BY PatternsAre
  <2> QED
    BY <2>1, GetMappingIs DEF hasMapping
<1>3. NoEventWithheld
  BY <1>1, <1>2 DEF NoEventWithheld, hasListeners
<1>4. ASSUME NEW m \in Mappers, NEW el, NEW pattern \in Patterns
      PROVE  LET gets(e) == Holds(getMapping(m, e), el)
                 matching == {e \in Events : Matches(e, pattern)}
             IN  /\ verifyMappingAny(m, el, pattern) <=> \E e \in matching : gets(e)
                 /\ verifyMappingAll(m, el, pattern) => \A e \in matching : gets(e)
                 /\ Len(pattern) = 2 /\ (\A e \in matching : gets(e)) => verifyMappingAll(m, el, pattern)
  <2> DEFINE gets(e) == Holds(getMapping(m, e), el)
             matching == {e \in Events : Matches(e, pattern)}
  <2>1. /\ \A e \in Events : gets(e) <=> Holds(m.all[e[1]], el) \/ Holds(m.filtered[e], el)
        /\ \A e \in matching : e[1] = pattern[1]
        /\ \E e \in matching : TRUE
    BY GetMappingIs, MatchesGenerator DEF verifyMapping
  <2> HIDE DEF gets
  <2>2. verifyMappingAny(m, el, pattern) <=> \E e \in matching : gets(e)
    BY <2>1 DEF verifyMappingAny
  <2>3. verifyMappingAll(m, el, pattern) => \A e \in matching : gets(e)
    BY <2>1 DEF verifyMappingAll
  <2>4. Len(pattern) = 2 /\ (\A e \in matching : gets(e)) => verifyMappingAll(m, el, pattern)
    BY <2>1 DEF verifyMappingAll
  <2> QED
    BY <2>2, <2>3, <2>4 DEF gets
<1>5. RecallAgrees
  BY <1>1, <1>4 DEF RecallAgrees
<1> QED
  BY <1>3, <1>5 DEF QueriesAgree

-----------------------------------------------------------------------------
(* Types *)

\* Whom the program subscribes and unsubscribes
Subscribers == (Listeners \ {Monitor}) \cup Trappers

\* What the router's loops have left to do is on behalf of one of them,
Loops == {NoCall} \cup ({"add", "remove"} \X Subscribers \X (0 .. numEGIDs))

\* and so is what a generator has (EventGenerator), which the router does not mind.
Pending ==
  Loops \cup ({"start"} \X Subscribers) \cup ({"stop"} \X Subscribers \X (0 .. numEGIDs))

TypeInv == TypesOK(Pending)

\* The same, one element at a time
LEMMA TypesAre ==
  ASSUME TypeInv
  PROVE  /\ frames \in Seq(Frames(Pending)) /\ Top \in Nat /\ DOMAIN frames = 1 .. Top
         /\ \A n \in 1 .. Top : frames[n] \in Frames(Pending)
         /\ postings \in Seq(1 .. Top) /\ posted \in Nat
         /\ frames = <<>> <=> Top = 0
BY LenProperties, ElementOfSeq, EmptySeq DEF TypeInv, TypesOK, Top

\* A stack is as many frames as it has.
LEMMA StackIs ==
  ASSUME NEW n \in Nat, NEW stack, NEW F, DOMAIN stack = 1 .. n, stack = [k \in DOMAIN stack |-> stack[k]],
         \A k \in 1 .. n : stack[k] \in F
  PROVE  stack \in Seq(F) /\ Len(stack) = n
<1>1. stack \in [1 .. n -> F]
  OBVIOUS
<1> QED
  BY <1>1

\* A posting has the fields of a frame.
LEMMA PostingStatusIs ==
  ASSUME NEW ms \in MapperPair, NEW e \in Events, NEW then \in Pending, posted \in Nat
  PROVE  PostingStatus(ms, e, then) \in Frames(Pending)
<1> DEFINE t == getMapping(ms["trappers"], e)
           l == getMapping(ms["listeners"], e)
<1>1. t \in Vectors /\ l \in Vectors
  BY GetMappingIs DEF MapperPair
<1>2. <<>> \in Vectors /\ posted + 1 \in Nat
  BY EmptySeq DEF Vectors
<1> HIDE DEF t, l
<1>3. PostingStatus(ms, e, then) =
        [e |-> e, t |-> t, l |-> l, serving |-> 0, in |-> "router", client |-> NoClient, then |-> then,
         id |-> posted + 1, due |-> l,
         sent |-> <<>>, cut |-> {}, trapped |-> FALSE, reentered |-> FALSE]
  BY DEF PostingStatus, t, l
<1> QED
  BY <1>1, <1>2, <1>3 DEF Frames

\* The step of every post keeps the types.
LEMMA PushTypes ==
  ASSUME TypeInv, NEW k \in Nat, NEW stack \in Seq(Frames(Pending)), Len(stack) = k,
         k = Top \/ (k = Top - 1 /\ postings = <<>>),
         NEW ms \in MapperPair, NEW e \in Events, NEW then \in Pending, processEvent(stack, ms, e, then),
         mappers' = ms, calls' \in 0 .. MaxCalls, latest' = latest, news' = news
  PROVE  TypeInv'
<1> DEFINE new == PostingStatus(ms, e, then)
<1>1. frames' = Append(stack, new) /\ postings' = Append(postings, k + 1) /\ posted' = posted + 1
  BY DEF processEvent
<1>2. posted \in Nat /\ postings \in Seq(1 .. Top) /\ Top \in Nat
  BY TypesAre
<1>3. new \in Frames(Pending)
  BY <1>2, PostingStatusIs
<1> HIDE DEF new
<1>4. frames' \in Seq(Frames(Pending)) /\ Top' = k + 1
  BY <1>1, <1>3, AppendProperties DEF Top
<1>5. postings' \in Seq(1 .. Top')
  <2>1. postings \in Seq(1 .. k + 1)
    <3>1. CASE postings = <<>>
      BY <3>1, EmptySeq
    <3>2. CASE k = Top
      BY <3>2, <1>2, SeqMonotonic, 1 .. k \subseteq 1 .. k + 1
    <3> QED
      BY <3>1, <3>2
  <2> QED
    BY <2>1, <1>1, <1>4, AppendProperties, k + 1 \in 1 .. k + 1
<1>6. latest' \in [Listeners -> 0 .. posted']
  BY <1>1, <1>2 DEF TypeInv, TypesOK
<1> QED
  BY <1>1, <1>2, <1>4, <1>5, <1>6 DEF TypeInv, TypesOK, MapperPair

\* A step that replaces frames keeps their types.
LEMMA TouchTypes ==
  ASSUME TypeInv, frames' \in Seq(Frames(Pending)), Top' = Top,
         postings' = postings \/ postings' = (IF postings = <<>> THEN <<>> ELSE Tail(postings)),
         mappers' = mappers, posted' = posted, calls' = calls,
         latest' \in [Listeners -> 0 .. posted],
         news' \in [Generators -> {"wanted", "unwanted", "trapped"}]
  PROVE  TypeInv'
<1>1. postings' \in Seq(1 .. Top)
  <2>1. postings \in Seq(1 .. Top)
    BY TypesAre
  <2>2. CASE postings' = postings
    BY <2>1, <2>2
  <2>3. CASE postings = <<>> /\ postings' = <<>>
    BY <2>1, <2>3
  <2>4. CASE postings # <<>> /\ postings' = Tail(postings)
    BY <2>1, <2>4, HeadTailProperties
  <2> QED
    BY <2>2, <2>3, <2>4
<1> QED
  BY <1>1 DEF TypeInv, TypesOK

\* What is known of a generator
LEMMA ToldIs ==
  ASSUME TypeInv, NEW e, NEW what \in {"wanted", "unwanted", "trapped"}
  PROVE  /\ Told(e, what) \in [Generators -> {"wanted", "unwanted", "trapped"}]
         /\ \A g \in Generators :
              Told(e, what)[g] = IF e[1] = erouterEGID /\ e[2] = g THEN what ELSE news[g]
BY DEF Told, TypeInv, TypesOK

-----------------------------------------------------------------------------
(* What the steps do to frames *)

\* The steps of the loops change l, sent and trapped of one posting.
Held(p, l, sent, trapped) ==
  /\ frames' \in Seq(Frames(Pending)) /\ Top' = Top
  /\ \A n \in 1 .. Top :
       /\ frames'[n].e = frames[n].e /\ frames'[n].due = frames[n].due /\ frames'[n].cut = frames[n].cut
       /\ frames'[n].l = IF n = p THEN l ELSE frames[n].l
       /\ frames'[n].sent = IF n = p THEN sent ELSE frames[n].sent
       /\ frames'[n].trapped = IF n = p THEN trapped ELSE frames[n].trapped
       /\ frames'[n].then = frames[n].then
       /\ frames'[n].t = frames[n].t \/ frames[n].t # <<>>
       /\ n # Top => /\ frames'[n].in = frames[n].in /\ frames'[n].client = frames[n].client
                     /\ frames'[n].serving = frames[n].serving

\* A frame that goes on elsewhere, with the same posting
Resumed(r, b) ==
  /\ b \in Frames(Pending)
  /\ b.e = r.e /\ b.due = r.due /\ b.cut = r.cut
  /\ b.l = r.l /\ b.sent = r.sent /\ b.trapped = r.trapped
  /\ b.then = r.then /\ b.t = r.t

\* This is what the loops do to the frame on top.
LEMMA ResumedIs ==
  ASSUME NEW r \in Frames(Pending), NEW serving \in Nat, NEW in \in {"router", "trapper", "listener"},
         NEW client \in Clients \cup {NoClient}
  PROVE  /\ Resumed(r, [r EXCEPT !.serving = serving])
         /\ Resumed(r, [r EXCEPT !.in = in, !.client = client])
         /\ Resumed(r, [r EXCEPT !.serving = serving, !.in = in, !.client = client])
BY DEF Resumed, Frames

\* Frame p is replaced by a, and then the one on top by one that goes on elsewhere.
LEMMA HeldIs ==
  ASSUME TypeInv, NEW p \in 1 .. Top, NEW a \in Frames(Pending),
         a.e = frames[p].e, a.due = frames[p].due, a.cut = frames[p].cut, a.then = frames[p].then,
         a.t = frames[p].t \/ frames[p].t # <<>>,
         a.in = frames[p].in, a.client = frames[p].client, a.serving = frames[p].serving,
         NEW s, s = [frames EXCEPT ![p] = a],
         NEW b, Resumed(s[Top], b),
         frames' = s \/ frames' = [s EXCEPT ![Top] = b]
  PROVE  Held(p, a.l, a.sent, a.trapped)
<1>1. /\ Top \in Nat /\ DOMAIN frames = 1 .. Top
      /\ \A n \in 1 .. Top : frames[n] \in Frames(Pending)
  BY TypesAre
<1>2. /\ DOMAIN s = 1 .. Top /\ \A n \in 1 .. Top : s[n] = IF n = p THEN a ELSE frames[n]
      /\ s = [n \in DOMAIN s |-> s[n]]
  BY <1>1
<1>3. \A n \in 1 .. Top : s[n] \in Frames(Pending)
  BY <1>1, <1>2
<1>4. /\ DOMAIN frames' = 1 .. Top /\ frames' = [n \in DOMAIN frames' |-> frames'[n]]
      /\ \A n \in 1 .. Top : frames'[n] = s[n] \/ (n = Top /\ frames'[n] = b)
  BY <1>1, <1>2
<1>5. \A n \in 1 .. Top :
        /\ frames'[n] \in Frames(Pending)
        /\ frames'[n].e = s[n].e /\ frames'[n].due = s[n].due /\ frames'[n].cut = s[n].cut
        /\ frames'[n].l = s[n].l /\ frames'[n].sent = s[n].sent /\ frames'[n].trapped = s[n].trapped
        /\ frames'[n].then = s[n].then /\ frames'[n].t = s[n].t
        /\ n # Top => frames'[n] = s[n]
  BY <1>3, <1>4 DEF Resumed
<1>6. frames' \in Seq(Frames(Pending)) /\ Top' = Top
  BY <1>1, <1>4, <1>5, StackIs DEF Top
<1> QED
  BY <1>2, <1>5, <1>6 DEF Held

\* What the activation on top has in hand is a posting.
LEMMA HandIs ==
  ASSUME IndInv, TypeInv, frames # <<>>
  PROVE  /\ Top \in 1 .. Top /\ frames[Top] \in Frames(Pending)
         /\ frames[Top].serving # 0 =>
              frames[Top].serving \in 1 .. Top /\ frames[frames[Top].serving] \in Frames(Pending)
<1>1. Top \in 1 .. Top /\ \A n \in 1 .. Top : frames[n] \in Frames(Pending)
  BY Lengths, TypesAre
<1> QED
  BY <1>1, InHand

\* The loop takes up a posting.
LEMMA ServeIs ==
  ASSUME IndInv, TypeInv, Serve
  PROVE  \E p \in 1 .. Top : Held(p, frames[p].l, frames[p].sent, frames[p].trapped)
<1> DEFINE b == [frames[Top] EXCEPT !.serving = Head(postings)]
<1>1. Top \in 1 .. Top /\ frames[Top] \in Frames(Pending) /\ DOMAIN frames = 1 .. Top
  BY HandIs, TypesAre DEF Serve
<1>2. Head(postings) \in Nat
  <2>1. postings # <<>>
    BY DEF Serve
  <2> QED
    BY <2>1, Lengths, TypesAre, ElementOfSeq
<1>3. Resumed(frames[Top], b)
  BY <1>1, <1>2, ResumedIs
<1>4. frames' = [frames EXCEPT ![Top] = b]
  BY DEF Serve
<1> HIDE DEF b
<1>5. frames = [frames EXCEPT ![Top] = frames[Top]]
  BY <1>1, TypesAre
<1>6. Held(Top, frames[Top].l, frames[Top].sent, frames[Top].trapped)
  BY <1>1, <1>3, <1>4, <1>5, HeldIs
<1> QED
  BY <1>1, <1>6

\* A handler returns, and the router goes on.
LEMMA ReturnedIs ==
  ASSUME IndInv, TypeInv, ListenerReturns \/ TrapperReturns(FALSE)
  PROVE  \E p \in 1 .. Top : Held(p, frames[p].l, frames[p].sent, frames[p].trapped)
<1> DEFINE b == [frames[Top] EXCEPT !.in = "router", !.client = NoClient]
<1>1. Top \in 1 .. Top /\ frames[Top] \in Frames(Pending) /\ DOMAIN frames = 1 .. Top
  BY HandIs, TypesAre DEF ListenerReturns, TrapperReturns
<1>2. Resumed(frames[Top], b)
  BY <1>1, ResumedIs
<1>3. frames' = [frames EXCEPT ![Top].in = "router", ![Top].client = NoClient]
  BY DEF ListenerReturns, TrapperReturns
<1>4. frames' = [frames EXCEPT ![Top] = b]
  BY <1>1, <1>3
<1> HIDE DEF b
<1>5. frames = [frames EXCEPT ![Top] = frames[Top]]
  BY <1>1, TypesAre
<1>6. Held(Top, frames[Top].l, frames[Top].sent, frames[Top].trapped)
  BY <1>1, <1>2, <1>4, <1>5, HeldIs
<1> QED
  BY <1>1, <1>6

\* A trapper is offered the event.
LEMMA OfferTrapperIs ==
  ASSUME IndInv, TypeInv, NEW p \in 1 .. Top, OfferTrapper(p)
  PROVE  Held(p, frames[p].l, frames[p].sent, frames[p].trapped)
<1> DEFINE et == Head(frames[p].t)
           a == [frames[p] EXCEPT !.t = Tail(@)]
           s == [frames EXCEPT ![p] = a]
           b == [s[Top] EXCEPT !.in = "trapper", !.client = et]
<1>1. Top \in 1 .. Top /\ frames[p] \in Frames(Pending) /\ DOMAIN frames = 1 .. Top
  BY HandIs, TypesAre DEF OfferTrapper, InProcess
<1>2. frames[p].t \in Seq(Clients) /\ frames[p].t # <<>>
  BY <1>1 DEF OfferTrapper, Frames, Vectors
<1>3. et \in Clients /\ Tail(frames[p].t) \in Seq(Clients)
  BY <1>2, HeadTailProperties
<1>4. /\ a \in Frames(Pending)
      /\ a.e = frames[p].e /\ a.due = frames[p].due /\ a.cut = frames[p].cut
      /\ a.l = frames[p].l /\ a.sent = frames[p].sent /\ a.trapped = frames[p].trapped
      /\ a.then = frames[p].then /\ frames[p].t # <<>>
      /\ a.in = frames[p].in /\ a.client = frames[p].client /\ a.serving = frames[p].serving
  BY <1>1, <1>2, <1>3 DEF Frames, Vectors
<1>5. frames' = s \/ frames' = [s EXCEPT ![Top].in = "trapper", ![Top].client = et]
  BY DEF OfferTrapper
<1> HIDE DEF a, et
<1>6. s[Top] \in Frames(Pending) /\ DOMAIN s = 1 .. Top
  BY <1>1, <1>4, TypesAre
<1> HIDE DEF s
<1>7. frames' = s \/ frames' = [s EXCEPT ![Top] = b]
  BY <1>1, <1>5, <1>6
<1>8. Resumed(s[Top], b)
  BY <1>3, <1>6, ResumedIs
<1> HIDE DEF b
<1>9. Held(p, a.l, a.sent, a.trapped)
  BY <1>4, <1>7, <1>8, HeldIs DEF s
<1> QED
  BY <1>4, <1>9

\* A listener is offered the event, and sent it if it is subscribed still.
LEMMA OfferListenerIs ==
  ASSUME IndInv, TypeInv, NEW p \in 1 .. Top, OfferListener(p)
  PROVE  LET el == Head(frames[p].l)
             verified == verifyMapping(mappers["listeners"], el, frames[p].e)
         IN  /\ el \in Clients /\ frames[p].l \in Seq(Clients) /\ frames[p].l # <<>>
             /\ frames[p] \in Frames(Pending)
             /\ Held(p, Tail(frames[p].l), IF verified THEN Append(frames[p].sent, el) ELSE frames[p].sent,
                     frames[p].trapped)
<1> DEFINE el == Head(frames[p].l)
           verified == verifyMapping(mappers["listeners"], el, frames[p].e)
           sent == IF verified THEN Append(frames[p].sent, el) ELSE frames[p].sent
           l == Tail(frames[p].l)
           next == [frames[p] EXCEPT !.l = l]
           a == [next EXCEPT !.sent = sent]
           s == [frames EXCEPT ![p] = a]
           b == [s[Top] EXCEPT !.in = "listener", !.client = el]
<1>1. Top \in 1 .. Top /\ frames[p] \in Frames(Pending) /\ DOMAIN frames = 1 .. Top
  BY HandIs, TypesAre DEF OfferListener, InProcess
<1>2. frames[p].l \in Seq(Clients) /\ frames[p].l # <<>> /\ frames[p].sent \in Seq(Clients)
  BY <1>1 DEF OfferListener, Frames, Vectors
<1>3. el \in Clients /\ l \in Seq(Clients)
  BY <1>2, HeadTailProperties
<1>4. sent \in Seq(Clients)
  BY <1>2, <1>3, AppendProperties
<1>5. \/ ~verified /\ frames' = [frames EXCEPT ![p].l = Tail(@)]
      \/ verified /\ frames' = [[frames EXCEPT ![p].l = Tail(@)] EXCEPT
                                  ![p].sent = Append(@, el), ![Top].in = "listener", ![Top].client = el]
  BY DEF OfferListener
<1> HIDE DEF verified, el
<1>6. next \in Frames(Pending) /\ next.sent = frames[p].sent
  BY <1>1, <1>3 DEF Frames, Vectors
<1>7. /\ a \in Frames(Pending)
      /\ a.e = frames[p].e /\ a.due = frames[p].due /\ a.cut = frames[p].cut
      /\ a.l = l /\ a.sent = sent /\ a.trapped = frames[p].trapped
      /\ a.then = frames[p].then /\ a.t = frames[p].t
      /\ a.in = frames[p].in /\ a.client = frames[p].client /\ a.serving = frames[p].serving
  <2> HIDE DEF l, sent
  <2> QED
    BY <1>1, <1>3, <1>4 DEF Frames, Vectors
<1>8. frames' = s \/ frames' = [s EXCEPT ![Top].in = "listener", ![Top].client = el]
  <2>1. CASE ~verified
    <3>1. sent = next.sent /\ frames' = [frames EXCEPT ![p] = next]
      BY <2>1, <1>5, <1>6
    <3>2. a = next
      <4> HIDE DEF next, sent
      <4> QED
        BY <3>1, <1>6 DEF Frames
    <3> HIDE DEF a, next
    <3> QED
      BY <3>1, <3>2
  <2>2. CASE verified
    <3>1. sent = Append(next.sent, el)
      BY <2>2, <1>6
    <3>2. frames' = [[[frames EXCEPT ![p] = next] EXCEPT ![p].sent = Append(@, el)] EXCEPT
                        ![Top].in = "listener", ![Top].client = el]
      BY <2>2, <1>5
    <3>3. [[frames EXCEPT ![p] = next] EXCEPT ![p].sent = Append(@, el)] = s
      <4> HIDE DEF next, sent
      <4> QED
        BY <3>1, <1>1
    <3> HIDE DEF s, next
    <3> QED
      BY <3>2, <3>3
  <2> QED
    BY <2>1, <2>2
<1> HIDE DEF a, sent, l
<1>9. s[Top] \in Frames(Pending) /\ DOMAIN s = 1 .. Top
  BY <1>1, <1>7, TypesAre
<1> HIDE DEF s
<1>10. frames' = s \/ frames' = [s EXCEPT ![Top] = b]
  BY <1>1, <1>8, <1>9
<1>11. Resumed(s[Top], b)
  BY <1>3, <1>9, ResumedIs
<1> HIDE DEF b
<1>12. Held(p, a.l, a.sent, a.trapped)
  BY <1>7, <1>10, <1>11, HeldIs DEF s
<1>13. Held(p, l, sent, frames[p].trapped)
  BY <1>7, <1>12
<1> QED
  BY <1>1, <1>2, <1>3, <1>13 DEF l, sent, el, verified

\* A posting is done with, and p is marked as trapped or not.
LEMMA CompletedIs ==
  ASSUME IndInv, TypeInv, NEW p \in 1 .. Top, frames # <<>>,
         NEW trapped \in BOOLEAN, NEW s,
         \/ s = frames /\ trapped = frames[p].trapped
         \/ s = [frames EXCEPT ![p].trapped = trapped],
         Completed(s)
  PROVE  Held(p, frames[p].l, frames[p].sent, trapped)
<1> DEFINE a == [frames[p] EXCEPT !.trapped = trapped]
           b == [s[Top] EXCEPT !.serving = 0, !.in = "router", !.client = NoClient]
<1>1. Top \in 1 .. Top /\ frames[p] \in Frames(Pending) /\ DOMAIN frames = 1 .. Top
  BY HandIs, TypesAre
<1>2. /\ a \in Frames(Pending)
      /\ a.e = frames[p].e /\ a.due = frames[p].due /\ a.cut = frames[p].cut
      /\ a.l = frames[p].l /\ a.sent = frames[p].sent /\ a.trapped = trapped
      /\ a.then = frames[p].then /\ a.t = frames[p].t
      /\ a.in = frames[p].in /\ a.client = frames[p].client /\ a.serving = frames[p].serving
  BY <1>1 DEF Frames
<1>3. s = [frames EXCEPT ![p] = a]
  <2>1. CASE s = frames /\ trapped = frames[p].trapped
    <3>1. a = frames[p]
      BY <2>1, <1>1 DEF Frames
    <3>2. frames = [n \in DOMAIN frames |-> frames[n]]
      BY TypesAre
    <3> HIDE DEF a
    <3> QED
      BY <2>1, <3>1, <3>2
  <2>2. CASE s = [frames EXCEPT ![p].trapped = trapped]
    BY <2>2
  <2> QED
    BY <2>1, <2>2
<1> HIDE DEF a
<1>4. s[Top] \in Frames(Pending) /\ DOMAIN s = 1 .. Top
  BY <1>1, <1>2, <1>3, TypesAre
<1>5. frames' = [s EXCEPT ![Top] = b]
  <2>1. frames' = [s EXCEPT ![Top].serving = 0, ![Top].in = "router", ![Top].client = NoClient]
    BY DEF Completed
  <2> QED
    BY <2>1, <1>1, <1>4
<1>6. Resumed(s[Top], b)
  BY <1>4, ResumedIs
<1> HIDE DEF b
<1>7. Held(p, a.l, a.sent, a.trapped)
  BY <1>2, <1>3, <1>5, <1>6, HeldIs
<1> QED
  BY <1>2, <1>7

-----------------------------------------------------------------------------
(* What posts do to frames *)

\* A stack of the first k frames, in which only the unsubscribed are noted.
Kept(stack, k, gone) ==
  /\ stack \in Seq(Frames(Pending)) /\ Len(stack) = k
  /\ \A n \in 1 .. k :
       /\ stack[n].e = frames[n].e /\ stack[n].due = frames[n].due /\ stack[n].l = frames[n].l
       /\ stack[n].sent = frames[n].sent /\ stack[n].trapped = frames[n].trapped
       /\ stack[n].cut = frames[n].cut \cup gone
       /\ stack[n].then = frames[n].then /\ stack[n].t = frames[n].t
       /\ stack[n].in = frames[n].in /\ stack[n].serving = frames[n].serving

\* Event e is posted on top of that stack.
Pushed(e, gone) ==
  \E k \in Nat :
    /\ k = Top \/ (k = Top - 1 /\ postings = <<>>)
    /\ Top' = k + 1 /\ postings' = Append(postings, k + 1)
    /\ \A n \in 1 .. k :
         /\ frames'[n].e = frames[n].e /\ frames'[n].due = frames[n].due /\ frames'[n].l = frames[n].l
         /\ frames'[n].sent = frames[n].sent /\ frames'[n].trapped = frames[n].trapped
         /\ frames'[n].cut = frames[n].cut \cup gone
         /\ frames'[n].then = frames[n].then /\ frames'[n].t = frames[n].t
         /\ frames'[n].in = frames[n].in /\ frames'[n].serving = frames[n].serving
    /\ frames'[k + 1].e = e /\ ~frames'[k + 1].trapped
    /\ frames'[k + 1].l = getMapping(mappers'["listeners"], e)
    /\ frames'[k + 1].due = frames'[k + 1].l
    /\ frames'[k + 1].sent = <<>> /\ frames'[k + 1].cut = {}
    /\ frames'[k + 1].in = "router" /\ frames'[k + 1].t = getMapping(mappers'["trappers"], e)

\* The event says what becomes of the subscriptions.
Announces(e, gone) ==
  \/ mappers' = mappers /\ e \in Posts /\ gone = {}
  \/ \E el \in Subscribers, pattern \in Patterns :
       \/ /\ mappers' = [mappers EXCEPT ![Owner(el)] = addMapping(@, el, pattern)]
          /\ e = <<erouterEGID, pattern[1],
                   IF hasListeners(mappers, <<pattern[1]>>) THEN "status" ELSE "activate">>
          /\ gone = {}
       \/ /\ mappers' = [mappers EXCEPT ![Owner(el)] = removeMapping(@, el, pattern)]
          /\ e = <<erouterEGID, pattern[1],
                   IF hasListeners(mappers', <<pattern[1]>>) THEN "status" ELSE "deactivate">>
          /\ gone = {el}

Posting ==
  /\ \E e \in Events : \E gone : Pushed(e, gone) /\ Announces(e, gone)
  /\ news' = news

\* A handler calls the router from the frames as they were,
LEMMA CallingKept ==
  ASSUME IndInv, TypeInv, InProgram
  PROVE  Kept(Calling, Top, {})
<1>1. /\ frames \in Seq(Frames(Pending)) /\ Top \in Nat /\ DOMAIN frames = 1 .. Top
      /\ \A n \in 1 .. Top : frames[n] \in Frames(Pending)
  BY TypesAre
<1>2. CASE frames # <<>> /\ frames[Top].in = "trapper"
  <2> DEFINE p == frames[Top].serving
             marked == [frames EXCEPT ![p].reentered = TRUE]
             a == [frames[p] EXCEPT !.reentered = TRUE]
  <2>1. p \in 1 .. Top
    <3>1. Top \in 1 .. Top
      BY <1>2, HandIs
    <3>2. p # 0
      BY <3>1, <1>2 DEF IndInv, ShapeInv, IsFrame
    <3> QED
      BY <3>2, <1>2, HandIs
  <2>2. Calling = marked
    BY <1>2 DEF Calling
  <2> HIDE DEF p
  <2>3. /\ a \in Frames(Pending)
        /\ a.e = frames[p].e /\ a.due = frames[p].due /\ a.cut = frames[p].cut
        /\ a.l = frames[p].l /\ a.sent = frames[p].sent /\ a.trapped = frames[p].trapped
        /\ a.then = frames[p].then /\ a.t = frames[p].t /\ a.in = frames[p].in /\ a.serving = frames[p].serving
    BY <1>1, <2>1 DEF Frames
  <2>4. marked = [frames EXCEPT ![p] = a]
    OBVIOUS
  <2> HIDE DEF a, marked
  <2>5. /\ DOMAIN marked = 1 .. Top /\ marked = [n \in DOMAIN marked |-> marked[n]]
        /\ \A n \in 1 .. Top : marked[n] = IF n = p THEN a ELSE frames[n]
    BY <1>1, <2>1, <2>4
  <2>6. marked \in Seq(Frames(Pending)) /\ Len(marked) = Top
    BY <1>1, <2>3, <2>5, StackIs
  <2> QED
    BY <2>2, <2>3, <2>5, <2>6 DEF Kept
<1>3. CASE ~(frames # <<>> /\ frames[Top].in = "trapper")
  <2>1. Calling = frames
    BY <1>3 DEF Calling
  <2> QED
    BY <1>1, <2>1 DEF Kept, Top
<1> QED
  BY <1>2, <1>3

\* a call returns to the frames below it,
LEMMA FrontKept ==
  ASSUME IndInv, TypeInv, frames # <<>>
  PROVE  Top - 1 \in Nat /\ Kept(Front(frames), Top - 1, {})
<1>1. frames \in Seq(Frames(Pending)) /\ Top \in Nat \ {0} /\ Top = Len(frames)
  BY TypesAre DEF Top
<1>2. \A n \in 1 .. Top - 1 : Front(frames)[n] = frames[n]
  BY <1>1, FrontIsSeq DEF IndInv, ShapeInv
<1>3. Front(frames) \in Seq(Frames(Pending)) /\ Len(Front(frames)) = Top - 1
  BY <1>1, FirstOnes DEF Front
<1> QED
  BY <1>1, <1>2, <1>3 DEF Kept

\* and a change of the subscriptions is noted in all.
LEMMA DisturbedKept ==
  ASSUME NEW k \in Nat, NEW stack, Kept(stack, k, {}), NEW el \in Clients
  PROVE  Kept(Disturbed(stack, el), k, {el})
<1> DEFINE d == Disturbed(stack, el)
<1>1. DOMAIN stack = 1 .. k /\ \A n \in 1 .. k : stack[n] \in Frames(Pending)
  BY LenProperties, ElementOfSeq DEF Kept
<1>2. ASSUME NEW n \in 1 .. k
      PROVE  /\ d[n] \in Frames(Pending)
             /\ d[n].e = stack[n].e /\ d[n].due = stack[n].due /\ d[n].l = stack[n].l
             /\ d[n].sent = stack[n].sent /\ d[n].trapped = stack[n].trapped
             /\ d[n].cut = stack[n].cut \cup {el}
             /\ d[n].then = stack[n].then /\ d[n].t = stack[n].t
             /\ d[n].in = stack[n].in /\ d[n].serving = stack[n].serving
  <2>1. d[n] = [stack[n] EXCEPT !.cut = @ \cup {el}]
    BY <1>1 DEF Disturbed
  <2>2. stack[n] \in Frames(Pending)
    BY <1>1
  <2> HIDE DEF d
  <2> QED
    BY <2>1, <2>2 DEF Frames
<1>3. DOMAIN d = 1 .. k /\ d = [n \in DOMAIN d |-> d[n]]
  BY <1>1 DEF Disturbed
<1> HIDE DEF d
<1>4. d \in Seq(Frames(Pending)) /\ Len(d) = k
  BY <1>2, <1>3, StackIs
<1>5. Kept(d, k, {el})
  BY <1>2, <1>4 DEF Kept
<1> QED
  BY <1>5 DEF d

\* What processEvent() pushes
LEMMA PushIs ==
  ASSUME TypeInv, NEW k \in Nat, NEW stack, NEW gone, Kept(stack, k, gone),
         k = Top \/ (k = Top - 1 /\ postings = <<>>),
         NEW ms \in MapperPair, NEW e \in Events, NEW then \in Pending, processEvent(stack, ms, e, then),
         mappers' = ms, calls' \in 0 .. MaxCalls, latest' = latest, news' = news
  PROVE  TypeInv' /\ Pushed(e, gone) /\ frames'[Top'].then = then /\ Top' = k + 1
<1> DEFINE new == PostingStatus(ms, e, then)
<1>1. /\ frames' = Append(stack, new) /\ postings' = Append(postings, k + 1)
      /\ stack \in Seq(Frames(Pending)) /\ Len(stack) = k
  BY DEF processEvent, Kept
<1>2. TypeInv'
  BY <1>1, PushTypes
<1>3. new \in Frames(Pending)
  BY TypesAre, PostingStatusIs
<1>4. /\ new.e = e /\ new.trapped = FALSE /\ new.l = getMapping(ms["listeners"], e)
      /\ new.due = new.l /\ new.sent = <<>> /\ new.cut = {} /\ new.then = then
      /\ new.in = "router" /\ new.t = getMapping(ms["trappers"], e)
  BY DEF PostingStatus
<1> HIDE DEF new
<1>5. /\ Top' = k + 1 /\ frames'[k + 1] = new
      /\ \A n \in 1 .. k : frames'[n] = stack[n]
  BY <1>1, <1>3, AppendProperties DEF Top
<1>6. Pushed(e, gone)
  BY <1>1, <1>4, <1>5 DEF Pushed, Kept
<1> QED
  BY <1>2, <1>4, <1>5, <1>6

\* What a subscription added or removed does
LEMMA OneIs ==
  ASSUME TypeInv, NEW k \in Nat, NEW stack, Kept(stack, k, {}),
         k = Top \/ (k = Top - 1 /\ postings = <<>>),
         NEW el \in Subscribers, NEW pattern \in Patterns, NEW then \in Pending,
         \/ AddOne(stack, el, pattern, then)
         \/ RemoveOne(stack, el, pattern, then),
         calls' \in 0 .. MaxCalls, latest' = latest, news' = news
  PROVE  TypeInv' /\ Posting /\ frames'[Top'].then = then
<1>1. mappers \in MapperPair /\ el \in Clients /\ Owner(el) \in {"trappers", "listeners"}
  BY ClientsAssumption DEF TypeInv, TypesOK, MapperPair, Subscribers, Owner
<1>2. pattern[1] \in Generators /\ erouterEGID \in Generators /\ pattern[1] \in SIDs
  BY PatternIs, ErouterAssumption
<1>3. CASE AddOne(stack, el, pattern, then)
  <2> DEFINE type == IF hasListeners(mappers, <<pattern[1]>>) THEN "status" ELSE "activate"
             e == <<erouterEGID, pattern[1], type>>
             ms == [mappers EXCEPT ![Owner(el)] = addMapping(@, el, pattern)]
  <2>1. type \in Types
    BY DEF Types
  <2> HIDE DEF type
  <2>2. e \in Events
    BY <1>2, <2>1 DEF Events
  <2>3. addMapping(mappers[Owner(el)], el, pattern) \in Mappers
    BY <1>1, AddMappingIs DEF MapperPair
  <2>4. ms \in MapperPair
    BY <1>1, <2>3 DEF MapperPair
  <2>5. mappers' = ms /\ processEvent(stack, ms, e, then)
    BY <1>3 DEF AddOne, type
  <2> HIDE DEF ms, e
  <2>6. TypeInv' /\ Pushed(e, {}) /\ frames'[Top'].then = then
    BY <2>2, <2>4, <2>5, PushIs
  <2>7. Announces(e, {})
    BY <2>5 DEF Announces, ms, e, type
  <2> QED
    BY <2>2, <2>6, <2>7 DEF Posting
<1>4. CASE RemoveOne(stack, el, pattern, then)
  <2> DEFINE ms == Removed(el, pattern)
             type == IF hasListeners(ms, <<pattern[1]>>) THEN "status" ELSE "deactivate"
             e == <<erouterEGID, pattern[1], type>>
  <2>1. type \in Types
    <3> HIDE DEF ms
    <3> QED
      BY DEF Types
  <2>2. removeMapping(mappers[Owner(el)], el, pattern) \in Mappers
    BY <1>1, RemoveMappingIs DEF MapperPair
  <2>3. ms \in MapperPair
    BY <1>1, <2>2 DEF MapperPair, Removed
  <2>4. mappers' = ms /\ processEvent(Disturbed(stack, el), ms, e, then)
    BY <1>4 DEF RemoveOne
  <2>5. Kept(Disturbed(stack, el), k, {el})
    BY <1>1, DisturbedKept
  <2>6. Announces(e, {el})
    BY <2>4 DEF Announces, Removed
  <2> HIDE DEF type
  <2>7. e \in Events
    BY <1>2, <2>1 DEF Events
  <2> HIDE DEF ms, e
  <2>8. TypeInv' /\ Pushed(e, {el}) /\ frames'[Top'].then = then
    BY <2>3, <2>4, <2>5, <2>7, PushIs
  <2> QED
    BY <2>6, <2>7, <2>8 DEF Posting
<1> QED
  BY <1>3, <1>4

\* The loop over the generators: it goes on, or the caller does.
LEMMA LoopIs ==
  ASSUME TypeInv, NEW k \in Nat, NEW stack, Kept(stack, k, {}),
         k = Top \/ (k = Top - 1 /\ postings = <<>>),
         NEW el \in Subscribers, NEW first \in 0 .. numEGIDs,
         RemoveFrom(stack, el, first) \/ AddFrom(stack, el, first),
         calls' \in 0 .. MaxCalls, latest' = latest, news' = news
  PROVE  \/ TypeInv' /\ Posting /\ frames'[Top'].then \in Loops
         \/ frames' = stack /\ UNCHANGED <<mappers, postings, posted>>
<1> DEFINE affected == {g \in first .. numEGIDs - 1 : Removed(el, <<g>>) # mappers}
           g == Min(affected)
<1>0. numEGIDs \in Nat
  BY NumEGIDsAssumption
<1>1. CASE affected # {} /\ RemoveOne(stack, el, <<g>>, <<"remove", el, g + 1>>)
  <2>1. g \in affected
    <3>1. affected \in SUBSET Nat
      BY <1>0
    <3> HIDE DEF affected
    <3> QED
      BY <1>1, <3>1, MinOfNumbers
  <2>2. g \in 0 .. numEGIDs - 1
    <3>1. affected \subseteq 0 .. numEGIDs - 1
      BY <1>0
    <3> HIDE DEF affected
    <3> QED
      BY <3>1, <2>1
  <2> HIDE DEF g
  <2>3. <<g>> \in Patterns /\ <<"remove", el, g + 1>> \in Loops
    BY <2>2, <1>0, PatternsAre DEF Loops, Generators
  <2> QED
    BY <1>1, <2>3, OneIs DEF Pending
<1>2. CASE first < numEGIDs /\ AddOne(stack, el, <<first>>, <<"add", el, first + 1>>)
  <2>1. <<first>> \in Patterns /\ <<"add", el, first + 1>> \in Loops
    BY <1>0, <1>2, PatternsAre DEF Loops, Generators
  <2> QED
    BY <1>2, <2>1, OneIs DEF Pending
<1>3. \/ affected # {} /\ RemoveOne(stack, el, <<g>>, <<"remove", el, g + 1>>)
      \/ first < numEGIDs /\ AddOne(stack, el, <<first>>, <<"add", el, first + 1>>)
      \/ frames' = stack /\ UNCHANGED <<mappers, postings, posted>>
  BY DEF RemoveFrom, AddFrom
<1> QED
  BY <1>1, <1>2, <1>3

\* The caller of a new posting is the program or a loop.
Leaves == frames'[Top'].then \in Loops

\* What the program calls posts an event.
LEMMA ProgramIs ==
  ASSUME IndInv, TypeInv, Program
  PROVE  TypeInv' /\ Posting /\ Leaves
<1>1. Top \in Nat /\ mappers \in MapperPair
  BY TypesAre DEF TypeInv, TypesOK, MapperPair
<1>2. Call => Kept(Calling, Top, {}) /\ calls' \in 0 .. MaxCalls /\ latest' = latest /\ news' = news
  <2>1. calls \in 0 .. MaxCalls /\ MaxCalls \in Nat
    BY MaxCallsAssumption DEF TypeInv, TypesOK
  <2> QED
    BY <2>1, CallingKept DEF Call
<1>3. NoCall \in Pending /\ NoCall \in Loops
  BY DEF Pending, Loops
<1>4. ASSUME NEW e \in Posts, PostEvent(e) PROVE TypeInv' /\ Posting /\ Leaves
  <2>1. e \in Events
    BY PostsAssumption
  <2>2. processEvent(Calling, mappers, e, NoCall) /\ mappers' = mappers
    BY <1>4 DEF PostEvent
  <2>3. Call
    BY <1>4 DEF PostEvent
  <2>4. TypeInv' /\ Pushed(e, {}) /\ frames'[Top'].then = NoCall
    BY <1>1, <1>2, <1>3, <2>1, <2>2, <2>3, PushIs
  <2>5. Announces(e, {})
    BY <2>2 DEF Announces
  <2> QED
    BY <1>2, <2>1, <2>3, <1>3, <2>4, <2>5 DEF Posting, Leaves
<1>5. ASSUME NEW el \in Subscribers, NEW pattern \in Subscriptions, Subscribe(el, pattern) \/ Unsubscribe(el, pattern)
      PROVE  TypeInv' /\ Posting /\ Leaves
  <2>1. pattern \in Patterns
    BY PostsAssumption
  <2>2. Call /\ (AddOne(Calling, el, pattern, NoCall) \/ RemoveOne(Calling, el, pattern, NoCall))
    BY <1>5 DEF Subscribe, Unsubscribe
  <2> QED
    BY <1>1, <1>2, <1>3, <2>1, <2>2, OneIs DEF Leaves
<1>6. ASSUME NEW el \in Subscribers, UnsubscribeAll(el) \/ (el \in Trappers /\ TrapEverything(el))
      PROVE  TypeInv' /\ Posting /\ Leaves
  <2>1. Call /\ (RemoveFrom(Calling, el, 0) \/ AddFrom(Calling, el, 0)) /\ 0 \in 0 .. numEGIDs
    BY <1>6, NumEGIDsAssumption DEF UnsubscribeAll, TrapEverything
  <2>2. \/ TypeInv' /\ Posting /\ Leaves
        \/ frames' = Calling /\ UNCHANGED <<mappers, postings, posted>>
    BY <1>1, <1>2, <2>1, LoopIs DEF Leaves
  <2>3. postings' = Append(postings, Len(Calling) + 1)
    <3>1. CASE UnsubscribeAll(el)
      <4>1. \E g \in 0 .. numEGIDs - 1 : Removed(el, <<g>>) # mappers
        BY <3>1 DEF UnsubscribeAll, Generators
      <4>2. \E g : RemoveOne(Calling, el, <<g>>, <<"remove", el, g + 1>>)
        BY <3>1, <4>1 DEF UnsubscribeAll, RemoveFrom
      <4>3. DOMAIN Disturbed(Calling, el) = DOMAIN Calling /\ Kept(Calling, Top, {})
        BY <2>1, <1>2 DEF Disturbed
      <4>4. el \in Clients
        BY ClientsAssumption DEF Subscribers
      <4>5. Len(Disturbed(Calling, el)) = Len(Calling)
        BY <4>3, <4>4, <1>1, DisturbedKept DEF Kept
      <4> QED
        BY <4>2, <4>5 DEF RemoveOne, processEvent
    <3>2. CASE TrapEverything(el)
      BY <3>2, NumEGIDsAssumption DEF TrapEverything, AddFrom, AddOne, processEvent
    <3> QED
      BY <3>1, <3>2, <1>6
  <2>4. postings' # postings
    <3>1. Len(Append(postings, Len(Calling) + 1)) = Len(postings) + 1
      <4>1. Len(Calling) + 1 \in Nat /\ postings \in Seq(Nat)
        <5>1. postings \in Seq(1 .. Top) /\ 1 .. Top \subseteq Nat
          BY TypesAre
        <5> QED
          BY <5>1, <1>1, <1>2, <2>1, SeqMonotonic DEF Kept
      <4> QED
        BY <4>1, AppendProperties
    <3>2. Len(postings) \in Nat
      BY Lengths
    <3> QED
      BY <2>3, <3>1, <3>2
  <2> QED
    BY <2>2, <2>4
<1>7. \A et \in Trappers : et \in Subscribers
  BY DEF Subscribers
<1> QED
  BY <1>4, <1>5, <1>6, <1>7 DEF Program, Subscribers

\* A call of processEvent() returns, and posts what its caller has left to post.
LEMMA ReturnIs ==
  ASSUME IndInv, TypeInv, Return
  PROVE  /\ TypeInv'
         /\ \/ Posting /\ Leaves
            \/ /\ frames # <<>> /\ postings = <<>> /\ frames' = Front(frames)
               /\ UNCHANGED <<mappers, postings, posted, news>>
<1>1. /\ frames # <<>> /\ postings = <<>> /\ calls' = calls /\ latest' = latest /\ news' = news
      /\ calls' \in 0 .. MaxCalls
  BY DEF Return, TypeInv, TypesOK
<1>2. Top - 1 \in Nat /\ Kept(Front(frames), Top - 1, {})
  BY <1>1, FrontKept
<1>3. frames[Top].then \in Pending
  BY <1>1, HandIs DEF Frames
<1> DEFINE then == frames[Top].then
           Popped == frames' = Front(frames) /\ UNCHANGED <<mappers, postings, posted>>
<1>4. \/ Popped
      \/ then # NoCall /\ then[1] = "remove" /\ RemoveFrom(Front(frames), then[2], then[3])
      \/ then # NoCall /\ then[1] = "add" /\ AddFrom(Front(frames), then[2], then[3])
  BY DEF Return
<1> HIDE DEF then
<1>5. then # NoCall /\ then[1] \in {"remove", "add"} => then[2] \in Subscribers /\ then[3] \in 0 .. numEGIDs
  BY <1>3 DEF Pending, Loops, then
<1>6. Popped \/ (TypeInv' /\ Posting /\ Leaves)
  <2>1. CASE Popped
    BY <2>1
  <2>2. CASE /\ then # NoCall /\ then[1] \in {"remove", "add"}
             /\ (RemoveFrom(Front(frames), then[2], then[3]) \/ AddFrom(Front(frames), then[2], then[3]))
    BY <2>2, <1>1, <1>2, <1>5, LoopIs DEF Leaves
  <2> QED
    BY <2>1, <2>2, <1>4
<1>7. ASSUME Popped PROVE TypeInv'
  <2>1. frames' \in Seq(Frames(Pending))
    BY <1>2, <1>7 DEF Kept
  <2>2. postings' \in Seq(1 .. Top')
    BY <1>1, <1>7, EmptySeq
  <2> QED
    BY <1>1, <1>7, <2>1, <2>2 DEF TypeInv, TypesOK
<1> QED
  BY <1>1, <1>6, <1>7

-----------------------------------------------------------------------------
(* The steps, as the invariants below see them *)

Popped == postings' = IF postings = <<>> THEN <<>> ELSE Tail(postings)

\* An activation returns for good.
Returned ==
  /\ frames # <<>> /\ postings = <<>> /\ frames' = Front(frames)
  /\ UNCHANGED <<mappers, postings, news>>

\* Nothing changes but what the activation on top is at.
Moving ==
  /\ \E p \in 1 .. Top : Held(p, frames[p].l, frames[p].sent, frames[p].trapped)
  /\ UNCHANGED <<mappers, postings, news>>

\* The posting in hand has been given to everybody,
Finishing ==
  /\ \E p \in 1 .. Top :
       /\ frames[Top].serving = p /\ frames[p].l = <<>>
       /\ Held(p, frames[p].l, frames[p].sent, frames[p].trapped)
  /\ Popped
  /\ UNCHANGED <<mappers, news>>

\* or is trapped,
Trapping ==
  /\ \E p \in 1 .. Top :
       /\ frames[Top].serving = p
       /\ Held(p, frames[p].l, frames[p].sent, TRUE)
       /\ news' = Told(frames[p].e, "trapped")
  /\ Popped
  /\ UNCHANGED mappers

\* or goes to the next listener, or past it.
Sending ==
  /\ \E p \in 1 .. Top :
       LET el == Head(frames[p].l)
           verified == verifyMapping(mappers["listeners"], el, frames[p].e)
       IN  /\ frames[Top].serving = p
           /\ el \in Clients /\ frames[p].l \in Seq(Clients) /\ frames[p].l # <<>>
           /\ Held(p, Tail(frames[p].l), IF verified THEN Append(frames[p].sent, el) ELSE frames[p].sent,
                   frames[p].trapped)
           /\ news' = IF verified /\ el = Monitor
                        THEN Told(frames[p].e, IF frames[p].trapped THEN "trapped"
                                               ELSE Heard(frames[p].e[3] # "deactivate"))
                        ELSE news
  /\ UNCHANGED <<mappers, postings>>

\* Every step is one of these, and keeps the types.
LEMMA StepIs ==
  ASSUME IndInv, TypeInv, Next
  PROVE  TypeInv' /\ ((Posting /\ Leaves) \/ Returned \/ Moving \/ Finishing \/ Trapping \/ Sending)
<1>1. CASE Program
  BY <1>1, ProgramIs
<1>2. CASE Return
  BY <1>2, ReturnIs DEF Returned
<1>3. TypeInv => /\ latest \in [Listeners -> 0 .. posted]
                 /\ news \in [Generators -> {"wanted", "unwanted", "trapped"}]
  BY DEF TypeInv, TypesOK
<1>4. \A p, l, sent, trapped : Held(p, l, sent, trapped) => frames' \in Seq(Frames(Pending)) /\ Top' = Top
  BY DEF Held
<1>5. ASSUME Serve \/ ListenerReturns \/ TrapperReturns(FALSE) \/ \E p \in 1 .. Top : OfferTrapper(p)
      PROVE  TypeInv' /\ Moving
  <2>1. \E p \in 1 .. Top : Held(p, frames[p].l, frames[p].sent, frames[p].trapped)
    BY <1>5, ServeIs, ReturnedIs, OfferTrapperIs
  <2>2. UNCHANGED <<mappers, postings, posted, calls, latest, news>>
    BY <1>5 DEF Serve, ListenerReturns, TrapperReturns, OfferTrapper
  <2>3. TypeInv'
    BY <1>3, <1>4, <2>1, <2>2, TouchTypes
  <2> QED
    BY <2>1, <2>2, <2>3 DEF Moving
<1>6. ASSUME NEW p \in 1 .. Top, Exhausted(p) PROVE TypeInv' /\ Finishing
  <2>1. frames # <<>> /\ frames[Top].serving = p /\ frames[p].l = <<>> /\ Completed(frames)
    BY <1>6 DEF Exhausted, InProcess
  <2>2. frames[p].trapped \in BOOLEAN
    BY TypesAre DEF Frames
  <2>3. Held(p, frames[p].l, frames[p].sent, frames[p].trapped)
    BY <2>1, <2>2, CompletedIs
  <2>4. Popped /\ UNCHANGED <<mappers, posted, calls, latest, news>>
    BY <1>6 DEF Exhausted, Completed, Popped
  <2>5. TypeInv'
    BY <1>3, <1>4, <2>3, <2>4, TouchTypes DEF Popped
  <2> QED
    BY <2>1, <2>3, <2>4, <2>5 DEF Finishing
<1>7. ASSUME TrapperReturns(TRUE) PROVE TypeInv' /\ Trapping
  <2> DEFINE p == frames[Top].serving
  <2>1. frames # <<>> /\ frames[Top].in = "trapper" /\ Completed([frames EXCEPT ![p].trapped = TRUE])
    BY <1>7 DEF TrapperReturns
  <2>2. p \in 1 .. Top
    <3>1. Top \in 1 .. Top
      BY <2>1, HandIs
    <3>2. p # 0
      BY <3>1, <2>1 DEF IndInv, ShapeInv, IsFrame
    <3> QED
      BY <3>2, <2>1, HandIs
  <2>3. news' = Told(frames[p].e, "trapped") /\ UNCHANGED <<mappers, posted, calls, latest>>
    BY <1>7 DEF TrapperReturns
  <2> HIDE DEF p
  <2>4. Held(p, frames[p].l, frames[p].sent, TRUE)
    BY <2>1, <2>2, CompletedIs
  <2>5. Popped
    BY <2>1 DEF Completed, Popped
  <2>6. news' \in [Generators -> {"wanted", "unwanted", "trapped"}]
    BY <2>3, ToldIs
  <2>7. TypeInv'
    BY <1>3, <1>4, <2>3, <2>4, <2>5, <2>6, TouchTypes DEF Popped
  <2> QED
    BY <2>2, <2>3, <2>4, <2>5, <2>7 DEF Trapping, p
<1>8. ASSUME NEW p \in 1 .. Top, OfferListener(p) PROVE TypeInv' /\ Sending
  <2> DEFINE el == Head(frames[p].l)
             verified == verifyMapping(mappers["listeners"], el, frames[p].e)
             sent == IF verified THEN Append(frames[p].sent, el) ELSE frames[p].sent
             what == IF frames[p].trapped THEN "trapped" ELSE Heard(frames[p].e[3] # "deactivate")
  <2>1. /\ el \in Clients /\ frames[p].l \in Seq(Clients) /\ frames[p].l # <<>>
        /\ frames[p] \in Frames(Pending)
        /\ Held(p, Tail(frames[p].l), sent, frames[p].trapped)
    BY <1>8, OfferListenerIs
  <2>2. frames[Top].serving = p /\ UNCHANGED <<mappers, postings, posted, calls>>
    BY <1>8 DEF OfferListener, InProcess
  <2>3. news' = IF verified /\ el = Monitor THEN Told(frames[p].e, what) ELSE news
    BY <1>8 DEF OfferListener
  <2>4. Sending
    BY <2>1, <2>2, <2>3 DEF Sending
  <2>5. latest' = latest \/ latest' = [latest EXCEPT ![el] = frames[p].id]
    BY <1>8 DEF OfferListener
  <2>6. frames[p].id \in 0 .. posted
    BY DEF IndInv, ShapeInv, IsFrame
  <2>7. latest' \in [Listeners -> 0 .. posted]
    BY <1>3, <2>5, <2>6
  <2>8. what \in {"wanted", "unwanted", "trapped"}
    BY DEF Heard
  <2> HIDE DEF what, verified, el, sent
  <2>9. news' \in [Generators -> {"wanted", "unwanted", "trapped"}]
    BY <1>3, <2>3, <2>8, ToldIs
  <2>10. TypeInv'
    BY <1>4, <2>1, <2>2, <2>7, <2>9, TouchTypes
  <2> QED
    BY <2>4, <2>10
<1>9. CASE Dispatch
  <2>1. ASSUME NEW trapped \in BOOLEAN, TrapperReturns(trapped)
        PROVE  TrapperReturns(TRUE) \/ TrapperReturns(FALSE)
    <3>1. CASE trapped = TRUE
      BY <2>1, <3>1
    <3>2. CASE trapped = FALSE
      BY <2>1, <3>2
    <3> QED
      BY <3>1, <3>2
  <2> QED
    BY <1>2, <1>5, <1>6, <1>7, <1>8, <1>9, <2>1 DEF Dispatch
<1> QED
  BY <1>1, <1>9 DEF Next

\* In the router by itself, only its loops have something left to do.
LoopsInv == \A n \in 1 .. Top : frames[n].then \in Loops

LEMMA LoopsStay ==
  ASSUME IndInv, TypeInv, LoopsInv,
         (Posting /\ Leaves) \/ Returned \/ Moving \/ Finishing \/ Trapping \/ Sending
  PROVE  LoopsInv'
<1>0. Top \in Nat
  BY TypesAre
<1>1. CASE Posting /\ Leaves
  <2>1. PICK k \in Nat :
          /\ k = Top \/ k = Top - 1
          /\ Top' = k + 1 /\ \A n \in 1 .. k : frames'[n].then = frames[n].then
    BY <1>1 DEF Posting, Pushed
  <2>2. \A n \in 1 .. k + 1 : n = k + 1 \/ (n \in 1 .. k /\ n \in 1 .. Top)
    BY <1>0, <2>1
  <2> QED
    BY <1>1, <2>1, <2>2 DEF LoopsInv, Leaves
<1>2. CASE Returned
  <2>1. Top - 1 \in Nat /\ Top' = Top - 1 /\ \A n \in 1 .. Top - 1 : frames'[n].then = frames[n].then
    BY <1>2, FrontKept DEF Returned, Kept, Top
  <2> QED
    BY <1>0, <2>1 DEF LoopsInv
<1>3. CASE Moving \/ Finishing \/ Trapping \/ Sending
  <2>1. Top' = Top /\ \A n \in 1 .. Top : frames'[n].then = frames[n].then
    BY <1>3 DEF Moving, Finishing, Trapping, Sending, Held
  <2> QED
    BY <2>1 DEF LoopsInv
<1> QED
  BY <1>1, <1>2, <1>3

\* The types hold before the first call.
LEMMA StartingTypes == Init => TypeInv
<1> SUFFICES ASSUME Init PROVE TypeInv
  OBVIOUS
<1>1. mappers \in MapperPair
  BY InitialAssumption DEF Init, MapperPair
<1>2. frames \in Seq(Frames(Pending)) /\ postings \in Seq(1 .. Top)
  BY EmptySeq DEF Init
<1>3. news \in [Generators -> {"wanted", "unwanted", "trapped"}]
  BY DEF Init, Heard
<1>4. latest \in [Listeners -> 0 .. posted] /\ posted \in Nat
  BY DEF Init
<1>5. calls \in 0 .. MaxCalls
  BY MaxCallsAssumption DEF Init
<1> QED
  BY <1>1, <1>2, <1>3, <1>4, <1>5 DEF TypeInv, TypesOK, MapperPair

-----------------------------------------------------------------------------
(* The queue *)

\* A new posting is queued with those there are.
LEMMA QueuedPushed ==
  ASSUME IndInv, TypeInv, NEW k \in Nat, k = Top \/ (k = Top - 1 /\ postings = <<>>),
         postings' = Append(postings, k + 1)
  PROVE  /\ \A q \in 1 .. k + 1 : Queued(q)' <=> Queued(q) \/ q = k + 1
         /\ \A q : Queued(q) => q \in 1 .. k
<1>1. postings \in Seq(1 .. Top) /\ Top \in Nat /\ Len(postings) \in Nat /\ DOMAIN postings = 1 .. Len(postings)
  BY Lengths, TypesAre
<1>2. \A q : Queued(q) => q \in 1 .. k
  <2>1. CASE k = Top
    BY <2>1, <1>1, ElementOfSeq DEF Queued
  <2>2. CASE postings = <<>>
    BY <2>2, EmptySeq DEF Queued
  <2> QED
    BY <2>1, <2>2
<1>3. postings \in Seq(Nat)
  BY <1>1, SeqMonotonic, 1 .. Top \subseteq Nat
<1>4. /\ postings' \in Seq(Nat) /\ Len(postings') = Len(postings) + 1
      /\ \A i \in 1 .. Len(postings) : postings'[i] = postings[i]
      /\ postings'[Len(postings) + 1] = k + 1
  BY <1>3, AppendProperties
<1>5. DOMAIN postings' = 1 .. Len(postings) + 1
  BY <1>4, LenProperties
<1>6. \A q \in 1 .. k + 1 : Queued(q)' <=> Queued(q) \/ q = k + 1
  BY <1>1, <1>4, <1>5 DEF Queued
<1> QED
  BY <1>2, <1>6

\* What is served is the front of the queue, if there is one.
LEMMA ServedFirst ==
  ASSUME IndInv, TypeInv, Top > 0, frames[Top].serving # 0, NEW q, Queued(q)
  PROVE  frames[Top].serving <= q /\ Queued(frames[Top].serving)
<1>1. PICK i \in DOMAIN postings : postings[i] = q
  BY DEF Queued
<1>2. /\ postings \in Seq(1 .. Top) /\ Top \in Nat /\ Len(postings) \in Nat
      /\ DOMAIN postings = 1 .. Len(postings)
      /\ postings # <<>> => Head(postings) = postings[1] /\ 1 \in DOMAIN postings
  BY Lengths, TypesAre
<1>3. postings # <<>>
  BY <1>1, <1>2, EmptySeq
<1>4. frames[Top].serving = postings[1]
  BY <1>2, <1>3 DEF IndInv, QueueInv
<1>5. postings[1] \in Nat /\ postings[i] \in Nat
  BY <1>1, <1>2, <1>3, ElementOfSeq
<1>6. i = 1 \/ postings[1] < postings[i]
  BY <1>1, <1>2, <1>3 DEF IndInv, QueueInv
<1> QED
  BY <1>1, <1>2, <1>3, <1>4, <1>5, <1>6 DEF Queued

\* It is what is popped.
LEMMA QueuedPopped ==
  ASSUME IndInv, TypeInv, NEW p \in 1 .. Top, frames[Top].serving = p, Popped
  PROVE  \A q : Queued(q)' <=> Queued(q) /\ q # p
<1>1. /\ postings \in Seq(1 .. Top) /\ Top \in Nat /\ Top > 0 /\ Len(postings) \in Nat
      /\ DOMAIN postings = 1 .. Len(postings)
      /\ postings # <<>> => Head(postings) = postings[1] /\ 1 \in DOMAIN postings
  BY Lengths, TypesAre
<1>2. CASE postings = <<>>
  BY <1>2, EmptySeq DEF Queued, Popped
<1>3. CASE postings # <<>>
  <2>1. postings[1] = p
    BY <1>1, <1>3 DEF IndInv, QueueInv
  <2>2. \A m, n \in DOMAIN postings : m < n => postings[m] < postings[n]
    BY DEF IndInv, QueueInv
  <2>3. \A n \in DOMAIN postings : postings[n] \in Nat
    BY <1>1, ElementOfSeq
  <2>4. /\ postings' \in Seq(1 .. Top) /\ Len(postings') = Len(postings) - 1
        /\ \A n \in 1 .. Len(postings') : postings'[n] = postings[n + 1]
    BY <1>1, <1>3, HeadTailProperties DEF Popped
  <2>5. DOMAIN postings' = 1 .. Len(postings) - 1
    BY <2>4, LenProperties
  <2>6. ASSUME NEW q, Queued(q)' PROVE Queued(q) /\ q # p
    <3>1. PICK n \in DOMAIN postings' : postings'[n] = q
      BY <2>6 DEF Queued
    <3>2. n + 1 \in DOMAIN postings /\ postings[n + 1] = q /\ 1 < n + 1
      BY <3>1, <1>1, <2>4, <2>5
    <3>3. p < q
      BY <3>2, <1>1, <1>3, <2>1, <2>2
    <3>4. q # p
      BY <3>3, <3>2, <2>3
    <3> QED
      BY <3>2, <3>4 DEF Queued
  <2>7. ASSUME NEW q, Queued(q), q # p PROVE Queued(q)'
    <3>1. PICK n \in DOMAIN postings : postings[n] = q
      BY <2>7 DEF Queued
    <3>2. n # 1
      BY <3>1, <2>1, <2>7
    <3>3. n - 1 \in DOMAIN postings' /\ postings'[n - 1] = q
      BY <3>1, <3>2, <1>1, <2>4, <2>5
    <3> QED
      BY <3>3 DEF Queued
  <2> QED
    BY <2>6, <2>7
<1> QED
  BY <1>2, <1>3

-----------------------------------------------------------------------------
(* Who is due, who is sent the event, who is left *)

\* l is what is left of those due, and the others were sent the event, but for
\* some that have unsubscribed.
Delivered(due, l, sent, cut) ==
  LET k == Len(due) - Len(l)
  IN  /\ k \in 0 .. Len(due)
      /\ \A i \in 1 .. Len(l) : l[i] = due[k + i]
      /\ Without(sent, cut) = Without(SubSeq(due, 1, k), cut)

\* At first everybody is left,
LEMMA NoneDelivered ==
  ASSUME NEW S, NEW due \in Seq(S)
  PROVE  Delivered(due, due, <<>>, {})
<1>1. Len(due) \in Nat
  BY LenProperties
<1>2. SubSeq(due, 1, 0) = <<>>
  BY <1>1, FirstOnes
<1> DEFINE k == Len(due) - Len(due)
<1>3. k = 0
  BY <1>1
<1> HIDE DEF k
<1>4. k \in 0 .. Len(due) /\ \A i \in 1 .. Len(due) : due[i] = due[k + i]
  BY <1>1, <1>3
<1>5. SubSeq(due, 1, k) = <<>>
  BY <1>2, <1>3
<1> QED
  BY <1>4, <1>5 DEF Delivered, k

\* it does not matter who else unsubscribes,
LEMMA DeliveredCut ==
  ASSUME NEW S, NEW due \in Seq(S), NEW l, NEW sent \in Seq(S), NEW cut, NEW gone,
         Delivered(due, l, sent, cut)
  PROVE  Delivered(due, l, sent, cut \cup gone)
<1> DEFINE k == Len(due) - Len(l)
<1>1. k \in 0 .. Len(due) /\ Without(sent, cut) = Without(SubSeq(due, 1, k), cut)
  BY DEF Delivered
<1> HIDE DEF k
<1>2. SubSeq(due, 1, k) \in Seq(S)
  BY <1>1, FirstOnes
<1>3. Without(SubSeq(due, 1, k), cut \cup gone) = Without(Without(SubSeq(due, 1, k), cut), gone)
  <2>1. \A s \in Seq(S) : Without(s, cut \cup gone) = Without(Without(s, cut), gone)
    BY WithoutTwice
  <2> QED
    BY <2>1, <1>2
<1>4. Without(sent, cut \cup gone) = Without(Without(sent, cut), gone)
  BY WithoutTwice
<1>5. Without(sent, cut \cup gone) = Without(SubSeq(due, 1, k), cut \cup gone)
  BY <1>1, <1>3, <1>4
<1> QED
  BY <1>5 DEF Delivered, k

\* the next one is sent the event, or has unsubscribed,
LEMMA DeliveredNext ==
  ASSUME NEW S, NEW due \in Seq(S), NEW l \in Seq(S), l # <<>>, NEW sent \in Seq(S), NEW cut,
         Delivered(due, l, sent, cut)
  PROVE  /\ Delivered(due, Tail(l), Append(sent, Head(l)), cut)
         /\ Head(l) \in cut => Delivered(due, Tail(l), sent, cut)
<1> DEFINE k == Len(due) - Len(l)
           t == Tail(l)
           x == Head(l)
<1>1. /\ k \in 0 .. Len(due) /\ \A i \in 1 .. Len(l) : l[i] = due[k + i]
      /\ Without(sent, cut) = Without(SubSeq(due, 1, k), cut)
  BY DEF Delivered
<1>2. /\ Len(due) \in Nat /\ Len(l) \in Nat \ {0} /\ t \in Seq(S) /\ Len(t) = Len(l) - 1
      /\ \A i \in 1 .. Len(t) : t[i] = l[i + 1]
      /\ x \in S /\ x = l[1]
  BY LenProperties, EmptySeq, HeadTailProperties
<1>3. Len(due) - Len(t) = k + 1 /\ k + 1 \in 0 .. Len(due) /\ k < Len(due) /\ x = due[k + 1]
  BY <1>1, <1>2
<1>4. \A i \in 1 .. Len(t) : t[i] = due[k + 1 + i]
  <2> SUFFICES ASSUME NEW i \in 1 .. Len(t) PROVE t[i] = due[k + 1 + i]
    OBVIOUS
  <2>1. i + 1 \in 1 .. Len(l) /\ k + (i + 1) = k + 1 + i
    BY <1>1, <1>2
  <2> QED
    BY <1>1, <1>2, <2>1
<1> HIDE DEF k, t, x
<1>5. SubSeq(due, 1, k) \in Seq(S) /\ SubSeq(due, 1, k + 1) = Append(SubSeq(due, 1, k), x)
  BY <1>1, <1>3, FirstOnes
<1>6. \A s \in Seq(S) :
        Without(Append(s, x), cut) = IF x \in cut THEN Without(s, cut) ELSE Append(Without(s, cut), x)
  <2>1. x \in S
    BY <1>2
  <2> QED
    BY <2>1, WithoutAppend, Zenon
<1>7. /\ Without(SubSeq(due, 1, k + 1), cut) = Without(Append(sent, x), cut)
      /\ x \in cut => Without(SubSeq(due, 1, k + 1), cut) = Without(sent, cut)
  <2>1. Without(SubSeq(due, 1, k + 1), cut) = Without(Append(SubSeq(due, 1, k), x), cut)
    BY <1>5, Zenon
  <2>2. CASE x \in cut
    BY <2>1, <2>2, <1>1, <1>5, <1>6, Zenon
  <2>3. CASE x \notin cut
    BY <2>1, <2>3, <1>1, <1>5, <1>6, Zenon
  <2> QED
    BY <2>2, <2>3
<1>8. Delivered(due, t, Append(sent, x), cut)
  <2>1. Without(Append(sent, x), cut) = Without(SubSeq(due, 1, k + 1), cut)
    BY <1>7
  <2> QED
    BY <2>1, <1>3, <1>4 DEF Delivered
<1>9. x \in cut => Delivered(due, t, sent, cut)
  <2>1. x \in cut => Without(sent, cut) = Without(SubSeq(due, 1, k + 1), cut)
    BY <1>7
  <2> QED
    BY <2>1, <1>3, <1>4 DEF Delivered
<1> QED
  BY <1>8, <1>9 DEF t, x

\* and in the end everybody was, or has.
LEMMA AllDelivered ==
  ASSUME NEW S, NEW due \in Seq(S), NEW sent, NEW cut, Delivered(due, <<>>, sent, cut)
  PROVE  Without(sent, cut) = Without(due, cut)
<1> DEFINE k == Len(due) - Len(<<>>)
<1>1. Len(<<>>) = 0 /\ Len(due) \in Nat
  BY LenProperties, EmptySeq
<1>2. k = Len(due) /\ Len(due) \in 0 .. Len(due)
  BY <1>1
<1>3. Without(sent, cut) = Without(SubSeq(due, 1, k), cut)
  BY DEF Delivered
<1> HIDE DEF k
<1>4. SubSeq(due, 1, k) = due
  BY <1>2, FirstOnes
<1> QED
  BY <1>3, <1>4

\* The ones after the first
LEMMA TailHolds ==
  ASSUME NEW S, NEW s \in Seq(S), s # <<>>
  PROVE  /\ Holds(s, Head(s))
         /\ \A x : Holds(s, x) <=> x = Head(s) \/ Holds(Tail(s), x)
<1> DEFINE t == Tail(s)
<1>1. /\ Len(s) \in Nat \ {0} /\ DOMAIN s = 1 .. Len(s) /\ Head(s) = s[1]
      /\ t \in Seq(S) /\ Len(t) = Len(s) - 1 /\ \A i \in 1 .. Len(t) : t[i] = s[i + 1]
  BY LenProperties, EmptySeq, HeadTailProperties
<1>2. DOMAIN t = 1 .. Len(s) - 1
  BY <1>1, LenProperties
<1> HIDE DEF t
<1>3. 1 \in DOMAIN s
  BY <1>1
<1>4. ASSUME NEW x, Holds(s, x), x # Head(s) PROVE Holds(t, x)
  <2>1. PICK n \in 1 .. Len(s) : s[n] = x
    BY <1>1, <1>4 DEF Holds
  <2>2. n # 1
    BY <1>1, <1>4, <2>1
  <2>3. n - 1 \in DOMAIN t /\ t[n - 1] = s[n]
    BY <1>1, <1>2, <2>2
  <2> QED
    BY <2>1, <2>3 DEF Holds
<1>5. ASSUME NEW x, Holds(t, x) PROVE Holds(s, x)
  <2>1. PICK n \in 1 .. Len(s) - 1 : t[n] = x
    BY <1>2, <1>5 DEF Holds
  <2>2. n + 1 \in DOMAIN s /\ s[n + 1] = x
    BY <1>1, <2>1
  <2> QED
    BY <2>2 DEF Holds
<1> QED
  BY <1>1, <1>3, <1>4, <1>5 DEF Holds, t

-----------------------------------------------------------------------------
(* What the announced changes do to the subscriptions *)

\* Who asks whether anybody listens to a generator
LEMMA GeneratorMapping ==
  ASSUME NEW m \in Mappers, NEW g \in Generators
  PROVE  hasMapping(m, <<g>>) <=> m.all[g] # <<>> \/ \E f \in Events : f[1] = g /\ m.filtered[f] # <<>>
<1>1. <<g>> \in Patterns /\ <<g>>[1] = g /\ Len(<<g>>) = 1
  BY PatternsAre
<1>2. \A f \in Events : Matches(f, <<g>>) <=> f[1] = g
  BY <1>1, MatchesGenerator
<1> QED
  BY <1>1, <1>2 DEF hasMapping

\* A subscription is added,
LEMMA MappingAdded ==
  ASSUME NEW m \in Mappers, NEW el \in Clients, NEW pattern \in Patterns
  PROVE  LET new == addMapping(m, el, pattern)
         IN  /\ hasMapping(new, <<pattern[1]>>)
             /\ \A g \in Generators : g # pattern[1] => (hasMapping(new, <<g>>) <=> hasMapping(m, <<g>>))
             /\ \A g \in Generators : \A x : Holds(m.all[g], x) => Holds(new.all[g], x)
             /\ \A f \in Events : \A x : verifyMapping(m, x, f) => verifyMapping(new, x, f)
<1> DEFINE new == addMapping(m, el, pattern)
<1>1. /\ new \in Mappers
      /\ \A g \in Generators :
           new.all[g] = IF Len(pattern) = 1 /\ g = pattern[1] THEN Append(m.all[g], el) ELSE m.all[g]
      /\ \A f \in Events :
           new.filtered[f] = IF Len(pattern) # 1 /\ Matches(f, pattern)
                               THEN Append(m.filtered[f], el) ELSE m.filtered[f]
  BY AddMappingIs
<1>2. pattern[1] \in Generators
  BY PatternIs
<1>3. (\A f \in Events : Matches(f, pattern) => f[1] = pattern[1]) /\ \E f \in Events : Matches(f, pattern)
  BY MatchesGenerator
<1>4. /\ \A g \in Generators : m.all[g] \in Seq(Clients)
      /\ \A f \in Events : m.filtered[f] \in Seq(Clients) /\ f[1] \in Generators
  BY PatternsAre DEF Mappers, Vectors
<1> HIDE DEF new
<1>5. \A g \in Generators : Append(m.all[g], el) # <<>> /\ \A x : Holds(m.all[g], x) => Holds(new.all[g], x)
  BY <1>1, <1>4, AppendHolds
<1>6. \A f \in Events : Append(m.filtered[f], el) # <<>> /\ \A x : Holds(m.filtered[f], x) => Holds(new.filtered[f], x)
  BY <1>1, <1>4, AppendHolds
<1>7. hasMapping(new, <<pattern[1]>>)
  <2>1. CASE Len(pattern) = 1
    <3>1. new.all[pattern[1]] # <<>>
      BY <2>1, <1>1, <1>2, <1>5
    <3> QED
      BY <3>1, <1>1, <1>2, GeneratorMapping
  <2>2. CASE Len(pattern) # 1
    <3>1. PICK f \in Events : Matches(f, pattern)
      BY <1>3
    <3>2. f[1] = pattern[1] /\ new.filtered[f] # <<>>
      BY <2>2, <3>1, <1>1, <1>3, <1>6
    <3> QED
      BY <3>2, <1>1, <1>2, GeneratorMapping
  <2> QED
    BY <2>1, <2>2
<1>8. ASSUME NEW g \in Generators, g # pattern[1]
      PROVE  hasMapping(new, <<g>>) <=> hasMapping(m, <<g>>)
  <2>1. new.all[g] = m.all[g] /\ \A f \in Events : f[1] = g => new.filtered[f] = m.filtered[f]
    BY <1>1, <1>3, <1>8
  <2> QED
    BY <1>1, <2>1, GeneratorMapping
<1>9. \A f \in Events : \A x : verifyMapping(m, x, f) => verifyMapping(new, x, f)
  BY <1>4, <1>5, <1>6 DEF verifyMapping
<1> QED
  BY <1>5, <1>7, <1>8, <1>9 DEF new

\* and one is removed.
LEMMA MappingRemoved ==
  ASSUME NEW m \in Mappers, NEW el \in Clients, NEW pattern \in Patterns
  PROVE  LET new == removeMapping(m, el, pattern)
         IN  /\ \A g \in Generators : g # pattern[1] => (hasMapping(new, <<g>>) <=> hasMapping(m, <<g>>))
             /\ \A g \in Generators : \A x : x # el /\ Holds(m.all[g], x) => Holds(new.all[g], x)
             /\ \A f \in Events : \A x : x # el /\ verifyMapping(m, x, f) => verifyMapping(new, x, f)
<1> DEFINE new == removeMapping(m, el, pattern)
<1>1. /\ new \in Mappers
      /\ \A g \in Generators :
           new.all[g] = IF Len(pattern) = 1 /\ g = pattern[1] THEN Without(m.all[g], {el}) ELSE m.all[g]
      /\ \A f \in Events :
           new.filtered[f] = IF Matches(f, pattern) THEN Without(m.filtered[f], {el}) ELSE m.filtered[f]
  BY RemoveMappingIs
<1>2. \A f \in Events : Matches(f, pattern) => f[1] = pattern[1]
  BY MatchesGenerator
<1>3. /\ \A g \in Generators : m.all[g] \in Seq(Clients)
      /\ \A f \in Events : m.filtered[f] \in Seq(Clients) /\ f[1] \in Generators
  BY PatternsAre DEF Mappers, Vectors
<1> HIDE DEF new
<1>4. \A g \in Generators : \A x : x # el /\ Holds(m.all[g], x) => Holds(new.all[g], x)
  BY <1>1, <1>3, WithoutHolds
<1>5. \A f \in Events : \A x : x # el /\ Holds(m.filtered[f], x) => Holds(new.filtered[f], x)
  BY <1>1, <1>3, WithoutHolds
<1>6. ASSUME NEW g \in Generators, g # pattern[1]
      PROVE  hasMapping(new, <<g>>) <=> hasMapping(m, <<g>>)
  <2>1. new.all[g] = m.all[g] /\ \A f \in Events : f[1] = g => new.filtered[f] = m.filtered[f]
    BY <1>1, <1>2, <1>6
  <2> QED
    BY <1>1, <2>1, GeneratorMapping
<1>7. \A f \in Events : \A x : x # el /\ verifyMapping(m, x, f) => verifyMapping(new, x, f)
  BY <1>3, <1>4, <1>5 DEF verifyMapping
<1> QED
  BY <1>4, <1>6, <1>7 DEF new

\* The program posts no event in the router's own name.
TrueNews == \A e \in Posts : e[1] # erouterEGID

\* What an announced event says is what becomes of the subscriptions.
LEMMA AnnouncedIs ==
  ASSUME TypeInv, NEW e, NEW gone, Announces(e, gone)
  PROVE  /\ \A f \in Events : \A x : x \notin gone /\ verifyMapping(mappers["listeners"], x, f)
                                   => verifyMapping(mappers'["listeners"], x, f)
         /\ Holds(mappers["listeners"].all[erouterEGID], Monitor)
              => Holds(mappers'["listeners"].all[erouterEGID], Monitor)
         /\ \/ mappers' = mappers /\ e \in Posts
            \/ /\ e[1] = erouterEGID
               /\ \A g \in Generators :
                    hasListeners(mappers', <<g>>) <=>
                      IF g = e[2] THEN e[3] # "deactivate" ELSE hasListeners(mappers, <<g>>)
<1>1. /\ mappers \in [{"trappers", "listeners"} -> Mappers] /\ erouterEGID \in Generators
      /\ mappers["trappers"] \in Mappers /\ mappers["listeners"] \in Mappers
  BY ErouterAssumption DEF TypeInv, TypesOK
<1>2. CASE mappers' = mappers /\ e \in Posts /\ gone = {}
  BY <1>2
<1>3. ASSUME NEW el \in Subscribers, NEW pattern \in Patterns,
             mappers' = [mappers EXCEPT ![Owner(el)] = addMapping(@, el, pattern)],
             e = <<erouterEGID, pattern[1],
                   IF hasListeners(mappers, <<pattern[1]>>) THEN "status" ELSE "activate">>
      PROVE  /\ \A f \in Events : \A x : verifyMapping(mappers["listeners"], x, f)
                                       => verifyMapping(mappers'["listeners"], x, f)
             /\ Holds(mappers["listeners"].all[erouterEGID], Monitor)
                  => Holds(mappers'["listeners"].all[erouterEGID], Monitor)
             /\ e[1] = erouterEGID
             /\ \A g \in Generators :
                  hasListeners(mappers', <<g>>) <=>
                    IF g = e[2] THEN e[3] # "deactivate" ELSE hasListeners(mappers, <<g>>)
  <2> DEFINE o == Owner(el)
             new == addMapping(mappers[o], el, pattern)
  <2>1. el \in Clients /\ o \in {"trappers", "listeners"} /\ mappers[o] \in Mappers
    BY <1>1, ClientsAssumption DEF Subscribers, Owner
  <2>2. mappers' = [mappers EXCEPT ![o] = new]
    BY <1>3
  <2> HIDE DEF o
  <2>3. /\ hasMapping(new, <<pattern[1]>>)
        /\ \A g \in Generators : g # pattern[1] => (hasMapping(new, <<g>>) <=> hasMapping(mappers[o], <<g>>))
        /\ \A g \in Generators : \A x : Holds(mappers[o].all[g], x) => Holds(new.all[g], x)
        /\ \A f \in Events : \A x : verifyMapping(mappers[o], x, f) => verifyMapping(new, x, f)
    BY <2>1, MappingAdded
  <2> HIDE DEF new
  <2>4. \A kind \in {"trappers", "listeners"} : mappers'[kind] = IF kind = o THEN new ELSE mappers[kind]
    BY <1>1, <2>1, <2>2
  <2>5. e[1] = erouterEGID /\ e[2] = pattern[1] /\ e[3] # "deactivate"
    BY <1>3
  <2>6. \A g \in Generators :
          hasListeners(mappers', <<g>>) <=> g = pattern[1] \/ hasListeners(mappers, <<g>>)
    BY <2>1, <2>3, <2>4 DEF hasListeners
  <2>7. /\ \A f \in Events : \A x : verifyMapping(mappers["listeners"], x, f)
                                  => verifyMapping(mappers'["listeners"], x, f)
        /\ Holds(mappers["listeners"].all[erouterEGID], Monitor)
             => Holds(mappers'["listeners"].all[erouterEGID], Monitor)
    BY <1>1, <2>3, <2>4
  <2> QED
    BY <2>5, <2>6, <2>7
<1>4. ASSUME NEW el \in Subscribers, NEW pattern \in Patterns,
             mappers' = [mappers EXCEPT ![Owner(el)] = removeMapping(@, el, pattern)],
             e = <<erouterEGID, pattern[1],
                   IF hasListeners(mappers', <<pattern[1]>>) THEN "status" ELSE "deactivate">>,
             gone = {el}
      PROVE  /\ \A f \in Events : \A x : x \notin gone /\ verifyMapping(mappers["listeners"], x, f)
                                       => verifyMapping(mappers'["listeners"], x, f)
             /\ Holds(mappers["listeners"].all[erouterEGID], Monitor)
                  => Holds(mappers'["listeners"].all[erouterEGID], Monitor)
             /\ e[1] = erouterEGID
             /\ \A g \in Generators :
                  hasListeners(mappers', <<g>>) <=>
                    IF g = e[2] THEN e[3] # "deactivate" ELSE hasListeners(mappers, <<g>>)
  <2> DEFINE o == Owner(el)
             new == removeMapping(mappers[o], el, pattern)
  <2>1. el \in Clients /\ o \in {"trappers", "listeners"} /\ mappers[o] \in Mappers
    BY <1>1, ClientsAssumption DEF Subscribers, Owner
  <2>2. o = "listeners" => el # Monitor
    BY DEF Subscribers, Owner
  <2>3. mappers' = [mappers EXCEPT ![o] = new]
    BY <1>4
  <2> HIDE DEF o
  <2>4. /\ \A g \in Generators : g # pattern[1] => (hasMapping(new, <<g>>) <=> hasMapping(mappers[o], <<g>>))
        /\ \A g \in Generators : \A x : x # el /\ Holds(mappers[o].all[g], x) => Holds(new.all[g], x)
        /\ \A f \in Events : \A x : x # el /\ verifyMapping(mappers[o], x, f) => verifyMapping(new, x, f)
    BY <2>1, MappingRemoved
  <2> HIDE DEF new
  <2>5. \A kind \in {"trappers", "listeners"} : mappers'[kind] = IF kind = o THEN new ELSE mappers[kind]
    BY <1>1, <2>1, <2>3
  <2>6. /\ e[1] = erouterEGID /\ e[2] = pattern[1]
        /\ hasListeners(mappers', <<pattern[1]>>) <=> e[3] # "deactivate"
    BY <1>4
  <2>7. \A g \in Generators : g # pattern[1] =>
          (hasListeners(mappers', <<g>>) <=> hasListeners(mappers, <<g>>))
    BY <2>1, <2>4, <2>5 DEF hasListeners
  <2>8. /\ \A f \in Events : \A x : x # el /\ verifyMapping(mappers["listeners"], x, f)
                                  => verifyMapping(mappers'["listeners"], x, f)
        /\ Holds(mappers["listeners"].all[erouterEGID], Monitor)
             => Holds(mappers'["listeners"].all[erouterEGID], Monitor)
    BY <1>1, <2>2, <2>4, <2>5
  <2> QED
    BY <1>4, <2>6, <2>7, <2>8
<1> QED
  BY <1>2, <1>3, <1>4 DEF Announces

-----------------------------------------------------------------------------
(* Nobody is lost *)

\* What has left the queue was trapped or given to everybody, and who is left is
\* still subscribed unless noted.
Frame(n, ms) ==
  /\ Delivered(frames[n].due, frames[n].l, frames[n].sent, frames[n].cut)
  /\ Queued(n) \/ frames[n].trapped \/ frames[n].l = <<>>
  /\ \A el : Holds(frames[n].l, el) /\ el \notin frames[n].cut =>
       verifyMapping(ms["listeners"], el, frames[n].e)

DeliveryInv == \A n \in 1 .. Top : Frame(n, mappers)

\* A frame's fields, for the lemmas on sequences
LEMMA FieldsAre ==
  ASSUME TypeInv, NEW n \in 1 .. Top
  PROVE  /\ frames[n].due \in Seq(Clients) /\ frames[n].l \in Seq(Clients) /\ frames[n].sent \in Seq(Clients)
         /\ frames[n].e \in Events /\ frames[n].trapped \in BOOLEAN
BY TypesAre DEF Frames, Vectors

\* A new posting is due to all who are subscribed by then, and who unsubscribes is
\* noted in the others.
LEMMA PostingDelivers ==
  ASSUME IndInv, TypeInv, TypeInv', DeliveryInv, Posting
  PROVE  DeliveryInv'
<1>0. PICK e \in Events : \E gone : Pushed(e, gone) /\ Announces(e, gone)
  BY DEF Posting
<1>1. PICK gone : Pushed(e, gone) /\ Announces(e, gone)
  BY <1>0
<1>2. PICK k \in Nat :
        /\ k = Top \/ (k = Top - 1 /\ postings = <<>>)
        /\ Top' = k + 1 /\ postings' = Append(postings, k + 1)
        /\ \A n \in 1 .. k :
             /\ frames'[n].e = frames[n].e /\ frames'[n].due = frames[n].due /\ frames'[n].l = frames[n].l
             /\ frames'[n].sent = frames[n].sent /\ frames'[n].trapped = frames[n].trapped
             /\ frames'[n].cut = frames[n].cut \cup gone
        /\ frames'[k + 1].e = e /\ ~frames'[k + 1].trapped
        /\ frames'[k + 1].l = getMapping(mappers'["listeners"], e)
        /\ frames'[k + 1].due = frames'[k + 1].l
        /\ frames'[k + 1].sent = <<>> /\ frames'[k + 1].cut = {}
  BY <1>1 DEF Pushed
<1>3. Top \in Nat /\ k \in 0 .. Top
  BY <1>2, TypesAre
<1>4. \A q \in 1 .. k + 1 : Queued(q)' <=> Queued(q) \/ q = k + 1
  BY <1>2, QueuedPushed
<1>5. \A f \in Events : \A x : x \notin gone /\ verifyMapping(mappers["listeners"], x, f)
                             => verifyMapping(mappers'["listeners"], x, f)
  BY <1>1, AnnouncedIs
<1>6. ASSUME NEW n \in 1 .. k PROVE Frame(n, mappers)'
  <2>1. n \in 1 .. Top /\ n \in 1 .. k + 1
    BY <1>3
  <2>2. Frame(n, mappers)
    BY <2>1 DEF DeliveryInv
  <2>3. Delivered(frames[n].due, frames[n].l, frames[n].sent, frames[n].cut \cup gone)
    BY <2>1, <2>2, FieldsAre, DeliveredCut DEF Frame
  <2>4. frames[n].e \in Events
    BY <2>1, FieldsAre
  <2> QED
    BY <1>2, <1>4, <1>5, <2>1, <2>2, <2>3, <2>4 DEF Frame
<1>7. Frame(k + 1, mappers)'
  <2> DEFINE l == getMapping(mappers'["listeners"], e)
  <2>1. mappers'["listeners"] \in Mappers
    BY DEF TypeInv, TypesOK
  <2>2. l \in Seq(Clients) /\ \A el : Holds(l, el) <=> verifyMapping(mappers'["listeners"], el, e)
    BY <2>1, GetMappingIs DEF Vectors
  <2> HIDE DEF l
  <2>3. Delivered(l, l, <<>>, {})
    BY <2>2, NoneDelivered
  <2> QED
    BY <1>2, <1>3, <1>4, <2>2, <2>3 DEF Frame, l
<1>8. \A n \in 1 .. k + 1 : n \in 1 .. k \/ n = k + 1
  BY <1>3
<1> QED
  BY <1>2, <1>6, <1>7, <1>8 DEF DeliveryInv

\* The next listener is sent the event, or has unsubscribed.
LEMMA SendingDelivers ==
  ASSUME IndInv, TypeInv, DeliveryInv, Sending
  PROVE  DeliveryInv'
<1>1. PICK p \in 1 .. Top :
        LET el == Head(frames[p].l)
            verified == verifyMapping(mappers["listeners"], el, frames[p].e)
        IN  /\ frames[Top].serving = p
            /\ el \in Clients /\ frames[p].l \in Seq(Clients) /\ frames[p].l # <<>>
            /\ Held(p, Tail(frames[p].l), IF verified THEN Append(frames[p].sent, el) ELSE frames[p].sent,
                    frames[p].trapped)
  BY DEF Sending
<1> DEFINE l == frames[p].l
           el == Head(l)
           verified == verifyMapping(mappers["listeners"], el, frames[p].e)
           sent == IF verified THEN Append(frames[p].sent, el) ELSE frames[p].sent
<1>2. mappers' = mappers /\ postings' = postings
  BY DEF Sending
<1>3. \A n \in 1 .. Top : Queued(n)' <=> Queued(n)
  BY <1>2 DEF Queued
<1>4. /\ Top' = Top
      /\ \A n \in 1 .. Top :
           /\ frames'[n].e = frames[n].e /\ frames'[n].due = frames[n].due /\ frames'[n].cut = frames[n].cut
           /\ frames'[n].l = IF n = p THEN Tail(l) ELSE frames[n].l
           /\ frames'[n].sent = IF n = p THEN sent ELSE frames[n].sent
           /\ frames'[n].trapped = frames[n].trapped
  BY <1>1 DEF Held
<1>5. l \in Seq(Clients) /\ l # <<>>
  BY <1>1
<1>6. \A x : Holds(l, x) <=> x = el \/ Holds(Tail(l), x)
  BY <1>5, TailHolds
<1>7. Frame(p, mappers)
  BY DEF DeliveryInv
<1>8. ~verified => el \in frames[p].cut
  BY <1>6, <1>7 DEF Frame
<1>9. Delivered(frames[p].due, Tail(l), sent, frames[p].cut)
  <2>1. Delivered(frames[p].due, l, frames[p].sent, frames[p].cut)
    BY <1>7 DEF Frame
  <2>2. frames[p].due \in Seq(Clients) /\ frames[p].sent \in Seq(Clients)
    BY FieldsAre
  <2>3. /\ Delivered(frames[p].due, Tail(l), Append(frames[p].sent, Head(l)), frames[p].cut)
        /\ Head(l) \in frames[p].cut => Delivered(frames[p].due, Tail(l), frames[p].sent, frames[p].cut)
    <3> HIDE DEF l
    <3> QED
      BY <1>5, <2>1, <2>2, DeliveredNext
  <2>4. CASE verified
    BY <2>3, <2>4, Zenon
  <2>5. CASE ~verified
    BY <2>3, <2>5, <1>8, Zenon
  <2> QED
    BY <2>4, <2>5
<1> HIDE DEF sent, verified, el
<1>10. Frame(p, mappers)'
  BY <1>2, <1>3, <1>4, <1>5, <1>6, <1>7, <1>9 DEF Frame
<1>11. ASSUME NEW n \in 1 .. Top, n # p PROVE Frame(n, mappers)'
  <2>1. Frame(n, mappers)
    BY DEF DeliveryInv
  <2> QED
    BY <1>2, <1>3, <1>4, <1>11, <2>1 DEF Frame
<1> QED
  BY <1>4, <1>10, <1>11 DEF DeliveryInv

\* The other steps leave what is delivered alone.
LEMMA OtherwiseDelivered ==
  ASSUME IndInv, TypeInv, DeliveryInv, Returned \/ Moving \/ Finishing \/ Trapping
  PROVE  DeliveryInv'
<1>1. ASSUME NEW n \in 1 .. Top PROVE Frame(n, mappers)
  BY DEF DeliveryInv
<1>2. CASE Returned
  <2>1. frames # <<>> /\ frames' = Front(frames) /\ mappers' = mappers /\ postings' = postings
    BY <1>2 DEF Returned
  <2>2. /\ Top - 1 \in Nat /\ Top' = Top - 1
        /\ \A n \in 1 .. Top - 1 :
             /\ frames'[n].e = frames[n].e /\ frames'[n].due = frames[n].due /\ frames'[n].l = frames[n].l
             /\ frames'[n].sent = frames[n].sent /\ frames'[n].trapped = frames[n].trapped
             /\ frames'[n].cut = frames[n].cut \cup {}
    BY <2>1, FrontKept DEF Kept, Top
  <2>3. \A n : Queued(n)' <=> Queued(n)
    BY <2>1 DEF Queued
  <2>4. ASSUME NEW n \in 1 .. Top - 1 PROVE Frame(n, mappers)'
    <3>1. n \in 1 .. Top /\ frames'[n].cut = frames[n].cut
      BY <2>2
    <3>2. Frame(n, mappers)
      BY <1>1, <3>1
    <3> QED
      BY <2>1, <2>2, <2>3, <3>1, <3>2 DEF Frame
  <2> QED
    BY <2>2, <2>4 DEF DeliveryInv
<1>3. CASE Moving \/ Finishing \/ Trapping
  <2>1. PICK p \in 1 .. Top, trapped \in BOOLEAN :
          /\ Held(p, frames[p].l, frames[p].sent, trapped)
          /\ trapped = frames[p].trapped \/ trapped = TRUE
          /\ \/ \A n : Queued(n)' <=> Queued(n)
             \/ /\ \A n : Queued(n)' <=> Queued(n) /\ n # p
                /\ frames[p].l = <<>> \/ trapped = TRUE
    <3>1. CASE Moving
      BY <3>1, FieldsAre DEF Moving, Queued
    <3>2. CASE Finishing
      BY <3>2, QueuedPopped, FieldsAre DEF Finishing
    <3>3. CASE Trapping
      BY <3>3, QueuedPopped DEF Trapping
    <3> QED
      BY <1>3, <3>1, <3>2, <3>3
  <2>2. mappers' = mappers
    BY <1>3 DEF Moving, Finishing, Trapping
  <2>3. /\ Top' = Top
        /\ \A n \in 1 .. Top :
             /\ frames'[n].e = frames[n].e /\ frames'[n].due = frames[n].due /\ frames'[n].cut = frames[n].cut
             /\ frames'[n].l = frames[n].l /\ frames'[n].sent = frames[n].sent
             /\ frames'[n].trapped = IF n = p THEN trapped ELSE frames[n].trapped
    BY <2>1 DEF Held
  <2>4. ASSUME NEW n \in 1 .. Top PROVE Frame(n, mappers)'
    <3>1. Frame(n, mappers)
      BY <1>1
    <3>2. Queued(n)' \/ frames'[n].trapped \/ frames'[n].l = <<>>
      BY <2>1, <2>3, <3>1 DEF Frame
    <3> QED
      BY <2>2, <2>3, <3>1, <3>2 DEF Frame
  <2> QED
    BY <2>3, <2>4 DEF DeliveryInv
<1> QED
  BY <1>2, <1>3

-----------------------------------------------------------------------------
(* The news *)

Truth(g) == Heard(hasListeners(mappers, <<g>>))

Known(g) == news[g] \in {Truth(g), "trapped"}

About(n, g) == Queued(n) /\ frames[n].e[1] = erouterEGID /\ frames[n].e[2] = g

Latest(n, g) == About(n, g) /\ \A m \in 1 .. Top : About(m, g) => m <= n

\* The last event about a generator that is on its way tells the truth, and has
\* yet to reach the Monitor unless it knows; so has every event about the
\* subscriptions that waits behind another.
NewsInv ==
  /\ Holds(mappers["listeners"].all[erouterEGID], Monitor)
  /\ \A g \in Generators, n \in 1 .. Top : Latest(n, g) =>
       /\ Heard(frames[n].e[3] # "deactivate") = Truth(g)
       /\ Holds(frames[n].l, Monitor) \/ Known(g)
  /\ \A g \in Generators : (\A n \in 1 .. Top : ~About(n, g)) => Known(g)
  /\ \A m, n \in 1 .. Top :
       Queued(m) /\ Queued(n) /\ m < n /\ frames[n].e[1] = erouterEGID => Holds(frames[n].l, Monitor)

\* At first, everything is known.
LEMMA StartingNews == Init => NewsInv
<1> SUFFICES ASSUME Init PROVE NewsInv
  OBVIOUS
<1>1. Holds(mappers["listeners"].all[erouterEGID], Monitor)
  BY InitialAssumption DEF Init
<1>2. Top = 0
  BY EmptySeq DEF Init, Top
<1>3. \A g \in Generators : Known(g)
  BY DEF Init, Known, Truth
<1>4. \A n \in 1 .. Top : FALSE
  BY <1>2
<1> QED
  BY <1>1, <1>3, <1>4 DEF NewsInv

\* A new posting has the last word on its generator.
LEMMA PostingTells ==
  ASSUME IndInv, TypeInv, TypeInv', NewsInv, TrueNews, Posting
  PROVE  NewsInv'
<1>0. PICK e \in Events : \E gone : Pushed(e, gone) /\ Announces(e, gone)
  BY DEF Posting
<1>1. PICK gone : Pushed(e, gone) /\ Announces(e, gone)
  BY <1>0
<1>2. PICK k \in Nat :
        /\ k = Top \/ (k = Top - 1 /\ postings = <<>>)
        /\ Top' = k + 1 /\ postings' = Append(postings, k + 1)
        /\ \A n \in 1 .. k : frames'[n].e = frames[n].e /\ frames'[n].l = frames[n].l
        /\ frames'[k + 1].e = e
        /\ frames'[k + 1].l = getMapping(mappers'["listeners"], e)
  BY <1>1 DEF Pushed
<1>3. /\ Top \in Nat /\ k \in 0 .. Top
      /\ \A n \in 1 .. k : n \in 1 .. Top /\ n \in 1 .. k + 1
      /\ \A n \in 1 .. k + 1 : n \in 1 .. k \/ n = k + 1
      /\ k + 1 \in 1 .. k + 1
  BY <1>2, TypesAre
<1>4. /\ \A q \in 1 .. k + 1 : Queued(q)' <=> Queued(q) \/ q = k + 1
      /\ \A q : Queued(q) => q \in 1 .. k
  BY <1>2, QueuedPushed
<1>5. \A n \in 1 .. k : \A g : About(n, g)' <=> About(n, g)
  <2> SUFFICES ASSUME NEW n \in 1 .. k, NEW g PROVE About(n, g)' <=> About(n, g)
    OBVIOUS
  <2>1. Queued(n)' <=> Queued(n)
    BY <1>3, <1>4
  <2> QED
    BY <2>1, <1>2 DEF About
<1>6. \A n, g : About(n, g) => n \in 1 .. k
  BY <1>4 DEF About
<1>7. \A g : About(k + 1, g)' <=> e[1] = erouterEGID /\ e[2] = g
  BY <1>2, <1>3, <1>4 DEF About
<1>8. news' = news
  BY DEF Posting
<1>9. /\ Holds(mappers'["listeners"].all[erouterEGID], Monitor)
      /\ \/ mappers' = mappers /\ e[1] # erouterEGID
         \/ /\ e[1] = erouterEGID
            /\ \A g \in Generators :
                 hasListeners(mappers', <<g>>) <=>
                   IF g = e[2] THEN e[3] # "deactivate" ELSE hasListeners(mappers, <<g>>)
  BY <1>1, AnnouncedIs DEF NewsInv, TrueNews
<1>10. e[1] = erouterEGID => Holds(frames'[k + 1].l, Monitor)
  <2> SUFFICES ASSUME e[1] = erouterEGID PROVE Holds(frames'[k + 1].l, Monitor)
    OBVIOUS
  <2>1. mappers'["listeners"] \in Mappers
    BY DEF TypeInv, TypesOK
  <2>2. verifyMapping(mappers'["listeners"], Monitor, e)
    BY <1>9 DEF verifyMapping
  <2> QED
    BY <1>2, <2>1, <2>2, GetMappingIs
\* Of the generators it is not about, nothing changes.
<1>11. ASSUME NEW g \in Generators, ~(e[1] = erouterEGID /\ e[2] = g)
       PROVE  /\ Truth(g)' = Truth(g) /\ (Known(g)' <=> Known(g))
              /\ \A n \in 1 .. k + 1 : Latest(n, g)' => Latest(n, g) /\ n \in 1 .. k
              /\ (\A n \in 1 .. k + 1 : ~About(n, g)') => \A n \in 1 .. Top : ~About(n, g)
  <2>1. hasListeners(mappers', <<g>>) <=> hasListeners(mappers, <<g>>)
    BY <1>9, <1>11
  <2>2. Truth(g)' = Truth(g)
    BY <2>1 DEF Truth, Heard
  <2>3. Known(g)' <=> Known(g)
    BY <1>8, <2>2 DEF Known
  <2>4. ASSUME NEW n \in 1 .. k + 1, Latest(n, g)' PROVE Latest(n, g) /\ n \in 1 .. k
    <3>1. About(n, g)' /\ \A m \in 1 .. k + 1 : About(m, g)' => m <= n
      BY <2>4, <1>2 DEF Latest
    <3>2. n \in 1 .. k
      BY <3>1, <1>3, <1>7, <1>11
    <3>3. About(n, g) /\ \A m \in 1 .. k : About(m, g) => m <= n
      BY <3>1, <3>2, <1>3, <1>5
    <3> QED
      BY <3>2, <3>3, <1>6 DEF Latest
  <2>5. (\A n \in 1 .. k + 1 : ~About(n, g)') => \A n \in 1 .. Top : ~About(n, g)
    BY <1>3, <1>5, <1>6
  <2> QED
    BY <2>2, <2>3, <2>4, <2>5
\* Of the one it is about, it is the latest.
<1>12. ASSUME NEW g \in Generators, e[1] = erouterEGID, e[2] = g
       PROVE  /\ About(k + 1, g)' /\ Heard(e[3] # "deactivate") = Truth(g)'
              /\ \A n \in 1 .. k + 1 : Latest(n, g)' => n = k + 1
  <2>1. About(k + 1, g)'
    BY <1>7, <1>12
  <2>2. Heard(e[3] # "deactivate") = Truth(g)'
    BY <1>9, <1>12 DEF Truth, Heard
  <2>3. ASSUME NEW n \in 1 .. k + 1, Latest(n, g)' PROVE n = k + 1
    <3>1. k + 1 <= n
      BY <2>1, <2>3, <1>2, <1>3 DEF Latest
    <3> QED
      BY <3>1, <1>3
  <2> QED
    BY <2>1, <2>2, <2>3
<1>13. ASSUME NEW g \in Generators, NEW n \in 1 .. k + 1, Latest(n, g)'
       PROVE  Heard(frames'[n].e[3] # "deactivate") = Truth(g)' /\ (Holds(frames'[n].l, Monitor) \/ Known(g)')
  <2>1. CASE e[1] = erouterEGID /\ e[2] = g
    BY <1>2, <1>10, <1>12, <1>13, <2>1
  <2>2. CASE ~(e[1] = erouterEGID /\ e[2] = g)
    <3>1. Latest(n, g) /\ n \in 1 .. k /\ n \in 1 .. Top
      BY <1>3, <1>11, <1>13, <2>2
    <3>2. Heard(frames[n].e[3] # "deactivate") = Truth(g) /\ (Holds(frames[n].l, Monitor) \/ Known(g))
      BY <3>1 DEF NewsInv
    <3> QED
      BY <1>2, <1>11, <2>2, <3>1, <3>2
  <2> QED
    BY <2>1, <2>2
<1>14. ASSUME NEW g \in Generators, \A n \in 1 .. k + 1 : ~About(n, g)' PROVE Known(g)'
  <2>1. ~(e[1] = erouterEGID /\ e[2] = g)
    BY <1>3, <1>7, <1>14
  <2> QED
    BY <1>11, <1>14, <2>1 DEF NewsInv
<1>15. ASSUME NEW m \in 1 .. k + 1, NEW n \in 1 .. k + 1, Queued(m)', Queued(n)', m < n,
              frames'[n].e[1] = erouterEGID
       PROVE  Holds(frames'[n].l, Monitor)
  <2>1. CASE n = k + 1
    BY <1>2, <1>10, <1>15, <2>1
  <2>2. CASE n \in 1 .. k
    <3>1. m \in 1 .. k
      BY <1>3, <1>15, <2>2
    <3>2. Queued(m) /\ Queued(n) /\ m \in 1 .. Top /\ n \in 1 .. Top
      BY <1>3, <1>4, <1>15, <2>2, <3>1
    <3> QED
      BY <1>2, <1>15, <2>2, <3>2 DEF NewsInv
  <2> QED
    BY <1>3, <2>1, <2>2
<1> QED
  BY <1>2, <1>9, <1>13, <1>14, <1>15 DEF NewsInv

\* What the steps of the dispatch have in common: nothing is queued, the postings
\* keep their events, and what was known of a generator is known still, or there
\* is more news of it to come.
LEMMA DispatchTells ==
  ASSUME TypeInv, NewsInv, mappers' = mappers, Top' \in 0 .. Top,
         \A n \in 1 .. Top' : frames'[n].e = frames[n].e,
         \A n : Queued(n)' => Queued(n) /\ n \in 1 .. Top',
         \A g \in Generators :
           \/ Known(g) => Known(g)'
           \/ \E m \in 1 .. Top : About(m, g) /\ ~Latest(m, g) /\ \A n : Queued(n) => m <= n,
         \* a posting that leaves the queue is the first, and then known
         \A m \in 1 .. Top, g \in Generators :
           About(m, g) /\ ~Queued(m)' =>
             /\ \A n : Queued(n) => m <= n
             /\ Latest(m, g) => Known(g)',
         \* the Monitor is taken off a posting only if it is the first, and then knows
         \A m \in 1 .. Top' :
           /\ frames[m].e[1] = erouterEGID
           /\ Holds(frames[m].l, Monitor) /\ ~Holds(frames'[m].l, Monitor)
           => /\ \A n : Queued(n) => m <= n
              /\ \A g \in Generators : Latest(m, g) => Known(g)'
  PROVE  NewsInv'
<1>1. /\ Top \in Nat /\ Top' \in Nat /\ \A n \in 1 .. Top' : n \in 1 .. Top
      /\ \A n \in 1 .. Top : frames[n].e \in Events
  BY TypesAre, FieldsAre
<1>2. \A g : Truth(g)' = Truth(g)
  BY DEF Truth
<1>3. \A n \in 1 .. Top' : \A g : About(n, g)' <=> About(n, g) /\ Queued(n)'
  BY DEF About
<1>4. ASSUME NEW g \in Generators, NEW n \in 1 .. Top', Latest(n, g)'
      PROVE  Latest(n, g)
  <2>1. About(n, g)' /\ \A m \in 1 .. Top' : About(m, g)' => m <= n
    BY <1>4 DEF Latest
  <2>2. About(n, g) /\ Queued(n)' /\ Queued(n)
    BY <2>1, <1>3
  <2>3. ASSUME NEW m \in 1 .. Top, About(m, g) PROVE m <= n
    <3>1. CASE Queued(m)'
      BY <3>1, <2>1, <2>3, <1>3
    <3>2. CASE ~Queued(m)'
      BY <3>2, <2>2, <2>3
    <3> QED
      BY <3>1, <3>2
  <2> QED
    BY <2>2, <2>3 DEF Latest
<1>5. ASSUME NEW g \in Generators, NEW n \in 1 .. Top', Latest(n, g)'
      PROVE  Heard(frames'[n].e[3] # "deactivate") = Truth(g)' /\ (Holds(frames'[n].l, Monitor) \/ Known(g)')
  <2>1. Latest(n, g) /\ n \in 1 .. Top /\ About(n, g) /\ Queued(n)'
    BY <1>1, <1>3, <1>4, <1>5 DEF Latest
  <2>2. Heard(frames[n].e[3] # "deactivate") = Truth(g) /\ (Holds(frames[n].l, Monitor) \/ Known(g))
    BY <2>1 DEF NewsInv
  <2>3. Holds(frames[n].l, Monitor) => Holds(frames'[n].l, Monitor) \/ Known(g)'
    BY <2>1 DEF About
  <2>4. CASE \E m \in 1 .. Top : About(m, g) /\ ~Latest(m, g) /\ \A i : Queued(i) => m <= i
    <3>1. PICK m \in 1 .. Top : About(m, g) /\ ~Latest(m, g) /\ \A i : Queued(i) => m <= i
      BY <2>4
    <3>2. m < n /\ Queued(m) /\ Queued(n)
      BY <2>1, <3>1 DEF About
    <3>3. Holds(frames[n].l, Monitor)
      BY <2>1, <3>2 DEF NewsInv, About
    <3> QED
      BY <1>2, <2>2, <2>3, <3>3
  <2> QED
    BY <1>2, <2>2, <2>3, <2>4
<1>6. ASSUME NEW g \in Generators, \A n \in 1 .. Top' : ~About(n, g)'
      PROVE  Known(g)'
  <2>1. CASE \A n \in 1 .. Top : ~About(n, g)
    <3>1. Known(g)
      BY <2>1 DEF NewsInv
    <3> QED
      BY <2>1, <3>1
  <2>2. ASSUME NEW m \in 1 .. Top, About(m, g) PROVE Known(g)'
    <3>1. \A n \in 1 .. Top : About(n, g) => ~Queued(n)'
      BY <1>3, <1>6
    <3>2. Latest(m, g)
      <4> SUFFICES ASSUME NEW n \in 1 .. Top, About(n, g) PROVE n <= m
        BY <2>2 DEF Latest
      <4> QED
        BY <2>2, <3>1 DEF About
    <3> QED
      BY <2>2, <3>1, <3>2
  <2> QED
    BY <2>1, <2>2
<1>7. ASSUME NEW m \in 1 .. Top', NEW n \in 1 .. Top', Queued(m)', Queued(n)', m < n,
             frames'[n].e[1] = erouterEGID
      PROVE  Holds(frames'[n].l, Monitor)
  <2>1. /\ m \in 1 .. Top /\ n \in 1 .. Top /\ Queued(m) /\ Queued(n)
        /\ frames[n].e[1] = erouterEGID /\ m \in Nat /\ n \in Nat
    BY <1>1, <1>7
  <2>2. Holds(frames[n].l, Monitor)
    BY <2>1, <1>7 DEF NewsInv
  <2> QED
    BY <2>1, <2>2, <1>7
<1> QED
  BY <1>4, <1>5, <1>6, <1>7 DEF NewsInv

\* An activation that returns leaves nothing queued.
LEMMA ReturnedTells ==
  ASSUME IndInv, TypeInv, NewsInv, Returned
  PROVE  NewsInv'
<1>1. /\ frames # <<>> /\ postings = <<>> /\ frames' = Front(frames)
      /\ mappers' = mappers /\ postings' = postings /\ news' = news
  BY DEF Returned
<1>2. Top - 1 \in Nat /\ Top' = Top - 1 /\ Top \in Nat
  BY <1>1, FrontKept, TypesAre DEF Kept, Top
<1>3. \A n : ~Queued(n) /\ ~Queued(n)'
  BY <1>1, EmptySeq DEF Queued
<1>4. \A g \in Generators : Known(g)'
  BY <1>1, <1>3 DEF NewsInv, Known, Truth, About
<1> QED
  BY <1>1, <1>3, <1>4 DEF NewsInv, Latest, About

\* What the other steps do to news
LEMMA MovingTells ==
  ASSUME IndInv, TypeInv, NewsInv, Moving \/ Finishing \/ Trapping
  PROVE  NewsInv'
<1>1. PICK p \in 1 .. Top, trapped \in BOOLEAN :
        /\ Held(p, frames[p].l, frames[p].sent, trapped)
        /\ \/ (\A n : Queued(n)' <=> Queued(n)) /\ news' = news
           \/ /\ frames[Top].serving = p /\ \A n : Queued(n)' <=> Queued(n) /\ n # p
              /\ \/ frames[p].l = <<>> /\ news' = news
                 \/ news' = Told(frames[p].e, "trapped")
  <2>1. CASE Moving
    BY <2>1, FieldsAre DEF Moving, Queued
  <2>2. CASE Finishing
    BY <2>2, QueuedPopped, FieldsAre DEF Finishing
  <2>3. CASE Trapping
    BY <2>3, QueuedPopped DEF Trapping
  <2> QED
    BY <2>1, <2>2, <2>3
<1>2. mappers' = mappers
  BY DEF Moving, Finishing, Trapping
<1>3. /\ Top' = Top /\ Top \in Nat
      /\ \A n \in 1 .. Top : frames'[n].e = frames[n].e /\ frames'[n].l = frames[n].l
  BY <1>1, TypesAre DEF Held
<1>4. \A n : Queued(n) => n \in 1 .. Top
  BY TypesAre, ElementOfSeq DEF Queued
<1>5. \A g \in Generators : Known(g) => Known(g)'
  <2>1. news' = news \/ news' = Told(frames[p].e, "trapped")
    BY <1>1
  <2>2. ASSUME NEW g \in Generators PROVE news'[g] = news[g] \/ news'[g] = "trapped"
    <3>1. CASE news' = Told(frames[p].e, "trapped")
      BY <3>1, ToldIs
    <3> QED
      BY <2>1, <3>1
  <2> QED
    BY <2>2, <1>2 DEF Known, Truth
<1>6. ASSUME NEW m \in 1 .. Top, NEW g \in Generators, About(m, g), ~Queued(m)'
      PROVE  /\ \A n : Queued(n) => m <= n
             /\ Latest(m, g) => Known(g)'
  <2>1. m = p /\ frames[Top].serving = p /\ Queued(p)
    BY <1>1, <1>6 DEF About
  <2>2. \A n : Queued(n) => m <= n
    BY <2>1, <1>3, ServedFirst
  <2>3. CASE frames[p].l = <<>> /\ news' = news
    <3>1. ~Holds(frames[m].l, Monitor)
      BY <2>1, <2>3, EmptySeq DEF Holds
    <3> QED
      BY <2>2, <3>1, <1>5 DEF NewsInv
  <2>4. CASE news' = Told(frames[p].e, "trapped")
    <3>1. Known(g)'
      BY <2>1, <2>4, <1>6, ToldIs DEF Known, About
    <3> QED
      BY <2>2, <3>1
  <2> QED
    BY <1>1, <1>6, <2>1, <2>3, <2>4 DEF About
<1> QED
  BY <1>1, <1>2, <1>3, <1>4, <1>5, <1>6, DispatchTells

\* A posting that was not trapped tells the Monitor what it says.
LEMMA SendingTells ==
  ASSUME IndInv, TypeInv, DeliveryInv, NewsInv, Sending
  PROVE  NewsInv'
<1>1. PICK p \in 1 .. Top :
        LET el == Head(frames[p].l)
            verified == verifyMapping(mappers["listeners"], el, frames[p].e)
        IN  /\ frames[Top].serving = p
            /\ el \in Clients /\ frames[p].l \in Seq(Clients) /\ frames[p].l # <<>>
            /\ Held(p, Tail(frames[p].l), IF verified THEN Append(frames[p].sent, el) ELSE frames[p].sent,
                    frames[p].trapped)
            /\ news' = IF verified /\ el = Monitor
                         THEN Told(frames[p].e, IF frames[p].trapped THEN "trapped"
                                                ELSE Heard(frames[p].e[3] # "deactivate"))
                         ELSE news
  BY DEF Sending
<1> DEFINE l == frames[p].l
           el == Head(l)
           verified == verifyMapping(mappers["listeners"], el, frames[p].e)
           what == IF frames[p].trapped THEN "trapped" ELSE Heard(frames[p].e[3] # "deactivate")
<1>2. mappers' = mappers /\ postings' = postings
  BY DEF Sending
<1>3. \A n : Queued(n)' <=> Queued(n)
  BY <1>2 DEF Queued
<1>4. /\ Top' = Top /\ Top \in Nat /\ Top > 0
      /\ \A n \in 1 .. Top :
           /\ frames'[n].e = frames[n].e
           /\ frames'[n].l = IF n = p THEN Tail(l) ELSE frames[n].l
  BY <1>1, TypesAre DEF Held
<1>5. \A x : Holds(l, x) <=> x = el \/ Holds(Tail(l), x)
  BY <1>1, TailHolds
<1>6. news' = IF verified /\ el = Monitor THEN Told(frames[p].e, what) ELSE news
  BY <1>1
<1>7. \A n : Queued(n) => n \in 1 .. Top
  BY TypesAre, ElementOfSeq DEF Queued
<1>8. \A n : Queued(n) => p <= n /\ Queued(p)
  BY <1>1, <1>4, ServedFirst
<1>9. ~frames[p].trapped => Queued(p)
  BY <1>1 DEF DeliveryInv, Frame
<1>10. el = Monitor /\ frames[p].e[1] = erouterEGID => verified
  BY DEF NewsInv, verifyMapping
<1>11. what \in {"wanted", "unwanted", "trapped"}
  BY DEF Heard
<1> HIDE DEF verified, el, l
<1>12. ASSUME NEW g \in Generators, verified, el = Monitor, frames[p].e[1] = erouterEGID, frames[p].e[2] = g
       PROVE  Latest(p, g) \/ frames[p].trapped => Known(g)'
  <2>1. news'[g] = what
    BY <1>6, <1>11, <1>12, ToldIs
  <2>2. Latest(p, g) => Heard(frames[p].e[3] # "deactivate") = Truth(g)
    BY DEF NewsInv
  <2> QED
    BY <2>1, <2>2, <1>2 DEF Known, Truth
<1>13. ASSUME NEW g \in Generators, ~(verified /\ el = Monitor /\ frames[p].e[1] = erouterEGID /\ frames[p].e[2] = g)
       PROVE  Known(g)' <=> Known(g)
  <2>1. news'[g] = news[g]
    BY <1>6, <1>11, <1>13, ToldIs
  <2> QED
    BY <2>1, <1>2 DEF Known, Truth
<1>14. ASSUME NEW g \in Generators, ~(Known(g) => Known(g)')
       PROVE  \E m \in 1 .. Top : About(m, g) /\ ~Latest(m, g) /\ \A n : Queued(n) => m <= n
  <2>1. verified /\ el = Monitor /\ frames[p].e[1] = erouterEGID /\ frames[p].e[2] = g
    BY <1>13, <1>14
  <2>2. ~Latest(p, g) /\ ~frames[p].trapped
    BY <1>12, <1>14, <2>1
  <2>3. About(p, g)
    BY <1>9, <2>1, <2>2 DEF About
  <2> QED
    BY <1>8, <2>2, <2>3
<1>15. ASSUME NEW m \in 1 .. Top, frames[m].e[1] = erouterEGID,
              Holds(frames[m].l, Monitor), ~Holds(frames'[m].l, Monitor)
       PROVE  /\ \A n : Queued(n) => m <= n
              /\ \A g \in Generators : Latest(m, g) => Known(g)'
  <2>1. m = p /\ el = Monitor /\ verified
    BY <1>4, <1>5, <1>10, <1>15 DEF l
  <2>2. \A g \in Generators : Latest(m, g) => Known(g)'
    BY <1>12, <1>15, <2>1 DEF Latest, About
  <2> QED
    BY <1>8, <2>1, <2>2
<1>16. \A m \in 1 .. Top, g \in Generators : About(m, g) => Queued(m)'
  BY <1>3 DEF About
<1> QED
  BY <1>2, <1>3, <1>4, <1>7, <1>14, <1>15, <1>16, DispatchTells

-----------------------------------------------------------------------------
(* The theorems *)

\* The types hold with the invariant of the queue,
LEMMA Typing == Spec => [](IndInv /\ TypeInv)
<1>1. IndInv /\ TypeInv /\ [Next]_vars => IndInv' /\ TypeInv'
  <2> SUFFICES ASSUME IndInv, TypeInv, [Next]_vars PROVE IndInv' /\ TypeInv'
    OBVIOUS
  <2>1. IndInv'
    BY Stepping
  <2>2. CASE Next
    BY <2>1, <2>2, StepIs
  <2>3. CASE UNCHANGED vars
    BY <2>1, <2>3 DEF vars, TypeInv, TypesOK, Top
  <2> QED
    BY <2>2, <2>3
<1> QED
  BY InitiallyHolds, StartingTypes, <1>1, PTL DEF Spec

\* and nobody but a loop has anything left to do.
LEMMA Looping == Spec => []LoopsInv
<1>1. Init => LoopsInv
  BY DEF Init, LoopsInv, Top
<1>2. ASSUME IndInv, TypeInv, LoopsInv, [Next]_vars PROVE LoopsInv'
  <2>1. CASE Next
    BY <1>2, <2>1, StepIs, LoopsStay
  <2>2. CASE UNCHANGED vars
    BY <1>2, <2>2 DEF vars, LoopsInv, Top
  <2> QED
    BY <1>2, <2>1, <2>2
<1> QED
  BY Typing, <1>1, <1>2, PTL DEF Spec

\* So nobody is lost,
LEMMA Delivering == Spec => []DeliveryInv
<1>1. Init => DeliveryInv
  <2> SUFFICES ASSUME Init PROVE DeliveryInv
    OBVIOUS
  <2>1. Top = 0
    BY EmptySeq DEF Init, Top
  <2>2. \A n \in 1 .. Top : FALSE
    BY <2>1
  <2> QED
    BY <2>2 DEF DeliveryInv
<1>2. ASSUME IndInv, TypeInv, TypeInv', DeliveryInv, [Next]_vars PROVE DeliveryInv'
  <2>1. CASE Next
    BY <1>2, <2>1, StepIs, PostingDelivers, SendingDelivers, OtherwiseDelivered
  <2>2. CASE UNCHANGED vars
    BY <1>2, <2>2 DEF vars, DeliveryInv, Frame, Queued, Top
  <2> QED
    BY <1>2, <2>1, <2>2
<1> QED
  BY Typing, <1>1, <1>2, PTL DEF Spec

\* and the news is true.
LEMMA Telling ==
  ASSUME TrueNews
  PROVE  Spec => []NewsInv
<1>1. ASSUME IndInv, TypeInv, TypeInv', DeliveryInv, NewsInv, [Next]_vars PROVE NewsInv'
  <2>1. CASE Next
    BY <1>1, <2>1, StepIs, PostingTells, SendingTells, ReturnedTells, MovingTells
  <2>2. CASE UNCHANGED vars
    BY <1>1, <2>2 DEF vars, NewsInv, Latest, About, Known, Truth, Queued, Top
  <2> QED
    BY <1>1, <2>1, <2>2
<1> QED
  BY Typing, Delivering, StartingNews, <1>1, PTL DEF Spec

\* The queue of postings is sound (EventRouter.cc:483-499), and all the router
\* keeps has its type, however the posts nest.
THEOREM QueueStaysSound == Spec => []QueueIsSound
<1>1. TypeInv /\ LoopsInv => TypeOK
  <2> SUFFICES ASSUME TypeInv, LoopsInv PROVE TypeOK
    OBVIOUS
  <2>1. Loops \subseteq Continuations
    BY ClientsAssumption DEF Loops, Continuations, Subscribers
  <2>2. \A n \in 1 .. Top : frames[n] \in Frames(Continuations)
    BY <2>1, TypesAre DEF Frames, LoopsInv
  <2>3. frames \in Seq(Frames(Continuations))
    <3>1. Top \in Nat /\ DOMAIN frames = 1 .. Top /\ frames = [n \in DOMAIN frames |-> frames[n]]
      BY TypesAre
    <3> QED
      BY <3>1, <2>2, StackIs
  <2> QED
    BY <2>3 DEF TypeInv, TypeOK, TypesOK
<1> QED
  BY Typing, Looping, QueueHolds, <1>1, PTL DEF QueueIsSound

\* What the queries say of the subscriptions is what dispatch would do
\* (EventRouter.h:211, 229-236, 460-472), whatever was added and removed.
THEOREM QueriesStayRight == Spec => []QueriesAgree
<1>1. TypeInv => QueriesAgree
  BY QueriesTell DEF TypeInv, TypesOK, MapperPair
<1> QED
  BY Typing, <1>1, PTL

\* An activation that returns has delivered its event.
LEMMA AllAreReached ==
  ASSUME TypeInv, DeliveryInv
  PROVE  DeliveredToAll
<1> SUFFICES ASSUME NEW n \in 1 .. Top, Returning(n), ~frames[n].trapped
             PROVE  Without(frames[n].sent, frames[n].cut) = Without(frames[n].due, frames[n].cut)
  BY DEF DeliveredToAll
<1>1. ~Queued(n)
  BY EmptySeq DEF Queued, Returning
<1>2. Delivered(frames[n].due, <<>>, frames[n].sent, frames[n].cut)
  BY <1>1 DEF DeliveryInv, Frame
<1>3. frames[n].due \in Seq(Clients)
  BY FieldsAre
<1> QED
  BY <1>2, <1>3, AllDelivered

\* Whoever is added to those that a posting was sent to is added by the loop on top.
LEMMA SentBySending ==
  ASSUME IndInv, TypeInv, [Next]_vars, NEW n \in 1 .. Top, NEW el,
         Top' = Top, frames'[n].sent = Append(frames[n].sent, el)
  PROVE  /\ frames[Top].serving = n /\ frames[n].l # <<>>
         /\ verifyMapping(mappers["listeners"], el, frames[n].e)
<1>0. /\ Top \in Nat /\ frames[n].sent \in Seq(Clients) /\ Len(frames[n].sent) \in Nat
      /\ \A s \in Seq(Clients) : \A x : Len(Append(s, x)) = Len(s) + 1
                                         /\ Append(s, x)[Len(s) + 1] = x
  <2>1. Top \in Nat /\ frames[n].sent \in Seq(Clients)
    BY TypesAre, FieldsAre
  <2>2. Len(frames[n].sent) \in Nat
    BY <2>1, LenProperties
  <2>3. \A s \in Seq(Clients) : \A x : Len(Append(s, x)) = Len(s) + 1 /\ Append(s, x)[Len(s) + 1] = x
    <3> TAKE s \in Seq(Clients)
    <3> TAKE x
    <3> QED
      OBVIOUS
  <2> QED
    BY <2>1, <2>2, <2>3
<1>1. frames'[n].sent # frames[n].sent /\ frames'[n].sent # <<>>
  <2>1. Len(frames'[n].sent) = Len(frames[n].sent) + 1
    BY <1>0
  <2>2. Len(<<>>) = 0
    OBVIOUS
  <2> QED
    BY <1>0, <2>1, <2>2
<1>2. CASE UNCHANGED vars
  BY <1>1, <1>2 DEF vars
<1>3. CASE Posting
  <2>1. PICK k \in Nat :
          /\ k = Top \/ k = Top - 1
          /\ Top' = k + 1 /\ \A m \in 1 .. k : frames'[m].sent = frames[m].sent
          /\ frames'[k + 1].sent = <<>>
    BY <1>3 DEF Posting, Pushed
  <2>2. n \in 1 .. k \/ n = k + 1
    BY <1>0, <2>1
  <2> QED
    BY <1>1, <2>1, <2>2
<1>4. CASE Returned
  <2>1. Top' = Top - 1
    BY <1>4, FrontKept DEF Returned, Kept, Top
  <2> QED
    BY <1>0, <2>1
<1>5. CASE Moving \/ Finishing \/ Trapping
  <2>1. frames'[n].sent = frames[n].sent
    BY <1>5 DEF Moving, Finishing, Trapping, Held
  <2> QED
    BY <1>1, <2>1
<1>6. CASE Sending
  <2>1. PICK p \in 1 .. Top :
          LET x == Head(frames[p].l)
              verified == verifyMapping(mappers["listeners"], x, frames[p].e)
          IN  /\ frames[Top].serving = p /\ frames[p].l # <<>>
              /\ \A m \in 1 .. Top :
                   frames'[m].sent = IF m = p
                                       THEN IF verified THEN Append(frames[p].sent, x) ELSE frames[p].sent
                                       ELSE frames[m].sent
    BY <1>6 DEF Sending, Held
  <2> DEFINE x == Head(frames[p].l)
             verified == verifyMapping(mappers["listeners"], x, frames[p].e)
  <2>2. n = p /\ verified /\ frames'[n].sent = Append(frames[n].sent, x)
    BY <1>1, <2>1
  <2> HIDE DEF x
  <2>3. x = el
    BY <1>0, <2>2
  <2> QED
    BY <2>1, <2>2, <2>3
<1> QED
  BY <1>2, <1>3, <1>4, <1>5, <1>6, StepIs

\* Listeners are given events in the order in which they were posted
\* (EventRouter.h:511), but for an event whose own trapper called the router, and none
\* that they have unsubscribed from since it was posted (EventRouter.cc:531).
THEOREM OrderHolds == Spec => DeliveredInOrder
<1> DEFINE Given(n, el) ==
             Top' = Top /\ frames'[n].sent = Append(frames[n].sent, el) =>
               /\ latest[el] <= frames[n].id \/ frames[n].reentered
               /\ Holds(getMapping(mappers["listeners"], frames[n].e), el)
<1>1. ASSUME IndInv, TypeInv, [Next]_vars, NEW n \in 1 .. Top, NEW el \in Listeners PROVE Given(n, el)
  <2> SUFFICES ASSUME Top' = Top, frames'[n].sent = Append(frames[n].sent, el)
               PROVE  /\ latest[el] <= frames[n].id \/ frames[n].reentered
                      /\ Holds(getMapping(mappers["listeners"], frames[n].e), el)
    OBVIOUS
  <2>1. /\ frames[Top].serving = n /\ frames[n].l # <<>>
        /\ verifyMapping(mappers["listeners"], el, frames[n].e)
    BY <1>1, SentBySending
  <2>2. Holds(getMapping(mappers["listeners"], frames[n].e), el)
    <3>1. frames[n].e \in Events /\ mappers["listeners"] \in Mappers
      BY <1>1, FieldsAre DEF TypeInv, TypesOK
    <3> QED
      BY <2>1, <3>1, GetMappingIs
  <2>3. Queued(n) \/ frames[n].reentered
    <3>1. Top \in 1 .. Top
      BY <1>1, TypesAre
    <3> QED
      BY <1>1, <2>1, <3>1 DEF IndInv, OrderInv
  <2>4. Queued(n) => latest[el] <= frames[n].id
    BY <1>1 DEF IndInv, OrderInv
  <2> QED
    BY <2>2, <2>3, <2>4
<1>2. IndInv /\ TypeInv /\ [Next]_vars => [\A n \in 1 .. Top, el \in Listeners : Given(n, el)]_vars
  BY <1>1
<1> QED
  BY Typing, <1>2, PTL DEF Spec, DeliveredInOrder

\* When postEvent() returns, an event that was not trapped has gone to all the
\* listeners due, in their order, but for those who have unsubscribed meanwhile
\* (EventRouter.h:447-451), however the postings nested.
THEOREM EventsReachAll == Spec => []DeliveredToAll
BY Typing, Delivering, AllAreReached, PTL

\* When all is dealt with, what the Monitor was last told of a generator is true
\* (EventRouter.h:230-232) or was trapped, if the router alone posts such news.
THEOREM NewsStaysTrue ==
  ASSUME TrueNews
  PROVE  Spec => []NewsIsTrue
<1>1. ASSUME NewsInv PROVE NewsIsTrue
  <2> SUFFICES ASSUME frames = <<>>, NEW g \in Generators
               PROVE  news[g] \in {Heard(hasListeners(mappers, <<g>>)), "trapped"}
    BY DEF NewsIsTrue
  <2>1. Top = 0
    BY EmptySeq DEF Top
  <2>2. \A n \in 1 .. Top : ~About(n, g)
    BY <2>1
  <2> QED
    BY <1>1, <2>2 DEF NewsInv, Known, Truth
<1> QED
  BY Telling, <1>1, PTL

-----------------------------------------------------------------------------
(* Generators (EventGenerator): their steps, as the router sees them *)

\* What a generator calls from: the first k frames, or all of them
Base(stack, k) ==
  /\ k \in Nat
  /\ k = Top \/ (k = Top - 1 /\ postings = <<>>)
  /\ k = Top /\ k > 0 => frames[k].in # "router"
  /\ Carried(stack, k) /\ Kept(stack, k, {})
  /\ \A n \in 1 .. k : n # Top => stack[n].client = frames[n].client

\* Nothing but the calls are counted.
Resting == frames' = frames /\ UNCHANGED <<mappers, postings, news>>

\* A step is of a kind that the router's invariants know.
Usual == Posting \/ Returned \/ Moving \/ Finishing \/ Trapping \/ Sending \/ Resting

Quiet == calls' \in 0 .. MaxCalls /\ latest' = latest /\ news' = news

\* A stack that is marked or has returned from its handler is as good as the old one.
LEMMA CarriedStays ==
  ASSUME IndInv, Carried(frames', Top), postings' = postings, posted' = posted, latest' = latest
  PROVE  IndInv'
<1>1. Top \in Nat /\ Top' = Top /\ IsSeq(frames')
  BY Lengths DEF Carried, Top
<1>2. \A n \in 1 .. Top :
       /\ DOMAIN frames'[n] = Fields
       /\ frames'[n].t = frames[n].t /\ frames'[n].l = frames[n].l
       /\ frames'[n].serving = frames[n].serving /\ frames'[n].in = frames[n].in
       /\ frames'[n].id = frames[n].id /\ frames'[n].sent = frames[n].sent
       /\ frames'[n].trapped = frames[n].trapped
       /\ frames'[n].reentered \in BOOLEAN
       /\ frames[n].reentered => frames'[n].reentered
  BY DEF Carried
<1>3. \A n \in 1 .. Top : frames[Top].in = "trapper" /\ frames[Top].serving = n => frames'[n].reentered
  BY DEF Carried
<1>4. \A n \in 1 .. Top : IsFrame(n)
  BY DEF IndInv, ShapeInv
<1>5. \A n \in 1 .. Top : frames[n].in # "router" => frames[n].serving \in 1 .. Top
  BY <1>1, <1>4 DEF IsFrame
<1>6. \A q : Queued(q)' <=> Queued(q)
  BY DEF Queued
<1>7. ShapeInv'
  <2>1. \A n \in 1 .. Top : IsFrame(n)'
    BY <1>2, <1>4 DEF IsFrame
  <2> QED
    BY <1>1, <2>1 DEF IndInv, ShapeInv
<1>8. QueueInv'
  BY <1>1, <1>2 DEF IndInv, QueueInv
<1>9. StackInv'
  BY <1>1, <1>2, <1>5 DEF IndInv, StackInv
<1>10. TrapInv'
  <2>1. \A q \in 1 .. Top : frames'[q].sent # <<>> => frames'[q].t = <<>>
    BY <1>2 DEF IndInv, TrapInv
  <2>2. \A k \in 1 .. Top : frames'[k].in = "listener" => frames'[frames'[k].serving].t = <<>>
    BY <1>2, <1>5 DEF IndInv, TrapInv
  <2>3. \A q \in 1 .. Top : Top > 0 /\ frames'[Top].in = "trapper" /\ q = frames'[Top].serving =>
          frames'[q].reentered
    BY <1>1, <1>2, <1>3
  <2>4. \A q \in 1 .. Top : frames'[q].trapped /\ ~frames'[q].reentered =>
          frames'[q].sent = <<>> /\ ~Queued(q)' /\ \A k \in 1 .. Top : frames'[k].serving # q
    BY <1>2, <1>6 DEF IndInv, TrapInv
  <2> QED
    BY <1>1, <2>1, <2>2, <2>3, <2>4 DEF TrapInv
<1>11. OrderInv'
  BY <1>1, <1>2, <1>6 DEF IndInv, OrderInv
<1> QED
  BY <1>7, <1>8, <1>9, <1>10, <1>11 DEF IndInv

\* A handler that calls,
LEMMA CallingBase ==
  ASSUME IndInv, TypeInv, InProgram
  PROVE  /\ Base(Calling, Top)
         /\ \A n \in 1 .. Top : Calling[n].client = frames[n].client
<1>1. Carried(Calling, Top) /\ (Top > 0 => frames[Top].in # "router") /\ Kept(Calling, Top, {})
  BY CallingCarried, CallingKept
<1>2. Top \in Nat /\ DOMAIN frames = 1 .. Top /\ \A n \in 1 .. Top : DOMAIN frames[n] = Fields
  BY FramesAreRecords
<1>3. \A n \in 1 .. Top : Calling[n].client = frames[n].client
  <2>1. CASE frames # <<>> /\ frames[Top].in = "trapper"
    <3> DEFINE p == frames[Top].serving
    <3>1. Calling = [frames EXCEPT ![p].reentered = TRUE]
      BY <2>1 DEF Calling
    <3> HIDE DEF p
    <3>2. \A n \in 1 .. Top : Calling[n] = IF n = p THEN [frames[p] EXCEPT !.reentered = TRUE] ELSE frames[n]
      BY <3>1, <1>2
    <3> QED
      BY <3>2, <1>2 DEF Fields
  <2>2. CASE ~(frames # <<>> /\ frames[Top].in = "trapper")
    BY <2>2 DEF Calling
  <2> QED
    BY <2>1, <2>2
<1> QED
  BY <1>1, <1>2, <1>3 DEF Base

\* a call that returns,
LEMMA FrontBase ==
  ASSUME IndInv, TypeInv, frames # <<>>, postings = <<>>
  PROVE  /\ Base(Front(frames), Top - 1)
         /\ \A n \in 1 .. Top - 1 : n \in 1 .. Top /\ Front(frames)[n] = frames[n]
<1>1. /\ Carried(Front(frames), Top - 1) /\ Kept(Front(frames), Top - 1, {}) /\ Top - 1 \in Nat
  BY FrontCarried, FrontKept
<1>2. \A n \in 1 .. Top - 1 : n \in 1 .. Top /\ Front(frames)[n] = frames[n]
  BY <1>1, FrontIsSeq, Lengths DEF IndInv, ShapeInv, Top
<1>3. Top \in Nat
  BY Lengths
<1> QED
  BY <1>1, <1>2, <1>3 DEF Base

\* and a generator that is done but for what it posts
Handled == [frames EXCEPT ![Top].client = NoClient]

LEMMA HandledBase ==
  ASSUME IndInv, TypeInv, frames # <<>>, frames[Top].in = "listener"
  PROVE  /\ Base(Handled, Top)
         /\ Top > 0 /\ Handled[Top].client = NoClient
<1>1. Top \in Nat /\ Top > 0 /\ Top \in 1 .. Top /\ DOMAIN frames = 1 .. Top
  BY Lengths
<1> DEFINE b == [frames[Top] EXCEPT !.client = NoClient]
<1>2. /\ Handled = [frames EXCEPT ![Top] = b]
      /\ Handled = [n \in DOMAIN frames |-> Handled[n]]
  BY DEF Handled
<1>3. DOMAIN frames[Top] = Fields /\ frames[Top] \in Frames(Pending)
  BY <1>1, FramesAreRecords, TypesAre
<1>4. /\ b \in Frames(Pending) /\ DOMAIN b = Fields /\ b.client = NoClient
      /\ b.e = frames[Top].e /\ b.due = frames[Top].due /\ b.cut = frames[Top].cut
      /\ b.then = frames[Top].then /\ b.reentered = frames[Top].reentered
      /\ b.t = frames[Top].t /\ b.l = frames[Top].l
      /\ b.serving = frames[Top].serving /\ b.in = frames[Top].in
      /\ b.id = frames[Top].id /\ b.sent = frames[Top].sent
      /\ b.trapped = frames[Top].trapped
  BY <1>3 DEF Frames, Fields
<1> HIDE DEF b
<1>5. \A n \in 1 .. Top : Handled[n] = IF n = Top THEN b ELSE frames[n]
  BY <1>1, <1>2
<1>6. IsSeq(Handled) /\ Len(Handled) = Top
  BY <1>2, FramesAreRecords, UpdateIsSeq
<1>7. \A n \in 1 .. Top : DOMAIN frames[n] = Fields /\ frames[n].reentered \in BOOLEAN /\ frames[n] \in Frames(Pending)
  BY TypesAre DEF IndInv, ShapeInv, IsFrame
<1>8. Carried(Handled, Top)
  BY <1>4, <1>5, <1>6, <1>7 DEF Carried
<1>9. Handled \in Seq(Frames(Pending))
  <2>1. DOMAIN Handled = 1 .. Top /\ Handled = [n \in DOMAIN Handled |-> Handled[n]]
    BY <1>1, <1>2
  <2>2. \A n \in 1 .. Top : Handled[n] \in Frames(Pending)
    BY <1>4, <1>5, <1>7
  <2> QED
    BY <1>1, <2>1, <2>2, StackIs
<1>10. Kept(Handled, Top, {})
  BY <1>4, <1>5, <1>6, <1>9 DEF Kept
<1> QED
  BY <1>1, <1>4, <1>5, <1>8, <1>10 DEF Base

\* From there, a subscription is added or removed,
LEMMA BasePosts ==
  ASSUME IndInv, TypeInv, NEW k, NEW stack, Base(stack, k), Quiet,
         NEW el \in Subscribers, NEW pattern \in Patterns, NEW then \in Pending,
         AddOne(stack, el, pattern, then) \/ RemoveOne(stack, el, pattern, then)
  PROVE  IndInv' /\ TypeInv' /\ Posting /\ frames'[Top'].then = then
<1>1. k \in Nat /\ (k = Top \/ (k = Top - 1 /\ postings = <<>>)) /\ (k = Top /\ k > 0 => frames[k].in # "router")
      /\ Carried(stack, k) /\ Kept(stack, k, {})
  BY DEF Base
<1>2. calls' \in 0 .. MaxCalls /\ latest' = latest /\ news' = news
  BY DEF Quiet
<1>3. IndInv'
  BY <1>1, <1>2, OnePreserves
<1> QED
  BY <1>1, <1>2, <1>3, OneIs

\* or nothing more happens: it goes on in the same call,
LEMMA BaseStays ==
  ASSUME IndInv, TypeInv, NEW stack, Base(stack, Top), Quiet, Unmoved(stack)
  PROVE  IndInv' /\ TypeInv' /\ (Moving \/ Resting)
<1>1. /\ Top \in Nat /\ Carried(stack, Top) /\ Kept(stack, Top, {})
      /\ \A n \in 1 .. Top : n # Top => stack[n].client = frames[n].client
  BY DEF Base
<1>2. /\ frames' = stack /\ mappers' = mappers /\ postings' = postings /\ posted' = posted
      /\ calls' \in 0 .. MaxCalls /\ latest' = latest /\ news' = news
  BY DEF Quiet, Unmoved
<1>3. IndInv'
  BY <1>1, <1>2, CarriedStays
<1>4. frames' \in Seq(Frames(Pending)) /\ Top' = Top
  BY <1>1, <1>2 DEF Kept, Top
<1>5. TypeInv'
  BY <1>2, <1>4 DEF TypeInv, TypesOK
<1>6. CASE Top = 0
  <2>1. frames = <<>> /\ stack = <<>>
    BY <1>1, <1>4, <1>6, <1>2, TypesAre, EmptySeq DEF Kept
  <2> QED
    BY <1>2, <1>3, <1>5, <2>1 DEF Resting
<1>7. CASE Top # 0
  <2>1. \A n \in 1 .. Top : frames[n].cut \cup {} = frames[n].cut
    OBVIOUS
  <2>2. Held(Top, frames[Top].l, frames[Top].sent, frames[Top].trapped)
    BY <1>1, <1>2, <1>4, <2>1 DEF Held, Kept
  <2>3. Top \in 1 .. Top
    BY <1>1, <1>7
  <2> QED
    BY <1>2, <1>3, <1>5, <2>2, <2>3 DEF Moving
<1> QED
  BY <1>6, <1>7

\* or returns.
LEMMA PoppedIs ==
  ASSUME IndInv, TypeInv, frames # <<>>, postings = <<>>, Quiet, Unmoved(Front(frames))
  PROVE  IndInv' /\ TypeInv' /\ Returned
<1>1. /\ frames' = Front(frames) /\ mappers' = mappers /\ postings' = postings /\ posted' = posted
      /\ calls' \in 0 .. MaxCalls /\ latest' = latest /\ news' = news
  BY DEF Quiet, Unmoved
<1>2. IndInv'
  BY <1>1, PopPreserves
<1>3. frames' \in Seq(Frames(Pending))
  BY <1>1, FrontKept DEF Kept
<1>4. postings' \in Seq(1 .. Top')
  BY <1>1, EmptySeq
<1>5. TypeInv'
  BY <1>1, <1>3, <1>4 DEF TypeInv, TypesOK
<1> QED
  BY <1>1, <1>2, <1>5 DEF Returned

-----------------------------------------------------------------------------
(* Who is subscribed to what, when one subscription is added or removed *)

LEMMA HoldsAppended ==
  ASSUME NEW S, NEW s \in Seq(S), NEW x \in S
  PROVE  \A y : Holds(Append(s, x), y) <=> Holds(s, y) \/ y = x
<1> DEFINE t == Append(s, x)
<1>1. /\ t \in Seq(S) /\ Len(t) = Len(s) + 1
      /\ \A i \in 1 .. Len(s) : t[i] = s[i]
      /\ t[Len(s) + 1] = x
  BY AppendProperties
<1> HIDE DEF t
<1>2. Len(s) \in Nat /\ DOMAIN s = 1 .. Len(s) /\ DOMAIN t = 1 .. Len(s) + 1
  BY <1>1, LenProperties
<1>3. \A y : Holds(t, y) => Holds(s, y) \/ y = x
  BY <1>1, <1>2 DEF Holds
<1>4. t = Append(s, x)
  BY DEF t
<1> QED
  BY <1>3, <1>4, AppendHolds

LEMMA SubscriptionAdded ==
  ASSUME NEW m \in Mappers, NEW el \in Clients, NEW pattern \in Patterns,
         NEW new, new = addMapping(m, el, pattern)
  PROVE  /\ \A g \in Generators : \A x :
              Holds(new.all[g], x) <=> Holds(m.all[g], x) \/ (x = el /\ Len(pattern) = 1 /\ g = pattern[1])
         /\ \A e \in Events : \A x :
              Holds(new.filtered[e], x) <=>
                Holds(m.filtered[e], x) \/ (x = el /\ Len(pattern) # 1 /\ Matches(e, pattern))
         /\ \A q \in Patterns : hasMapping(m, q) => hasMapping(new, q)
         /\ \A q \in Patterns : q[1] # pattern[1] => (hasMapping(new, q) <=> hasMapping(m, q))
<1>1. /\ \A g \in Generators :
           new.all[g] = IF Len(pattern) = 1 /\ g = pattern[1] THEN Append(m.all[g], el) ELSE m.all[g]
      /\ \A e \in Events :
           new.filtered[e] = IF Len(pattern) # 1 /\ Matches(e, pattern)
                               THEN Append(m.filtered[e], el) ELSE m.filtered[e]
  BY AddMappingIs
<1>2. /\ \A g \in Generators : m.all[g] \in Seq(Clients)
      /\ \A e \in Events : m.filtered[e] \in Seq(Clients)
  BY DEF Mappers, Vectors
<1>3. \A s \in Seq(Clients) : Append(s, el) # <<>> /\ \A y : Holds(Append(s, el), y) <=> Holds(s, y) \/ y = el
  BY AppendHolds, HoldsAppended
<1>4. \A q \in Patterns : q[1] \in Generators /\ \A e \in Events : Matches(e, q) => e[1] = q[1]
  BY PatternIs, MatchesGenerator
<1>5. \A g \in Generators : \A x :
        Holds(new.all[g], x) <=> Holds(m.all[g], x) \/ (x = el /\ Len(pattern) = 1 /\ g = pattern[1])
  BY <1>1, <1>2, <1>3
<1>6. \A e \in Events : \A x :
        Holds(new.filtered[e], x) <=>
          Holds(m.filtered[e], x) \/ (x = el /\ Len(pattern) # 1 /\ Matches(e, pattern))
  BY <1>1, <1>2, <1>3
<1>7. ASSUME NEW q \in Patterns, hasMapping(m, q) PROVE hasMapping(new, q)
  <2>1. \A g \in Generators : m.all[g] # <<>> => new.all[g] # <<>>
    BY <1>1, <1>2, <1>3
  <2>2. \A e \in Events : m.filtered[e] # <<>> => new.filtered[e] # <<>>
    BY <1>1, <1>2, <1>3
  <2> QED
    BY <1>4, <1>7, <2>1, <2>2 DEF hasMapping
<1>8. ASSUME NEW q \in Patterns, q[1] # pattern[1] PROVE hasMapping(new, q) <=> hasMapping(m, q)
  <2>1. new.all[q[1]] = m.all[q[1]] /\ \A e \in Events : Matches(e, q) => new.filtered[e] = m.filtered[e]
    BY <1>1, <1>4, <1>8
  <2> QED
    BY <2>1 DEF hasMapping
<1> QED
  BY <1>5, <1>6, <1>7, <1>8

LEMMA SubscriptionRemoved ==
  ASSUME NEW m \in Mappers, NEW el \in Clients, NEW pattern \in Patterns,
         NEW new, new = removeMapping(m, el, pattern)
  PROVE  /\ \A g \in Generators : \A x :
              Holds(new.all[g], x) <=> Holds(m.all[g], x) /\ ~(x = el /\ Len(pattern) = 1 /\ g = pattern[1])
         /\ \A e \in Events : \A x :
              Holds(new.filtered[e], x) <=> Holds(m.filtered[e], x) /\ ~(x = el /\ Matches(e, pattern))
         /\ \A q \in Patterns : hasMapping(new, q) => hasMapping(m, q)
         /\ \A q \in Patterns : q[1] # pattern[1] => (hasMapping(new, q) <=> hasMapping(m, q))
         /\ \A e \in Events : getMapping(m, e) = <<>> => getMapping(new, e) = <<>>
<1>0. new \in Mappers
  BY RemoveMappingIs
<1>1. /\ \A g \in Generators :
           new.all[g] = IF Len(pattern) = 1 /\ g = pattern[1] THEN Without(m.all[g], {el}) ELSE m.all[g]
      /\ \A e \in Events :
           new.filtered[e] = IF Matches(e, pattern) THEN Without(m.filtered[e], {el}) ELSE m.filtered[e]
  BY RemoveMappingIs
<1>2. /\ \A g \in Generators : m.all[g] \in Seq(Clients)
      /\ \A e \in Events : m.filtered[e] \in Seq(Clients)
  BY DEF Mappers, Vectors
<1>3. \A s \in Seq(Clients) : \A y : Holds(Without(s, {el}), y) <=> Holds(s, y) /\ y # el
  BY WithoutHolds
<1>4. \A q \in Patterns : q[1] \in Generators /\ \A e \in Events : Matches(e, q) => e[1] = q[1]
  BY PatternIs, MatchesGenerator
<1>5. ASSUME NEW g \in Generators
      PROVE  \A x : Holds(new.all[g], x) <=>
                      Holds(m.all[g], x) /\ ~(x = el /\ Len(pattern) = 1 /\ g = pattern[1])
  <2>1. CASE Len(pattern) = 1 /\ g = pattern[1]
    <3>1. new.all[g] = Without(m.all[g], {el}) /\ m.all[g] \in Seq(Clients)
      BY <1>1, <1>2, <2>1
    <3>2. \A y : Holds(Without(m.all[g], {el}), y) <=> Holds(m.all[g], y) /\ y # el
      BY <3>1, <1>3
    <3> QED
      BY <2>1, <3>1, <3>2
  <2>2. CASE ~(Len(pattern) = 1 /\ g = pattern[1])
    BY <1>1, <2>2
  <2> QED
    BY <2>1, <2>2
<1>6. ASSUME NEW e \in Events
      PROVE  \A x : Holds(new.filtered[e], x) <=> Holds(m.filtered[e], x) /\ ~(x = el /\ Matches(e, pattern))
  <2>1. CASE Matches(e, pattern)
    <3>1. new.filtered[e] = Without(m.filtered[e], {el}) /\ m.filtered[e] \in Seq(Clients)
      BY <1>1, <1>2, <2>1
    <3>2. \A y : Holds(Without(m.filtered[e], {el}), y) <=> Holds(m.filtered[e], y) /\ y # el
      BY <3>1, <1>3
    <3> QED
      BY <2>1, <3>1, <3>2
  <2>2. CASE ~Matches(e, pattern)
    BY <1>1, <2>2
  <2> QED
    BY <2>1, <2>2
<1>7. Without(<<>>, {el}) = <<>>
  <2>1. <<>> \in Seq(Clients)
    BY EmptySeq
  <2>2. Without(<<>>, {el}) \in Seq(Clients) /\ \A y : Holds(Without(<<>>, {el}), y) <=> Holds(<<>>, y) /\ y # el
    BY <2>1, <1>3, WithoutIs
  <2> DEFINE w == Without(<<>>, {el})
  <2> HIDE DEF w
  <2>3. \A y : ~Holds(<<>>, y)
    BY DEF Holds
  <2>4. w \in Seq(Clients) /\ \A y : ~Holds(w, y)
    BY <2>2, <2>3 DEF w
  <2>5. w = <<>>
    <3>1. SUFFICES ASSUME w # <<>> PROVE FALSE
      OBVIOUS
    <3>2. DOMAIN w = 1 .. Len(w) /\ Len(w) \in Nat /\ Len(w) # 0
      BY <2>4, <3>1, LenProperties, EmptySeq
    <3>3. 1 \in DOMAIN w
      BY <3>2
    <3> QED
      BY <3>3, <2>4 DEF Holds
  <2> QED
    BY <2>5 DEF w
<1>8. /\ \A g \in Generators : m.all[g] = <<>> => new.all[g] = <<>>
      /\ \A e \in Events : m.filtered[e] = <<>> => new.filtered[e] = <<>>
  BY <1>1, <1>7
<1>9. ASSUME NEW q \in Patterns, hasMapping(new, q) PROVE hasMapping(m, q)
  BY <1>4, <1>8, <1>9 DEF hasMapping
<1>10. ASSUME NEW q \in Patterns, q[1] # pattern[1] PROVE hasMapping(new, q) <=> hasMapping(m, q)
  <2>1. new.all[q[1]] = m.all[q[1]] /\ \A e \in Events : Matches(e, q) => new.filtered[e] = m.filtered[e]
    BY <1>1, <1>4, <1>10
  <2> QED
    BY <2>1 DEF hasMapping
<1>11. ASSUME NEW e \in Events, getMapping(m, e) = <<>> PROVE getMapping(new, e) = <<>>
  <2>1. e[1] \in Generators
    BY PatternsAre
  <2> QED
    BY <1>0, <1>8, <1>11, <2>1, GetMappingIs
<1> QED
  BY <1>5, <1>6, <1>9, <1>10, <1>11

-----------------------------------------------------------------------------
(* The invariant.  What the router knows of generator x: *)

Has(x, g) == Holds(mappers["listeners"].all[g], x)
Hears(x, e) == Holds(mappers["listeners"].filtered[e], x)

\* It hears of its listeners, and its source as it believes.
Exact(x) ==
  /\ \A g \in Generators : Has(x, g) <=> isListening[x] /\ Len(source[x]) = 1 /\ g = source[x][1]
  /\ \A e \in Events : Hears(x, e) <=>
       \/ e[1] = erouterEGID /\ e[2] = myGenID[x]
       \/ isListening[x] /\ Len(source[x]) # 1 /\ Matches(e, source[x])

\* It hears nothing of its listeners, or nothing of the generators below k.
Deaf(x) == ~Has(x, erouterEGID) /\ \A e \in Events : e[1] = erouterEGID => ~Hears(x, e)
Nowhere(x, k) ==
  /\ \A g \in Generators : g < k => ~Has(x, g)
  /\ \A e \in Events : e[1] < k => ~Hears(x, e)

\* Some call has t left to do.
At(t) == \E n \in 1 .. Top : frames[n].then = t

Live(x) == started[x] /\ \A k \in 0 .. numEGIDs : ~At(<<"stop", x, k>>)

\* An event about its listeners is on its way to x, or x has it.
Coming(x) ==
  \E n \in 1 .. Top :
    frames[n].e[1] = erouterEGID /\ frames[n].e[2] = myGenID[x] /\ Holds(frames[n].l, x)
In(n, x) == frames[n].in = "listener" /\ frames[n].client = x
Notified(x) == Top > 0 /\ In(Top, x) /\ frames[frames[Top].serving].e[1] = erouterEGID

\* Between its start and its stop, a generator's subscriptions are what it believes,
\* and if that is not what is wanted it is about to learn so.
LiveInv(x) ==
  Live(x) =>
    /\ Exact(x)
    /\ isListening[x] /\ ~wanted(x) => Coming(x) \/ Notified(x)
    /\ wanted(x) /\ ~isListening[x] => Coming(x) \/ Notified(x) \/ At(<<"start", x>>)

\* The loops of DoStop(): the first ends the generator's hearing of its listeners, and
\* the second finds no more than the first has left, as nobody subscribes it again.
StopInv(x) ==
  /\ ~started[x] =>
       /\ ~isListening[x] /\ Deaf(x)
       /\ Nowhere(x, numEGIDs) \/ \E k \in 0 .. numEGIDs : At(<<"remove", x, k>>)
  /\ \A k \in 0 .. numEGIDs :
       /\ At(<<"remove", x, k>>) => ~started[x] /\ Nowhere(x, k)
       /\ At(<<"stop", x, k>>) /\ erouterEGID < k => Deaf(x)
       /\ At(<<"stop", x, k>>) => ~At(<<"start", x>>)
  /\ At(<<"start", x>>) => started[x]

\* A generator handles an event on top of the stack only.
PlaceInv(x) ==
  /\ Notified(x) => ~Deaf(x)
  /\ \A n \in 1 .. Top : n < Top => ~In(n, x)

GenInv == \A x \in EventGenerators : LiveInv(x) /\ StopInv(x) /\ PlaceInv(x)

\* Only generators leave loops.
Thens ==
  {NoCall} \cup ({"start"} \X EventGenerators)
           \cup ({"stop", "remove"} \X EventGenerators \X (0 .. numEGIDs))

\* No trapper has to do with the router's own events.
UntrappedInv ==
  /\ \A e \in Events : e[1] = erouterEGID => getMapping(mappers["trappers"], e) = <<>>
  /\ \A n \in 1 .. Top :
       /\ frames[n].e[1] = erouterEGID => frames[n].t = <<>> /\ ~frames[n].trapped
       /\ frames[n].in = "trapper" => frames[frames[n].serving].e[1] # erouterEGID
       /\ frames[n].then \in Thens

FlagsOK ==
  isListening \in [EventGenerators -> BOOLEAN] /\ started \in [EventGenerators -> BOOLEAN]

-----------------------------------------------------------------------------
(* What is on the stack after a call, or a return *)

\* The first k calls go on, and no generator has the event that the last of them serves.
On(k) ==
  /\ k \in Nat /\ (k = Top \/ (k = Top - 1 /\ postings = <<>>))
  /\ \A n \in 1 .. k :
       /\ frames'[n].e = frames[n].e /\ frames'[n].l = frames[n].l /\ frames'[n].t = frames[n].t
       /\ frames'[n].trapped = frames[n].trapped /\ frames'[n].then = frames[n].then
       /\ frames'[n].in = frames[n].in /\ frames'[n].serving = frames[n].serving
       /\ n # Top => frames'[n].client = frames[n].client
       /\ n = Top => \A x \in EventGenerators : ~(frames'[n].in = "listener" /\ frames'[n].client = x)

Stays(k) == On(k) /\ Top' = k

Pushes(k, e, then) ==
  /\ On(k) /\ Top' = k + 1
  /\ frames'[k + 1].e = e /\ frames'[k + 1].then = then
  /\ frames'[k + 1].l = getMapping(mappers'["listeners"], e)
  /\ frames'[k + 1].t = getMapping(mappers'["trappers"], e)
  /\ frames'[k + 1].in = "router" /\ ~frames'[k + 1].trapped

Idle(stack, k) ==
  \A x \in EventGenerators : k = Top /\ k > 0 => ~(stack[k].in = "listener" /\ stack[k].client = x)

LEMMA PushesIs ==
  ASSUME IndInv, TypeInv, NEW k, NEW stack, Base(stack, k), Idle(stack, k),
         NEW gone, NEW st, Kept(st, k, gone), \A n \in 1 .. k : st[n].client = stack[n].client,
         NEW ms \in MapperPair, NEW e \in Events, NEW then \in Pending,
         processEvent(st, ms, e, then), mappers' = ms
  PROVE  Pushes(k, e, then)
<1> DEFINE new == PostingStatus(ms, e, then)
<1>1. /\ frames' = Append(st, new) /\ st \in Seq(Frames(Pending)) /\ Len(st) = k
  BY DEF processEvent, Kept
<1>2. new \in Frames(Pending)
  BY TypesAre, PostingStatusIs
<1>3. /\ new.e = e /\ new.trapped = FALSE /\ new.l = getMapping(ms["listeners"], e)
      /\ new.then = then /\ new.in = "router" /\ new.t = getMapping(ms["trappers"], e)
  BY DEF PostingStatus
<1> HIDE DEF new
<1>4. /\ Top' = k + 1 /\ frames'[k + 1] = new /\ \A n \in 1 .. k : frames'[n] = st[n]
  BY <1>1, <1>2, AppendProperties DEF Top
<1>5. /\ k \in Nat /\ (k = Top \/ (k = Top - 1 /\ postings = <<>>)) /\ Kept(stack, k, {})
      /\ \A n \in 1 .. k : n # Top => stack[n].client = frames[n].client
  BY DEF Base
<1>6. ASSUME NEW n \in 1 .. k
      PROVE  /\ frames'[n].e = frames[n].e /\ frames'[n].l = frames[n].l /\ frames'[n].t = frames[n].t
             /\ frames'[n].trapped = frames[n].trapped /\ frames'[n].then = frames[n].then
             /\ frames'[n].in = frames[n].in /\ frames'[n].serving = frames[n].serving
             /\ frames'[n].client = stack[n].client /\ stack[n].in = frames[n].in
  BY <1>4, <1>5 DEF Kept
<1>7. \A n \in 1 .. k : n = Top => n = k /\ k > 0
  BY <1>5
<1>8. \A n \in 1 .. k : n = Top => \A x \in EventGenerators : ~(frames'[n].in = "listener" /\ frames'[n].client = x)
  BY <1>6, <1>7 DEF Idle
<1>9. On(k)
  BY <1>5, <1>6, <1>8 DEF On
<1> QED
  BY <1>3, <1>4, <1>9 DEF Pushes

LEMMA StaysIs ==
  ASSUME IndInv, TypeInv, NEW k, NEW stack, Base(stack, k), Idle(stack, k), frames' = stack
  PROVE  Stays(k)
<1>1. /\ k \in Nat /\ (k = Top \/ (k = Top - 1 /\ postings = <<>>)) /\ Kept(stack, k, {})
      /\ \A n \in 1 .. k : n # Top => stack[n].client = frames[n].client
  BY DEF Base
<1>2. \A n \in 1 .. k : n = Top => n = k /\ k > 0
  BY <1>1
<1>3. On(k)
  BY <1>1, <1>2 DEF On, Kept, Idle
<1> QED
  BY <1>1, <1>3 DEF Stays, Kept, Top

\* The event that announces a change goes to those subscribed by then.
LEMMA ChangePushes ==
  ASSUME IndInv, TypeInv, NEW k, NEW stack, Base(stack, k), Idle(stack, k),
         NEW el \in Subscribers, NEW pattern \in Patterns, NEW then \in Pending,
         AddOne(stack, el, pattern, then) \/ RemoveOne(stack, el, pattern, then)
  PROVE  \E type \in Types :
           /\ <<erouterEGID, pattern[1], type>> \in Events
           /\ Pushes(k, <<erouterEGID, pattern[1], type>>, then)
<1>1. mappers \in MapperPair /\ el \in Clients /\ Owner(el) \in {"trappers", "listeners"}
  BY ClientsAssumption DEF TypeInv, TypesOK, MapperPair, Subscribers, Owner
<1>2. pattern[1] \in Generators /\ erouterEGID \in Generators /\ pattern[1] \in SIDs
  BY PatternIs, ErouterAssumption
<1>3. \A type \in Types : <<erouterEGID, pattern[1], type>> \in Events
  BY <1>2 DEF Events
<1>4. k \in Nat /\ Kept(stack, k, {})
  BY DEF Base
<1>5. CASE AddOne(stack, el, pattern, then)
  <2> DEFINE type == IF hasListeners(mappers, <<pattern[1]>>) THEN "status" ELSE "activate"
             ms == [mappers EXCEPT ![Owner(el)] = addMapping(@, el, pattern)]
  <2>1. type \in Types
    BY DEF Types
  <2>2. mappers' = ms /\ processEvent(stack, ms, <<erouterEGID, pattern[1], type>>, then)
    BY <1>5 DEF AddOne
  <2> HIDE DEF type
  <2>3. addMapping(mappers[Owner(el)], el, pattern) \in Mappers
    BY <1>1, AddMappingIs DEF MapperPair
  <2>4. ms \in MapperPair
    BY <1>1, <2>3 DEF MapperPair
  <2> HIDE DEF ms
  <2>5. Pushes(k, <<erouterEGID, pattern[1], type>>, then)
    BY <1>3, <1>4, <2>1, <2>2, <2>4, PushesIs
  <2> QED
    BY <1>3, <2>1, <2>5
<1>6. CASE RemoveOne(stack, el, pattern, then)
  <2> DEFINE ms == Removed(el, pattern)
             type == IF hasListeners(ms, <<pattern[1]>>) THEN "status" ELSE "deactivate"
             d == Disturbed(stack, el)
  <2>1. removeMapping(mappers[Owner(el)], el, pattern) \in Mappers
    BY <1>1, RemoveMappingIs DEF MapperPair
  <2>2. ms \in MapperPair
    BY <1>1, <2>1 DEF MapperPair, Removed
  <2>3. mappers' = ms /\ processEvent(d, ms, <<erouterEGID, pattern[1], type>>, then)
    BY <1>6 DEF RemoveOne
  <2> HIDE DEF ms
  <2>4. type \in Types
    BY DEF Types
  <2> HIDE DEF type
  <2>5. Kept(d, k, {el})
    BY <1>1, <1>4, DisturbedKept
  <2>6. \A n \in 1 .. k : d[n].client = stack[n].client
    <3>1. DOMAIN stack = 1 .. k /\ \A n \in 1 .. k : stack[n] \in Frames(Pending)
      BY <1>4, LenProperties, ElementOfSeq DEF Kept
    <3>2. \A n \in 1 .. k : d[n] = [stack[n] EXCEPT !.cut = @ \cup {el}]
      BY <3>1 DEF Disturbed
    <3> HIDE DEF d
    <3> QED
      BY <3>1, <3>2 DEF Frames
  <2> HIDE DEF d
  <2>7. Pushes(k, <<erouterEGID, pattern[1], type>>, then)
    BY <1>3, <1>4, <2>2, <2>3, <2>4, <2>5, <2>6, PushesIs
  <2> QED
    BY <1>3, <2>4, <2>7
<1> QED
  BY <1>5, <1>6

\* Who was about to hear something still is, and no generator has an event.
LEMMA OnIs ==
  ASSUME IndInv, TypeInv, DeliveryInv, UntrappedInv, NEW k, On(k),
         Top' = k \/ (Top' = k + 1 /\ frames'[k + 1].in = "router")
  PROVE  \A x \in EventGenerators :
           /\ PlaceInv(x) => PlaceInv(x)' /\ ~Notified(x)'
           /\ Coming(x) => Coming(x)'
<1>1. /\ k \in Nat /\ (k = Top \/ (k = Top - 1 /\ postings = <<>>))
      /\ \A n \in 1 .. k :
           /\ frames'[n].e = frames[n].e /\ frames'[n].l = frames[n].l
           /\ frames'[n].in = frames[n].in
           /\ n # Top => frames'[n].client = frames[n].client
           /\ n = Top => \A x \in EventGenerators : ~(frames'[n].in = "listener" /\ frames'[n].client = x)
  BY DEF On
<1>2. Top \in Nat /\ \A n \in 1 .. k : n \in 1 .. Top /\ n \in 1 .. Top'
  BY <1>1, TypesAre
<1>3. ASSUME NEW x \in EventGenerators, Coming(x) PROVE Coming(x)'
  <2>1. PICK n \in 1 .. Top :
          frames[n].e[1] = erouterEGID /\ frames[n].e[2] = myGenID[x] /\ Holds(frames[n].l, x)
    BY <1>3 DEF Coming
  <2>2. n \in 1 .. k
    <3>1. SUFFICES ASSUME n \notin 1 .. k PROVE FALSE
      OBVIOUS
    <3>2. n = Top /\ postings = <<>>
      BY <1>1, <1>2, <3>1
    <3>3. ~Queued(n)
      BY <3>2 DEF Queued
    <3>4. ~frames[n].trapped
      BY <2>1 DEF UntrappedInv
    <3>5. frames[n].l = <<>>
      BY <3>3, <3>4 DEF DeliveryInv, Frame
    <3> QED
      BY <2>1, <3>5 DEF Holds
  <2>3. frames'[n].e = frames[n].e /\ frames'[n].l = frames[n].l /\ n \in 1 .. Top'
    BY <1>1, <1>2, <2>2
  <2> QED
    BY <2>1, <2>3 DEF Coming
<1>4. ASSUME NEW x \in EventGenerators, PlaceInv(x)
      PROVE  \A n \in 1 .. Top' : ~In(n, x)'
  <2>1. \A n \in 1 .. Top : n < Top => ~In(n, x)
    BY <1>4 DEF PlaceInv
  <2>2. ASSUME NEW n \in 1 .. k PROVE ~In(n, x)'
    <3>1. CASE n = Top
      BY <1>1, <3>1 DEF In
    <3>2. CASE n # Top
      <4>1. n < Top /\ n \in 1 .. Top
        BY <1>1, <1>2, <3>2
      <4>2. ~In(n, x)
        BY <2>1, <4>1
      <4> QED
        BY <1>1, <3>2, <4>2 DEF In
    <3> QED
      BY <3>1, <3>2
  <2>3. CASE Top' = k
    BY <2>2, <2>3
  <2>4. CASE Top' = k + 1 /\ frames'[k + 1].in = "router"
    <3>1. ~In(k + 1, x)'
      BY <2>4 DEF In
    <3>2. \A n \in 1 .. k + 1 : n \in 1 .. k \/ n = k + 1
      BY <1>1
    <3> QED
      BY <2>2, <2>4, <3>1, <3>2
  <2> QED
    BY <2>3, <2>4
<1>5. ASSUME NEW x \in EventGenerators, PlaceInv(x)
      PROVE  PlaceInv(x)' /\ ~Notified(x)'
  <2>1. \A n \in 1 .. Top' : ~In(n, x)'
    BY <1>4, <1>5
  <2>2. Top' \in Nat
    BY <1>1
  <2>3. ~Notified(x)'
    <3>1. Top' > 0 => Top' \in 1 .. Top'
      BY <2>2
    <3>2. Top' > 0 => ~In(Top, x)'
      BY <2>1, <3>1
    <3> QED
      BY <3>2 DEF Notified
  <2> QED
    BY <2>1, <2>3 DEF PlaceInv
<1> QED
  BY <1>3, <1>5

-----------------------------------------------------------------------------
(* What a subscription more or less is to the generators *)

LEMMA FeedPattern ==
  ASSUME NEW x \in EventGenerators
  PROVE  /\ x \in Subscribers /\ x \in Clients /\ myGenID[x] \in Generators /\ source[x] \in Patterns
         /\ <<myGenID[x], mySourceID[x]>> \in Patterns /\ <<myGenID[x], mySourceID[x]>>[1] = myGenID[x]
         /\ erouterEGID \in Generators /\ myGenID[x] \in SIDs
         /\ <<erouterEGID, myGenID[x]>> \in Patterns
BY EventGeneratorsAssumption, SourcesAssumption, ErouterAssumption, ClientsAssumption DEF Patterns, Subscribers

LEMMA SomebodyAdded ==
  ASSUME TypeInv, NEW el \in Subscribers, NEW pattern \in Patterns,
         mappers' = [mappers EXCEPT ![Owner(el)] = addMapping(@, el, pattern)]
  PROVE  \A x \in EventGenerators :
           /\ x # el => /\ \A g \in Generators : Has(x, g)' <=> Has(x, g)
                        /\ \A e \in Events : Hears(x, e)' <=> Hears(x, e)
           /\ wanted(x) => wanted(x)'
           /\ myGenID[x] # pattern[1] => (wanted(x)' <=> wanted(x))
<1>1. /\ mappers \in MapperPair /\ el \in Clients /\ Owner(el) \in {"trappers", "listeners"}
  BY ClientsAssumption DEF TypeInv, TypesOK, MapperPair, Subscribers, Owner
<1> DEFINE m == mappers[Owner(el)]
           new == addMapping(m, el, pattern)
<1>0. new = addMapping(m, el, pattern) /\ m = mappers[Owner(el)]
  OBVIOUS
<1>2. m \in Mappers
  BY <1>1 DEF MapperPair
<1>3. \A kind \in {"trappers", "listeners"} : mappers'[kind] = IF kind = Owner(el) THEN new ELSE mappers[kind]
  BY <1>1 DEF MapperPair
<1> HIDE DEF new, m
<1>4. /\ \A g \in Generators : \A x :
           Holds(new.all[g], x) <=> Holds(m.all[g], x) \/ (x = el /\ Len(pattern) = 1 /\ g = pattern[1])
      /\ \A e \in Events : \A x :
           Holds(new.filtered[e], x) <=>
             Holds(m.filtered[e], x) \/ (x = el /\ Len(pattern) # 1 /\ Matches(e, pattern))
      /\ \A q \in Patterns : hasMapping(m, q) => hasMapping(new, q)
      /\ \A q \in Patterns : q[1] # pattern[1] => (hasMapping(new, q) <=> hasMapping(m, q))
  <2>1. el \in Clients /\ m \in Mappers /\ new = addMapping(m, el, pattern)
    BY <1>0, <1>1, <1>2
  <2>2. /\ \A q \in Patterns : hasMapping(m, q) => hasMapping(new, q)
        /\ \A q \in Patterns : q[1] # pattern[1] => (hasMapping(new, q) <=> hasMapping(m, q))
    BY <2>1, SubscriptionAdded
  <2> QED
    BY <2>1, <2>2, SubscriptionAdded
<1>5. ASSUME NEW x \in EventGenerators, x # el
      PROVE  /\ \A g \in Generators : Has(x, g)' <=> Has(x, g)
             /\ \A e \in Events : Hears(x, e)' <=> Hears(x, e)
  <2>1. CASE Owner(el) = "listeners"
    BY <1>0, <1>3, <1>4, <1>5, <2>1 DEF Has, Hears
  <2>2. CASE Owner(el) # "listeners"
    BY <1>3, <2>2 DEF Has, Hears
  <2> QED
    BY <2>1, <2>2
<1>6. ASSUME NEW x \in EventGenerators
      PROVE  /\ wanted(x) => wanted(x)'
             /\ myGenID[x] # pattern[1] => (wanted(x)' <=> wanted(x))
  <2> DEFINE q == <<myGenID[x], mySourceID[x]>>
  <2>1. q \in Patterns /\ q[1] = myGenID[x]
    BY FeedPattern
  <2>2. wanted(x) <=> hasMapping(mappers["trappers"], q) \/ hasMapping(mappers["listeners"], q)
    BY DEF wanted, hasListeners
  <2>3. wanted(x)' <=> hasMapping(mappers'["trappers"], q) \/ hasMapping(mappers'["listeners"], q)
    BY DEF wanted, hasListeners
  <2> HIDE DEF q
  <2> QED
    BY <1>0, <1>1, <1>3, <1>4, <2>1, <2>2, <2>3
<1> QED
  BY <1>5, <1>6

LEMMA SomebodyRemoved ==
  ASSUME TypeInv, NEW el \in Subscribers, NEW pattern \in Patterns, mappers' = Removed(el, pattern)
  PROVE  /\ \A x \in EventGenerators :
              /\ x # el => /\ \A g \in Generators : Has(x, g)' <=> Has(x, g)
                           /\ \A e \in Events : Hears(x, e)' <=> Hears(x, e)
              /\ wanted(x)' => wanted(x)
              /\ myGenID[x] # pattern[1] => (wanted(x)' <=> wanted(x))
         /\ \A e \in Events : getMapping(mappers["trappers"], e) = <<>> => getMapping(mappers'["trappers"], e) = <<>>
<1>1. /\ mappers \in MapperPair /\ el \in Clients /\ Owner(el) \in {"trappers", "listeners"}
  BY ClientsAssumption DEF TypeInv, TypesOK, MapperPair, Subscribers, Owner
<1> DEFINE m == mappers[Owner(el)]
           new == removeMapping(m, el, pattern)
<1>0. new = removeMapping(m, el, pattern) /\ m = mappers[Owner(el)]
  OBVIOUS
<1>2. m \in Mappers
  BY <1>1 DEF MapperPair
<1>3. \A kind \in {"trappers", "listeners"} : mappers'[kind] = IF kind = Owner(el) THEN new ELSE mappers[kind]
  BY <1>1 DEF MapperPair, Removed
<1> HIDE DEF new, m
<1>4. /\ \A g \in Generators : \A x :
           Holds(new.all[g], x) <=> Holds(m.all[g], x) /\ ~(x = el /\ Len(pattern) = 1 /\ g = pattern[1])
      /\ \A e \in Events : \A x :
           Holds(new.filtered[e], x) <=> Holds(m.filtered[e], x) /\ ~(x = el /\ Matches(e, pattern))
      /\ \A q \in Patterns : hasMapping(new, q) => hasMapping(m, q)
      /\ \A q \in Patterns : q[1] # pattern[1] => (hasMapping(new, q) <=> hasMapping(m, q))
      /\ \A e \in Events : getMapping(m, e) = <<>> => getMapping(new, e) = <<>>
  BY <1>0, <1>1, <1>2, SubscriptionRemoved
<1>5. ASSUME NEW x \in EventGenerators, x # el
      PROVE  /\ \A g \in Generators : Has(x, g)' <=> Has(x, g)
             /\ \A e \in Events : Hears(x, e)' <=> Hears(x, e)
  <2>1. CASE Owner(el) = "listeners"
    BY <1>0, <1>3, <1>4, <1>5, <2>1 DEF Has, Hears
  <2>2. CASE Owner(el) # "listeners"
    BY <1>3, <2>2 DEF Has, Hears
  <2> QED
    BY <2>1, <2>2
<1>6. ASSUME NEW x \in EventGenerators
      PROVE  /\ wanted(x)' => wanted(x)
             /\ myGenID[x] # pattern[1] => (wanted(x)' <=> wanted(x))
  <2> DEFINE q == <<myGenID[x], mySourceID[x]>>
  <2>1. q \in Patterns /\ q[1] = myGenID[x]
    BY FeedPattern
  <2>2. wanted(x) <=> hasMapping(mappers["trappers"], q) \/ hasMapping(mappers["listeners"], q)
    BY DEF wanted, hasListeners
  <2>3. wanted(x)' <=> hasMapping(mappers'["trappers"], q) \/ hasMapping(mappers'["listeners"], q)
    BY DEF wanted, hasListeners
  <2> HIDE DEF q
  <2> QED
    BY <1>0, <1>1, <1>3, <1>4, <2>1, <2>2, <2>3
<1>7. \A e \in Events : getMapping(mappers["trappers"], e) = <<>> => getMapping(mappers'["trappers"], e) = <<>>
  BY <1>0, <1>1, <1>3, <1>4
<1> QED
  BY <1>5, <1>6, <1>7

\* A listener's own subscriptions
LEMMA OwnAdded ==
  ASSUME TypeInv, NEW x \in Subscribers, x \notin Trappers, NEW pattern \in Patterns,
         mappers' = [mappers EXCEPT ![Owner(x)] = addMapping(@, x, pattern)]
  PROVE  /\ \A g \in Generators : Has(x, g)' <=> Has(x, g) \/ (Len(pattern) = 1 /\ g = pattern[1])
         /\ \A e \in Events : Hears(x, e)' <=> Hears(x, e) \/ (Len(pattern) # 1 /\ Matches(e, pattern))
         /\ mappers'["trappers"] = mappers["trappers"]
<1>1. /\ mappers \in MapperPair /\ x \in Clients /\ Owner(x) = "listeners"
  BY ClientsAssumption DEF TypeInv, TypesOK, MapperPair, Subscribers, Owner
<1> DEFINE m == mappers["listeners"]
           new == addMapping(m, x, pattern)
<1>0. new = addMapping(m, x, pattern) /\ m = mappers["listeners"]
  OBVIOUS
<1>2. m \in Mappers
  BY <1>1 DEF MapperPair
<1>3. mappers'["listeners"] = new /\ mappers'["trappers"] = mappers["trappers"]
  BY <1>1 DEF MapperPair
<1> HIDE DEF new, m
<1>4. /\ \A g \in Generators : \A y :
           Holds(new.all[g], y) <=>
             Holds(m.all[g], y) \/ (y = x /\ Len(pattern) = 1 /\ g = pattern[1])
      /\ \A e \in Events : \A y :
           Holds(new.filtered[e], y) <=>
             Holds(m.filtered[e], y) \/ (y = x /\ Len(pattern) # 1 /\ Matches(e, pattern))
  BY <1>0, <1>1, <1>2, SubscriptionAdded
<1> QED
  BY <1>0, <1>3, <1>4 DEF Has, Hears

LEMMA OwnRemoved ==
  ASSUME TypeInv, NEW x \in Subscribers, x \notin Trappers, NEW pattern \in Patterns
  PROVE  /\ mappers' = Removed(x, pattern) =>
              /\ \A g \in Generators : Has(x, g)' <=> Has(x, g) /\ ~(Len(pattern) = 1 /\ g = pattern[1])
              /\ \A e \in Events : Hears(x, e)' <=> Hears(x, e) /\ ~Matches(e, pattern)
         /\ mappers = Removed(x, pattern) =>
              /\ Len(pattern) = 1 => ~Has(x, pattern[1])
              /\ \A e \in Events : Matches(e, pattern) => ~Hears(x, e)
<1>1. /\ mappers \in MapperPair /\ x \in Clients /\ Owner(x) = "listeners"
  BY ClientsAssumption DEF TypeInv, TypesOK, MapperPair, Subscribers, Owner
<1> DEFINE m == mappers["listeners"]
           new == removeMapping(m, x, pattern)
<1>0. new = removeMapping(m, x, pattern) /\ m = mappers["listeners"]
  OBVIOUS
<1>2. m \in Mappers /\ pattern[1] \in Generators
  BY <1>1, PatternIs DEF MapperPair
<1>3. Removed(x, pattern)["listeners"] = new
  BY <1>1 DEF MapperPair, Removed
<1> HIDE DEF new, m
<1>4. /\ \A g \in Generators : \A y :
           Holds(new.all[g], y) <=>
             Holds(m.all[g], y) /\ ~(y = x /\ Len(pattern) = 1 /\ g = pattern[1])
      /\ \A e \in Events : \A y :
           Holds(new.filtered[e], y) <=> Holds(m.filtered[e], y) /\ ~(y = x /\ Matches(e, pattern))
  BY <1>0, <1>1, <1>2, SubscriptionRemoved
<1>5. ASSUME mappers' = Removed(x, pattern)
      PROVE  /\ \A g \in Generators : Has(x, g)' <=> Has(x, g) /\ ~(Len(pattern) = 1 /\ g = pattern[1])
             /\ \A e \in Events : Hears(x, e)' <=> Hears(x, e) /\ ~Matches(e, pattern)
  BY <1>0, <1>3, <1>4, <1>5 DEF Has, Hears
<1>6. ASSUME mappers = Removed(x, pattern)
      PROVE  /\ Len(pattern) = 1 => ~Has(x, pattern[1])
             /\ \A e \in Events : Matches(e, pattern) => ~Hears(x, e)
  BY <1>0, <1>2, <1>3, <1>4, <1>6 DEF Has, Hears
<1> QED
  BY <1>5, <1>6

-----------------------------------------------------------------------------
(* A generator that is not concerned *)

\* What there may be left to do for x
Of(x) ==
  {<<"start", x>>} \cup {<<"stop", x, k>> : k \in 0 .. numEGIDs} \cup {<<"remove", x, k>> : k \in 0 .. numEGIDs}

LEMMA NotOf ==
  ASSUME NEW x \in EventGenerators, NEW t, t = NoCall \/ t[2] # x
  PROVE  t \notin Of(x)
<1>1. \A u \in Of(x) : u[2] = x /\ u # NoCall
  BY DEF Of, NoCall
<1> QED
  BY <1>1

LEMMA Bystander ==
  ASSUME NEW x \in EventGenerators, LiveInv(x), StopInv(x), ~Notified(x),
         started'[x] = started[x], isListening'[x] = isListening[x],
         \A g \in Generators : Has(x, g)' <=> Has(x, g),
         \A e \in Events : Hears(x, e)' <=> Hears(x, e),
         \A t \in Of(x) : At(t)' <=> At(t),
         Exact(x) => (wanted(x)' <=> wanted(x)) \/ Coming(x)',
         Exact(x) /\ Coming(x) => Coming(x)' \/ Notified(x)'
  PROVE  LiveInv(x)' /\ StopInv(x)'
<1>1. /\ At(<<"start", x>>)' <=> At(<<"start", x>>)
      /\ \A k \in 0 .. numEGIDs : /\ At(<<"stop", x, k>>)' <=> At(<<"stop", x, k>>)
                                  /\ At(<<"remove", x, k>>)' <=> At(<<"remove", x, k>>)
  BY DEF Of
<1>2. Live(x)' <=> Live(x)
  BY <1>1 DEF Live
<1>3. Exact(x)' <=> Exact(x)
  BY DEF Exact
<1>4. LiveInv(x)'
  BY <1>1, <1>2, <1>3 DEF LiveInv
<1>5. erouterEGID \in Generators
  BY ErouterAssumption
<1>6. Deaf(x)' <=> Deaf(x)
  BY <1>5 DEF Deaf
<1>7. \A k \in 0 .. numEGIDs : Nowhere(x, k)' <=> Nowhere(x, k)
  BY DEF Nowhere
<1>8. Nowhere(x, numEGIDs)' <=> Nowhere(x, numEGIDs)
  BY DEF Nowhere
<1>9. StopInv(x)'
  BY <1>1, <1>6, <1>7, <1>8 DEF StopInv
<1> QED
  BY <1>4, <1>9

-----------------------------------------------------------------------------
(* The loops of the router, as a generator sees them *)

\* The step leaves the stack as it is but for posting p, and for what is in hand.
Loop(p, l, sent, trapped) ==
  /\ Held(p, l, sent, trapped) /\ mappers' = mappers
  /\ trapped = frames[p].trapped \/ frames[p].e[1] # erouterEGID
  /\ \/ l = frames[p].l
     \/ LET el == Head(frames[p].l)
        IN  /\ frames[p].l # <<>> /\ l = Tail(frames[p].l)
            /\ verifyMapping(mappers["listeners"], el, frames[p].e) =>
                 frames'[Top].in = "listener" /\ frames'[Top].client = el /\ frames'[Top].serving = p
  /\ frames'[Top].in = "listener" =>
       frames'[Top].serving = p /\ verifyMapping(mappers["listeners"], frames'[Top].client, frames[p].e)
  /\ frames'[Top].in = "trapper" => frames'[Top].serving = p /\ frames[p].t # <<>>

LEMMA ServeLoops ==
  ASSUME IndInv, TypeInv, Serve \/ ListenerReturns \/ TrapperReturns(FALSE)
  PROVE  \E p \in 1 .. Top : Loop(p, frames[p].l, frames[p].sent, frames[p].trapped)
<1>1. PICK p \in 1 .. Top : Held(p, frames[p].l, frames[p].sent, frames[p].trapped)
  BY ServeIs, ReturnedIs
<1>2. frames # <<>> /\ mappers' = mappers
  BY DEF Serve, ListenerReturns, TrapperReturns
<1>3. Top \in 1 .. Top /\ frames[Top] \in Frames(Pending) /\ DOMAIN frames = 1 .. Top /\ IsFrame(Top)
  BY <1>2, HandIs, TypesAre DEF IndInv, ShapeInv
<1>4. frames'[Top].in = "router"
  <2>1. CASE Serve
    <3>1. frames[Top].in = "router" /\ frames' = [frames EXCEPT ![Top].serving = Head(postings)]
      BY <1>3, <2>1 DEF IsFrame, Serve
    <3> QED
      BY <1>3, <3>1 DEF Frames
  <2>2. CASE ListenerReturns \/ TrapperReturns(FALSE)
    <3>1. frames' = [frames EXCEPT ![Top].in = "router", ![Top].client = NoClient]
      BY <2>2 DEF ListenerReturns, TrapperReturns
    <3> QED
      BY <1>3, <3>1 DEF Frames
  <2> QED
    BY <2>1, <2>2
<1>5. Loop(p, frames[p].l, frames[p].sent, frames[p].trapped)
  BY <1>1, <1>2, <1>4 DEF Loop
<1> QED
  BY <1>5

LEMMA TrapperLoops ==
  ASSUME IndInv, TypeInv, NEW p \in 1 .. Top, OfferTrapper(p)
  PROVE  Loop(p, frames[p].l, frames[p].sent, frames[p].trapped)
<1>1. Held(p, frames[p].l, frames[p].sent, frames[p].trapped)
  BY OfferTrapperIs
<1>2. /\ frames # <<>> /\ mappers' = mappers /\ frames[p].t # <<>>
      /\ frames[Top].serving = p /\ frames[Top].in = "router"
  BY DEF OfferTrapper, InProcess
<1>3. /\ Top \in 1 .. Top /\ frames[Top] \in Frames(Pending) /\ DOMAIN frames = 1 .. Top
      /\ frames[p] \in Frames(Pending)
  BY <1>2, HandIs, TypesAre
<1> DEFINE next == [frames EXCEPT ![p].t = Tail(@)]
<1>4. \/ frames' = next
      \/ frames' = [next EXCEPT ![Top].in = "trapper", ![Top].client = Head(frames[p].t)]
  BY DEF OfferTrapper
<1>5. /\ DOMAIN next = 1 .. Top /\ DOMAIN next[Top] = DOMAIN frames[Top]
      /\ next[Top].in = frames[Top].in /\ next[Top].serving = frames[Top].serving
  BY <1>3 DEF Frames
<1> HIDE DEF next
<1>6. DOMAIN frames[Top] = Fields
  BY <1>3 DEF Frames, Fields
<1>7. frames'[Top].serving = p /\ frames'[Top].in # "listener"
  BY <1>2, <1>3, <1>4, <1>5, <1>6 DEF Fields
<1> QED
  BY <1>1, <1>2, <1>7 DEF Loop

LEMMA CompletedLoops ==
  ASSUME IndInv, TypeInv, UntrappedInv, TrapperReturns(TRUE) \/ \E p \in 1 .. Top : Exhausted(p)
  PROVE  \E p \in 1 .. Top : \E trapped : Loop(p, frames[p].l, frames[p].sent, trapped)
<1>0. frames # <<>> /\ mappers' = mappers
  BY DEF TrapperReturns, Exhausted, InProcess
<1>1. Top \in 1 .. Top /\ frames[Top] \in Frames(Pending) /\ DOMAIN frames = 1 .. Top /\ IsFrame(Top)
  BY <1>0, HandIs, TypesAre DEF IndInv, ShapeInv
<1>2. ASSUME NEW s, DOMAIN s = 1 .. Top, DOMAIN s[Top] = Fields, Completed(s)
      PROVE  frames'[Top].in = "router"
  <2>1. frames' = [s EXCEPT ![Top].serving = 0, ![Top].in = "router", ![Top].client = NoClient]
    BY <1>2 DEF Completed
  <2> QED
    BY <1>1, <1>2, <2>1 DEF Fields
<1>3. DOMAIN frames[Top] = Fields
  BY <1>1 DEF Frames, Fields
<1>4. CASE TrapperReturns(TRUE)
  <2> DEFINE p == frames[Top].serving
             s == [frames EXCEPT ![p].trapped = TRUE]
  <2>1. frames[Top].in = "trapper" /\ Completed(s)
    BY <1>4 DEF TrapperReturns
  <2>2. p \in 1 .. Top /\ frames[p].e[1] # erouterEGID
    BY <1>0, <1>1, <2>1, HandIs DEF IsFrame, UntrappedInv
  <2> HIDE DEF p
  <2>3. Held(p, frames[p].l, frames[p].sent, TRUE)
    BY <1>0, <2>1, <2>2, CompletedIs
  <2>4. DOMAIN s = 1 .. Top /\ DOMAIN s[Top] = Fields
    BY <1>1, <1>3
  <2>5. frames'[Top].in = "router"
    BY <1>2, <2>1, <2>4
  <2>6. Loop(p, frames[p].l, frames[p].sent, TRUE)
    BY <1>0, <2>2, <2>3, <2>5 DEF Loop
  <2> QED
    BY <2>2, <2>6
<1>5. ASSUME NEW p \in 1 .. Top, Exhausted(p)
      PROVE  Loop(p, frames[p].l, frames[p].sent, frames[p].trapped)
  <2>1. Completed(frames) /\ frames[p].trapped \in BOOLEAN
    BY <1>5, TypesAre DEF Exhausted, Frames
  <2>2. Held(p, frames[p].l, frames[p].sent, frames[p].trapped)
    BY <1>0, <2>1, CompletedIs
  <2>3. frames'[Top].in = "router"
    BY <1>1, <1>2, <1>3, <2>1
  <2> QED
    BY <1>0, <2>2, <2>3 DEF Loop
<1> QED
  BY <1>4, <1>5

LEMMA ListenerLoops ==
  ASSUME IndInv, TypeInv, NEW p \in 1 .. Top, OfferListener(p)
  PROVE  \E sent : Loop(p, Tail(frames[p].l), sent, frames[p].trapped)
<1> DEFINE el == Head(frames[p].l)
           verified == verifyMapping(mappers["listeners"], el, frames[p].e)
           sent == IF verified THEN Append(frames[p].sent, el) ELSE frames[p].sent
<1>1. frames[p].l # <<>> /\ Held(p, Tail(frames[p].l), sent, frames[p].trapped)
  BY OfferListenerIs
<1>2. /\ frames # <<>> /\ mappers' = mappers
      /\ frames[Top].serving = p /\ frames[Top].in = "router"
  BY DEF OfferListener, InProcess
<1>3. /\ Top \in 1 .. Top /\ frames[Top] \in Frames(Pending) /\ DOMAIN frames = 1 .. Top
      /\ frames[p] \in Frames(Pending)
  BY <1>2, HandIs, TypesAre
<1>4. DOMAIN frames[Top] = Fields
  BY <1>3 DEF Frames, Fields
<1>5. \/ ~verified /\ frames' = [frames EXCEPT ![p].l = Tail(@)]
      \/ verified /\ frames' = [[frames EXCEPT ![p].l = Tail(@)] EXCEPT
                                  ![p].sent = Append(@, el), ![Top].in = "listener", ![Top].client = el]
  BY DEF OfferListener
<1> HIDE DEF verified, el, sent
<1>6. CASE ~verified
  <2>1. frames' = [frames EXCEPT ![p].l = Tail(@)]
    BY <1>5, <1>6
  <2>2. frames'[Top].in = "router"
    BY <1>2, <1>3, <1>4, <2>1 DEF Fields
  <2>3. Loop(p, Tail(frames[p].l), sent, frames[p].trapped)
    BY <1>1, <1>2, <1>6, <2>2 DEF Loop, verified, el
  <2> QED
    BY <2>3
<1>7. CASE verified
  <2> DEFINE next == [frames EXCEPT ![p].l = Tail(@)]
             more == [next EXCEPT ![p].sent = Append(@, el)]
  <2>1. frames' = [more EXCEPT ![Top].in = "listener", ![Top].client = el]
    BY <1>5, <1>7
  <2>2. /\ DOMAIN next = 1 .. Top /\ DOMAIN next[Top] = Fields
        /\ next[Top].serving = frames[Top].serving
    BY <1>3, <1>4 DEF Fields
  <2> HIDE DEF next
  <2>3. /\ DOMAIN more = 1 .. Top /\ DOMAIN more[Top] = Fields
        /\ more[Top].serving = next[Top].serving
    BY <1>3, <2>2 DEF Fields
  <2> HIDE DEF more
  <2>4. frames'[Top].in = "listener" /\ frames'[Top].client = el /\ frames'[Top].serving = p
    BY <1>2, <1>3, <2>1, <2>2, <2>3 DEF Fields
  <2>5. Loop(p, Tail(frames[p].l), sent, frames[p].trapped)
    BY <1>1, <1>2, <1>7, <2>4 DEF Loop, verified, el
  <2> QED
    BY <2>5
<1> QED
  BY <1>6, <1>7

LEMMA DispatchLoops ==
  ASSUME IndInv, TypeInv, UntrappedInv, Dispatch, ~Return
  PROVE  \E p \in 1 .. Top : \E l, sent, trapped : Loop(p, l, sent, trapped)
<1>1. CASE Serve \/ ListenerReturns \/ TrapperReturns(FALSE)
  BY <1>1, ServeLoops
<1>2. CASE TrapperReturns(TRUE) \/ \E p \in 1 .. Top : Exhausted(p)
  BY <1>2, CompletedLoops
<1>3. ASSUME NEW p \in 1 .. Top, OfferTrapper(p) PROVE \E l, sent, trapped : Loop(p, l, sent, trapped)
  BY <1>3, TrapperLoops
<1>4. ASSUME NEW p \in 1 .. Top, OfferListener(p) PROVE \E l, sent, trapped : Loop(p, l, sent, trapped)
  BY <1>4, ListenerLoops
<1>5. ASSUME NEW trapped \in BOOLEAN, TrapperReturns(trapped)
      PROVE  TrapperReturns(TRUE) \/ TrapperReturns(FALSE)
  <2>1. CASE trapped = TRUE
    BY <1>5, <2>1
  <2>2. CASE trapped = FALSE
    BY <1>5, <2>2
  <2> QED
    BY <2>1, <2>2
<1> QED
  BY <1>1, <1>2, <1>3, <1>4, <1>5 DEF Dispatch

LEMMA LoopsPass ==
  ASSUME IndInv, TypeInv, NEW x \in EventGenerators, LiveInv(x), StopInv(x), PlaceInv(x), ~Notified(x),
         started'[x] = started[x], isListening'[x] = isListening[x],
         NEW p \in 1 .. Top, NEW l, NEW sent, NEW trapped, Loop(p, l, sent, trapped)
  PROVE  LiveInv(x)' /\ StopInv(x)' /\ PlaceInv(x)'
<1>1. /\ Top' = Top /\ Top \in Nat /\ mappers' = mappers
      /\ \A n \in 1 .. Top :
           /\ frames'[n].e = frames[n].e /\ frames'[n].then = frames[n].then
           /\ frames'[n].l = IF n = p THEN l ELSE frames[n].l
           /\ n # Top => frames'[n].in = frames[n].in /\ frames'[n].client = frames[n].client
  BY TypesAre DEF Loop, Held
<1>2. /\ \/ l = frames[p].l
         \/ /\ frames[p].l # <<>> /\ l = Tail(frames[p].l)
            /\ verifyMapping(mappers["listeners"], Head(frames[p].l), frames[p].e) =>
                 /\ frames'[Top].in = "listener" /\ frames'[Top].client = Head(frames[p].l)
                 /\ frames'[Top].serving = p
      /\ frames'[Top].in = "listener" =>
           frames'[Top].serving = p /\ verifyMapping(mappers["listeners"], frames'[Top].client, frames[p].e)
  BY DEF Loop
<1>3. frames[p].e \in Events /\ frames[p].l \in Seq(Clients)
  BY FieldsAre
<1>4. /\ \A g \in Generators : Has(x, g)' <=> Has(x, g)
      /\ \A e \in Events : Hears(x, e)' <=> Hears(x, e)
      /\ wanted(x)' <=> wanted(x)
      /\ \A t \in Of(x) : At(t)' <=> At(t)
  BY <1>1 DEF Has, Hears, wanted, At
<1>5. verifyMapping(mappers["listeners"], x, frames[p].e) <=> Has(x, frames[p].e[1]) \/ Hears(x, frames[p].e)
  BY DEF verifyMapping, Has, Hears
<1>6. ASSUME Exact(x), Coming(x) PROVE Coming(x)' \/ Notified(x)'
  <2>1. PICK n \in 1 .. Top :
          frames[n].e[1] = erouterEGID /\ frames[n].e[2] = myGenID[x] /\ Holds(frames[n].l, x)
    BY <1>6 DEF Coming
  <2>2. CASE Holds(frames'[n].l, x)
    BY <1>1, <2>1, <2>2 DEF Coming
  <2>3. CASE ~Holds(frames'[n].l, x)
    <3>1. n = p /\ l # frames[p].l
      BY <1>1, <2>1, <2>3
    <3>2. frames[p].l # <<>> /\ l = Tail(frames[p].l) /\ ~Holds(l, x) /\ Holds(frames[p].l, x)
      BY <1>1, <1>2, <2>1, <2>3, <3>1
    <3>3. Head(frames[p].l) = x
      BY <1>3, <3>2, TailHolds
    <3>4. Hears(x, frames[p].e)
      BY <1>3, <1>6, <2>1, <3>1 DEF Exact
    <3>5. frames'[Top].in = "listener" /\ frames'[Top].client = x /\ frames'[Top].serving = p
      BY <1>2, <1>5, <3>1, <3>3, <3>4
    <3>6. frames'[p].e[1] = erouterEGID /\ Top > 0
      BY <1>1, <2>1, <3>1
    <3> QED
      BY <1>1, <3>5, <3>6 DEF Notified, In
  <2> QED
    BY <2>2, <2>3
<1>7. LiveInv(x)' /\ StopInv(x)'
  BY <1>4, <1>6, Bystander
<1>8. Notified(x)' => ~Deaf(x)'
  <2>1. SUFFICES ASSUME Notified(x)' PROVE ~Deaf(x)'
    OBVIOUS
  <2>2. frames'[Top].serving = p /\ verifyMapping(mappers["listeners"], x, frames[p].e)
    BY <1>1, <1>2, <2>1 DEF Notified, In
  <2>3. frames[p].e[1] = erouterEGID
    BY <1>1, <2>1, <2>2 DEF Notified
  <2>4. Has(x, erouterEGID) \/ Hears(x, frames[p].e)
    BY <1>5, <2>2, <2>3
  <2>5. erouterEGID \in Generators
    BY ErouterAssumption
  <2>6. Has(x, erouterEGID)' \/ Hears(x, frames[p].e)'
    BY <1>1, <2>4 DEF Has, Hears
  <2>7. Has(x, erouterEGID)' \/ \E e \in Events : e[1] = erouterEGID /\ Hears(x, e)'
    BY <1>3, <1>4, <2>3, <2>4, <2>5
  <2> QED
    BY <2>7 DEF Deaf
<1>9. \A n \in 1 .. Top' : n < Top' => ~In(n, x)'
  BY <1>1 DEF PlaceInv, In
<1> QED
  BY <1>7, <1>8, <1>9 DEF PlaceInv

LEMMA LoopsUntrapped ==
  ASSUME IndInv, TypeInv, UntrappedInv,
         NEW p \in 1 .. Top, NEW l, NEW sent, NEW trapped, Loop(p, l, sent, trapped)
  PROVE  UntrappedInv'
<1>1. /\ Top' = Top /\ Top \in Nat /\ mappers' = mappers
      /\ \A n \in 1 .. Top :
           /\ frames'[n].e = frames[n].e /\ frames'[n].then = frames[n].then
           /\ frames'[n].trapped = IF n = p THEN trapped ELSE frames[n].trapped
           /\ frames'[n].t = frames[n].t \/ frames[n].t # <<>>
           /\ n # Top => frames'[n].in = frames[n].in /\ frames'[n].serving = frames[n].serving
  BY TypesAre DEF Loop, Held
<1>2. /\ trapped = frames[p].trapped \/ frames[p].e[1] # erouterEGID
      /\ frames'[Top].in = "trapper" => frames'[Top].serving = p /\ frames[p].t # <<>>
  BY DEF Loop
<1>3. \A e \in Events : e[1] = erouterEGID => getMapping(mappers'["trappers"], e) = <<>>
  BY <1>1 DEF UntrappedInv
<1>4. ASSUME NEW n \in 1 .. Top
      PROVE  /\ frames'[n].e[1] = erouterEGID => frames'[n].t = <<>> /\ ~frames'[n].trapped
             /\ frames'[n].in = "trapper" => frames'[frames'[n].serving].e[1] # erouterEGID
             /\ frames'[n].then \in Thens
  <2>1. /\ frames[n].e[1] = erouterEGID => frames[n].t = <<>> /\ ~frames[n].trapped
        /\ frames[p].e[1] = erouterEGID => frames[p].t = <<>>
        /\ frames[n].in = "trapper" => frames[frames[n].serving].e[1] # erouterEGID
        /\ frames[n].then \in Thens
    BY DEF UntrappedInv
  <2>2. frames'[n].e[1] = erouterEGID => frames'[n].t = <<>> /\ ~frames'[n].trapped
    BY <1>1, <1>2, <2>1
  <2>3. ASSUME frames'[n].in = "trapper" PROVE frames'[frames'[n].serving].e[1] # erouterEGID
    <3>1. CASE n = Top
      BY <1>1, <1>2, <2>1, <2>3, <3>1
    <3>2. CASE n # Top
      <4>1. frames[n].in = "trapper" /\ frames'[n].serving = frames[n].serving
        BY <1>1, <2>3, <3>2
      <4>2. frames[n].serving \in 1 .. Top
        BY <1>1, <4>1 DEF IndInv, ShapeInv, IsFrame
      <4> QED
        BY <1>1, <2>1, <4>1, <4>2
    <3> QED
      BY <3>1, <3>2
  <2> QED
    BY <1>1, <2>1, <2>2, <2>3
<1> QED
  BY <1>1, <1>3, <1>4 DEF UntrappedInv

-----------------------------------------------------------------------------
(* Calls and returns, as a generator that is not concerned sees them *)

\* What is left to do, when a call that was left returns and another is made
LEMMA AtIs ==
  ASSUME IndInv, TypeInv, NEW k, On(k), NEW t
  PROVE  /\ Stays(k) => /\ At(t)' => At(t)
                        /\ At(t) => At(t)' \/ (k # Top /\ frames[Top].then = t)
         /\ \A e, then : Pushes(k, e, then) =>
              /\ At(t)' => At(t) \/ t = then
              /\ At(t) => At(t)' \/ (k # Top /\ frames[Top].then = t)
              /\ At(then)'
<1>1. /\ k \in Nat /\ (k = Top \/ k = Top - 1) /\ Top \in Nat
      /\ \A n \in 1 .. k : frames'[n].then = frames[n].then
  BY TypesAre DEF On
<1>2. \A n \in 1 .. k : n \in 1 .. Top
  BY <1>1
<1>3. \A n \in 1 .. Top : n \in 1 .. k \/ (k # Top /\ n = Top)
  BY <1>1
<1>4. ASSUME NEW j, Top' = j, j = k \/ j = k + 1, At(t)
      PROVE  At(t)' \/ (k # Top /\ frames[Top].then = t)
  <2>1. PICK n \in 1 .. Top : frames[n].then = t
    BY <1>4 DEF At
  <2>2. CASE n \in 1 .. k
    <3>1. n \in 1 .. Top' /\ frames'[n].then = t
      BY <1>1, <1>4, <2>1, <2>2
    <3> QED
      BY <3>1 DEF At
  <2>3. CASE n \notin 1 .. k
    BY <1>3, <2>1, <2>3
  <2> QED
    BY <2>2, <2>3
<1>5. ASSUME Stays(k), At(t)' PROVE At(t)
  BY <1>1, <1>2, <1>5 DEF At, Stays
<1>6. ASSUME NEW e, NEW then, Pushes(k, e, then)
      PROVE  /\ At(t)' => At(t) \/ t = then
             /\ At(then)'
  <2>1. Top' = k + 1 /\ frames'[k + 1].then = then
    BY <1>6 DEF Pushes
  <2>2. \A n \in 1 .. k + 1 : n \in 1 .. k \/ n = k + 1
    BY <1>1
  <2>3. At(t)' => At(t) \/ t = then
    BY <1>1, <1>2, <2>1, <2>2 DEF At
  <2>4. k + 1 \in 1 .. k + 1
    BY <1>1
  <2> QED
    BY <2>1, <2>3, <2>4 DEF At
<1>7. Stays(k) => Top' = k
  BY DEF Stays
<1>8. \A e, then : Pushes(k, e, then) => Top' = k + 1
  BY DEF Pushes
<1> QED
  BY <1>1, <1>4, <1>5, <1>6, <1>7, <1>8

\* Neither what returns nor what is called is left to do for x.
Apart(x, k, then) == then \notin Of(x) /\ (k # Top => frames[Top].then \notin Of(x))

LEMMA ApartKeeps ==
  ASSUME IndInv, TypeInv, NEW x, NEW k, NEW then, Apart(x, k, then),
         Stays(k) \/ \E e : Pushes(k, e, then)
  PROVE  \A t \in Of(x) : At(t)' <=> At(t)
<1>1. On(k)
  BY DEF Stays, Pushes
<1>2. ASSUME NEW t \in Of(x) PROVE At(t)' <=> At(t)
  <2>1. t # then /\ ~(k # Top /\ frames[Top].then = t)
    BY <1>2 DEF Apart
  <2>2. CASE Stays(k)
    BY <1>1, <2>1, <2>2, AtIs
  <2>3. CASE \E e : Pushes(k, e, then)
    BY <1>1, <2>1, <2>3, AtIs
  <2> QED
    BY <2>2, <2>3
<1> QED
  BY <1>2

\* Who was about to hear something still is.
LEMMA StackKeeps ==
  ASSUME IndInv, TypeInv, DeliveryInv, UntrappedInv, NEW x \in EventGenerators, PlaceInv(x),
         NEW k, Stays(k) \/ \E e, then : Pushes(k, e, then)
  PROVE  PlaceInv(x)' /\ ~Notified(x)' /\ (Coming(x) => Coming(x)')
<1>1. On(k) /\ (Top' = k \/ (Top' = k + 1 /\ frames'[k + 1].in = "router"))
  BY DEF Stays, Pushes
<1> QED
  BY <1>1, OnIs

LEMMA StayPasses ==
  ASSUME IndInv, TypeInv, DeliveryInv, UntrappedInv, NEW x \in EventGenerators,
         LiveInv(x), StopInv(x), PlaceInv(x), ~Notified(x),
         started'[x] = started[x], isListening'[x] = isListening[x], mappers' = mappers,
         NEW k, NEW then, Apart(x, k, then), Stays(k) \/ \E e : Pushes(k, e, then)
  PROVE  LiveInv(x)' /\ StopInv(x)' /\ PlaceInv(x)'
<1>1. PlaceInv(x)' /\ (Coming(x) => Coming(x)')
  BY StackKeeps
<1>2. \A t \in Of(x) : At(t)' <=> At(t)
  BY ApartKeeps
<1>3. /\ \A g \in Generators : Has(x, g)' <=> Has(x, g)
      /\ \A e \in Events : Hears(x, e)' <=> Hears(x, e)
      /\ wanted(x)' <=> wanted(x)
  BY DEF Has, Hears, wanted
<1> QED
  BY <1>1, <1>2, <1>3, Bystander

LEMMA ChangePasses ==
  ASSUME IndInv, TypeInv, TypeInv', DeliveryInv, UntrappedInv, NEW x \in EventGenerators,
         LiveInv(x), StopInv(x), PlaceInv(x), ~Notified(x),
         started'[x] = started[x], isListening'[x] = isListening[x],
         NEW k, NEW stack, Base(stack, k), Idle(stack, k),
         NEW el \in Subscribers, el # x, NEW pattern \in Patterns, NEW then \in Pending, Apart(x, k, then),
         AddOne(stack, el, pattern, then) \/ RemoveOne(stack, el, pattern, then)
  PROVE  LiveInv(x)' /\ StopInv(x)' /\ PlaceInv(x)'
<1>1. PICK type \in Types : /\ <<erouterEGID, pattern[1], type>> \in Events
                            /\ Pushes(k, <<erouterEGID, pattern[1], type>>, then)
  BY ChangePushes
<1> DEFINE e == <<erouterEGID, pattern[1], type>>
<1>2. e \in Events /\ e[1] = erouterEGID /\ e[2] = pattern[1] /\ Pushes(k, e, then)
  BY <1>1
<1> HIDE DEF e
<1>3. PlaceInv(x)' /\ (Coming(x) => Coming(x)')
  BY <1>2, StackKeeps
<1>4. \A t \in Of(x) : At(t)' <=> At(t)
  BY <1>2, ApartKeeps
<1>5. mappers' = [mappers EXCEPT ![Owner(el)] = addMapping(@, el, pattern)] \/ mappers' = Removed(el, pattern)
  BY DEF AddOne, RemoveOne
<1>6. /\ \A g \in Generators : Has(x, g)' <=> Has(x, g)
      /\ \A f \in Events : Hears(x, f)' <=> Hears(x, f)
      /\ myGenID[x] # pattern[1] => (wanted(x)' <=> wanted(x))
  BY <1>5, SomebodyAdded, SomebodyRemoved
<1>7. ASSUME Exact(x), myGenID[x] = pattern[1] PROVE Coming(x)'
  <2>1. Hears(x, e)'
    BY <1>2, <1>6, <1>7 DEF Exact
  <2>2. mappers'["listeners"] \in Mappers
    BY DEF TypeInv, TypesOK
  <2>3. Holds(getMapping(mappers'["listeners"], e), x)
    BY <1>2, <2>1, <2>2, GetMappingIs DEF Hears, verifyMapping
  <2>4. /\ Top' = k + 1 /\ frames'[k + 1].e = e /\ frames'[k + 1].l = getMapping(mappers'["listeners"], e)
        /\ k + 1 \in 1 .. k + 1
    BY <1>2 DEF Pushes, On
  <2> QED
    BY <1>2, <1>7, <2>3, <2>4 DEF Coming
<1> QED
  BY <1>3, <1>4, <1>6, <1>7, Bystander

-----------------------------------------------------------------------------
(* One step on behalf of el: a subscription is added or removed, or none is *)

Does(k, stack, el, then) ==
  /\ Base(stack, k) /\ Idle(stack, k) /\ Quiet
  /\ k # Top => frames # <<>> /\ stack = Front(frames)
  /\ el \in Subscribers /\ then \in Pending
  /\ \/ \E pattern \in Patterns : AddOne(stack, el, pattern, then) \/ RemoveOne(stack, el, pattern, then)
     \/ Unmoved(stack)

LEMMA DoesUsual ==
  ASSUME IndInv, TypeInv, NEW k, NEW stack, NEW el, NEW then, Does(k, stack, el, then)
  PROVE  /\ IndInv' /\ TypeInv' /\ Usual
         /\ Stays(k) \/ \E e \in Events : Pushes(k, e, then)
<1>1. /\ Base(stack, k) /\ Idle(stack, k) /\ Quiet /\ el \in Subscribers /\ then \in Pending
      /\ k # Top => frames # <<>> /\ stack = Front(frames)
  BY DEF Does
<1>2. ASSUME NEW pattern \in Patterns, AddOne(stack, el, pattern, then) \/ RemoveOne(stack, el, pattern, then)
      PROVE  /\ IndInv' /\ TypeInv' /\ Usual
             /\ \E e \in Events : Pushes(k, e, then)
  <2>1. IndInv' /\ TypeInv' /\ Posting
    BY <1>1, <1>2, BasePosts
  <2>2. PICK type \in Types : /\ <<erouterEGID, pattern[1], type>> \in Events
                              /\ Pushes(k, <<erouterEGID, pattern[1], type>>, then)
    BY <1>1, <1>2, ChangePushes
  <2> QED
    BY <2>1, <2>2 DEF Usual
<1>3. ASSUME Unmoved(stack) PROVE IndInv' /\ TypeInv' /\ Usual /\ Stays(k)
  <2>1. Stays(k)
    BY <1>1, <1>3, StaysIs DEF Unmoved
  <2>2. CASE k = Top
    BY <1>1, <1>3, <2>1, <2>2, BaseStays DEF Usual
  <2>3. CASE k # Top
    <3>1. frames # <<>> /\ postings = <<>> /\ Unmoved(Front(frames))
      BY <1>1, <1>3, <2>3 DEF Base
    <3> QED
      BY <1>1, <2>1, <3>1, PoppedIs DEF Usual
  <2> QED
    BY <2>2, <2>3
<1> QED
  BY <1>2, <1>3 DEF Does

\* The others are not concerned,
LEMMA DoesPasses ==
  ASSUME IndInv, TypeInv, DeliveryInv, UntrappedInv, NEW x \in EventGenerators,
         LiveInv(x), StopInv(x), PlaceInv(x), ~Notified(x),
         started'[x] = started[x], isListening'[x] = isListening[x],
         NEW k, NEW stack, NEW el, NEW then, Does(k, stack, el, then), el # x, Apart(x, k, then)
  PROVE  LiveInv(x)' /\ StopInv(x)' /\ PlaceInv(x)'
<1>1. /\ Base(stack, k) /\ Idle(stack, k) /\ el \in Subscribers /\ then \in Pending
  BY DEF Does
<1>2. TypeInv' /\ (Stays(k) \/ \E e \in Events : Pushes(k, e, then))
  BY DoesUsual
<1>3. ASSUME NEW pattern \in Patterns, AddOne(stack, el, pattern, then) \/ RemoveOne(stack, el, pattern, then)
      PROVE  LiveInv(x)' /\ StopInv(x)' /\ PlaceInv(x)'
  BY <1>1, <1>2, <1>3, ChangePasses
<1>4. ASSUME Unmoved(stack) PROVE LiveInv(x)' /\ StopInv(x)' /\ PlaceInv(x)'
  <2>1. mappers' = mappers
    BY <1>4 DEF Unmoved
  <2> QED
    BY <1>2, <2>1, StayPasses
<1> QED
  BY <1>3, <1>4 DEF Does

\* and what was on the stack stays untrapped.
LEMMA StackUntrapped ==
  ASSUME IndInv, TypeInv, UntrappedInv,
         \A e \in Events : e[1] = erouterEGID => getMapping(mappers'["trappers"], e) = <<>>,
         NEW k, NEW then \in Thens, Stays(k) \/ \E e \in Events : Pushes(k, e, then)
  PROVE  UntrappedInv'
<1>1. On(k)
  BY DEF Stays, Pushes
<1>2. /\ k \in Nat /\ (k = Top \/ k = Top - 1) /\ Top \in Nat
      /\ \A n \in 1 .. k :
           /\ frames'[n].e = frames[n].e /\ frames'[n].t = frames[n].t
           /\ frames'[n].trapped = frames[n].trapped /\ frames'[n].then = frames[n].then
           /\ frames'[n].in = frames[n].in /\ frames'[n].serving = frames[n].serving
  BY <1>1, TypesAre DEF On
<1>3. ASSUME NEW n \in 1 .. k
      PROVE  /\ frames'[n].e[1] = erouterEGID => frames'[n].t = <<>> /\ ~frames'[n].trapped
             /\ frames'[n].in = "trapper" => frames'[frames'[n].serving].e[1] # erouterEGID
             /\ frames'[n].then \in Thens
  <2>1. n \in 1 .. Top
    BY <1>2
  <2>2. /\ frames[n].e[1] = erouterEGID => frames[n].t = <<>> /\ ~frames[n].trapped
        /\ frames[n].in = "trapper" => frames[frames[n].serving].e[1] # erouterEGID
        /\ frames[n].then \in Thens
    BY <2>1 DEF UntrappedInv
  <2>3. frames[n].in = "trapper" => frames[n].serving \in 1 .. k
    BY <1>2, <2>1 DEF IndInv, ShapeInv, IsFrame
  <2> QED
    BY <1>2, <2>2, <2>3
<1>4. CASE Stays(k)
  <2>1. Top' = k
    BY <1>4 DEF Stays
  <2> QED
    BY <1>3, <2>1 DEF UntrappedInv
<1>5. ASSUME NEW e \in Events, Pushes(k, e, then) PROVE UntrappedInv'
  <2>1. /\ Top' = k + 1 /\ frames'[k + 1].e = e /\ frames'[k + 1].then = then
        /\ frames'[k + 1].t = getMapping(mappers'["trappers"], e)
        /\ frames'[k + 1].in = "router" /\ ~frames'[k + 1].trapped
    BY <1>5 DEF Pushes
  <2>2. \A n \in 1 .. k + 1 : n \in 1 .. k \/ n = k + 1
    BY <1>2
  <2>3. /\ frames'[k + 1].e[1] = erouterEGID => frames'[k + 1].t = <<>> /\ ~frames'[k + 1].trapped
        /\ frames'[k + 1].in # "trapper"
        /\ frames'[k + 1].then \in Thens
    BY <2>1
  <2> QED
    BY <1>3, <2>1, <2>2, <2>3 DEF UntrappedInv
<1> QED
  BY <1>4, <1>5

LEMMA DoesUntrapped ==
  ASSUME IndInv, TypeInv, UntrappedInv, NEW k, NEW stack, NEW el, NEW then \in Thens,
         Does(k, stack, el, then),
         \A pattern \in Patterns :
           el \in Trappers /\ AddOne(stack, el, pattern, then) => pattern[1] # erouterEGID
  PROVE  UntrappedInv'
<1>0. el \in Subscribers /\ (Stays(k) \/ \E e \in Events : Pushes(k, e, then))
  BY DoesUsual DEF Does
<1> DEFINE Untrapped == \A e \in Events : e[1] = erouterEGID => getMapping(mappers'["trappers"], e) = <<>>
<1>1. \A e \in Events : e[1] = erouterEGID => getMapping(mappers["trappers"], e) = <<>>
  BY DEF UntrappedInv
<1>2. ASSUME NEW pattern \in Patterns, AddOne(stack, el, pattern, then) PROVE Untrapped
  <2>1. mappers' = [mappers EXCEPT ![Owner(el)] = addMapping(@, el, pattern)]
    BY <1>2 DEF AddOne
  <2>2. /\ mappers \in MapperPair /\ el \in Clients
    BY <1>0, ClientsAssumption DEF TypeInv, TypesOK, MapperPair, Subscribers
  <2>3. CASE el \in Trappers
    <3>1. pattern[1] # erouterEGID
      BY <1>2, <2>3
    <3> DEFINE m == mappers["trappers"]
               new == addMapping(m, el, pattern)
    <3>2. mappers'["trappers"] = new /\ m \in Mappers
      BY <2>1, <2>2, <2>3 DEF Owner, MapperPair
    <3> HIDE DEF m
    <3>3. /\ \A g \in Generators :
               new.all[g] = IF Len(pattern) = 1 /\ g = pattern[1] THEN Append(m.all[g], el) ELSE m.all[g]
          /\ \A e \in Events :
               new.filtered[e] = IF Len(pattern) # 1 /\ Matches(e, pattern)
                                   THEN Append(m.filtered[e], el) ELSE m.filtered[e]
      BY <2>2, <3>2, AddMappingIs
    <3> HIDE DEF new
    <3>4. \A e \in Events : e[1] \in Generators /\ (Matches(e, pattern) => e[1] = pattern[1])
      BY PatternsAre, MatchesGenerator
    <3>5. \A e \in Events : e[1] = erouterEGID => getMapping(new, e) = getMapping(m, e)
      BY <3>1, <3>3, <3>4 DEF getMapping
    <3> QED
      BY <1>1, <3>2, <3>5 DEF m
  <2>4. CASE el \notin Trappers
    <3>1. mappers'["trappers"] = mappers["trappers"]
      BY <2>1, <2>2, <2>4 DEF Owner, MapperPair
    <3> QED
      BY <1>1, <3>1
  <2> QED
    BY <2>3, <2>4
<1>3. ASSUME NEW pattern \in Patterns, RemoveOne(stack, el, pattern, then) PROVE Untrapped
  <2>1. mappers' = Removed(el, pattern)
    BY <1>3 DEF RemoveOne
  <2> QED
    BY <1>0, <1>1, <2>1, SomebodyRemoved
<1>4. ASSUME Unmoved(stack) PROVE Untrapped
  BY <1>1, <1>4 DEF Unmoved
<1>5. Untrapped
  BY <1>2, <1>3, <1>4 DEF Does
<1> HIDE DEF Untrapped
<1> QED
  BY <1>0, <1>5, StackUntrapped DEF Untrapped

\* What all steps of this kind keep
Invariants == IndInv /\ TypeInv /\ DeliveryInv /\ UntrappedInv /\ FlagsOK /\ GenInv

LEMMA UsualDelivers ==
  ASSUME IndInv, TypeInv, TypeInv', DeliveryInv, Usual
  PROVE  DeliveryInv'
<1>1. CASE Resting
  BY <1>1 DEF Resting, DeliveryInv, Frame, Queued, Top
<1> QED
  BY <1>1, PostingDelivers, SendingDelivers, OtherwiseDelivered DEF Usual

\* So it is enough to look at the generator whose step it is.
LEMMA ActorOnly ==
  ASSUME Invariants, NEW x \in EventGenerators, x \notin Trappers,
         NEW k, NEW stack, NEW then \in Thens, Does(k, stack, x, then),
         then = NoCall \/ then[2] = x,
         k # Top => frames[Top].then = NoCall \/ frames[Top].then[2] = x,
         \A y \in EventGenerators : y # x => ~Notified(y),
         isListening' = isListening \/ \E b \in BOOLEAN : isListening' = [isListening EXCEPT ![x] = b],
         started' = started \/ \E b \in BOOLEAN : started' = [started EXCEPT ![x] = b],
         LiveInv(x)' /\ StopInv(x)'
  PROVE  Invariants' /\ Usual
<1>1. IndInv /\ TypeInv /\ DeliveryInv /\ UntrappedInv /\ FlagsOK /\ GenInv
  BY DEF Invariants
<1>2. IndInv' /\ TypeInv' /\ Usual /\ (Stays(k) \/ \E e \in Events : Pushes(k, e, then))
  BY <1>1, DoesUsual
<1>3. DeliveryInv'
  BY <1>1, <1>2, UsualDelivers
<1>4. UntrappedInv'
  BY <1>1, DoesUntrapped
<1>5. FlagsOK' /\ \A y \in EventGenerators : y # x => isListening'[y] = isListening[y] /\ started'[y] = started[y]
  BY <1>1 DEF FlagsOK
<1>6. PlaceInv(x)'
  <2>1. PlaceInv(x)
    BY <1>1 DEF GenInv
  <2> QED
    BY <1>1, <1>2, <2>1, StackKeeps
<1>7. ASSUME NEW y \in EventGenerators, y # x PROVE LiveInv(y)' /\ StopInv(y)' /\ PlaceInv(y)'
  <2>1. LiveInv(y) /\ StopInv(y) /\ PlaceInv(y) /\ ~Notified(y)
    BY <1>1, <1>7 DEF GenInv
  <2>2. Apart(y, k, then)
    BY <1>7, NotOf DEF Apart
  <2> QED
    BY <1>1, <1>5, <1>7, <2>1, <2>2, DoesPasses
<1>8. GenInv'
  BY <1>6, <1>7 DEF GenInv
<1> QED
  BY <1>2, <1>3, <1>4, <1>5, <1>8 DEF Invariants

-----------------------------------------------------------------------------
(* What a generator does when it is told, started, or stopped *)

\* Nobody traps the router's own events: no trapper is subscribed to them, and if
\* there are trappers the program subscribes nobody to them.
RouterIsUntrapped ==
  /\ \A e \in Events : e[1] = erouterEGID => getMapping(InitialSubscriptions["trappers"], e) = <<>>
  /\ Trappers = {} \/ \A pattern \in Subscriptions : pattern[1] # erouterEGID

\* Generators are made before they listen, do not trap, and have sources other than
\* the router.
SourcesAreOthers ==
  \A x \in EventGenerators :
    /\ x \notin Trappers /\ source[x][1] # erouterEGID
    /\ \A g \in Generators : ~Holds(InitialSubscriptions["listeners"].all[g], x)
    /\ \A e \in Events : ~Holds(InitialSubscriptions["listeners"].filtered[e], x)

LEMMA ThensAre ==
  /\ Thens \subseteq Pending
  /\ \A x \in EventGenerators : \A k \in 0 .. numEGIDs :
       <<"start", x>> \in Thens /\ <<"stop", x, k>> \in Thens /\ <<"remove", x, k>> \in Thens
  /\ NoCall \in Thens
  /\ \A t \in Thens : t # NoCall =>
       /\ t[1] \in {"start", "stop", "remove"} /\ t[2] \in EventGenerators
       /\ t[1] = "start" => t = <<"start", t[2]>>
       /\ t[1] # "start" => t[3] \in 0 .. numEGIDs /\ t = <<t[1], t[2], t[3]>>
<1>1. EventGenerators \subseteq Subscribers
  BY EventGeneratorsAssumption DEF Subscribers
<1>2. Thens \subseteq Pending
  BY <1>1 DEF Thens, Pending, Loops
<1>3. \A x \in EventGenerators : \A k \in 0 .. numEGIDs :
        <<"start", x>> \in Thens /\ <<"stop", x, k>> \in Thens /\ <<"remove", x, k>> \in Thens
  BY DEF Thens
<1>4. ASSUME NEW t \in Thens, t # NoCall
      PROVE  /\ t[1] \in {"start", "stop", "remove"} /\ t[2] \in EventGenerators
             /\ t[1] = "start" => t = <<"start", t[2]>>
             /\ t[1] # "start" => t[3] \in 0 .. numEGIDs /\ t = <<t[1], t[2], t[3]>>
  <2>1. CASE t \in {"start"} \X EventGenerators
    BY <2>1
  <2>2. CASE t \in {"stop", "remove"} \X EventGenerators \X (0 .. numEGIDs)
    BY <2>2
  <2> QED
    BY <1>4, <2>1, <2>2 DEF Thens
<1> QED
  BY <1>2, <1>3, <1>4 DEF Thens

\* A started generator that stops to nobody's notice, and listens if that is wanted
\* or is about to learn that it is not.
LEMMA Settles ==
  ASSUME NEW x \in EventGenerators, LiveInv(x), StopInv(x), started[x], started'[x],
         \A j \in 0 .. numEGIDs : At(<<"stop", x, j>>) => ~(erouterEGID < j),
         \A j \in 0 .. numEGIDs : At(<<"stop", x, j>>)' <=> At(<<"stop", x, j>>),
         \A j \in 0 .. numEGIDs : At(<<"remove", x, j>>)' => At(<<"remove", x, j>>),
         At(<<"start", x>>)' => At(<<"start", x>>),
         Exact(x) => Exact(x)',
         (isListening'[x] <=> wanted(x)') \/ (~wanted(x)' /\ (Live(x) /\ isListening'[x] => Coming(x)'))
  PROVE  LiveInv(x)' /\ StopInv(x)'
<1>1. Live(x)' <=> Live(x)
  BY DEF Live
<1>2. LiveInv(x)'
  BY <1>1 DEF LiveInv
<1>3. ASSUME NEW j \in 0 .. numEGIDs
      PROVE  /\ At(<<"remove", x, j>>)' => FALSE
             /\ At(<<"stop", x, j>>)' /\ erouterEGID < j => FALSE
             /\ At(<<"stop", x, j>>)' => ~At(<<"start", x>>)'
  <2>1. ~At(<<"remove", x, j>>) /\ (At(<<"stop", x, j>>) => ~At(<<"start", x>>))
    BY DEF StopInv
  <2> QED
    BY <2>1
<1>4. StopInv(x)'
  BY <1>3 DEF StopInv
<1> QED
  BY <1>2, <1>4

\* addSrcListener() and removeSrcListener()
LEMMA SourceChanges ==
  ASSUME IndInv, TypeInv, FlagsOK, SourcesAreOthers, NEW x \in EventGenerators, NEW k, NEW stack,
         Base(stack, k), Idle(stack, k), Quiet, k # Top => frames # <<>> /\ stack = Front(frames),
         (wanted(x) /\ addSrcListener(x, stack)) \/ (~wanted(x) /\ removeSrcListener(x, stack))
  PROVE  /\ Does(k, stack, x, NoCall)
         /\ Exact(x) => Exact(x)'
         /\ isListening'[x] <=> wanted(x)'
         /\ isListening' = isListening \/ \E b \in BOOLEAN : isListening' = [isListening EXCEPT ![x] = b]
<1>1. x \in Subscribers /\ source[x] \in Patterns /\ NoCall \in Pending /\ x \notin Trappers
  BY FeedPattern, ThensAre DEF SourcesAreOthers
<1>2. isListening \in [EventGenerators -> BOOLEAN]
  BY DEF FlagsOK
<1>3. \A e \in Events : e[1] = erouterEGID => ~Matches(e, source[x])
  BY <1>1, MatchesGenerator DEF SourcesAreOthers
<1>4. CASE wanted(x) /\ ~isListening[x]
  <2>1. isListening' = [isListening EXCEPT ![x] = TRUE] /\ AddOne(stack, x, source[x], NoCall)
    BY <1>4 DEF addSrcListener
  <2>2. Does(k, stack, x, NoCall)
    BY <1>1, <2>1 DEF Does
  <2>3. mappers' = [mappers EXCEPT ![Owner(x)] = addMapping(@, x, source[x])]
    BY <2>1 DEF AddOne
  <2>4. /\ \A g \in Generators : Has(x, g)' <=> Has(x, g) \/ (Len(source[x]) = 1 /\ g = source[x][1])
        /\ \A e \in Events : Hears(x, e)' <=> Hears(x, e) \/ (Len(source[x]) # 1 /\ Matches(e, source[x]))
    BY <1>1, <2>3, OwnAdded
  <2>5. isListening'[x] = TRUE
    BY <1>2, <2>1
  <2>6. Exact(x) => Exact(x)'
    BY <1>4, <2>4, <2>5 DEF Exact
  <2>7. wanted(x)'
    BY <1>1, <1>4, <2>3, SomebodyAdded
  <2> QED
    BY <2>1, <2>2, <2>5, <2>6, <2>7
<1>5. CASE ~wanted(x) /\ isListening[x] /\ Removed(x, source[x]) # mappers
  <2>1. isListening' = [isListening EXCEPT ![x] = FALSE] /\ RemoveOne(stack, x, source[x], NoCall)
    BY <1>5 DEF removeSrcListener
  <2>2. Does(k, stack, x, NoCall)
    BY <1>1, <2>1 DEF Does
  <2>3. mappers' = Removed(x, source[x])
    BY <2>1 DEF RemoveOne
  <2>4. /\ \A g \in Generators : Has(x, g)' <=> Has(x, g) /\ ~(Len(source[x]) = 1 /\ g = source[x][1])
        /\ \A e \in Events : Hears(x, e)' <=> Hears(x, e) /\ ~Matches(e, source[x])
    BY <1>1, <2>3, OwnRemoved
  <2>5. isListening'[x] = FALSE
    BY <1>2, <2>1
  <2>6. Exact(x) => Exact(x)'
    BY <1>3, <1>5, <2>4, <2>5 DEF Exact
  <2>7. ~wanted(x)'
    BY <1>1, <1>5, <2>3, SomebodyRemoved
  <2> QED
    BY <2>1, <2>2, <2>5, <2>6, <2>7
<1>6. CASE ~wanted(x) /\ isListening[x] /\ Removed(x, source[x]) = mappers
  <2>1. isListening' = [isListening EXCEPT ![x] = FALSE] /\ Unmoved(stack)
    BY <1>6 DEF removeSrcListener
  <2>2. Does(k, stack, x, NoCall)
    BY <1>1, <2>1 DEF Does
  <2>3. /\ Len(source[x]) = 1 => ~Has(x, source[x][1])
        /\ \A e \in Events : Matches(e, source[x]) => ~Hears(x, e)
    BY <1>1, <1>6, OwnRemoved
  <2>4. source[x][1] \in Generators /\ \E e \in Events : Matches(e, source[x])
    BY <1>1, PatternIs, MatchesGenerator
  <2>5. ~Exact(x)
    BY <1>6, <2>3, <2>4 DEF Exact
  <2>6. isListening'[x] = FALSE /\ mappers' = mappers
    BY <1>2, <2>1 DEF Unmoved
  <2>7. ~wanted(x)'
    BY <1>6, <2>6 DEF wanted
  <2> QED
    BY <2>1, <2>2, <2>5, <2>6, <2>7
<1>7. CASE isListening[x] <=> wanted(x)
  <2>1. isListening' = isListening /\ Unmoved(stack)
    BY <1>7 DEF addSrcListener, removeSrcListener
  <2>2. Does(k, stack, x, NoCall)
    BY <1>1, <2>1 DEF Does
  <2>3. mappers' = mappers
    BY <2>1 DEF Unmoved
  <2>4. (Exact(x)' <=> Exact(x)) /\ (wanted(x)' <=> wanted(x))
    BY <2>1, <2>3 DEF Exact, Has, Hears, wanted
  <2> QED
    BY <1>7, <2>1, <2>2, <2>4
<1> QED
  BY <1>2, <1>4, <1>5, <1>6, <1>7

\* A step in which nobody's subscriptions change, and nobody has an event.
LEMMA NothingHappens ==
  ASSUME Invariants, NEW x \in Subscribers, NEW k, NEW stack, Base(stack, k), Idle(stack, k), Quiet,
         k # Top => frames # <<>> /\ stack = Front(frames) /\ frames[Top].then = NoCall,
         Unmoved(stack), UNCHANGED generatorVars,
         \A y \in EventGenerators : ~Notified(y)
  PROVE  Invariants' /\ Usual
<1>1. IndInv /\ TypeInv /\ DeliveryInv /\ UntrappedInv /\ FlagsOK /\ GenInv
  BY DEF Invariants
<1>2. NoCall \in Pending /\ NoCall \in Thens
  BY ThensAre
<1>3. Does(k, stack, x, NoCall)
  BY <1>2 DEF Does
<1>4. IndInv' /\ TypeInv' /\ Usual /\ (Stays(k) \/ \E e \in Events : Pushes(k, e, NoCall))
  BY <1>1, <1>3, DoesUsual
<1>5. DeliveryInv'
  BY <1>1, <1>4, UsualDelivers
<1>6. mappers' = mappers /\ isListening' = isListening /\ started' = started
  BY DEF Unmoved, generatorVars
<1>7. UntrappedInv'
  <2>1. \A e \in Events : e[1] = erouterEGID => getMapping(mappers'["trappers"], e) = <<>>
    BY <1>1, <1>6 DEF UntrappedInv
  <2> QED
    BY <1>1, <1>2, <1>4, <2>1, StackUntrapped
<1>8. FlagsOK'
  BY <1>1, <1>6 DEF FlagsOK
<1>9. ASSUME NEW y \in EventGenerators PROVE LiveInv(y)' /\ StopInv(y)' /\ PlaceInv(y)'
  <2>1. LiveInv(y) /\ StopInv(y) /\ PlaceInv(y) /\ ~Notified(y)
    BY <1>1 DEF GenInv
  <2>2. Apart(y, k, NoCall)
    BY NotOf DEF Apart
  <2> QED
    BY <1>1, <1>4, <1>6, <2>1, <2>2, StayPasses
<1>10. GenInv'
  BY <1>9 DEF GenInv
<1> QED
  BY <1>4, <1>5, <1>7, <1>8, <1>10 DEF Invariants

\* The generator has the event, and the step is its own.
LEMMA ReactKeeps ==
  ASSUME Invariants, SourcesAreOthers, NEW x \in EventGenerators, React(x)
  PROVE  Invariants' /\ Usual
<1>1. IndInv /\ TypeInv /\ DeliveryInv /\ UntrappedInv /\ FlagsOK /\ GenInv
  BY DEF Invariants
<1>2. /\ frames # <<>> /\ frames[Top].in = "listener" /\ frames[Top].client = x
      /\ started' = started /\ calls' = calls /\ latest' = latest /\ news' = news
  BY DEF React
<1>3. Base(Handled, Top) /\ Top > 0 /\ Handled[Top].client = NoClient
  BY <1>1, <1>2, HandledBase
<1>4. Idle(Handled, Top)
  BY <1>3, EventGeneratorsAssumption DEF Idle
<1>5. Quiet
  BY <1>1, <1>2 DEF Quiet, TypeInv, TypesOK
<1>6. x \in Subscribers /\ NoCall \in Thens /\ x \notin Trappers
  BY FeedPattern, ThensAre DEF SourcesAreOthers
<1>7. \A y \in EventGenerators : y # x => ~Notified(y)
  BY <1>2 DEF Notified, In
<1>8. LiveInv(x) /\ StopInv(x) /\ PlaceInv(x)
  BY <1>1 DEF GenInv
<1> DEFINE e == frames[frames[Top].serving].e
<1>9. CASE e[1] # erouterEGID
  <2>1. Unmoved(Handled) /\ UNCHANGED generatorVars
    BY <1>2, <1>9 DEF React, Handled, generatorVars
  <2>2. \A y \in EventGenerators : ~Notified(y)
    BY <1>9 DEF Notified
  <2> QED
    BY <1>3, <1>4, <1>5, <1>6, <2>1, <2>2, NothingHappens
<1>10. CASE e[1] = erouterEGID
  <2>1. (wanted(x) /\ addSrcListener(x, Handled)) \/ (~wanted(x) /\ removeSrcListener(x, Handled))
    BY <1>10 DEF React, Handled
  <2>2. /\ Does(Top, Handled, x, NoCall)
        /\ Exact(x) => Exact(x)'
        /\ isListening'[x] <=> wanted(x)'
        /\ isListening' = isListening \/ \E b \in BOOLEAN : isListening' = [isListening EXCEPT ![x] = b]
    BY <1>1, <1>3, <1>4, <1>5, <2>1, SourceChanges
  <2>3. ~Deaf(x)
    BY <1>2, <1>3, <1>8, <1>10 DEF PlaceInv, Notified, In
  <2>4. started[x] /\ \A j \in 0 .. numEGIDs : At(<<"stop", x, j>>) => ~(erouterEGID < j)
    BY <1>8, <2>3 DEF StopInv
  <2>5. \A t : t \in Of(x) => (At(t)' <=> At(t))
    <3>1. Apart(x, Top, NoCall)
      BY NotOf DEF Apart
    <3>2. Stays(Top) \/ \E f \in Events : Pushes(Top, f, NoCall)
      BY <1>1, <2>2, DoesUsual
    <3> QED
      BY <1>1, <3>1, <3>2, ApartKeeps
  <2>6. /\ At(<<"start", x>>)' <=> At(<<"start", x>>)
        /\ \A j \in 0 .. numEGIDs : /\ At(<<"stop", x, j>>)' <=> At(<<"stop", x, j>>)
                                    /\ At(<<"remove", x, j>>)' <=> At(<<"remove", x, j>>)
    BY <2>5 DEF Of
  <2>7. started'[x]
    BY <1>2, <2>4
  <2>8. LiveInv(x)' /\ StopInv(x)'
    BY <1>8, <2>2, <2>4, <2>6, <2>7, Settles
  <2> QED
    BY <1>2, <1>6, <1>7, <2>2, <2>8, ActorOnly
<1> QED
  BY <1>9, <1>10

\* What is on top has returned to a caller that goes on.
LEMMA ContinuingIs ==
  ASSUME Invariants, frames # <<>>, frames[Top].serving = 0, postings = <<>>,
         calls' = calls, latest' = latest, news' = news
  PROVE  /\ Base(Front(frames), Top - 1) /\ Idle(Front(frames), Top - 1) /\ Quiet
         /\ Top \in Nat /\ Top \in 1 .. Top /\ Top - 1 # Top
         /\ frames[Top].then \in Thens
         /\ At(frames[Top].then)
         /\ \A y \in EventGenerators : ~Notified(y)
<1>1. IndInv /\ TypeInv /\ UntrappedInv
  BY DEF Invariants
<1>2. Top \in Nat /\ Top \in 1 .. Top /\ Top - 1 # Top
  BY <1>1, HandIs, TypesAre
<1>3. Base(Front(frames), Top - 1)
  BY <1>1, FrontBase
<1>4. Idle(Front(frames), Top - 1)
  BY <1>2 DEF Idle
<1>5. Quiet
  BY <1>1 DEF Quiet, TypeInv, TypesOK
<1>6. IsFrame(Top)
  BY <1>1, <1>2 DEF IndInv, ShapeInv
<1>7. frames[Top].in # "listener"
  BY <1>6 DEF IsFrame
<1>8. \A y \in EventGenerators : ~Notified(y)
  BY <1>7 DEF Notified, In
<1>9. frames[Top].then \in Thens
  BY <1>1, <1>2 DEF UntrappedInv
<1>10. At(frames[Top].then)
  BY <1>2 DEF At
<1> QED
  BY <1>2, <1>3, <1>4, <1>5, <1>8, <1>9, <1>10

LEMMA ContinueStartKeeps ==
  ASSUME Invariants, SourcesAreOthers, ContinueStart
  PROVE  Invariants' /\ Usual
<1>1. IndInv /\ TypeInv /\ DeliveryInv /\ UntrappedInv /\ FlagsOK /\ GenInv
  BY DEF Invariants
<1>2. /\ frames # <<>> /\ frames[Top].serving = 0 /\ postings = <<>>
      /\ frames[Top].then # NoCall /\ frames[Top].then[1] = "start"
      /\ calls' = calls /\ latest' = latest /\ news' = news /\ started' = started
  BY DEF ContinueStart, Continuing
<1>3. /\ Base(Front(frames), Top - 1) /\ Idle(Front(frames), Top - 1) /\ Quiet
      /\ Top \in Nat /\ Top \in 1 .. Top /\ Top - 1 # Top
      /\ frames[Top].then \in Thens
      /\ At(frames[Top].then)
      /\ \A y \in EventGenerators : ~Notified(y)
  BY <1>2, ContinuingIs
<1>4. frames[Top].then[2] \in EventGenerators /\ frames[Top].then = <<"start", frames[Top].then[2]>>
  BY <1>2, <1>3, ThensAre
<1>5. PICK x \in EventGenerators : x = frames[Top].then[2]
  BY <1>4
<1>6. frames[Top].then = <<"start", x>> /\ At(<<"start", x>>)
  BY <1>3, <1>4, <1>5
<1>7. x \in Subscribers /\ NoCall \in Thens /\ NoCall \in Pending /\ x \notin Trappers
  BY FeedPattern, ThensAre DEF SourcesAreOthers
<1>8. LiveInv(x) /\ StopInv(x) /\ PlaceInv(x) /\ ~Notified(x)
  BY <1>1, <1>3 DEF GenInv
<1>9. /\ started[x] /\ started'[x]
      /\ \A j \in 0 .. numEGIDs : ~At(<<"stop", x, j>>) /\ ~At(<<"remove", x, j>>)
  BY <1>2, <1>6, <1>8 DEF StopInv
<1>10. \/ (wanted(x) /\ addSrcListener(x, Front(frames)))
       \/ (~wanted(x) /\ Unmoved(Front(frames)) /\ isListening' = isListening)
  BY <1>5 DEF ContinueStart
<1>11. /\ Does(Top - 1, Front(frames), x, NoCall)
       /\ Exact(x) => Exact(x)'
       /\ isListening' = isListening \/ \E b \in BOOLEAN : isListening' = [isListening EXCEPT ![x] = b]
       /\ \/ isListening'[x] <=> wanted(x)'
          \/ ~wanted(x)' /\ mappers' = mappers /\ isListening' = isListening /\ ~wanted(x)
  <2>1. CASE wanted(x) /\ addSrcListener(x, Front(frames))
    BY <1>1, <1>2, <1>3, <2>1, SourceChanges
  <2>2. CASE ~wanted(x) /\ Unmoved(Front(frames)) /\ isListening' = isListening
    <3>1. Does(Top - 1, Front(frames), x, NoCall)
      BY <1>2, <1>3, <1>7, <2>2 DEF Does
    <3>2. mappers' = mappers
      BY <2>2 DEF Unmoved
    <3>3. (Exact(x)' <=> Exact(x)) /\ (wanted(x)' <=> wanted(x))
      BY <2>2, <3>2 DEF Exact, Has, Hears, wanted
    <3> QED
      BY <2>2, <3>1, <3>2, <3>3
  <2> QED
    BY <1>10, <2>1, <2>2
<1>12. Stays(Top - 1) \/ \E f \in Events : Pushes(Top - 1, f, NoCall)
  BY <1>1, <1>11, DoesUsual
<1>13. On(Top - 1)
  BY <1>12 DEF Stays, Pushes
<1>14. \A t : t # NoCall => (At(t)' => At(t))
  BY <1>1, <1>12, <1>13, AtIs
<1>15. /\ At(<<"start", x>>)' => At(<<"start", x>>)
       /\ \A j \in 0 .. numEGIDs : /\ At(<<"stop", x, j>>)' => At(<<"stop", x, j>>)
                                   /\ At(<<"remove", x, j>>)' => At(<<"remove", x, j>>)
  BY <1>14 DEF NoCall
<1>16. Coming(x) => Coming(x)'
  BY <1>1, <1>8, <1>12, StackKeeps
<1>17. (isListening'[x] <=> wanted(x)') \/ (~wanted(x)' /\ (Live(x) /\ isListening'[x] => Coming(x)'))
  BY <1>8, <1>11, <1>16 DEF LiveInv
<1>18. LiveInv(x)' /\ StopInv(x)'
  BY <1>8, <1>9, <1>11, <1>15, <1>17, Settles
<1>19. frames[Top].then[2] = x
  BY <1>5
<1> QED
  BY <1>2, <1>3, <1>7, <1>11, <1>18, <1>19, ActorOnly

\* A handler that calls is no generator's.
LEMMA CallIs ==
  ASSUME Invariants, Call, ~InGenerator
  PROVE  /\ Base(Calling, Top) /\ Idle(Calling, Top) /\ Quiet
         /\ \A y \in EventGenerators : ~Notified(y)
<1>1. IndInv /\ TypeInv
  BY DEF Invariants
<1>2. InProgram /\ calls < MaxCalls /\ calls' = calls + 1 /\ latest' = latest /\ news' = news
  BY DEF Call
<1>3. Base(Calling, Top) /\ \A n \in 1 .. Top : Calling[n].client = frames[n].client
  BY <1>1, <1>2, CallingBase
<1>4. Top \in Nat /\ (frames = <<>> <=> Top = 0)
  BY <1>1, TypesAre
<1>5. ASSUME NEW y \in EventGenerators, Top > 0 PROVE ~In(Top, y)
  BY <1>4, <1>5 DEF InGenerator, In
<1>6. \A n \in 1 .. Top : Calling[n].in = frames[n].in
  BY <1>3 DEF Base, Kept
<1>7. Idle(Calling, Top)
  <2>1. Top > 0 => Top \in 1 .. Top
    BY <1>4
  <2> QED
    BY <1>3, <1>5, <1>6, <2>1 DEF Idle, In
<1>8. Quiet
  <2>1. calls \in 0 .. MaxCalls /\ MaxCalls \in Nat
    BY <1>1, MaxCallsAssumption DEF TypeInv, TypesOK
  <2>2. calls' \in 0 .. MaxCalls
    BY <1>2, <2>1
  <2> QED
    BY <1>2, <2>2 DEF Quiet
<1>9. \A y \in EventGenerators : ~Notified(y)
  BY <1>5 DEF Notified
<1> QED
  BY <1>3, <1>7, <1>8, <1>9

\* A generator that starts was unsubscribed, and is not about to be.
LEMMA DoStartKeeps ==
  ASSUME Invariants, SourcesAreOthers, ~Overlapping, ~InGenerator, NEW x \in EventGenerators, DoStart(x)
  PROVE  Invariants' /\ Usual
<1>1. IndInv /\ TypeInv /\ DeliveryInv /\ UntrappedInv /\ FlagsOK /\ GenInv
  BY DEF Invariants
<1> DEFINE pattern == <<erouterEGID, myGenID[x]>>
           then == <<"start", x>>
<1>2. /\ Call /\ ~started[x] /\ ~Stopping(x)
      /\ started' = [started EXCEPT ![x] = TRUE] /\ isListening' = isListening
      /\ AddOne(Calling, x, pattern, then)
  BY DEF DoStart
<1>3. /\ Base(Calling, Top) /\ Idle(Calling, Top) /\ Quiet
      /\ \A y \in EventGenerators : ~Notified(y)
  BY <1>2, CallIs
<1>4. /\ x \in Subscribers /\ pattern \in Patterns /\ then \in Thens /\ then \in Pending /\ x \notin Trappers
      /\ 0 \in 0 .. numEGIDs
  <2>1. 0 \in 0 .. numEGIDs
    BY NumEGIDsAssumption
  <2> QED
    BY <2>1, FeedPattern, ThensAre DEF SourcesAreOthers
<1>5. LiveInv(x) /\ StopInv(x)
  BY <1>1 DEF GenInv
<1>6. Does(Top, Calling, x, then)
  <2> HIDE DEF pattern, then
  <2> QED
    BY <1>2, <1>3, <1>4 DEF Does
<1>7. Top \in Nat /\ DOMAIN frames = 1 .. Top
  BY <1>1, TypesAre
<1>8. \A j \in 0 .. numEGIDs : ~At(<<"stop", x, j>>) /\ ~At(<<"remove", x, j>>)
  <2> SUFFICES ASSUME NEW n \in 1 .. Top, NEW j \in 0 .. numEGIDs,
                      frames[n].then = <<"stop", x, j>> \/ frames[n].then = <<"remove", x, j>>
               PROVE  FALSE
    BY DEF At
  <2>1. frames[n].then # NoCall /\ frames[n].then[1] \in {"stop", "remove"} /\ frames[n].then[2] = x
    BY DEF NoCall
  <2> QED
    BY <1>2, <1>7, <2>1 DEF Stopping
<1>9. Nowhere(x, numEGIDs) /\ ~isListening[x]
  BY <1>2, <1>5, <1>8 DEF StopInv
<1>10. (\A g \in Generators : ~Has(x, g)) /\ (\A e \in Events : ~Hears(x, e))
  <2>1. \A g \in Generators : g < numEGIDs
    BY NumEGIDsAssumption DEF Generators
  <2>2. \A e \in Events : e[1] \in Generators
    BY PatternsAre
  <2> QED
    BY <1>9, <2>1, <2>2 DEF Nowhere
<1>11. mappers' = [mappers EXCEPT ![Owner(x)] = addMapping(@, x, pattern)]
  BY <1>2 DEF AddOne
<1>12. Len(pattern) = 2 /\ \A e \in Events : Matches(e, pattern) <=> e[1] = erouterEGID /\ e[2] = myGenID[x]
  <2>1. Len(pattern) = 2 /\ pattern[1] = erouterEGID /\ pattern[2] = myGenID[x]
    OBVIOUS
  <2>2. \A e \in Events : Matches(e, pattern) <=> \A i \in 1 .. Len(pattern) : pattern[i] = e[i]
    BY <1>4, MatchesIs
  <2> HIDE DEF pattern
  <2>3. 1 .. Len(pattern) = {1, 2}
    BY <2>1
  <2> QED
    BY <2>1, <2>2, <2>3
<1>13. /\ \A g \in Generators : Has(x, g)' <=> Has(x, g) \/ (Len(pattern) = 1 /\ g = pattern[1])
       /\ \A e \in Events : Hears(x, e)' <=> Hears(x, e) \/ (Len(pattern) # 1 /\ Matches(e, pattern))
  <2> HIDE DEF pattern
  <2> QED
    BY <1>1, <1>4, <1>11, OwnAdded
<1> HIDE DEF pattern
<1>14. started'[x] = TRUE /\ ~isListening'[x]
  BY <1>1, <1>2, <1>9 DEF FlagsOK
<1>15. Exact(x)'
  BY <1>10, <1>12, <1>13, <1>14 DEF Exact
<1>16. Stays(Top) \/ \E f \in Events : Pushes(Top, f, then)
  BY <1>1, <1>6, DoesUsual
<1>17. PICK f \in Events : Pushes(Top, f, then)
  <2>1. \E type \in Types : /\ <<erouterEGID, pattern[1], type>> \in Events
                            /\ Pushes(Top, <<erouterEGID, pattern[1], type>>, then)
    BY <1>1, <1>2, <1>3, <1>4, ChangePushes
  <2> QED
    BY <2>1
<1>18. On(Top)
  BY <1>17 DEF Pushes
<1>19. (\A t : At(t)' => At(t) \/ t = then) /\ At(then)'
  BY <1>1, <1>17, <1>18, AtIs
<1>20. \A j \in 0 .. numEGIDs : ~At(<<"stop", x, j>>)' /\ ~At(<<"remove", x, j>>)'
  BY <1>8, <1>19
<1>21. LiveInv(x)'
  BY <1>14, <1>15, <1>19 DEF LiveInv
<1>22. StopInv(x)'
  BY <1>14, <1>20 DEF StopInv
<1>23. isListening' = isListening /\ \E b \in BOOLEAN : started' = [started EXCEPT ![x] = b]
  BY <1>2
<1>24. then[2] = x
  OBVIOUS
<1> HIDE DEF then
<1> QED
  BY <1>3, <1>4, <1>6, <1>21, <1>22, <1>23, <1>24, ActorOnly

-----------------------------------------------------------------------------
(* The loops that unsubscribe a generator *)

\* It hears nothing of generator g.
Gone(x, g) == ~Has(x, g) /\ \A e \in Events : e[1] = g => ~Hears(x, e)

LEMMA GoneIs ==
  ASSUME NEW x
  PROVE  /\ Deaf(x) <=> Gone(x, erouterEGID)
         /\ \A k : Nowhere(x, k) <=> \A g \in Generators : g < k => Gone(x, g)
<1>1. Deaf(x) <=> Gone(x, erouterEGID)
  BY DEF Deaf, Gone
<1>2. \A e \in Events : e[1] \in Generators
  BY PatternsAre
<1> QED
  BY <1>1, <1>2 DEF Nowhere, Gone

\* The loop skips the generators from which it has nothing to remove,
LEMMA Skipped ==
  ASSUME TypeInv, NEW x \in Subscribers, x \notin Trappers, NEW first \in 0 .. numEGIDs,
         NEW S, S = {g \in first .. numEGIDs - 1 : Removed(x, <<g>>) # mappers}
  PROVE  /\ S = {} => \A g \in Generators : first <= g => Gone(x, g)
         /\ S # {} => /\ Min(S) \in Generators /\ first <= Min(S)
                      /\ \A g \in Generators : first <= g /\ g < Min(S) => Gone(x, g)
<1>1. numEGIDs \in Nat /\ Generators = 0 .. numEGIDs - 1
  BY NumEGIDsAssumption DEF Generators
<1>2. ASSUME NEW g \in Generators, first <= g, g \notin S PROVE Gone(x, g)
  <2>1. g \in first .. numEGIDs - 1
    BY <1>1, <1>2
  <2>2. Removed(x, <<g>>) = mappers
    BY <1>2, <2>1
  <2>3. <<g>> \in Patterns /\ <<g>>[1] = g /\ Len(<<g>>) = 1
    BY PatternsAre
  <2> DEFINE pattern == <<g>>
  <2>4. mappers = Removed(x, pattern) /\ pattern \in Patterns /\ pattern[1] = g /\ Len(pattern) = 1
    BY <2>2, <2>3
  <2> HIDE DEF pattern
  <2>5. ~Has(x, g) /\ \A e \in Events : Matches(e, pattern) => ~Hears(x, e)
    BY <2>4, OwnRemoved
  <2>6. \A e \in Events : e[1] = g => Matches(e, pattern)
    BY <2>4, MatchesGenerator
  <2> QED
    BY <2>5, <2>6 DEF Gone
<1>3. S \in SUBSET Nat /\ S \subseteq Generators /\ \A g \in S : first <= g
  BY <1>1
<1>4. S # {} => Min(S) \in S /\ \A g \in S : Min(S) <= g
  BY <1>3, MinOfNumbers
<1>5. ASSUME S # {}, NEW g \in Generators, g < Min(S) PROVE g \notin S
  <2> DEFINE least == Min(S)
  <2>1. least \in S /\ (\A h \in S : least <= h) /\ g < least
    BY <1>4, <1>5
  <2> HIDE DEF least
  <2>2. least \in Nat /\ g \in Nat
    BY <1>1, <1>3, <2>1
  <2> QED
    BY <2>1, <2>2
<1> QED
  BY <1>2, <1>3, <1>4, <1>5

\* and removes the subscriptions to the next.
LEMMA OneGone ==
  ASSUME TypeInv, NEW x \in Subscribers, x \notin Trappers, NEW g \in Generators, mappers' = Removed(x, <<g>>)
  PROVE  Gone(x, g)' /\ \A h \in Generators : Gone(x, h) => Gone(x, h)'
<1> DEFINE pattern == <<g>>
<1>1. mappers' = Removed(x, pattern) /\ pattern \in Patterns /\ pattern[1] = g /\ Len(pattern) = 1
  BY PatternsAre
<1> HIDE DEF pattern
<1>2. /\ \A h \in Generators : Has(x, h)' <=> Has(x, h) /\ ~(Len(pattern) = 1 /\ h = pattern[1])
      /\ \A e \in Events : Hears(x, e)' <=> Hears(x, e) /\ ~Matches(e, pattern)
  BY <1>1, OwnRemoved
<1>3. \A e \in Events : e[1] = g => Matches(e, pattern)
  BY <1>1, MatchesGenerator
<1> QED
  BY <1>1, <1>2, <1>3 DEF Gone

\* What removeListener(x) still has to do after it has removed one, or is done with
LEMMA RemoveIs ==
  ASSUME IndInv, TypeInv, NEW x \in EventGenerators, x \notin Trappers, NEW k, NEW stack,
         Base(stack, k), Idle(stack, k), Quiet, k # Top => frames # <<>> /\ stack = Front(frames),
         NEW first \in 0 .. numEGIDs, Nowhere(x, first), RemoveFrom(stack, x, first)
  PROVE  /\ \A g \in Generators : Gone(x, g) => Gone(x, g)'
         /\ \/ Does(k, stack, x, NoCall) /\ Nowhere(x, numEGIDs)' /\ Stays(k)
            \/ \E j \in 1 .. numEGIDs :
                 /\ Does(k, stack, x, <<"remove", x, j>>) /\ Nowhere(x, j)'
                 /\ \E e \in Events : Pushes(k, e, <<"remove", x, j>>)
<1> DEFINE S == {g \in first .. numEGIDs - 1 : Removed(x, <<g>>) # mappers}
<1>1. x \in Subscribers /\ NoCall \in Pending
  BY FeedPattern, ThensAre
<1>2. \/ S # {} /\ RemoveOne(stack, x, <<Min(S)>>, <<"remove", x, Min(S) + 1>>)
      \/ S = {} /\ Unmoved(stack)
  BY DEF RemoveFrom, Unmoved
<1>3. /\ S = {} => \A g \in Generators : first <= g => Gone(x, g)
      /\ S # {} => /\ Min(S) \in Generators /\ first <= Min(S)
                   /\ \A g \in Generators : first <= g /\ g < Min(S) => Gone(x, g)
  BY <1>1, Skipped
<1> HIDE DEF S
<1>4. numEGIDs \in Nat /\ Generators = 0 .. numEGIDs - 1
  BY NumEGIDsAssumption DEF Generators
<1>5. \A g \in Generators : g < first => Gone(x, g)
  BY GoneIs
<1>6. CASE S = {}
  <2>1. Unmoved(stack)
    BY <1>2, <1>6
  <2>2. Does(k, stack, x, NoCall)
    BY <1>1, <2>1 DEF Does
  <2>3. \A g \in Generators : Gone(x, g)
    BY <1>3, <1>4, <1>5, <1>6
  <2>4. \A g \in Generators : Gone(x, g) => Gone(x, g)'
    BY <2>1 DEF Unmoved, Gone, Has, Hears
  <2>5. Nowhere(x, numEGIDs)
    BY <2>3, GoneIs
  <2>6. Nowhere(x, numEGIDs)'
    BY <2>1, <2>5 DEF Unmoved, Nowhere, Has, Hears
  <2>7. Stays(k)
    BY <2>1, StaysIs DEF Unmoved
  <2> QED
    BY <2>2, <2>4, <2>6, <2>7
<1>7. CASE S # {}
  <2>1. PICK g \in Generators :
          /\ g = Min(S) /\ first <= g
          /\ \A h \in Generators : first <= h /\ h < g => Gone(x, h)
    BY <1>3, <1>7
  <2>2. RemoveOne(stack, x, <<g>>, <<"remove", x, g + 1>>)
    BY <1>2, <1>7, <2>1
  <2>3. g + 1 \in 1 .. numEGIDs /\ <<"remove", x, g + 1>> \in Pending /\ <<g>> \in Patterns
    <3>1. g + 1 \in 1 .. numEGIDs /\ g + 1 \in 0 .. numEGIDs
      BY <1>4
    <3> QED
      BY <3>1, ThensAre, PatternsAre
  <2>4. mappers' = Removed(x, <<g>>)
    BY <2>2 DEF RemoveOne
  <2>5. Gone(x, g)' /\ \A h \in Generators : Gone(x, h) => Gone(x, h)'
    BY <1>1, <2>4, OneGone
  <2>6. \A h \in Generators : h < g + 1 => Gone(x, h)'
    BY <1>4, <1>5, <2>1, <2>5
  <2>7. Nowhere(x, g + 1)'
    <3>1. \A e \in Events : e[1] \in Generators
      BY PatternsAre
    <3> QED
      BY <2>6, <3>1 DEF Nowhere, Gone
  <2> DEFINE then == <<"remove", x, g + 1>>
             pattern == <<g>>
  <2>8. then \in Pending /\ pattern \in Patterns /\ RemoveOne(stack, x, pattern, then)
    BY <2>2, <2>3
  <2> HIDE DEF then, pattern
  <2>9. Does(k, stack, x, then)
    BY <1>1, <2>8 DEF Does
  <2>10. \E type \in Types : /\ <<erouterEGID, pattern[1], type>> \in Events
                             /\ Pushes(k, <<erouterEGID, pattern[1], type>>, then)
    BY <1>1, <2>8, ChangePushes
  <2>11. \E e \in Events : Pushes(k, e, then)
    BY <2>10
  <2> QED
    BY <2>3, <2>5, <2>7, <2>9, <2>11 DEF then
<1> QED
  BY <1>6, <1>7

\* A generator that is stopped stays so while the router goes on unsubscribing it.
LEMMA RemoveKeeps ==
  ASSUME Invariants, SourcesAreOthers, frames # <<>>, frames[Top].serving = 0, postings = <<>>,
         calls' = calls, latest' = latest, news' = news, UNCHANGED generatorVars,
         frames[Top].then # NoCall, frames[Top].then[1] = "remove",
         RemoveFrom(Front(frames), frames[Top].then[2], frames[Top].then[3])
  PROVE  Invariants' /\ Usual
<1>1. IndInv /\ TypeInv /\ DeliveryInv /\ UntrappedInv /\ FlagsOK /\ GenInv
  BY DEF Invariants
<1>2. /\ Base(Front(frames), Top - 1) /\ Idle(Front(frames), Top - 1) /\ Quiet
      /\ Top \in Nat /\ Top \in 1 .. Top /\ Top - 1 # Top
      /\ frames[Top].then \in Thens
      /\ At(frames[Top].then)
      /\ \A y \in EventGenerators : ~Notified(y)
  BY ContinuingIs
<1>3. /\ frames[Top].then[2] \in EventGenerators /\ frames[Top].then[3] \in 0 .. numEGIDs
      /\ frames[Top].then = <<"remove", frames[Top].then[2], frames[Top].then[3]>>
  BY <1>2, ThensAre
<1>4. PICK x \in EventGenerators, first \in 0 .. numEGIDs :
        x = frames[Top].then[2] /\ first = frames[Top].then[3]
  BY <1>3
<1>5. /\ At(<<"remove", x, first>>) /\ RemoveFrom(Front(frames), x, first)
      /\ frames[Top].then = <<"remove", x, first>>
  BY <1>2, <1>3, <1>4
<1>6. x \notin Trappers /\ LiveInv(x) /\ StopInv(x)
  BY <1>1 DEF GenInv, SourcesAreOthers
<1>7. ~started[x] /\ ~isListening[x] /\ Deaf(x) /\ Nowhere(x, first)
  BY <1>5, <1>6 DEF StopInv
<1>8. /\ \A g \in Generators : Gone(x, g) => Gone(x, g)'
      /\ \/ Does(Top - 1, Front(frames), x, NoCall) /\ Nowhere(x, numEGIDs)' /\ Stays(Top - 1)
         \/ \E j \in 1 .. numEGIDs :
              /\ Does(Top - 1, Front(frames), x, <<"remove", x, j>>) /\ Nowhere(x, j)'
              /\ \E e \in Events : Pushes(Top - 1, e, <<"remove", x, j>>)
  BY <1>1, <1>2, <1>5, <1>6, <1>7, RemoveIs
<1>9. ~started'[x] /\ ~isListening'[x] /\ isListening' = isListening /\ started' = started
  BY <1>7 DEF generatorVars
<1>10. Deaf(x)'
  BY <1>7, <1>8, GoneIs, ErouterAssumption DEF Deaf, Gone
<1>11. \A j \in 0 .. numEGIDs : Nowhere(x, j) => Nowhere(x, j)'
  <2>1. \A e \in Events : e[1] \in Generators
    BY PatternsAre
  <2> QED
    BY <1>8, <2>1 DEF Nowhere, Gone
<1>12. LiveInv(x)'
  BY <1>9 DEF LiveInv, Live
<1>13. \A j \in 0 .. numEGIDs : ~(At(<<"stop", x, j>>) /\ At(<<"start", x>>))
  BY <1>6 DEF StopInv
<1>14. ~At(<<"start", x>>)
  BY <1>6, <1>7 DEF StopInv
<1>15. CASE Does(Top - 1, Front(frames), x, NoCall) /\ Nowhere(x, numEGIDs)' /\ Stays(Top - 1)
  <2>1. On(Top - 1)
    BY <1>15 DEF Stays
  <2>2. \A t : At(t)' => At(t)
    BY <1>1, <1>15, <2>1, AtIs
  <2>3. StopInv(x)'
    <3>1. ASSUME NEW j \in 0 .. numEGIDs
          PROVE  /\ At(<<"remove", x, j>>)' => ~started'[x] /\ Nowhere(x, j)'
                 /\ ~At(<<"start", x>>)'
      BY <1>6, <1>9, <1>11, <1>14, <2>2 DEF StopInv
    <3>2. ~At(<<"start", x>>)'
      BY <1>14, <2>2
    <3> QED
      BY <1>9, <1>10, <1>15, <3>1, <3>2 DEF StopInv
  <2>4. NoCall \in Thens /\ frames[Top].then[2] = x
    BY <1>4, ThensAre
  <2> QED
    BY <1>2, <1>6, <1>9, <1>12, <1>15, <2>3, <2>4, ActorOnly
<1>16. ASSUME NEW i \in 1 .. numEGIDs,
              Does(Top - 1, Front(frames), x, <<"remove", x, i>>), Nowhere(x, i)',
              \E e \in Events : Pushes(Top - 1, e, <<"remove", x, i>>)
       PROVE  Invariants' /\ Usual
  <2> DEFINE then == <<"remove", x, i>>
  <2>0. /\ Does(Top - 1, Front(frames), x, then) /\ \E e \in Events : Pushes(Top - 1, e, then)
        /\ i \in 0 .. numEGIDs /\ then[2] = x /\ then # NoCall
        /\ then # <<"start", x>> /\ \A j \in 0 .. numEGIDs : then # <<"stop", x, j>>
        /\ \A j \in 0 .. numEGIDs : then = <<"remove", x, j>> => j = i
    <3>1. numEGIDs \in Nat
      BY NumEGIDsAssumption
    <3> QED
      BY <1>16, <3>1 DEF NoCall
  <2>a. At(then)' <=> At(<<"remove", x, i>>)'
    OBVIOUS
  <2>b. then \in Thens
    BY <2>0, ThensAre
  <2> HIDE DEF then
  <2>1. On(Top - 1)
    BY <2>0 DEF Pushes
  <2>2. (\A t : At(t)' => At(t) \/ t = then) /\ At(then)'
    BY <1>1, <2>0, <2>1, AtIs
  <2>3. StopInv(x)'
    <3>1. ASSUME NEW j \in 0 .. numEGIDs
          PROVE  At(<<"remove", x, j>>)' => ~started'[x] /\ Nowhere(x, j)'
      <4>1. CASE At(<<"remove", x, j>>)
        BY <1>6, <1>9, <1>11, <4>1 DEF StopInv
      <4>2. CASE ~At(<<"remove", x, j>>)
        BY <1>9, <1>16, <2>0, <2>2, <4>2
      <4> QED
        BY <4>1, <4>2
    <3>2. ~At(<<"start", x>>)'
      BY <1>14, <2>0, <2>2
    <3>3. \E j \in 0 .. numEGIDs : At(<<"remove", x, j>>)'
      BY <2>0, <2>2, <2>a
    <3> QED
      BY <1>9, <1>10, <3>1, <3>2, <3>3 DEF StopInv
  <2>4. frames[Top].then[2] = x
    BY <1>4
  <2> QED
    BY <1>2, <1>6, <1>9, <1>12, <2>0, <2>b, <2>3, <2>4, ActorOnly
<1> QED
  BY <1>8, <1>15, <1>16

\* DoStop() or its continuation: one more subscription is removed, or the generator
\* is stopped.
LEMMA StopKeeps ==
  ASSUME Invariants, SourcesAreOthers, NEW x \in EventGenerators, NEW k, NEW stack,
         Base(stack, k), Idle(stack, k), Quiet,
         k # Top => /\ frames # <<>> /\ stack = Front(frames)
                    /\ frames[Top].then[1] = "stop" /\ frames[Top].then[2] = x,
         NEW first \in 0 .. numEGIDs, erouterEGID < first => Deaf(x), ~At(<<"start", x>>),
         \A y \in EventGenerators : ~Notified(y),
         StopFrom(stack, x, first)
  PROVE  Invariants' /\ Usual
<1>1. IndInv /\ TypeInv /\ DeliveryInv /\ UntrappedInv /\ FlagsOK /\ GenInv
  BY DEF Invariants
<1>2. x \in Subscribers /\ x \notin Trappers /\ NoCall \in Pending /\ NoCall \in Thens
  BY FeedPattern, ThensAre DEF SourcesAreOthers
<1>3. LiveInv(x) /\ StopInv(x)
  BY <1>1 DEF GenInv
<1>4. numEGIDs \in Nat /\ Generators = 0 .. numEGIDs - 1 /\ erouterEGID \in Generators
  BY NumEGIDsAssumption, ErouterAssumption DEF Generators
<1>5. \A e \in Events : e[1] \in Generators
  BY PatternsAre
<1> DEFINE S == {g \in first .. numEGIDs - 1 : Removed(x, <<g>>) # mappers}
<1>6. \/ /\ S # {} /\ RemoveOne(stack, x, <<Min(S)>>, <<"stop", x, Min(S) + 1>>)
         /\ isListening' = isListening /\ started' = started
      \/ /\ S = {}
         /\ isListening' = [isListening EXCEPT ![x] = FALSE]
         /\ started' = [started EXCEPT ![x] = FALSE]
         /\ \/ started[x] /\ RemoveFrom(stack, x, 0)
            \/ ~started[x] /\ Unmoved(stack)
  BY DEF StopFrom, generatorVars
<1>7. /\ S = {} => \A g \in Generators : first <= g => Gone(x, g)
      /\ S # {} => /\ Min(S) \in Generators /\ first <= Min(S)
                   /\ \A g \in Generators : first <= g /\ g < Min(S) => Gone(x, g)
  BY <1>1, <1>2, Skipped
<1> HIDE DEF S
<1>8. k # Top => \A j : frames[Top].then # <<"remove", x, j>> /\ frames[Top].then # <<"start", x>>
  OBVIOUS
<1>9. frames[Top].then[2] = x \/ k = Top
  OBVIOUS
<1>10. CASE S # {}
  <2>1. PICK g \in Generators :
          /\ g = Min(S) /\ first <= g
          /\ \A h \in Generators : first <= h /\ h < g => Gone(x, h)
    BY <1>7, <1>10
  <2> DEFINE then == <<"stop", x, g + 1>>
             pattern == <<g>>
  <2>2. RemoveOne(stack, x, pattern, then) /\ isListening' = isListening /\ started' = started
    BY <1>6, <1>10, <2>1
  <2>3. g + 1 \in 0 .. numEGIDs
    BY <1>4
  <2>4. then \in Thens /\ then \in Pending /\ pattern \in Patterns
    BY <2>3, ThensAre, PatternsAre
  <2>5. mappers' = Removed(x, <<g>>)
    BY <2>2 DEF RemoveOne
  <2>6. Gone(x, g)' /\ \A h \in Generators : Gone(x, h) => Gone(x, h)'
    BY <1>1, <1>2, <2>5, OneGone
  <2>7. /\ then # <<"start", x>> /\ then[2] = x
        /\ \A j \in 0 .. numEGIDs : then # <<"remove", x, j>> /\ (then = <<"stop", x, j>> => j = g + 1)
    OBVIOUS
  <2>a. At(then)' <=> At(<<"stop", x, g + 1>>)'
    OBVIOUS
  <2> HIDE DEF then, pattern
  <2>8. Does(k, stack, x, then)
    BY <1>2, <2>2, <2>4 DEF Does
  <2>9. \E type \in Types : /\ <<erouterEGID, pattern[1], type>> \in Events
                            /\ Pushes(k, <<erouterEGID, pattern[1], type>>, then)
    BY <1>1, <1>2, <2>2, <2>4, ChangePushes
  <2>10. PICK e \in Events : Pushes(k, e, then)
    BY <2>9
  <2>11. On(k)
    BY <2>10 DEF Pushes
  <2>12. /\ \A t : At(t)' => At(t) \/ t = then
         /\ \A t : At(t) => At(t)' \/ (k # Top /\ frames[Top].then = t)
         /\ At(then)'
    BY <1>1, <2>10, <2>11, AtIs
  <2>13. ~Live(x)'
    BY <2>3, <2>12, <2>a DEF Live
  <2>14. \A j \in 0 .. numEGIDs : Nowhere(x, j) => Nowhere(x, j)'
    BY <1>5, <2>6 DEF Nowhere, Gone
  <2>15. Deaf(x) => Deaf(x)'
    BY <1>4, <2>6 DEF Deaf, Gone
  <2>16. Gone(x, erouterEGID)' => Deaf(x)'
    BY DEF Deaf, Gone
  <2>17. erouterEGID < g + 1 => Deaf(x)'
    <3>1. CASE erouterEGID = g
      BY <2>6, <2>16, <3>1
    <3>2. CASE erouterEGID < first
      BY <2>15, <3>2
    <3>3. CASE first <= erouterEGID /\ erouterEGID < g
      BY <1>4, <2>1, <2>6, <2>16, <3>3
    <3> QED
      BY <1>4, <3>1, <3>2, <3>3
  <2>18. ~At(<<"start", x>>)'
    BY <2>7, <2>12
  <2>19. ASSUME NEW j \in 0 .. numEGIDs
         PROVE  /\ At(<<"remove", x, j>>)' => ~started'[x] /\ Nowhere(x, j)'
                /\ At(<<"stop", x, j>>)' /\ erouterEGID < j => Deaf(x)'
    <3>1. At(<<"remove", x, j>>)' => At(<<"remove", x, j>>)
      BY <2>7, <2>12
    <3>2. At(<<"stop", x, j>>)' => At(<<"stop", x, j>>) \/ j = g + 1
      BY <2>7, <2>12
    <3> QED
      BY <1>3, <2>2, <2>14, <2>15, <2>17, <3>1, <3>2 DEF StopInv
  <2>20. ~started'[x] =>
           /\ ~isListening'[x] /\ Deaf(x)'
           /\ Nowhere(x, numEGIDs)' \/ \E j \in 0 .. numEGIDs : At(<<"remove", x, j>>)'
    <3>1. SUFFICES ASSUME ~started[x]
                   PROVE  /\ ~isListening[x] /\ Deaf(x)'
                          /\ Nowhere(x, numEGIDs)' \/ \E j \in 0 .. numEGIDs : At(<<"remove", x, j>>)'
      BY <2>2
    <3>2. \A j \in 0 .. numEGIDs : At(<<"remove", x, j>>) => At(<<"remove", x, j>>)'
      BY <1>8, <2>12
    <3>3. numEGIDs \in 0 .. numEGIDs
      BY <1>4
    <3> QED
      BY <1>3, <2>14, <2>15, <3>1, <3>2, <3>3 DEF StopInv
  <2>21. StopInv(x)'
    BY <2>18, <2>19, <2>20 DEF StopInv
  <2>22. LiveInv(x)'
    BY <2>13 DEF LiveInv
  <2> QED
    BY <1>2, <1>9, <2>2, <2>4, <2>7, <2>8, <2>21, <2>22, ActorOnly
<1>11. CASE S = {}
  <2>1. /\ isListening' = [isListening EXCEPT ![x] = FALSE] /\ started' = [started EXCEPT ![x] = FALSE]
        /\ \/ started[x] /\ RemoveFrom(stack, x, 0)
           \/ ~started[x] /\ Unmoved(stack)
    BY <1>6, <1>11
  <2>2. ~isListening'[x] /\ ~started'[x]
    BY <1>1, <2>1 DEF FlagsOK
  <2>3. Deaf(x)
    <3>1. CASE erouterEGID < first
      BY <3>1
    <3>2. CASE ~(erouterEGID < first)
      <4>1. first <= erouterEGID
        BY <1>4, <3>2
      <4> QED
        BY <1>4, <1>7, <1>11, <4>1, GoneIs
    <3> QED
      BY <3>1, <3>2
  <2>4. LiveInv(x)'
    BY <2>2 DEF LiveInv, Live
  <2>5. CASE started[x] /\ RemoveFrom(stack, x, 0)
    <3>1. 0 \in 0 .. numEGIDs /\ Nowhere(x, 0)
      <4>1. 0 \in 0 .. numEGIDs /\ \A g \in Generators : ~(g < 0)
        BY <1>4
      <4> QED
        BY <4>1, GoneIs
    <3>2. /\ \A g \in Generators : Gone(x, g) => Gone(x, g)'
          /\ \/ Does(k, stack, x, NoCall) /\ Nowhere(x, numEGIDs)' /\ Stays(k)
             \/ \E j \in 1 .. numEGIDs :
                  /\ Does(k, stack, x, <<"remove", x, j>>) /\ Nowhere(x, j)'
                  /\ \E e \in Events : Pushes(k, e, <<"remove", x, j>>)
      BY <1>1, <1>2, <2>5, <3>1, RemoveIs
    <3>3. Deaf(x)'
      BY <1>4, <2>3, <3>2 DEF Deaf, Gone
    <3>4. \A j \in 0 .. numEGIDs : ~At(<<"remove", x, j>>)
      BY <1>3, <2>5 DEF StopInv
    <3>5. CASE Does(k, stack, x, NoCall) /\ Nowhere(x, numEGIDs)' /\ Stays(k)
      <4>1. On(k)
        BY <3>5 DEF Stays
      <4>2. \A t : At(t)' => At(t)
        BY <1>1, <3>5, <4>1, AtIs
      <4>3. ~At(<<"start", x>>)' /\ \A j \in 0 .. numEGIDs : ~At(<<"remove", x, j>>)'
        BY <3>4, <4>2
      <4>4. StopInv(x)'
        BY <2>2, <3>3, <3>5, <4>3 DEF StopInv
      <4> QED
        BY <1>2, <1>9, <2>1, <2>4, <3>5, <4>4, ActorOnly
    <3>6. ASSUME NEW i \in 1 .. numEGIDs,
                 Does(k, stack, x, <<"remove", x, i>>), Nowhere(x, i)',
                 \E e \in Events : Pushes(k, e, <<"remove", x, i>>)
          PROVE  Invariants' /\ Usual
      <4> DEFINE then == <<"remove", x, i>>
      <4>0. /\ Does(k, stack, x, then) /\ \E e \in Events : Pushes(k, e, then)
            /\ i \in 0 .. numEGIDs /\ then[2] = x
            /\ then # <<"start", x>>
            /\ \A j \in 0 .. numEGIDs : then = <<"remove", x, j>> => j = i
        BY <1>4, <3>6
      <4>a. At(then)' <=> At(<<"remove", x, i>>)'
        OBVIOUS
      <4>b. then \in Thens
        BY <4>0, ThensAre
      <4> HIDE DEF then
      <4>1. On(k)
        BY <4>0 DEF Pushes
      <4>2. (\A t : At(t)' => At(t) \/ t = then) /\ At(then)'
        BY <1>1, <4>0, <4>1, AtIs
      <4>3. ~At(<<"start", x>>)' /\ \A j \in 0 .. numEGIDs : At(<<"remove", x, j>>)' => j = i
        BY <3>4, <4>0, <4>2
      <4>4. \E j \in 0 .. numEGIDs : At(<<"remove", x, j>>)'
        BY <4>0, <4>2, <4>a
      <4>5. StopInv(x)'
        BY <2>2, <3>3, <3>6, <4>3, <4>4 DEF StopInv
      <4> QED
        BY <1>2, <1>9, <2>1, <2>4, <4>0, <4>b, <4>5, ActorOnly
    <3> QED
      BY <3>2, <3>5, <3>6
  <2>6. CASE ~started[x] /\ Unmoved(stack)
    <3>1. Does(k, stack, x, NoCall)
      BY <1>2, <2>6 DEF Does
    <3>2. mappers' = mappers /\ Stays(k)
      BY <1>1, <2>6, StaysIs DEF Unmoved
    <3>3. On(k)
      BY <3>2 DEF Stays
    <3>4. \A t : /\ At(t)' => At(t)
                 /\ At(t) => At(t)' \/ (k # Top /\ frames[Top].then = t)
      BY <1>1, <3>2, <3>3, AtIs
    <3>5. /\ Deaf(x)' /\ (Nowhere(x, numEGIDs) => Nowhere(x, numEGIDs)')
          /\ \A j \in 0 .. numEGIDs : Nowhere(x, j) => Nowhere(x, j)'
      BY <2>3, <3>2 DEF Deaf, Nowhere, Has, Hears
    <3>6. \A j \in 0 .. numEGIDs : At(<<"remove", x, j>>)' <=> At(<<"remove", x, j>>)
      BY <1>8, <3>4
    <3>7. ~At(<<"start", x>>)'
      BY <3>4
    <3>8. Nowhere(x, numEGIDs)' \/ \E j \in 0 .. numEGIDs : At(<<"remove", x, j>>)'
      BY <1>3, <2>6, <3>5, <3>6 DEF StopInv
    <3>9. \A j \in 0 .. numEGIDs : At(<<"remove", x, j>>)' => Nowhere(x, j)'
      BY <1>3, <3>5, <3>6 DEF StopInv
    <3>10. StopInv(x)'
      BY <2>2, <3>5, <3>7, <3>8, <3>9 DEF StopInv
    <3> QED
      BY <1>2, <1>9, <2>1, <2>4, <3>1, <3>10, ActorOnly
  <2> QED
    BY <2>1, <2>5, <2>6
<1> QED
  BY <1>10, <1>11

LEMMA DoStopKeeps ==
  ASSUME Invariants, SourcesAreOthers, ~Overlapping, ~InGenerator, NEW x \in EventGenerators, DoStop(x)
  PROVE  Invariants' /\ Usual
<1>1. Call /\ started[x] /\ ~Starting(x) /\ StopFrom(Calling, x, 0)
  BY DEF DoStop
<1>2. /\ Base(Calling, Top) /\ Idle(Calling, Top) /\ Quiet
      /\ \A y \in EventGenerators : ~Notified(y)
  BY <1>1, CallIs
<1>3. DOMAIN frames = 1 .. Top
  BY TypesAre DEF Invariants
<1>4. ~At(<<"start", x>>)
  BY <1>1, <1>3 DEF At, Starting
<1>5. 0 \in 0 .. numEGIDs /\ ~(erouterEGID < 0)
  BY NumEGIDsAssumption, ErouterAssumption DEF Generators
<1> QED
  BY <1>1, <1>2, <1>4, <1>5, StopKeeps

LEMMA ContinueStopKeeps ==
  ASSUME Invariants, SourcesAreOthers, ContinueStop
  PROVE  Invariants' /\ Usual
<1>1. /\ frames # <<>> /\ frames[Top].serving = 0 /\ postings = <<>>
      /\ frames[Top].then # NoCall /\ frames[Top].then[1] = "stop"
      /\ calls' = calls /\ latest' = latest /\ news' = news
      /\ StopFrom(Front(frames), frames[Top].then[2], frames[Top].then[3])
  BY DEF ContinueStop, Continuing
<1>2. /\ Base(Front(frames), Top - 1) /\ Idle(Front(frames), Top - 1) /\ Quiet
      /\ Top \in Nat /\ Top \in 1 .. Top /\ Top - 1 # Top
      /\ frames[Top].then \in Thens
      /\ At(frames[Top].then)
      /\ \A y \in EventGenerators : ~Notified(y)
  BY <1>1, ContinuingIs
<1>3. /\ frames[Top].then[2] \in EventGenerators /\ frames[Top].then[3] \in 0 .. numEGIDs
      /\ frames[Top].then = <<"stop", frames[Top].then[2], frames[Top].then[3]>>
  BY <1>1, <1>2, ThensAre
<1>4. PICK x \in EventGenerators, first \in 0 .. numEGIDs :
        x = frames[Top].then[2] /\ first = frames[Top].then[3]
  BY <1>3
<1>5. At(<<"stop", x, first>>) /\ StopFrom(Front(frames), x, first)
  BY <1>1, <1>2, <1>3, <1>4
<1>6. StopInv(x)
  BY DEF Invariants, GenInv
<1>7. (erouterEGID < first => Deaf(x)) /\ ~At(<<"start", x>>)
  BY <1>5, <1>6 DEF StopInv
<1> QED
  BY <1>1, <1>2, <1>4, <1>5, <1>7, StopKeeps

-----------------------------------------------------------------------------
(* The router's own steps, and what the program calls *)

LEMMA RoutingKeeps ==
  ASSUME Invariants, SourcesAreOthers, Routing
  PROVE  Invariants' /\ Usual
<1>1. IndInv /\ TypeInv /\ DeliveryInv /\ UntrappedInv /\ FlagsOK /\ GenInv
  BY DEF Invariants
<1>2. frames # <<>> /\ frames[Top].client \notin EventGenerators /\ Dispatch /\ UNCHANGED generatorVars
  BY DEF Routing
<1>3. isListening' = isListening /\ started' = started
  BY <1>2 DEF generatorVars
<1>4. CASE Return
  <2>1. /\ frames # <<>> /\ frames[Top].serving = 0 /\ postings = <<>>
        /\ calls' = calls /\ latest' = latest /\ news' = news
    BY <1>4 DEF Return
  <2>2. /\ Base(Front(frames), Top - 1) /\ Idle(Front(frames), Top - 1) /\ Quiet
        /\ Top \in Nat /\ Top \in 1 .. Top /\ Top - 1 # Top
        /\ frames[Top].then \in Thens
        /\ At(frames[Top].then)
        /\ \A y \in EventGenerators : ~Notified(y)
    BY <2>1, ContinuingIs
  <2>3. frames[Top].then # NoCall => frames[Top].then[1] \in {"start", "stop", "remove"}
    BY <2>2, ThensAre
  <2>4. CASE frames[Top].then = NoCall
    <3>1. Unmoved(Front(frames))
      BY <1>4, <2>4 DEF Return, Unmoved
    <3>2. CASE \E x : x \in EventGenerators
      <4>1. PICK x : x \in EventGenerators
        BY <3>2
      <4>2. x \in Subscribers
        BY <4>1, FeedPattern
      <4> QED
        BY <1>2, <2>1, <2>2, <2>4, <3>1, <4>2, NothingHappens
    <3>3. CASE ~\E x : x \in EventGenerators
      <4>1. IndInv' /\ TypeInv' /\ Returned
        BY <1>1, <2>1, <2>2, <3>1, PoppedIs
      <4>2. Usual
        BY <4>1 DEF Usual
      <4>3. DeliveryInv'
        BY <1>1, <4>1, <4>2, UsualDelivers
      <4>4. FlagsOK' /\ GenInv'
        BY <1>1, <1>3, <3>3 DEF FlagsOK, GenInv
      <4>5. UntrappedInv'
        <5>1. Stays(Top - 1)
          BY <1>1, <2>2, <3>1, StaysIs DEF Unmoved
        <5>2. \A e \in Events : e[1] = erouterEGID => getMapping(mappers'["trappers"], e) = <<>>
          BY <1>1, <3>1 DEF UntrappedInv, Unmoved
        <5> QED
          BY <1>1, <5>1, <5>2, StackUntrapped, ThensAre
      <4> QED
        BY <4>1, <4>2, <4>3, <4>4, <4>5 DEF Invariants
    <3> QED
      BY <3>2, <3>3
  <2>5. CASE frames[Top].then # NoCall
    <3>1. /\ frames[Top].then[1] = "remove"
          /\ RemoveFrom(Front(frames), frames[Top].then[2], frames[Top].then[3])
      BY <1>4, <2>3, <2>5 DEF Return
    <3> QED
      BY <1>2, <2>1, <2>5, <3>1, RemoveKeeps
  <2> QED
    BY <2>4, <2>5
<1>5. CASE ~Return
  <2>1. IndInv'
    BY <1>1, <1>2, Stepping DEF Next
  <2>2. TypeInv' /\ Usual
    BY <1>1, <1>2, StepIs DEF Next, Usual
  <2>3. DeliveryInv'
    BY <1>1, <2>2, UsualDelivers
  <2>4. PICK p \in 1 .. Top : \E l, sent, trapped : Loop(p, l, sent, trapped)
    BY <1>1, <1>2, <1>5, DispatchLoops
  <2>5. PICK l, sent, trapped : Loop(p, l, sent, trapped)
    BY <2>4
  <2>6. UntrappedInv'
    BY <1>1, <2>5, LoopsUntrapped
  <2>7. FlagsOK'
    BY <1>1, <1>3 DEF FlagsOK
  <2>8. \A x \in EventGenerators : ~Notified(x)
    BY <1>2 DEF Notified, In
  <2>9. GenInv'
    <3>1. ASSUME NEW x \in EventGenerators PROVE LiveInv(x)' /\ StopInv(x)' /\ PlaceInv(x)'
      <4>1. LiveInv(x) /\ StopInv(x) /\ PlaceInv(x) /\ ~Notified(x)
        BY <1>1, <2>8 DEF GenInv
      <4> QED
        BY <1>1, <1>3, <2>5, <4>1, LoopsPass
    <3> QED
      BY <3>1 DEF GenInv
  <2> QED
    BY <2>1, <2>2, <2>3, <2>6, <2>7, <2>9 DEF Invariants
<1> QED
  BY <1>4, <1>5

\* Others subscribe and unsubscribe.
LEMMA OthersKeep ==
  ASSUME Invariants, RouterIsUntrapped, ~InGenerator, UNCHANGED generatorVars,
         NEW el \in Others, NEW pattern \in Subscriptions, Subscribe(el, pattern) \/ Unsubscribe(el, pattern)
  PROVE  Invariants' /\ Usual
<1>1. IndInv /\ TypeInv /\ DeliveryInv /\ UntrappedInv /\ FlagsOK /\ GenInv
  BY DEF Invariants
<1>2. Call /\ (AddOne(Calling, el, pattern, NoCall) \/ RemoveOne(Calling, el, pattern, NoCall))
  BY DEF Subscribe, Unsubscribe
<1>3. /\ Base(Calling, Top) /\ Idle(Calling, Top) /\ Quiet
      /\ \A y \in EventGenerators : ~Notified(y)
  BY <1>2, CallIs
<1>4. el \in Subscribers /\ pattern \in Patterns /\ NoCall \in Pending /\ NoCall \in Thens
  BY PostsAssumption, ThensAre DEF Others, Subscribers
<1>5. Does(Top, Calling, el, NoCall)
  BY <1>2, <1>3, <1>4 DEF Does
<1>6. IndInv' /\ TypeInv' /\ Usual
  BY <1>1, <1>5, DoesUsual
<1>7. DeliveryInv'
  BY <1>1, <1>6, UsualDelivers
<1>8. isListening' = isListening /\ started' = started
  BY DEF generatorVars
<1>9. FlagsOK'
  BY <1>1, <1>8 DEF FlagsOK
<1>10. UntrappedInv'
  <2>1. ASSUME NEW other \in Patterns, AddOne(Calling, el, other, NoCall)
        PROVE  other[1] = pattern[1]
    <3>1. PICK t1 \in Types : Pushes(Top, <<erouterEGID, pattern[1], t1>>, NoCall)
      BY <1>1, <1>2, <1>3, <1>4, ChangePushes
    <3>2. PICK t2 \in Types : Pushes(Top, <<erouterEGID, other[1], t2>>, NoCall)
      BY <1>1, <1>3, <1>4, <2>1, ChangePushes
    <3>3. <<erouterEGID, other[1], t2>> = <<erouterEGID, pattern[1], t1>>
      BY <3>1, <3>2 DEF Pushes
    <3> QED
      BY <3>3
  <2>2. el \in Trappers => pattern[1] # erouterEGID
    BY DEF RouterIsUntrapped
  <2> QED
    BY <1>1, <1>4, <1>5, <2>1, <2>2, DoesUntrapped
<1>11. GenInv'
  <2>1. ASSUME NEW x \in EventGenerators PROVE LiveInv(x)' /\ StopInv(x)' /\ PlaceInv(x)'
    <3>1. LiveInv(x) /\ StopInv(x) /\ PlaceInv(x) /\ ~Notified(x) /\ el # x
      BY <1>1, <1>3 DEF GenInv, Others
    <3>2. Apart(x, Top, NoCall)
      BY NotOf DEF Apart
    <3> QED
      BY <1>1, <1>5, <1>8, <3>1, <3>2, DoesPasses
  <2> QED
    BY <2>1 DEF GenInv
<1> QED
  BY <1>6, <1>7, <1>9, <1>10, <1>11 DEF Invariants

\* An event is posted.
LEMMA PostKeeps ==
  ASSUME Invariants, ~InGenerator, UNCHANGED generatorVars, NEW e \in Posts, PostEvent(e)
  PROVE  Invariants' /\ Usual
<1>1. IndInv /\ TypeInv /\ DeliveryInv /\ UntrappedInv /\ FlagsOK /\ GenInv
  BY DEF Invariants
<1>2. Call /\ processEvent(Calling, mappers, e, NoCall) /\ mappers' = mappers
  BY DEF PostEvent
<1>3. /\ Base(Calling, Top) /\ Idle(Calling, Top) /\ Quiet
      /\ \A y \in EventGenerators : ~Notified(y)
  BY <1>2, CallIs
<1>4. Program
  BY DEF Program
<1>5. IndInv' /\ TypeInv' /\ Usual
  BY <1>1, <1>4, ProgramPreserves, ProgramIs DEF Usual
<1>6. DeliveryInv'
  BY <1>1, <1>5, UsualDelivers
<1>7. e \in Events /\ NoCall \in Pending /\ NoCall \in Thens /\ mappers \in MapperPair
  BY <1>1, PostsAssumption, ThensAre DEF TypeInv, TypesOK, MapperPair
<1>8. Top \in Nat /\ Kept(Calling, Top, {})
  BY <1>3 DEF Base
<1>9. Pushes(Top, e, NoCall)
  BY <1>1, <1>2, <1>3, <1>7, <1>8, PushesIs
<1>10. isListening' = isListening /\ started' = started
  BY DEF generatorVars
<1>11. FlagsOK'
  BY <1>1, <1>10 DEF FlagsOK
<1>12. UntrappedInv'
  <2>1. \A f \in Events : f[1] = erouterEGID => getMapping(mappers'["trappers"], f) = <<>>
    BY <1>1, <1>2 DEF UntrappedInv
  <2> QED
    BY <1>1, <1>7, <1>9, <2>1, StackUntrapped
<1>13. GenInv'
  <2>1. ASSUME NEW x \in EventGenerators PROVE LiveInv(x)' /\ StopInv(x)' /\ PlaceInv(x)'
    <3>1. LiveInv(x) /\ StopInv(x) /\ PlaceInv(x) /\ ~Notified(x)
      BY <1>1, <1>3 DEF GenInv
    <3>2. Apart(x, Top, NoCall)
      BY NotOf DEF Apart
    <3> QED
      BY <1>1, <1>2, <1>9, <1>10, <3>1, <3>2, StayPasses
  <2> QED
    BY <2>1 DEF GenInv
<1> QED
  BY <1>5, <1>6, <1>11, <1>12, <1>13 DEF Invariants

LEMMA GeneratorStepping ==
  ASSUME ~Overlapping, RouterIsUntrapped, SourcesAreOthers, Invariants, [GeneratorNext]_allVars
  PROVE  Invariants'
<1>1. CASE Routing
  BY <1>1, RoutingKeeps
<1>2. ASSUME NEW x \in EventGenerators, React(x) PROVE Invariants'
  BY <1>2, ReactKeeps
<1>3. CASE ContinueStart
  BY <1>3, ContinueStartKeeps
<1>4. CASE ContinueStop
  BY <1>4, ContinueStopKeeps
<1>5. CASE ~InGenerator /\ GeneratorProgram
  <2>1. ASSUME NEW e \in Posts, PostEvent(e), UNCHANGED generatorVars PROVE Invariants'
    BY <1>5, <2>1, PostKeeps
  <2>2. ASSUME NEW el \in Others, NEW pattern \in Subscriptions,
               Subscribe(el, pattern) \/ Unsubscribe(el, pattern), UNCHANGED generatorVars
        PROVE  Invariants'
    BY <1>5, <2>2, OthersKeep
  <2>3. ASSUME NEW x \in EventGenerators, DoStart(x) PROVE Invariants'
    BY <1>5, <2>3, DoStartKeeps
  <2>4. ASSUME NEW x \in EventGenerators, DoStop(x) PROVE Invariants'
    BY <1>5, <2>4, DoStopKeeps
  <2> QED
    BY <1>5, <2>1, <2>2, <2>3, <2>4 DEF GeneratorProgram
<1>6. CASE UNCHANGED allVars
  <2>1. UNCHANGED vars /\ isListening' = isListening /\ started' = started
    BY <1>6 DEF allVars, generatorVars
  <2>2. IndInv'
    BY <2>1, Stepping DEF Invariants
  <2>3. /\ mappers' = mappers /\ frames' = frames /\ postings' = postings /\ posted' = posted
        /\ calls' = calls /\ latest' = latest /\ news' = news
    BY <2>1 DEF vars
  <2>4. TypeInv' /\ DeliveryInv' /\ UntrappedInv' /\ FlagsOK'
    BY <2>1, <2>3 DEF Invariants, TypeInv, TypesOK, DeliveryInv, Frame, Queued, Top, UntrappedInv, FlagsOK
  <2>5. ASSUME NEW x \in EventGenerators PROVE LiveInv(x)' /\ StopInv(x)' /\ PlaceInv(x)'
    <3>1. LiveInv(x) /\ StopInv(x) /\ PlaceInv(x)
      BY DEF Invariants, GenInv
    <3>2. /\ (Exact(x)' <=> Exact(x)) /\ (Deaf(x)' <=> Deaf(x)) /\ (wanted(x)' <=> wanted(x))
          /\ \A k : Nowhere(x, k)' <=> Nowhere(x, k)
      BY <2>1, <2>3 DEF Exact, Deaf, Nowhere, Has, Hears, wanted
    <3>3. /\ (Coming(x)' <=> Coming(x)) /\ (Notified(x)' <=> Notified(x))
          /\ \A t : At(t)' <=> At(t)
          /\ Top' = Top /\ \A n : In(n, x)' <=> In(n, x)
      BY <2>3 DEF Coming, Notified, At, In, Top
    <3>4. LiveInv(x)'
      BY <2>1, <3>1, <3>2, <3>3 DEF LiveInv, Live
    <3>5. StopInv(x)'
      BY <2>1, <3>1, <3>2, <3>3 DEF StopInv
    <3>6. PlaceInv(x)'
      BY <3>1, <3>2, <3>3 DEF PlaceInv
    <3> QED
      BY <3>4, <3>5, <3>6
  <2>6. GenInv'
    BY <2>5 DEF GenInv
  <2> QED
    BY <2>2, <2>4, <2>6 DEF Invariants
<1> QED
  BY <1>1, <1>2, <1>3, <1>4, <1>5, <1>6 DEF GeneratorNext

LEMMA GeneratorStarting ==
  ASSUME RouterIsUntrapped, SourcesAreOthers, GeneratorInit
  PROVE  Invariants
<1>1. Init /\ isListening = [x \in EventGenerators |-> FALSE] /\ started = [x \in EventGenerators |-> FALSE]
  BY DEF GeneratorInit
<1>2. IndInv /\ TypeInv
  BY <1>1, InitiallyHolds, StartingTypes
<1>3. mappers = InitialSubscriptions /\ Top = 0
  BY <1>1, EmptySeq DEF Init, Top
<1>4. \A n \in 1 .. Top : FALSE
  BY <1>3
<1>5. DeliveryInv
  BY <1>4 DEF DeliveryInv
<1>6. UntrappedInv
  BY <1>3, <1>4 DEF UntrappedInv, RouterIsUntrapped
<1>7. FlagsOK
  BY <1>1 DEF FlagsOK
<1>8. ASSUME NEW x \in EventGenerators PROVE LiveInv(x) /\ StopInv(x) /\ PlaceInv(x)
  <2>1. ~started[x] /\ ~isListening[x] /\ \A t : ~At(t)
    BY <1>1, <1>4 DEF At
  <2>2. (\A g \in Generators : ~Has(x, g)) /\ \A e \in Events : ~Hears(x, e)
    BY <1>3 DEF SourcesAreOthers, Has, Hears
  <2>3. erouterEGID \in Generators
    BY ErouterAssumption
  <2>4. Deaf(x) /\ Nowhere(x, numEGIDs)
    BY <2>2, <2>3 DEF Deaf, Nowhere
  <2>5. LiveInv(x) /\ StopInv(x)
    BY <2>1, <2>4 DEF LiveInv, Live, StopInv
  <2>6. PlaceInv(x)
    BY <1>3, <1>4 DEF PlaceInv, Notified
  <2> QED
    BY <2>5, <2>6
<1> QED
  BY <1>2, <1>5, <1>6, <1>7, <1>8 DEF Invariants, GenInv

\* The invariants of the router hold with generators too, whatever they subscribe
\* while an event is delivered, and what a generator believes, what it wants and
\* what the router knows of it differ only while an event about it is on its way.
THEOREM GeneratorInvariance ==
  ASSUME ~Overlapping, RouterIsUntrapped, SourcesAreOthers
  PROVE  GeneratorSpec => []Invariants
<1>1. GeneratorInit => Invariants
  BY GeneratorStarting
<1>2. Invariants /\ [GeneratorNext]_allVars => Invariants'
  BY GeneratorStepping
<1> QED
  BY <1>1, <1>2, PTL DEF GeneratorSpec

\* With nothing on the stack, nobody has anything left to do or to hear.
LEMMA SettledIs ==
  ASSUME Settled, NEW x
  PROVE  ~Coming(x) /\ ~Notified(x) /\ \A t : ~At(t)
<1>1. Top = 0
  BY EmptySeq DEF Settled, Top
<1>2. \A n \in 1 .. Top : FALSE
  BY <1>1
<1> QED
  BY <1>1, <1>2 DEF Coming, Notified, At

\* Once all posts are done, a started generator listens to its source exactly if it
\* has listeners (EventGeneratorBase.h:34), and what it believes about that is what
\* the router knows (EventGeneratorBase.cc:100, 120).
THEOREM BeliefsAgree ==
  ASSUME ~Overlapping, RouterIsUntrapped, SourcesAreOthers
  PROVE  GeneratorSpec => []SubscriptionsAgree
<1>1. ASSUME Invariants PROVE GeneratorTypeOK
  <2> DEFINE C == Continuations \cup ({"start"} \X EventGenerators)
                    \cup ({"stop"} \X EventGenerators \X (0 .. numEGIDs))
  <2>1. TypeInv /\ UntrappedInv /\ FlagsOK
    BY <1>1 DEF Invariants
  <2>2. Thens \subseteq C
    <3>1. EventGenerators \subseteq Clients
      BY FeedPattern
    <3> QED
      BY <3>1 DEF Thens, Continuations
  <2> HIDE DEF C
  <2>3. \A n \in 1 .. Top : frames[n] \in Frames(C)
    BY <2>1, <2>2, TypesAre DEF Frames, UntrappedInv
  <2>4. frames \in Seq(Frames(C))
    <3>1. Top \in Nat /\ DOMAIN frames = 1 .. Top /\ frames = [n \in DOMAIN frames |-> frames[n]]
      BY <2>1, TypesAre
    <3> QED
      BY <3>1, <2>3, StackIs
  <2>5. TypesOK(C)
    BY <2>1, <2>4 DEF TypeInv, TypesOK
  <2> QED
    BY <2>1, <2>5 DEF GeneratorTypeOK, FlagsOK, C
<1>2. ASSUME Invariants PROVE ListensIfWanted
  <2> SUFFICES ASSUME Settled, NEW x \in EventGenerators, started[x]
               PROVE  isListening[x] <=> wanted(x)
    BY DEF ListensIfWanted
  <2>1. LiveInv(x) /\ isListening[x] \in BOOLEAN
    BY <1>2 DEF Invariants, GenInv, FlagsOK
  <2>2. ~Coming(x) /\ ~Notified(x) /\ \A t : ~At(t)
    BY SettledIs
  <2> QED
    BY <2>1, <2>2 DEF LiveInv, Live
<1>3. ASSUME Invariants PROVE BeliefIsTrue
  <2> SUFFICES ASSUME Settled, NEW x \in EventGenerators, NEW e \in Events, Matches(e, source[x])
               PROVE  isListening[x] <=> verifyMapping(mappers["listeners"], x, e)
    BY DEF BeliefIsTrue
  <2>1. LiveInv(x) /\ StopInv(x) /\ isListening[x] \in BOOLEAN /\ started[x] \in BOOLEAN
    BY <1>3 DEF Invariants, GenInv, FlagsOK
  <2>2. \A t : ~At(t)
    BY SettledIs
  <2>3. verifyMapping(mappers["listeners"], x, e) <=> Has(x, e[1]) \/ Hears(x, e)
    BY DEF verifyMapping, Has, Hears
  <2>4. source[x] \in Patterns /\ e[1] \in Generators
    BY FeedPattern, PatternsAre
  <2>5. e[1] = source[x][1] /\ e[1] # erouterEGID
    BY <2>4, MatchesGenerator DEF SourcesAreOthers
  <2>6. CASE started[x]
    <3>1. Exact(x)
      BY <2>1, <2>2, <2>6 DEF LiveInv, Live
    <3>2. Has(x, e[1]) <=> isListening[x] /\ Len(source[x]) = 1
      BY <2>4, <2>5, <3>1 DEF Exact
    <3>3. Hears(x, e) <=> isListening[x] /\ Len(source[x]) # 1
      BY <2>5, <3>1 DEF Exact
    <3> QED
      BY <2>1, <2>3, <3>2, <3>3
  <2>7. CASE ~started[x]
    <3>1. ~isListening[x] /\ Nowhere(x, numEGIDs)
      BY <2>1, <2>2, <2>7 DEF StopInv
    <3>2. e[1] < numEGIDs
      BY <2>4, NumEGIDsAssumption DEF Generators
    <3> QED
      BY <2>3, <2>4, <3>1, <3>2 DEF Nowhere
  <2> QED
    BY <2>6, <2>7
<1>4. Invariants => SubscriptionsAgree
  BY <1>1, <1>2, <1>3 DEF SubscriptionsAgree
<1> QED
  BY GeneratorInvariance, <1>4, PTL

\* Once all posts are done, a generator that is stopped is subscribed to nothing
\* (EventGeneratorBase.cc:18, BehaviorBase.cc:58), whoever posted what while the
\* loops of its DoStop() were under way.
THEOREM StoppedHearsNothing ==
  ASSUME ~Overlapping, RouterIsUntrapped, SourcesAreOthers
  PROVE  GeneratorSpec => []StoppedIsUnsubscribed
<1>1. ASSUME Invariants PROVE StoppedIsUnsubscribed
  <2> SUFFICES ASSUME Settled, NEW x \in EventGenerators, ~started[x], NEW g \in Generators,
                      verifyMappingAny(mappers["listeners"], x, <<g>>)
               PROVE  FALSE
    BY DEF StoppedIsUnsubscribed
  <2>1. StopInv(x)
    BY <1>1 DEF Invariants, GenInv
  <2>2. \A t : ~At(t)
    BY SettledIs
  <2>3. Nowhere(x, numEGIDs)
    BY <2>1, <2>2 DEF StopInv
  <2>4. (\A h \in Generators : h < numEGIDs) /\ \A e \in Events : e[1] \in Generators
    BY PatternsAre, NumEGIDsAssumption DEF Generators
  <2>5. ~Has(x, g) /\ \A e \in Events : ~Hears(x, e)
    BY <2>3, <2>4 DEF Nowhere
  <2>6. <<g>>[1] = g
    OBVIOUS
  <2> QED
    BY <2>5, <2>6 DEF verifyMappingAny, Has, Hears
<1>2. Invariants => StoppedIsUnsubscribed
  BY <1>1
<1> QED
  BY GeneratorInvariance, <1>2, PTL

\* With generators on top too, the router finds its queue whole (EventRouter.cc:492)
\* and gives every event that was not trapped to all the listeners due, in their
\* order (EventRouter.h:447-451).
THEOREM GeneratorsAreServed ==
  ASSUME ~Overlapping, RouterIsUntrapped, SourcesAreOthers
  PROVE  GeneratorSpec => [](NoPartialCompletion /\ NoDanglingPosting /\ DeliveredToAll)
<1>1. ASSUME Invariants PROVE NoPartialCompletion /\ NoDanglingPosting /\ DeliveredToAll
  <2>1. IndInv /\ TypeInv /\ DeliveryInv
    BY <1>1 DEF Invariants
  <2>2. NoPartialCompletion /\ NoDanglingPosting
    BY <2>1, QueueIsWhole
  <2>3. DeliveredToAll
    BY <2>1, AllAreReached
  <2> QED
    BY <2>2, <2>3
<1>2. Invariants => NoPartialCompletion /\ NoDanglingPosting /\ DeliveredToAll
  BY <1>1
<1> QED
  BY GeneratorInvariance, <1>2, PTL
=============================================================================
