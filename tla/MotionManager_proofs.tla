------------------------- MODULE MotionManager_proofs -------------------------
(***************************************************************************)
(* Proofs about MotionManager, for any motions, slots, queue and calls of  *)
(* a behavior, if behaviors have none of the Habits.  The invariant tells  *)
(* the life of each slot: what the two processes have of it in each phase, *)
(* and which messages about it are under way.  It is kept while there is   *)
(* room for the messages and no slot is used again before all have heard   *)
(* that it was given up; the last part proves that this is so when there   *)
(* are slots for twice the motions, and shows the promises from it.        *)
(***************************************************************************)
EXTENDS MotionManager, FiniteSetTheorems, SequenceTheorems, TLAPS

Messages == {AddMotion(m) : m \in Motions} \cup {DeleteMotion(p) : p \in Slots}

\* The message waits in the inbox of a.
Says(a, msg) == msg \in Range(inbox[a])

Distinct(s) == \A i, j \in DOMAIN s : s[i] = s[j] => i = j

\* Wherever both are, x comes before y.
Before(s, x, y) == \A i, j \in DOMAIN s : s[i] = x /\ s[j] = y => i < j

\* What Motion is about to do with a slot, between two steps under MMlock
Task(p) ==
  IF pc[Motion].at \in {"starting", "stopping", "stopped"} /\ pc[Motion].arg = p
  THEN pc[Motion].at ELSE "none"

-----------------------------------------------------------------------------
(* The life of a slot *)

FreeSlot(p) ==
  /\ p \in Range(free) /\ Task(p) = "none"
  /\ lastAccessor[p] = Dead /\ lock[p] = Unlocked
  /\ region[Main][p] = None /\ region[Motion][p] = None /\ known[p] = None

\* Main added motion m, and nobody has removed it:
Alive(p, m) ==
  /\ mc_id[m] = p /\ region[Main][p] = m /\ known[p] = m /\ lastAccessor[p] # Dead
  /\ \A a \in Procs : ~Says(a, DeleteMotion(p))

\* Motion has not started it
Added(p, m) ==
  /\ Alive(p, m) /\ m \notin started
  /\ \/ Says(Motion, AddMotion(m)) /\ region[Motion][p] = None /\ Task(p) = "none"
     \/ ~Says(Motion, AddMotion(m)) /\ region[Motion][p] = m /\ Task(p) = "starting"

\* or it has.
Running(p, m) ==
  /\ Alive(p, m) /\ m \in started /\ Task(p) = "none"
  /\ ~Says(Motion, AddMotion(m)) /\ region[Motion][p] = m

\* Main removed it: Motion may not even know that it was added.
Revoked(p, m) ==
  /\ p \notin Range(free) /\ mc_id[m] = p /\ region[Main][p] = None /\ known[p] = None
  /\ lastAccessor[p] = Dead /\ lock[p] = Unlocked
  /\ ~Says(Main, AddMotion(m))
  /\ \/ /\ Says(Motion, DeleteMotion(p)) /\ Says(Motion, AddMotion(m))
        /\ region[Motion][p] = None /\ m \notin started /\ Task(p) = "none"
     \/ /\ Says(Motion, DeleteMotion(p)) /\ ~Says(Motion, AddMotion(m))
        /\ region[Motion][p] = m /\ Task(p) = "none"
     \/ /\ ~Says(Motion, DeleteMotion(p)) /\ ~Says(Motion, AddMotion(m))
        /\ region[Motion][p] = m /\ Task(p) = "stopping"

\* Motion heard of it, and has stopped the motion.
Ended(p, m) ==
  /\ mc_id[m] = None /\ region[Main][p] = None /\ region[Motion][p] = m /\ known[p] = None
  /\ Task(p) = "stopped"
  /\ ~Says(Motion, DeleteMotion(p)) /\ ~Says(Main, AddMotion(m))

\* Motion removed it.
Pruned(p, m) ==
  /\ mc_id[m] = None /\ region[Main][p] = m /\ region[Motion][p] = None /\ known[p] = m
  /\ lastAccessor[p] = Dead /\ lock[p] = Unlocked /\ Task(p) = "none"
  /\ Says(Main, DeleteMotion(p))

Named(p, m) == Added(p, m) \/ Running(p, m) \/ Revoked(p, m)

Taken(p, m) == Named(p, m) \/ Ended(p, m) \/ Pruned(p, m)

SlotsInv ==
  \A p \in Slots : FreeSlot(p) \/ (p \notin Range(free) /\ \E m \in Motions : Taken(p, m))

\* A motion has one slot, and none before it is added and after it was stopped.
MotionsInv ==
  /\ \A m \in Motions : mc_id[m] = None => ~Says(Motion, AddMotion(m)) /\ m \notin started
  /\ \A m \in Motions, p \in Slots : mc_id[m] = p => Named(p, m)
  /\ \A m, n \in Motions : mc_id[m] # None /\ mc_id[m] = mc_id[n] => m = n

RegionsInv ==
  \A a, b \in Procs : \A p, q \in Slots :
    region[a][p] # None /\ region[a][p] = region[b][q] => p = q

\* Nothing is told twice, and Motion hears of the removal after the addition.
InboxInv ==
  /\ Distinct(free) /\ \A a \in Procs : Distinct(inbox[a])
  /\ \A m \in Motions, p \in Slots :
       mc_id[m] = p => Before(inbox[Motion], AddMotion(m), DeleteMotion(p))

-----------------------------------------------------------------------------
(* The two processes *)

Engaged == {"outputs", "updating", "pruning", "starting", "stopping", "stopped"}

\* A call is under way, and was counted.
Calling == calls \in 0 .. MaxCalls - 1

MainPlace ==
  \/ IsIdle(Main)
  \/ At(Main, "receiving", None) /\ calls = None
  \/ Calling /\ \E m \in Motions : At(Main, "adding", m)
  \/ Calling /\ \E p \in Slots : At(Main, "removing", p) \/ At(Main, "checkout", p)

MotionPlace ==
  \/ IsIdle(Motion) \/ At(Motion, "receiving", None) \/ At(Motion, "outputs", None)
  \/ \E p \in Slots : \E label \in {"updating", "pruning", "starting", "stopping", "stopped"} :
       At(Motion, label, p)

PcInv ==
  /\ pc = [a \in Procs |-> pc[a]]
  /\ MainPlace /\ MotionPlace
  /\ \A a \in Procs : At(a, "receiving", None) => inbox[a] # <<>>
  /\ MMlock = IF pc[Motion].at \in Engaged THEN Motion ELSE None

\* What a behavior looked at when it called is still so when the call is done.
MainInv ==
  /\ \A m \in Motions : At(Main, "adding", m) => IsFresh(m) /\ HoldsNothing(Main)
  /\ \A p \in Slots : At(Main, "removing", p) =>
       HoldsNothing(Main) /\ known[p] # None /\ ~Says(Main, AddMotion(known[p]))

LockInv ==
  \A p \in Slots :
    /\ lock[p].by = None => lock[p].n = 0
    /\ lock[p].by = Motion <=> At(Motion, "updating", p) \/ At(Motion, "stopped", p)
    /\ lock[p].by = Motion => lock[p].n = 1
    /\ lock[p].by = Main =>
         /\ calls # None /\ lock[p].n \in 1 .. MaxCalls - calls
         /\ pc[Main].at = "checkout" => lock[p].n < MaxCalls - calls
         /\ \E m \in Motions : Alive(p, m)

\* What is left of a round of outputs is running.
TodoInv ==
  /\ pc[Motion].at \in {"outputs", "updating", "pruning"} =>
       \A p \in todo : \E m \in Motions : Running(p, m)
  /\ pc[Motion].at \in {"updating", "pruning"} => pc[Motion].arg \in todo

\* What does and what does not change when a process only moves on
Parts == SlotsInv /\ MotionsInv /\ RegionsInv /\ InboxInv
Places == PcInv /\ MainInv /\ LockInv /\ TodoInv

\* The inductive invariant
IInv == TypeOK /\ Parts /\ Places

\* The queue of motions is never full, and no slot is used again while somebody has yet
\* to hear that it was given up.
NoDrop == \A a \in Procs : Len(inbox[a]) < QueueLen
ReusedLate ==
  \A m \in Motions : At(Main, "adding", m) /\ free # <<>> =>
    \A a \in Procs : ~Says(a, DeleteMotion(Head(free)))

-----------------------------------------------------------------------------
(* Sequences *)

\* What a sequence holds is what is at its places.
LEMMA RangeIs ==
  ASSUME NEW S, NEW s \in Seq(S)
  PROVE  /\ \A x : x \in Range(s) <=> \E i \in 1 .. Len(s) : s[i] = x
         /\ Range(s) \subseteq S /\ DOMAIN s = 1 .. Len(s) /\ Len(s) \in Nat
<1>1. DOMAIN s = 1 .. Len(s) /\ Len(s) \in Nat
  BY LenProperties
<1>2. \A x : x \in Range(s) <=> \E i \in 1 .. Len(s) : s[i] = x
  BY <1>1 DEF Range
<1>3. \A i \in 1 .. Len(s) : s[i] \in S
  BY <1>1, ElementOfSeq
<1> QED
  BY <1>1, <1>2, <1>3

\* What is appended comes last.
LEMMA AppendIs ==
  ASSUME NEW S, NEW s \in Seq(S), NEW x \in S
  PROVE  /\ Append(s, x) \in Seq(S)
         /\ \A y : y \in Range(Append(s, x)) <=> y \in Range(s) \/ y = x
         /\ Distinct(s) /\ x \notin Range(s) => Distinct(Append(s, x))
         /\ \A y, z : Before(s, y, z) /\ (x = y => z \notin Range(s)) /\ y # z
              => Before(Append(s, x), y, z)
<1> DEFINE t == Append(s, x)
<1>1. /\ t \in Seq(S) /\ Len(t) = Len(s) + 1 /\ t[Len(s) + 1] = x
      /\ \A i \in 1 .. Len(s) : t[i] = s[i]
  BY AppendProperties
<1>2. /\ DOMAIN s = 1 .. Len(s) /\ Len(s) \in Nat /\ DOMAIN t = 1 .. Len(s) + 1
      /\ \A y : y \in Range(s) <=> \E i \in 1 .. Len(s) : s[i] = y
      /\ \A y : y \in Range(t) <=> \E i \in 1 .. Len(s) + 1 : t[i] = y
  <2>1. DOMAIN t = 1 .. Len(t) /\ \A y : y \in Range(t) <=> \E i \in 1 .. Len(t) : t[i] = y
    BY <1>1, RangeIs
  <2> QED
    BY <2>1, <1>1, RangeIs
<1> HIDE DEF t
<1>3. \A i \in 1 .. Len(s) + 1 : i \in 1 .. Len(s) \/ i = Len(s) + 1
  BY <1>2
<1>4. \A i \in 1 .. Len(s) : i \in 1 .. Len(s) + 1 /\ i < Len(s) + 1
  BY <1>2
<1>5. \A y : y \in Range(t) <=> y \in Range(s) \/ y = x
  <2>1. Len(s) + 1 \in 1 .. Len(s) + 1
    BY <1>2
  <2> QED
    BY <2>1, <1>1, <1>2, <1>3, <1>4
<1>6. ASSUME Distinct(s), x \notin Range(s) PROVE Distinct(t)
  <2> SUFFICES ASSUME NEW i \in 1 .. Len(s) + 1, NEW j \in 1 .. Len(s) + 1, t[i] = t[j]
               PROVE  i = j
    BY <1>2 DEF Distinct
  <2> QED
    BY <1>1, <1>2, <1>3, <1>6 DEF Distinct
<1>7. ASSUME NEW y, NEW z, Before(s, y, z), x = y => z \notin Range(s), y # z PROVE Before(t, y, z)
  <2> SUFFICES ASSUME NEW i \in 1 .. Len(s) + 1, NEW j \in 1 .. Len(s) + 1, t[i] = y, t[j] = z
               PROVE  i < j
    BY <1>2 DEF Before
  <2>1. CASE i \in 1 .. Len(s) /\ j \in 1 .. Len(s)
    BY <2>1, <1>1, <1>2, <1>7 DEF Before
  <2>2. CASE i = Len(s) + 1
    <3>1. y = x /\ j \in 1 .. Len(s)
      BY <2>2, <1>1, <1>3, <1>7
    <3> QED
      BY <3>1, <1>1, <1>2, <1>7
  <2>3. CASE i \in 1 .. Len(s) /\ j = Len(s) + 1
    BY <2>3, <1>4
  <2> QED
    BY <2>1, <2>2, <2>3, <1>3
<1> QED
  BY <1>1, <1>5, <1>6, <1>7 DEF t

\* What is taken is the first, and nothing is before it.
LEMMA TailIs ==
  ASSUME NEW S, NEW s \in Seq(S), s # <<>>, Distinct(s)
  PROVE  /\ Tail(s) \in Seq(S) /\ Distinct(Tail(s)) /\ Head(s) \in S
         /\ \A y : y \in Range(Tail(s)) <=> y \in Range(s) /\ y # Head(s)
         /\ Head(s) \in Range(s)
         /\ \A y, z : Before(s, y, z) => Before(Tail(s), y, z)
         /\ \A y : Before(s, y, Head(s)) => y \notin Range(s)
<1> DEFINE t == Tail(s)
<1>1. /\ t \in Seq(S) /\ Len(t) = Len(s) - 1 /\ \A i \in 1 .. Len(t) : t[i] = s[i + 1]
      /\ Head(s) = s[1] /\ Head(s) \in S /\ Len(s) \in Nat \ {0}
  <2>1. Len(s) \in Nat /\ Len(s) # 0
    BY EmptySeq, LenProperties
  <2> QED
    BY <2>1, HeadTailProperties, ElementOfSeq
<1>2. /\ DOMAIN s = 1 .. Len(s) /\ DOMAIN t = 1 .. Len(s) - 1
      /\ \A y : y \in Range(s) <=> \E i \in 1 .. Len(s) : s[i] = y
      /\ \A y : y \in Range(t) <=> \E i \in 1 .. Len(s) - 1 : t[i] = y
  <2>0. t \in Seq(S)
    BY <1>1
  <2> HIDE DEF t
  <2>1. DOMAIN t = 1 .. Len(t) /\ \A y : y \in Range(t) <=> \E i \in 1 .. Len(t) : t[i] = y
    BY <2>0, RangeIs
  <2> QED
    BY <2>1, <1>1, RangeIs
<1>3. \A i \in 1 .. Len(s) - 1 : t[i] = s[i + 1] /\ i + 1 \in 1 .. Len(s) /\ i + 1 # 1
  BY <1>1
<1>4. \A i \in 1 .. Len(s) : i = 1 \/ (i - 1 \in 1 .. Len(s) - 1 /\ t[i - 1] = s[i])
  <2> TAKE i \in 1 .. Len(s)
  <2>1. CASE i # 1
    <3>1. i - 1 \in 1 .. Len(s) - 1 /\ (i - 1) + 1 = i
      BY <2>1, <1>1
    <3> QED
      BY <3>1, <1>3
  <2> QED
    BY <2>1
<1>5. 1 \in 1 .. Len(s) /\ s[1] = Head(s)
  BY <1>1
<1> HIDE DEF t
<1>6. Distinct(t)
  <2> SUFFICES ASSUME NEW i \in 1 .. Len(s) - 1, NEW j \in 1 .. Len(s) - 1, t[i] = t[j]
               PROVE  i = j
    BY <1>2 DEF Distinct
  <2>1. i + 1 = j + 1
    BY <1>2, <1>3 DEF Distinct
  <2> QED
    BY <2>1
<1>7. \A y : y \in Range(t) <=> y \in Range(s) /\ y # Head(s)
  <2> TAKE y
  <2>1. ASSUME y \in Range(t) PROVE y \in Range(s) /\ y # Head(s)
    <3>1. PICK i \in 1 .. Len(s) - 1 : t[i] = y
      BY <2>1, <1>2
    <3>2. s[i + 1] = y /\ i + 1 \in 1 .. Len(s) /\ i + 1 # 1
      BY <3>1, <1>3
    <3> QED
      BY <3>2, <1>2, <1>5 DEF Distinct
  <2>2. ASSUME y \in Range(s), y # Head(s) PROVE y \in Range(t)
    BY <2>2, <1>2, <1>4, <1>5
  <2> QED
    BY <2>1, <2>2
<1>8. ASSUME NEW y, NEW z, Before(s, y, z) PROVE Before(t, y, z)
  <2> SUFFICES ASSUME NEW i \in 1 .. Len(s) - 1, NEW j \in 1 .. Len(s) - 1, t[i] = y, t[j] = z
               PROVE  i < j
    BY <1>2 DEF Before
  <2>1. i + 1 < j + 1
    BY <1>2, <1>3, <1>8 DEF Before
  <2> QED
    BY <2>1
<1>9. ASSUME NEW y, Before(s, y, Head(s)) PROVE y \notin Range(s)
  <2> SUFFICES ASSUME NEW i \in 1 .. Len(s), s[i] = y PROVE FALSE
    BY <1>2
  <2>1. i < 1
    BY <1>2, <1>5, <1>9 DEF Before
  <2> QED
    BY <2>1
<1> QED
  BY <1>1, <1>2, <1>5, <1>6, <1>7, <1>8, <1>9 DEF t
-----------------------------------------------------------------------------
(* Messages *)

\* Messages of different kinds, motions or slots differ, and so do the processes.
LEMMA MessagesDiffer ==
  /\ \A x, y : AddMotion(x) = AddMotion(y) => x = y
  /\ \A x, y : DeleteMotion(x) = DeleteMotion(y) => x = y
  /\ \A x, y : AddMotion(x) # DeleteMotion(y)
  /\ \A m \in Motions : AddMotion(m) \in Messages
  /\ \A p \in Slots : DeleteMotion(p) \in Messages
  /\ None \notin Motions /\ None \notin Slots /\ None # Main /\ None # Motion
  /\ Main # Motion /\ Procs = {Main, Motion} /\ Main # Dead /\ Motion # Dead
BY NoneAssumption DEF AddMotion, DeleteMotion, Messages, Procs, Main, Motion, Dead

\* Who is not told of a slot that does not exist
LEMMA NoneIsNotTold ==
  ASSUME TypeOK, NEW a \in Procs
  PROVE  ~Says(a, DeleteMotion(None)) /\ inbox[a] \in Seq(Messages)
<1>1. inbox[a] \in Seq(Messages)
  BY DEF TypeOK, Messages
<1>2. DeleteMotion(None) \notin Messages
  BY MessagesDiffer DEF Messages
<1> QED
  BY <1>1, <1>2, RangeIs DEF Says

\* What is sent goes to both processes.
LEMMA AllGetIt ==
  ASSUME TypeOK, NoDrop, NEW msg, Send(msg)
  PROVE  inbox' = [a \in Procs |-> Append(inbox[a], msg)]
<1>1. ~ \E a \in Procs : Len(inbox[a]) >= QueueLen
  <2> SUFFICES ASSUME NEW a \in Procs, Len(inbox[a]) >= QueueLen PROVE FALSE
    OBVIOUS
  <2>1. Len(inbox[a]) \in Nat /\ Len(inbox[a]) < QueueLen
    BY NoneIsNotTold, RangeIs DEF NoDrop
  <2> QED
    BY <2>1, SizesAssumption
<1> QED
  BY <1>1 DEF Send

\* What is sent, new to all, is told to all, last.
LEMMA SendIs ==
  ASSUME TypeOK, InboxInv, NoDrop, NEW msg \in Messages, Send(msg),
         \A a \in Procs : ~Says(a, msg)
  PROVE  /\ inbox' \in [Procs -> Seq(Messages)]
         /\ \A a \in Procs : Distinct(inbox[a])'
         /\ \A a \in Procs : \A x : Says(a, x)' <=> Says(a, x) \/ x = msg
         /\ \A y, z : Before(inbox[Motion], y, z) /\ y # z /\ (msg = y => ~Says(Motion, z))
              => Before(inbox'[Motion], y, z)
<1>1. inbox' = [a \in Procs |-> Append(inbox[a], msg)]
  BY AllGetIt
<1>2. \A a \in Procs : inbox[a] \in Seq(Messages) /\ inbox'[a] = Append(inbox[a], msg)
  BY <1>1, NoneIsNotTold
<1>3. \A a \in Procs :
        /\ Append(inbox[a], msg) \in Seq(Messages)
        /\ Distinct(Append(inbox[a], msg))
        /\ \A x : x \in Range(Append(inbox[a], msg)) <=> x \in Range(inbox[a]) \/ x = msg
        /\ \A y, z : Before(inbox[a], y, z) /\ (msg = y => z \notin Range(inbox[a])) /\ y # z
             => Before(Append(inbox[a], msg), y, z)
  BY <1>2, AppendIs DEF InboxInv, Says
<1>4. Motion \in Procs
  BY MessagesDiffer
<1> QED
  BY <1>1, <1>2, <1>3, <1>4 DEF Says

\* What is processed is told no more.
LEMMA ProcessesIs ==
  ASSUME TypeOK, InboxInv, NEW a \in Procs, NEW msg, Processes(a, msg), inbox[a] # <<>>
  PROVE  /\ inbox' \in [Procs -> Seq(Messages)] /\ Says(a, msg)
         /\ \A b \in Procs : Distinct(inbox[b])'
         /\ \A b \in Procs : \A x : Says(b, x)' <=> Says(b, x) /\ (b = a => x # msg)
         /\ \A y, z : Before(inbox[Motion], y, z) => Before(inbox'[Motion], y, z)
         /\ a = Motion => \A y : Before(inbox[Motion], y, msg) => ~Says(Motion, y)
<1>1. /\ inbox' = [inbox EXCEPT ![a] = Tail(@)] /\ msg = Head(inbox[a])
      /\ inbox \in [Procs -> Seq(Messages)]
  <2>1. inbox \in [Procs -> Seq(Messages)]
    BY DEF TypeOK, Messages
  <2> QED
    BY <2>1 DEF Processes
<1>2. \A b \in Procs : b # a => inbox'[b] = inbox[b]
  BY <1>1
<1>3. inbox'[a] = Tail(inbox[a]) /\ inbox[a] \in Seq(Messages)
  BY <1>1
<1>4. /\ Tail(inbox[a]) \in Seq(Messages) /\ Distinct(Tail(inbox[a]))
      /\ \A y : y \in Range(Tail(inbox[a])) <=> y \in Range(inbox[a]) /\ y # msg
      /\ msg \in Range(inbox[a])
      /\ \A y, z : Before(inbox[a], y, z) => Before(Tail(inbox[a]), y, z)
      /\ \A y : Before(inbox[a], y, msg) => y \notin Range(inbox[a])
  BY <1>1, <1>3, TailIs DEF InboxInv
<1>5. inbox' \in [Procs -> Seq(Messages)]
  BY <1>1, <1>4
<1>6. \A b \in Procs : Distinct(inbox[b])'
  BY <1>2, <1>3, <1>4 DEF InboxInv
<1>7. \A b \in Procs : \A x : Says(b, x)' <=> Says(b, x) /\ (b = a => x # msg)
  BY <1>2, <1>3, <1>4 DEF Says
<1>8. \A y, z : Before(inbox[Motion], y, z) => Before(inbox'[Motion], y, z)
  <2>1. CASE a = Motion
    BY <2>1, <1>3, <1>4
  <2>2. CASE a # Motion
    BY <2>2, <1>2, MessagesDiffer
  <2> QED
    BY <2>1, <2>2
<1> QED
  BY <1>4, <1>5, <1>6, <1>7, <1>8 DEF Says
-----------------------------------------------------------------------------
(* What a step leaves as it is *)

\* Nothing happens to the slot that matters to its life: it may be locked and converted
\* while it is not dead, and a message about it may be taken that has no effect.
Same(q) ==
  /\ q \in Range(free') <=> q \in Range(free)
  /\ \A a \in Procs : region'[a][q] = region[a][q]
  /\ known'[q] = known[q]
  /\ lastAccessor'[q] = Dead <=> lastAccessor[q] = Dead
  /\ lastAccessor[q] = Dead => lock'[q] = lock[q]
  /\ Task(q)' = Task(q)
  /\ \A a \in Procs : Says(a, DeleteMotion(q))' => Says(a, DeleteMotion(q))
  /\ \A a \in Procs :
       \/ Says(a, DeleteMotion(q)) => Says(a, DeleteMotion(q))'
       \/ region[a][q] = None /\ \A m \in Motions : mc_id[m] = q => ~Says(a, AddMotion(m))

SameMotion(m) ==
  /\ mc_id'[m] = mc_id[m]
  /\ m \in started' <=> m \in started
  /\ \A a \in Procs : Says(a, AddMotion(m))' => Says(a, AddMotion(m))
  /\ Says(Motion, AddMotion(m)) => Says(Motion, AddMotion(m))'

\* A slot and a motion that a step leaves alone are where they were in the slot's life.
LEMMA Kept ==
  ASSUME NEW q \in Slots, NEW m \in Motions, Same(q), SameMotion(m)
  PROVE  /\ FreeSlot(q) => FreeSlot(q)'
         /\ Alive(q, m) => Alive(q, m)'
         /\ Added(q, m) => Added(q, m)'
         /\ Running(q, m) => Running(q, m)'
         /\ Revoked(q, m) => Revoked(q, m)'
         /\ Ended(q, m) => Ended(q, m)'
         /\ Pruned(q, m) => Pruned(q, m)'
<1>0. Main \in Procs /\ Motion \in Procs /\ None \notin Motions
  BY MessagesDiffer
<1>1. FreeSlot(q) => FreeSlot(q)'
  BY <1>0 DEF Same, FreeSlot
<1>2. Alive(q, m) => Alive(q, m)'
  BY <1>0 DEF Same, SameMotion, Alive
<1>3. Added(q, m) => Added(q, m)'
  BY <1>0, <1>2 DEF Same, SameMotion, Added
<1>4. Running(q, m) => Running(q, m)'
  BY <1>0, <1>2 DEF Same, SameMotion, Running
<1>5. Revoked(q, m) => Revoked(q, m)'
  BY <1>0 DEF Same, SameMotion, Revoked
<1>6. Ended(q, m) => Ended(q, m)'
  BY <1>0 DEF Same, SameMotion, Ended
<1>7. Pruned(q, m) => Pruned(q, m)'
  BY <1>0 DEF Same, SameMotion, Pruned
<1> QED
  BY <1>1, <1>2, <1>3, <1>4, <1>5, <1>6, <1>7

\* A region that is attached is that of the motion that has the slot.
LEMMA RegionIs ==
  ASSUME TypeOK, SlotsInv, NEW q \in Slots, NEW a \in Procs, region[a][q] # None
  PROVE  /\ region[a][q] \in Motions /\ Taken(q, region[a][q]) /\ q \notin Range(free)
         /\ \A m \in Motions : Taken(q, m) => m = region[a][q]
<1>0. a \in {Main, Motion}
  BY DEF Procs
<1>1. ASSUME NEW m \in Motions, Taken(q, m) PROVE region[a][q] = m
  BY <1>0, <1>1 DEF Taken, Named, Added, Running, Revoked, Ended, Pruned, Alive
<1>2. ~FreeSlot(q)
  BY <1>0 DEF FreeSlot
<1> QED
  BY <1>1, <1>2 DEF SlotsInv

\* A motion has one slot at most,
LEMMA OneSlot ==
  ASSUME TypeOK, MotionsInv, RegionsInv, NEW m \in Motions,
         NEW p \in Slots, NEW q \in Slots, Taken(p, m), Taken(q, m)
  PROVE  p = q
<1>0. Main \in Procs /\ Motion \in Procs /\ None \notin Motions /\ None \notin Slots
  BY MessagesDiffer
<1>1. CASE mc_id[m] # None
  BY <1>1 DEF Taken, Named, Added, Running, Revoked, Ended, Pruned, Alive
<1>2. CASE mc_id[m] = None
  <2>1. \A r \in Slots : Taken(r, m) => \E a \in Procs : region[a][r] = m
    BY <1>0, <1>2 DEF Taken, Named, Added, Running, Revoked, Ended, Pruned, Alive
  <2>2. PICK a \in Procs : region[a][p] = m
    BY <2>1
  <2>3. PICK b \in Procs : region[b][q] = m
    BY <2>1
  <2> QED
    BY <2>2, <2>3, <1>0 DEF RegionsInv
<1> QED
  BY <1>1, <1>2

\* a slot one motion at most,
LEMMA OneMotion ==
  ASSUME TypeOK, MotionsInv, NEW p \in Slots, NEW m \in Motions, NEW n \in Motions,
         Taken(p, m), Taken(p, n)
  PROVE  m = n
<1>0. None \notin Motions /\ None \notin Slots
  BY MessagesDiffer
<1>1. CASE Ended(p, m) \/ Pruned(p, m) \/ Added(p, m) \/ Running(p, m)
  BY <1>1, <1>0 DEF Taken, Named, Added, Running, Revoked, Ended, Pruned, Alive
<1>2. CASE Ended(p, n) \/ Pruned(p, n) \/ Added(p, n) \/ Running(p, n)
  BY <1>2, <1>0 DEF Taken, Named, Added, Running, Revoked, Ended, Pruned, Alive
<1>3. CASE Revoked(p, m) /\ Revoked(p, n)
  BY <1>3, <1>0 DEF Revoked, MotionsInv
<1> QED
  BY <1>1, <1>2, <1>3 DEF Taken, Named

\* and so the name of a motion is that of its slot alone.
LEMMA NameIs ==
  ASSUME TypeOK, MotionsInv, NEW p \in Slots, NEW m \in Motions, Taken(p, m)
  PROVE  /\ mc_id[m] \in {p, None} /\ mc_id[m] = p <=> Named(p, m)
         /\ \A n \in Motions : n # m => mc_id[n] # p
<1>0. None \notin Slots
  BY MessagesDiffer
<1>1. mc_id[m] \in {p, None} /\ (mc_id[m] = p <=> Named(p, m))
  BY <1>0 DEF Taken, Named, Added, Running, Revoked, Ended, Pruned, Alive
<1>2. ASSUME NEW n \in Motions, n # m, mc_id[n] = p PROVE FALSE
  <2>1. Taken(p, n)
    BY <1>0, <1>2 DEF MotionsInv, Taken
  <2> QED
    BY <2>1, <1>2, OneMotion
<1> QED
  BY <1>1, <1>2

\* A fresh motion has none.
LEMMA FreshIs ==
  ASSUME TypeOK, MotionsInv, NEW m \in Motions, IsFresh(m)
  PROVE  /\ \A p \in Slots : ~Taken(p, m)
         /\ mc_id[m] = None /\ m \notin started
         /\ \A a \in Procs : ~Says(a, AddMotion(m)) /\ \A p \in Slots : region[a][p] # m
<1>0. Main \in Procs /\ Motion \in Procs
  BY MessagesDiffer
<1>1. \A a \in Procs : ~Says(a, AddMotion(m)) /\ \A p \in Slots : region[a][p] # m
  <2> SUFFICES ASSUME NEW a \in Procs
               PROVE  ~Says(a, AddMotion(m)) /\ \A p \in Slots : region[a][p] # m
    OBVIOUS
  <2>1. region[a] \in [Slots -> Motions \cup {None}]
    BY DEF TypeOK
  <2> QED
    BY <2>1 DEF IsFresh, Says, Range
<1>2. \A p \in Slots : ~Taken(p, m)
  BY <1>0, <1>1 DEF Taken, Named, Added, Running, Revoked, Ended, Pruned, Alive
<1>3. mc_id[m] = None
  BY <1>2 DEF MotionsInv, Taken, TypeOK
<1> QED
  BY <1>1, <1>2, <1>3 DEF MotionsInv

-----------------------------------------------------------------------------
(* A step for one slot p, or for none, and its motion m0 *)

\* It is enough to look at slot p and motion m0: the other slots, and the other motions, are
\* as the invariant has them.
LEMMA SlotStep ==
  ASSUME TypeOK, TypeOK', SlotsInv, MotionsInv, RegionsInv, NEW p, NEW m0,
         \A q \in Slots : q # p => Same(q),
         \A m \in Motions : m # m0 => SameMotion(m) /\ (p \in Slots => mc_id[m] # p),
         m0 \in Motions => \A q \in Slots : q # p => ~Taken(q, m0),
         p \in Slots =>
           /\ m0 \in Motions
           /\ FreeSlot(p)' \/ (p \notin Range(free') /\ Taken(p, m0)')
           /\ \A a \in Procs : region'[a][p] \in {None, m0},
         m0 \in Motions =>
           /\ p \in Slots
           /\ IF mc_id'[m0] = None THEN ~Says(Motion, AddMotion(m0))' /\ m0 \notin started'
                                   ELSE mc_id'[m0] = p /\ Named(p, m0)'
  PROVE  /\ SlotsInv' /\ MotionsInv' /\ RegionsInv'
         /\ \A q \in Slots : \A m \in Motions :
              q # p => /\ Alive(q, m) => Alive(q, m)'
                       /\ Running(q, m) => Running(q, m)'
<1>0. Main \in Procs /\ Motion \in Procs /\ None \notin Motions /\ None \notin Slots
  BY MessagesDiffer
<1>1. ASSUME NEW q \in Slots, q # p, NEW m \in Motions, Taken(q, m)
      PROVE  /\ Taken(q, m)' /\ (Named(q, m) => Named(q, m)')
             /\ (Running(q, m) => Running(q, m)') /\ (Alive(q, m) => Alive(q, m)')
  <2>1. Same(q) /\ SameMotion(m)
    BY <1>1
  <2> QED
    BY <2>1, <1>1, Kept DEF Taken, Named
<1>2. SlotsInv'
  <2> SUFFICES ASSUME NEW q \in Slots
               PROVE  FreeSlot(q)' \/ (q \notin Range(free') /\ \E m \in Motions : Taken(q, m)')
    BY DEF SlotsInv
  <2>1. CASE q = p
    BY <2>1
  <2>2. CASE q # p /\ FreeSlot(q)
    BY <2>2 DEF Same, FreeSlot, Procs
  <2>3. ASSUME q # p, q \notin Range(free), NEW m \in Motions, Taken(q, m)
        PROVE  q \notin Range(free') /\ Taken(q, m)'
    <3>1. Taken(q, m)'
      BY <2>3, <1>1
    <3>2. Same(q)
      BY <2>3
    <3> QED
      BY <2>3, <3>1, <3>2 DEF Same
  <2> QED
    BY <2>1, <2>2, <2>3 DEF SlotsInv
<1>3. MotionsInv'
  <2>0. \A m \in Motions : m # m0 => mc_id'[m] = mc_id[m] /\ SameMotion(m)
    BY DEF SameMotion
  <2>1. ASSUME NEW m \in Motions, mc_id'[m] = None
        PROVE  ~Says(Motion, AddMotion(m))' /\ m \notin started'
    <3>1. CASE m = m0
      BY <3>1, <2>1
    <3>2. CASE m # m0
      BY <3>2, <2>0, <2>1, <1>0 DEF MotionsInv, SameMotion
    <3> QED
      BY <3>1, <3>2
  <2>3. ASSUME NEW m \in Motions, NEW q \in Slots, mc_id'[m] = q
        PROVE  Named(q, m)'
    <3>1. CASE m = m0
      BY <3>1, <2>3, <1>0
    <3>2. CASE m # m0
      <4>1. mc_id[m] = q /\ q # p /\ Named(q, m)
        BY <3>2, <2>0, <2>3 DEF MotionsInv
      <4> QED
        BY <4>1, <1>1 DEF Taken
    <3> QED
      BY <3>1, <3>2
  <2>2. ASSUME NEW m \in Motions, NEW n \in Motions, mc_id'[m] # None, mc_id'[m] = mc_id'[n]
        PROVE  m = n
    <3>1. CASE m # m0 /\ n # m0
      BY <3>1, <2>2 DEF MotionsInv, SameMotion
    <3>2. CASE m # m0 /\ n = m0
      BY <3>2, <2>2 DEF SameMotion
    <3>3. CASE m = m0 /\ n # m0
      BY <3>3, <2>2 DEF SameMotion
    <3> QED
      BY <3>1, <3>2, <3>3
  <2> QED
    BY <2>1, <2>2, <2>3 DEF MotionsInv
<1>4. RegionsInv'
  <2> SUFFICES ASSUME NEW a \in Procs, NEW b \in Procs, NEW q \in Slots, NEW r \in Slots,
                      region'[a][q] # None, region'[a][q] = region'[b][r]
               PROVE  q = r
    BY DEF RegionsInv
  <2>1. CASE q # p /\ r # p
    BY <2>1 DEF Same, RegionsInv
  <2>2. ASSUME NEW c \in Procs, NEW s \in Slots, s # p, p \in Slots PROVE region'[c][s] # m0
    <3>1. region'[c][s] = region[c][s]
      BY <2>2 DEF Same
    <3>2. ASSUME region[c][s] = m0 PROVE FALSE
      <4>1. Taken(s, m0)
        BY <2>2, <3>2, <1>0, RegionIs
      <4> QED
        BY <4>1, <2>2
    <3> QED
      BY <3>1, <3>2
  <2>3. CASE q # p /\ r = p
    BY <2>2, <2>3
  <2>4. CASE q = p /\ r # p
    BY <2>2, <2>4
  <2> QED
    BY <2>1, <2>3, <2>4
<1>5. ASSUME NEW q \in Slots, NEW m \in Motions, q # p
      PROVE  (Alive(q, m) => Alive(q, m)') /\ (Running(q, m) => Running(q, m)')
  <2>1. CASE Taken(q, m)
    BY <2>1, <1>1, <1>5
  <2>2. CASE ~Taken(q, m)
    BY <2>2, <1>5 DEF MotionsInv, Alive, Taken, Named
  <2> QED
    BY <2>1, <2>2
<1> QED
  BY <1>2, <1>3, <1>4, <1>5

\* No slot's life goes on.
LEMMA CalmStep ==
  ASSUME TypeOK, TypeOK', Parts, UNCHANGED <<free, region, inbox, mc_id, started, known>>,
         \A q \in Slots : /\ Task(q)' = Task(q)
                          /\ lastAccessor'[q] = Dead <=> lastAccessor[q] = Dead
                          /\ lastAccessor[q] = Dead => lock'[q] = lock[q]
  PROVE  /\ Parts'
         /\ \A q \in Slots : \A m \in Motions :
              (Alive(q, m) => Alive(q, m)') /\ (Running(q, m) => Running(q, m)')
<1>0. None \notin Motions /\ None \notin Slots
  BY MessagesDiffer
<1>1. \A q \in Slots : Same(q)
  <2> TAKE q \in Slots
  <2>1. \A a \in Procs : \A x : Says(a, x)' <=> Says(a, x)
    BY DEF Says
  <2>2. free' = free /\ region' = region /\ known' = known
    OBVIOUS
  <2> QED
    BY <2>1, <2>2 DEF Same
<1>2. \A m \in Motions : SameMotion(m)
  BY DEF SameMotion, Says
<1>3. InboxInv'
  BY DEF Parts, InboxInv
<1>4. /\ SlotsInv' /\ MotionsInv' /\ RegionsInv'
      /\ \A q \in Slots : \A m \in Motions :
           q # None => /\ Alive(q, m) => Alive(q, m)'
                       /\ Running(q, m) => Running(q, m)'
  BY <1>0, <1>1, <1>2, SlotStep DEF Parts
<1> QED
  BY <1>0, <1>3, <1>4 DEF Parts

-----------------------------------------------------------------------------
(* The places of the two processes *)

\* A process goes to a place, and the other stays,
LEMMA GotoIs ==
  ASSUME PcInv, NEW a \in Procs, NEW label, NEW x, Goto(a, label, x)
  PROVE  /\ pc'[a] = [at |-> label, arg |-> x]
         /\ \A b \in Procs : b # a => pc'[b] = pc[b]
         /\ pc' = [b \in Procs |-> pc'[b]]
BY DEF Goto, PcInv

\* or it becomes idle.
LEMMA BecomeIs ==
  ASSUME PcInv, NEW a \in Procs, Become(a)
  PROVE  /\ pc'[a] = Idle
         /\ \A b \in Procs : b # a => pc'[b] = pc[b]
         /\ pc' = [b \in Procs |-> pc'[b]]
BY DEF Become, PcInv

\* What Main has asked stays so while Motion moves.
LEMMA MainWaits ==
  ASSUME TypeOK, TypeOK', MainInv, PcInv, pc'[Main] = pc[Main],
         pc[Main].at = "removing" => known' = known,
         \A p \in Slots : Holds(Main, p)' => Holds(Main, p),
         \A a \in Procs : \A m \in Motions : Says(a, AddMotion(m))' => Says(a, AddMotion(m)),
         \A a \in Procs : \A p \in Slots :
           region'[a][p] # None /\ region'[a][p] # region[a][p] => Says(a, AddMotion(region'[a][p]))
  PROVE  MainInv'
<1>0. Main \in Procs /\ None \notin Motions
  BY MessagesDiffer
<1>1. ASSUME NEW m \in Motions, At(Main, "adding", m)' PROVE IsFresh(m)' /\ HoldsNothing(Main)'
  <2>1. IsFresh(m) /\ HoldsNothing(Main)
    BY <1>1 DEF At, MainInv
  <2>2. ASSUME NEW a \in Procs PROVE m \notin Range(region'[a]) /\ ~Says(a, AddMotion(m))'
    <3>1. region[a] \in [Slots -> Motions \cup {None}] /\ region'[a] \in [Slots -> Motions \cup {None}]
      BY DEF TypeOK
    <3>2. ~Says(a, AddMotion(m)) /\ \A p \in Slots : region[a][p] # m
      BY <2>1, <3>1 DEF IsFresh, Says, Range
    <3>3. \A p \in Slots : region'[a][p] # m
      BY <3>2, <1>0
    <3> QED
      BY <3>1, <3>2, <3>3 DEF Range
  <2> QED
    BY <2>1, <2>2 DEF IsFresh, HoldsNothing, Says
<1>2. ASSUME NEW p \in Slots, At(Main, "removing", p)'
      PROVE  HoldsNothing(Main)' /\ known'[p] # None /\ ~Says(Main, AddMotion(known[p]))'
  <2>1. At(Main, "removing", p) /\ known' = known
    BY <1>2 DEF At
  <2>2. HoldsNothing(Main) /\ known[p] # None /\ ~Says(Main, AddMotion(known[p]))
    BY <2>1 DEF MainInv
  <2>3. PICK m \in Motions : m = known[p]
    BY <2>2 DEF TypeOK
  <2>4. ~Says(Main, AddMotion(m))'
    BY <2>2, <2>3, <1>0
  <2>5. known'[p] = m
    BY <2>1, <2>3
  <2>6. HoldsNothing(Main)'
    BY <2>2 DEF HoldsNothing
  <2> QED
    BY <2>4, <2>5, <2>6, <1>0 DEF Says, AddMotion
<1> QED
  BY <1>1, <1>2 DEF MainInv

\* Locks that nobody takes or gives back stay as the invariant has them,
LEMMA LocksStay ==
  ASSUME TypeOK, LockInv, lock' = lock,
         \A p \in Slots : At(Motion, "updating", p)' <=> At(Motion, "updating", p),
         \A p \in Slots : At(Motion, "stopped", p)' <=> At(Motion, "stopped", p),
         \A p \in Slots : Holds(Main, p) =>
           /\ calls' = calls
           /\ pc'[Main].at = "checkout" => pc[Main].at = "checkout"
           /\ \A m \in Motions : Alive(p, m) => Alive(p, m)'
  PROVE  LockInv'
BY DEF LockInv, Holds

\* and so does what is left of a round of outputs while Motion waits.
LEMMA MotionWaits ==
  ASSUME TypeOK, TodoInv, pc'[Motion] = pc[Motion], todo' = todo,
         pc[Motion].at \in {"outputs", "updating", "pruning"} =>
           \A q \in Slots : \A m \in Motions : Running(q, m) => Running(q, m)'
  PROVE  TodoInv'
BY DEF TodoInv, TypeOK

\* Where Main is, as far as Motion can tell
LEMMA TaskStays ==
  ASSUME pc'[Motion] = pc[Motion], NEW q
  PROVE  Task(q)' = Task(q)
BY DEF Task

-----------------------------------------------------------------------------
(* Behaviors *)

\* A behavior's handler begins with some number of calls left to make,
LEMMA BeginHandlerInv ==
  ASSUME IInv, BeginHandler
  PROVE  IInv'
<1>0. TypeOK /\ Parts /\ PcInv /\ MainInv /\ LockInv /\ TodoInv
  BY DEF IInv, Places
<1>1. /\ UNCHANGED <<free, region, lastAccessor, lock, MMlock, inbox, mc_id, started, known, todo, pc>>
      /\ calls = None /\ pc[Main] = Idle /\ calls' = MaxCalls
  BY DEF BeginHandler, IsIdle, table
<1>2. TypeOK'
  <2>1. calls' \in 0 .. MaxCalls
    BY <1>1, SizesAssumption
  <2> QED
    BY <2>1, <1>0, <1>1 DEF TypeOK
<1>3. /\ Parts'
      /\ \A q \in Slots : \A m \in Motions : (Alive(q, m) => Alive(q, m)') /\ (Running(q, m) => Running(q, m)')
  BY <1>0, <1>1, <1>2, CalmStep, TaskStays
<1>4. PcInv'
  BY <1>0, <1>1 DEF PcInv, MainPlace, MotionPlace, At, IsIdle, Idle
<1>5. MainInv'
  BY <1>1 DEF MainInv, At, Idle
<1>6. LockInv'
  <2>1. \A p \in Slots : ~Holds(Main, p)
    BY <1>0, <1>1 DEF LockInv, Holds
  <2> QED
    BY <2>1, <1>0, <1>1, LocksStay DEF At
<1>7. TodoInv'
  BY <1>0, <1>1, <1>3, MotionWaits
<1> QED
  BY <1>2, <1>3, <1>4, <1>5, <1>6, <1>7 DEF IInv, Places

\* and ends when it holds no motion any more.
LEMMA EndHandlerInv ==
  ASSUME IInv, EndHandler
  PROVE  IInv'
<1>0. TypeOK /\ Parts /\ PcInv /\ MainInv /\ LockInv /\ TodoInv
  BY DEF IInv, Places
<1>1. /\ UNCHANGED <<free, region, lastAccessor, lock, MMlock, inbox, mc_id, started, known, todo, pc>>
      /\ pc[Main] = Idle /\ calls' = None /\ HoldsNothing(Main)
  BY DEF EndHandler, IsIdle, table
<1>2. TypeOK'
  BY <1>0, <1>1 DEF TypeOK
<1>3. /\ Parts'
      /\ \A q \in Slots : \A m \in Motions : (Alive(q, m) => Alive(q, m)') /\ (Running(q, m) => Running(q, m)')
  BY <1>0, <1>1, <1>2, CalmStep, TaskStays
<1>4. PcInv'
  BY <1>0, <1>1 DEF PcInv, MainPlace, MotionPlace, At, IsIdle, Idle
<1>5. MainInv'
  BY <1>1 DEF MainInv, At, Idle
<1>6. LockInv'
  <2>1. \A p \in Slots : ~Holds(Main, p)
    BY <1>1 DEF HoldsNothing
  <2> QED
    BY <2>1, <1>0, <1>1, LocksStay DEF At
<1>7. TodoInv'
  BY <1>0, <1>1, <1>3, MotionWaits
<1> QED
  BY <1>2, <1>3, <1>4, <1>5, <1>6, <1>7 DEF IInv, Places

\* A call of a behavior, which the guards allow
Allowed ==
  \/ \E m \in Motions : At(Main, "adding", m)' /\ IsFresh(m) /\ HoldsNothing(Main)
  \/ \E p \in Slots : /\ At(Main, "removing", p)' /\ HoldsNothing(Main)
                      /\ known[p] # None /\ ~Says(Main, AddMotion(known[p]))
  \/ \E p \in Slots : At(Main, "checkout", p)'

\* A call begins with no more than a place to go to, and finds there what it looked at.
LEMMA CallsInv ==
  ASSUME IInv,
         UNCHANGED <<free, region, lastAccessor, lock, MMlock, inbox, mc_id, started, known, todo>>,
         pc[Main] = Idle, calls \notin {None, 0}, calls' = calls - 1,
         pc'[Motion] = pc[Motion], pc' = [b \in Procs |-> pc'[b]],
         Allowed
  PROVE  IInv'
<1>0. TypeOK /\ Parts /\ PcInv /\ MainInv /\ LockInv /\ TodoInv
  BY DEF IInv, Places
<1>a. Main \in Procs /\ Motion \in Procs /\ Main # Motion
  BY MessagesDiffer
<1>1. /\ UNCHANGED <<free, region, lastAccessor, lock, MMlock, inbox, mc_id, started, known, todo>>
      /\ pc'[Motion] = pc[Motion]
  OBVIOUS
<1>b. calls \in 1 .. MaxCalls /\ Calling' /\ MaxCalls \in Nat
  <2>1. calls \in 0 .. MaxCalls \cup {None}
    BY <1>0 DEF TypeOK
  <2> QED
    BY <2>1, SizesAssumption DEF Calling
<1>2. TypeOK'
  <2>1. calls' \in 0 .. MaxCalls
    BY <1>b DEF Calling
  <2> QED
    BY <2>1, <1>0, <1>1 DEF TypeOK
<1>3. /\ Parts'
      /\ \A q \in Slots : \A m \in Motions : (Alive(q, m) => Alive(q, m)') /\ (Running(q, m) => Running(q, m)')
  BY <1>0, <1>1, <1>2, CalmStep, TaskStays
<1>4. PcInv'
  <2>1. MainPlace'
    BY <1>1, <1>b DEF MainPlace, Allowed
  <2>2. MotionPlace'
    BY <1>0, <1>1 DEF PcInv, MotionPlace, At, IsIdle
  <2>3. \A b \in Procs : At(b, "receiving", None)' => inbox'[b] # <<>>
    <3>1. ~At(Main, "receiving", None)'
      <4>1. \A m \in Motions : At(Main, "adding", m)' => ~At(Main, "receiving", None)'
        BY DEF At
      <4>2. \A p \in Slots : At(Main, "removing", p)' => ~At(Main, "receiving", None)'
        BY DEF At
      <4>3. \A p \in Slots : At(Main, "checkout", p)' => ~At(Main, "receiving", None)'
        BY DEF At
      <4> QED
        BY <4>1, <4>2, <4>3 DEF Allowed
    <3>2. At(Motion, "receiving", None)' <=> At(Motion, "receiving", None)
      BY <1>1 DEF At
    <3> QED
      BY <3>1, <3>2, <1>0, <1>1 DEF PcInv, Procs
  <2> QED
    BY <2>1, <2>2, <2>3, <1>0, <1>1 DEF PcInv
<1>5. MainInv'
  <2>1. ASSUME NEW m \in Motions, At(Main, "adding", m)' PROVE IsFresh(m)' /\ HoldsNothing(Main)'
    <3>1. IsFresh(m) /\ HoldsNothing(Main)
      <4>1. ASSUME NEW n \in Motions, At(Main, "adding", n)' PROVE n = m
        BY <2>1, <4>1 DEF At
      <4>a. pc'[Main].at = "adding"
        BY <2>1 DEF At
      <4>2. \A p \in Slots : ~At(Main, "removing", p)' /\ ~At(Main, "checkout", p)'
        BY <4>a DEF At
      <4> QED
        BY <4>1, <4>2 DEF Allowed
    <3> QED
      BY <3>1, <1>1 DEF IsFresh, HoldsNothing, Holds
  <2>2. ASSUME NEW p \in Slots, At(Main, "removing", p)'
        PROVE  HoldsNothing(Main)' /\ known'[p] # None /\ ~Says(Main, AddMotion(known[p]))'
    <3>1. HoldsNothing(Main) /\ known[p] # None /\ ~Says(Main, AddMotion(known[p]))
      <4>1. ASSUME NEW q \in Slots, At(Main, "removing", q)' PROVE q = p
        BY <2>2, <4>1 DEF At
      <4>a. pc'[Main].at = "removing"
        BY <2>2 DEF At
      <4>2. \A n \in Motions : ~At(Main, "adding", n)'
        BY <4>a DEF At
      <4>3. \A q \in Slots : ~At(Main, "checkout", q)'
        BY <4>a DEF At
      <4> QED
        BY <4>1, <4>2, <4>3 DEF Allowed
    <3> QED
      BY <3>1, <1>1 DEF Says, AddMotion, HoldsNothing, Holds
  <2> QED
    BY <2>1, <2>2 DEF MainInv
<1>6. LockInv'
  <2> SUFFICES ASSUME NEW p \in Slots
               PROVE  /\ lock'[p].by = None => lock'[p].n = 0
                      /\ lock'[p].by = Motion <=> (At(Motion, "updating", p) \/ At(Motion, "stopped", p))'
                      /\ lock'[p].by = Motion => lock'[p].n = 1
                      /\ lock'[p].by = Main =>
                           /\ calls' # None /\ lock'[p].n \in 1 .. MaxCalls - calls'
                           /\ pc'[Main].at = "checkout" => lock'[p].n < MaxCalls - calls'
                           /\ \E m \in Motions : Alive(p, m)'
    BY DEF LockInv
  <2>1. lock' = lock
    BY <1>1 DEF table
  <2>2. CASE lock[p].by = Main
    <3>1. lock[p].n \in 1 .. MaxCalls - calls /\ \E m \in Motions : Alive(p, m)
      BY <2>2, <1>0 DEF LockInv
    <3>2. lock[p].n \in 1 .. MaxCalls - calls' /\ lock[p].n < MaxCalls - calls' /\ calls' # None
      <4>1. calls' \in 0 .. MaxCalls
        BY <1>b DEF Calling
      <4> QED
        BY <4>1, <3>1, <1>b, NoneAssumption
    <3> QED
      BY <2>1, <2>2, <3>1, <3>2, <1>0, <1>1, <1>3, <1>a DEF LockInv, At
  <2>3. CASE lock[p].by # Main
    BY <2>1, <2>3, <1>0, <1>1 DEF LockInv, At
  <2> QED
    BY <2>2, <2>3
<1>7. TodoInv'
  BY <1>0, <1>1, <1>3, MotionWaits
<1> QED
  BY <1>2, <1>3, <1>4, <1>5, <1>6, <1>7 DEF IInv, Places

\* Behaviors of no bad habit call so.
LEMMA CallInv ==
  ASSUME IInv, Habits = {},
         \/ \E m \in Motions : CallAdd(m)
         \/ \E p \in Slots : CallRemove(p) \/ CallCheckout(p)
  PROVE  IInv'
<1>0. PcInv /\ Main \in Procs /\ Motion \in Procs /\ Main # Motion
  BY MessagesDiffer DEF IInv, Places
<1>1. ASSUME NEW label, NEW arg, Calls(label, arg)
      PROVE  /\ UNCHANGED <<free, region, lastAccessor, lock, MMlock, inbox, mc_id, started, known, todo>>
             /\ pc[Main] = Idle /\ calls \notin {None, 0} /\ calls' = calls - 1
             /\ pc'[Motion] = pc[Motion] /\ pc' = [b \in Procs |-> pc'[b]]
             /\ At(Main, label, arg)'
  <2>1. Goto(Main, label, arg)
    BY <1>1 DEF Calls
  <2>2. /\ pc'[Motion] = pc[Motion] /\ pc' = [b \in Procs |-> pc'[b]]
        /\ pc'[Main] = [at |-> label, arg |-> arg]
    BY <2>1, <1>0, GotoIs
  <2> QED
    BY <2>2, <1>1 DEF Calls, IsIdle, table, At
<1>2. ASSUME NEW m \in Motions, CallAdd(m) PROVE IInv'
  <2>1. Calls("adding", m) /\ IsFresh(m) /\ HoldsNothing(Main)
    BY <1>2 DEF CallAdd
  <2>2. Allowed
    BY <2>1, <1>1 DEF Allowed
  <2> QED
    BY <2>1, <2>2, <1>1, CallsInv
<1>3. ASSUME NEW p \in Slots, CallRemove(p) PROVE IInv'
  <2>1. /\ Calls("removing", p) /\ HoldsNothing(Main)
        /\ known[p] # None /\ ~Says(Main, AddMotion(known[p]))
    BY <1>3 DEF CallRemove, Says
  <2>2. Allowed
    BY <2>1, <1>1 DEF Allowed
  <2> QED
    BY <2>1, <2>2, <1>1, CallsInv
<1>4. ASSUME NEW p \in Slots, CallCheckout(p) PROVE IInv'
  <2>1. Calls("checkout", p)
    BY <1>4 DEF CallCheckout
  <2>2. Allowed
    BY <2>1, <1>1 DEF Allowed
  <2> QED
    BY <2>1, <2>2, <1>1, CallsInv
<1> QED
  BY <1>2, <1>3, <1>4

\* The task for a slot is where Motion is.
LEMMA TaskIs ==
  ASSUME PcInv, NEW p \in Slots
  PROVE  /\ Task(p) = "starting" <=> At(Motion, "starting", p)
         /\ Task(p) = "stopping" <=> At(Motion, "stopping", p)
         /\ Task(p) = "stopped" <=> At(Motion, "stopped", p)
         /\ Task(p) \in {"none", "starting", "stopping", "stopped"}
<1>1. ASSUME pc[Motion].at \in {"starting", "stopping", "stopped"}
      PROVE  \E q \in Slots : pc[Motion] = [at |-> pc[Motion].at, arg |-> q]
  <2>1. ~IsIdle(Motion) /\ ~At(Motion, "receiving", None) /\ ~At(Motion, "outputs", None)
    BY <1>1 DEF IsIdle, Idle, At
  <2>2. PICK q \in Slots : \E label : At(Motion, label, q)
    BY <2>1 DEF PcInv, MotionPlace
  <2>3. PICK label : pc[Motion] = [at |-> label, arg |-> q]
    BY <2>2 DEF At
  <2>4. label = pc[Motion].at
    BY <2>3
  <2> QED
    BY <2>3, <2>4
<1>2. ASSUME pc[Motion].at \in {"starting", "stopping", "stopped"}, pc[Motion].arg = p
      PROVE  pc[Motion] = [at |-> pc[Motion].at, arg |-> p]
  BY <1>1, <1>2
<1>3. \A label : At(Motion, label, p) => pc[Motion].at = label /\ pc[Motion].arg = p
  BY DEF At
<1> QED
  BY <1>2, <1>3 DEF Task, At

\* A slot that is not dead is that of a motion nobody has removed, or Motion holds it.
LEMMA NotDead ==
  ASSUME SlotsInv, LockInv, PcInv, NEW p \in Slots, lastAccessor[p] # Dead
  PROVE  \/ \E m \in Motions : Alive(p, m) /\ (Added(p, m) \/ Running(p, m))
         \/ Holds(Motion, p) /\ At(Motion, "stopped", p)
<1>1. PICK m \in Motions : Taken(p, m)
  BY DEF SlotsInv, FreeSlot
<1>2. CASE Added(p, m) \/ Running(p, m)
  BY <1>2 DEF Added, Running
<1>3. CASE Ended(p, m)
  <2>1. At(Motion, "stopped", p)
    BY <1>3, TaskIs DEF Ended
  <2> QED
    BY <2>1 DEF LockInv, Holds
<1> QED
  BY <1>1, <1>2, <1>3 DEF Taken, Named, Revoked, Pruned

\* Main takes a motion's lock, or finds the motion dead (checkoutMotion()),
LEMMA CheckoutInv ==
  ASSUME IInv, NEW p \in Slots, CheckoutMotion(p)
  PROVE  IInv'
<1>0. TypeOK /\ Parts /\ PcInv /\ MainInv /\ LockInv /\ TodoInv /\ SlotsInv
  BY DEF IInv, Places, Parts
<1>a. Main \in Procs /\ Motion \in Procs /\ Main # Motion /\ Main # Dead /\ Main # None
  BY MessagesDiffer
<1>1. /\ UNCHANGED <<free, region, MMlock, inbox, mc_id, started, known, calls, todo>>
      /\ At(Main, "checkout", p) /\ ~Holds(Motion, p)
      /\ pc'[Main] = Idle /\ pc'[Motion] = pc[Motion] /\ pc' = [b \in Procs |-> pc'[b]]
  BY <1>0, <1>a, BecomeIs DEF CheckoutMotion
<1>b. Calling /\ pc[Main].at = "checkout"
  <2>1. pc[Main].at = "checkout"
    BY <1>1 DEF At
  <2> QED
    BY <2>1, <1>0 DEF PcInv, MainPlace, At, IsIdle, Idle
<1>2. CASE UNCHANGED <<lock, lastAccessor>>
  <2>1. TypeOK'
    BY <1>0, <1>1, <1>2 DEF TypeOK
  <2>2. /\ Parts'
        /\ \A q \in Slots : \A m \in Motions : (Alive(q, m) => Alive(q, m)') /\ (Running(q, m) => Running(q, m)')
    BY <1>0, <1>1, <1>2, <2>1, CalmStep, TaskStays
  <2>3. LockInv'
    BY <1>0, <1>1, <1>2, <2>2, LocksStay DEF At, Idle
  <2>4. MainInv'
    BY <1>1 DEF MainInv, At, Idle
  <2>5. PcInv'
    BY <1>0, <1>1 DEF PcInv, MainPlace, MotionPlace, At, IsIdle, Idle, Procs
  <2>6. TodoInv'
    BY <1>0, <1>1, <2>2, MotionWaits
  <2> QED
    BY <2>1, <2>2, <2>3, <2>4, <2>5, <2>6 DEF IInv, Places
<1>3. CASE ~UNCHANGED <<lock, lastAccessor>>
  <2>0. /\ lastAccessor[p] # Dead
        /\ lock' = [lock EXCEPT ![p] = [by |-> Main, n |-> lock[p].n + 1]]
        /\ lastAccessor' = [lastAccessor EXCEPT ![p] = Main]
    BY <1>3 DEF CheckoutMotion
  <2>a. /\ lock \in [Slots -> [by : Procs \cup {None}, n : 0..MaxCalls]]
        /\ lastAccessor \in [Slots -> Procs \cup {Dead}]
    BY <1>0 DEF TypeOK
  <2>b. lock[p].n + 1 \in 1 .. MaxCalls - calls /\ calls # None /\ lock[p].n + 1 \in 0 .. MaxCalls
    <3>1. lock[p].by \in {None, Main} /\ lock[p].n \in 0 .. MaxCalls
      BY <2>a, <1>1 DEF Holds, Procs
    <3>2. calls \in 0 .. MaxCalls - 1 /\ MaxCalls \in Nat /\ None \notin 0 .. MaxCalls
      BY <1>b, SizesAssumption, NoneAssumption DEF Calling
    <3>3. lock[p].n < MaxCalls - calls
      <4>1. CASE lock[p].by = None
        BY <4>1, <3>2, <1>0 DEF LockInv
      <4>2. CASE lock[p].by = Main
        BY <4>2, <1>b, <1>0 DEF LockInv
      <4> QED
        BY <3>1, <4>1, <4>2
    <3> QED
      BY <3>1, <3>2, <3>3
  <2>c. PICK m \in Motions : Alive(p, m)
    BY <1>0, <1>1, <2>0, NotDead
  <2>1. TypeOK'
    <3>1. lock' \in [Slots -> [by : Procs \cup {None}, n : 0..MaxCalls]]
      BY <2>a, <2>b, <2>0, <1>a
    <3>2. lastAccessor' \in [Slots -> Procs \cup {Dead}]
      BY <2>a, <2>0, <1>a
    <3> QED
      BY <3>1, <3>2, <1>0, <1>1 DEF TypeOK
  <2>2. /\ Parts'
        /\ \A q \in Slots : \A n \in Motions : (Alive(q, n) => Alive(q, n)') /\ (Running(q, n) => Running(q, n)')
    <3>1. \A q \in Slots : /\ lastAccessor'[q] = Dead <=> lastAccessor[q] = Dead
                           /\ lastAccessor[q] = Dead => lock'[q] = lock[q]
      BY <2>0, <2>a, <1>a
    <3> QED
      BY <3>1, <1>0, <1>1, <2>1, CalmStep, TaskStays
  <2>3. LockInv'
    <3> SUFFICES ASSUME NEW q \in Slots
                 PROVE  /\ lock'[q].by = None => lock'[q].n = 0
                        /\ lock'[q].by = Motion <=> (At(Motion, "updating", q) \/ At(Motion, "stopped", q))'
                        /\ lock'[q].by = Motion => lock'[q].n = 1
                        /\ lock'[q].by = Main =>
                             /\ calls' # None /\ lock'[q].n \in 1 .. MaxCalls - calls'
                             /\ pc'[Main].at = "checkout" => lock'[q].n < MaxCalls - calls'
                             /\ \E n \in Motions : Alive(q, n)'
      BY DEF LockInv
    <3>1. pc'[Main].at # "checkout"
      BY <1>1 DEF Idle
    <3>2. CASE q = p
      <4>1. lock'[p] = [by |-> Main, n |-> lock[p].n + 1]
        BY <2>0, <2>a
      <4>2. ~(At(Motion, "updating", p) \/ At(Motion, "stopped", p))'
        BY <1>0, <1>1 DEF LockInv, Holds, At
      <4> QED
        BY <3>1, <3>2, <4>1, <4>2, <2>b, <2>c, <2>2, <1>1, <1>a
    <3>3. CASE q # p
      <4>1. lock'[q] = lock[q]
        BY <3>3, <2>0, <2>a
      <4> QED
        BY <3>1, <4>1, <2>2, <1>0, <1>1 DEF LockInv, At
    <3> QED
      BY <3>2, <3>3
  <2>4. MainInv'
    BY <1>1 DEF MainInv, At, Idle
  <2>5. PcInv'
    BY <1>0, <1>1 DEF PcInv, MainPlace, MotionPlace, At, IsIdle, Idle, Procs
  <2>6. TodoInv'
    BY <1>0, <1>1, <2>2, MotionWaits
  <2> QED
    BY <2>1, <2>2, <2>3, <2>4, <2>5, <2>6 DEF IInv, Places
<1> QED
  BY <1>2, <1>3

\* and gives the lock back (checkinMotion()).
LEMMA CheckinInv ==
  ASSUME IInv, NEW p \in Slots, CheckinMotion(p)
  PROVE  IInv'
<1>0. TypeOK /\ Parts /\ PcInv /\ MainInv /\ LockInv /\ TodoInv /\ SlotsInv
  BY DEF IInv, Places, Parts
<1>a. Main # Motion /\ Main # None /\ MaxCalls \in Nat
  BY MessagesDiffer, SizesAssumption
<1>1. /\ UNCHANGED <<free, region, lastAccessor, MMlock, inbox, mc_id, started, known, calls, todo, pc>>
      /\ pc[Main] = Idle /\ lock[p].by = Main /\ calls # None
      /\ lock' = [lock EXCEPT ![p] = IF @.n = 1 THEN Unlocked ELSE [by |-> Main, n |-> @.n - 1]]
  BY DEF CheckinMotion, Holds, IsIdle
<1>b. lock \in [Slots -> [by : Procs \cup {None}, n : 0..MaxCalls]] /\ calls \in 0 .. MaxCalls
  BY <1>0, <1>1 DEF TypeOK
<1>c. lock[p].n \in 1 .. MaxCalls - calls /\ \E m \in Motions : Alive(p, m)
  BY <1>0, <1>1 DEF LockInv
<1>d. \/ lock'[p] = [by |-> None, n |-> 0]
      \/ lock'[p] = [by |-> Main, n |-> lock[p].n - 1] /\ lock[p].n - 1 \in 1 .. MaxCalls - calls
  <2>1. CASE lock[p].n = 1
    BY <2>1, <1>1, <1>b DEF Unlocked
  <2>2. CASE lock[p].n # 1
    <3>1. lock'[p] = [by |-> Main, n |-> lock[p].n - 1]
      BY <2>2, <1>1, <1>b
    <3> QED
      BY <3>1, <2>2, <1>a, <1>b, <1>c
  <2> QED
    BY <2>1, <2>2
<1>2. TypeOK'
  <2>1. lock'[p] \in [by : Procs \cup {None}, n : 0..MaxCalls]
    <3>1. 0 \in 0 .. MaxCalls /\ (lock[p].n - 1 \in 1 .. MaxCalls - calls => lock[p].n - 1 \in 0 .. MaxCalls)
      BY <1>a, <1>b
    <3> QED
      BY <3>1, <1>d, MessagesDiffer
  <2>2. lock' \in [Slots -> [by : Procs \cup {None}, n : 0..MaxCalls]]
    BY <2>1, <1>1, <1>b
  <2> QED
    BY <2>2, <1>0, <1>1 DEF TypeOK
<1>3. /\ Parts'
      /\ \A q \in Slots : \A m \in Motions : (Alive(q, m) => Alive(q, m)') /\ (Running(q, m) => Running(q, m)')
  <2>1. lastAccessor[p] # Dead
    BY <1>c DEF Alive
  <2>2. \A q \in Slots : lastAccessor[q] = Dead => lock'[q] = lock[q]
    BY <2>1, <1>1, <1>b
  <2> QED
    BY <2>2, <1>0, <1>1, <1>2, CalmStep, TaskStays
<1>4. PcInv'
  BY <1>0, <1>1 DEF PcInv, MainPlace, MotionPlace, At, IsIdle, Calling
<1>5. MainInv'
  BY <1>1 DEF MainInv, At, Idle
<1>6. LockInv'
  <2> SUFFICES ASSUME NEW q \in Slots
               PROVE  /\ lock'[q].by = None => lock'[q].n = 0
                      /\ lock'[q].by = Motion <=> (At(Motion, "updating", q) \/ At(Motion, "stopped", q))'
                      /\ lock'[q].by = Motion => lock'[q].n = 1
                      /\ lock'[q].by = Main =>
                           /\ calls' # None /\ lock'[q].n \in 1 .. MaxCalls - calls'
                           /\ pc'[Main].at = "checkout" => lock'[q].n < MaxCalls - calls'
                           /\ \E m \in Motions : Alive(q, m)'
    BY DEF LockInv
  <2>1. pc'[Main].at # "checkout"
    BY <1>1 DEF Idle
  <2>2. CASE q = p
    <3>1. ~(At(Motion, "updating", p) \/ At(Motion, "stopped", p))'
      BY <1>0, <1>1, <1>a DEF LockInv, At
    <3> QED
      BY <2>1, <2>2, <3>1, <1>1, <1>3, <1>a, <1>c, <1>d, MessagesDiffer
  <2>3. CASE q # p
    <3>1. lock'[q] = lock[q]
      BY <2>3, <1>1, <1>b
    <3> QED
      BY <3>1, <2>1, <1>0, <1>1, <1>3 DEF LockInv, At
  <2> QED
    BY <2>2, <2>3
<1>7. TodoInv'
  BY <1>0, <1>1, <1>3, MotionWaits
<1> QED
  BY <1>2, <1>3, <1>4, <1>5, <1>6, <1>7 DEF IInv, Places

-----------------------------------------------------------------------------
(* The outputs: no slot begins or ends its life, but for the prunes. *)

MotionBusy == pc[Motion].at \in {"starting", "stopping", "stopped"}

\* While Motion removes and adds nothing, no slot's life goes on and no lock of Main's is touched.
LEMMA MotionCalm ==
  ASSUME IInv, TypeOK', UNCHANGED <<free, region, inbox, mc_id, started, known, calls>>,
         pc'[Main] = pc[Main], pc' = [b \in Procs |-> pc'[b]],
         MotionPlace', ~MotionBusy, ~MotionBusy', At(Motion, "receiving", None)' => inbox[Motion] # <<>>,
         MMlock' = IF pc'[Motion].at \in Engaged THEN Motion ELSE None,
         \A q \in Slots :
           /\ lastAccessor'[q] = Dead <=> lastAccessor[q] = Dead
           /\ lastAccessor[q] = Dead \/ Holds(Main, q) => lock'[q] = lock[q]
           /\ Holds(Main, q)' => Holds(Main, q)
           /\ lock'[q].by = None => lock'[q].n = 0
           /\ lock'[q].by = Motion <=> At(Motion, "updating", q)'
           /\ lock'[q].by = Motion => lock'[q].n = 1
  PROVE  /\ Parts' /\ PcInv' /\ MainInv' /\ LockInv'
         /\ \A q \in Slots : \A m \in Motions : Running(q, m) => Running(q, m)'
<1>0. TypeOK /\ Parts /\ PcInv /\ MainInv /\ LockInv /\ TodoInv
  BY DEF IInv, Places
<1>a. Main # Motion /\ Main # None /\ Procs = {Main, Motion}
  BY MessagesDiffer
<1>1. /\ Parts'
      /\ \A q \in Slots : \A m \in Motions : (Alive(q, m) => Alive(q, m)') /\ (Running(q, m) => Running(q, m)')
  <2>1. \A q : Task(q) = "none" /\ Task(q)' = "none"
    BY DEF Task, MotionBusy
  <2> QED
    BY <2>1, <1>0, CalmStep
<1>2. PcInv'
  <2>1. MainPlace'
    BY <1>0 DEF PcInv, MainPlace, At, IsIdle, Calling
  <2>2. \A b \in Procs : At(b, "receiving", None)' => inbox'[b] # <<>>
    <3>1. At(Main, "receiving", None)' => At(Main, "receiving", None)
      BY DEF At
    <3> QED
      BY <3>1, <1>0, <1>a DEF PcInv
  <2> QED
    BY <2>1, <2>2 DEF PcInv
<1>3. MainInv'
  <2>1. \A a \in Procs : \A x : Says(a, x)' => Says(a, x)
    BY DEF Says
  <2>2. \A a \in Procs : \A m \in Motions : Says(a, AddMotion(m))' => Says(a, AddMotion(m))
    BY <2>1 DEF AddMotion
  <2> QED
    BY <2>2, <1>0, MainWaits
<1>4. LockInv'
  <2> SUFFICES ASSUME NEW q \in Slots
               PROVE  /\ lock'[q].by = None => lock'[q].n = 0
                      /\ lock'[q].by = Motion <=> (At(Motion, "updating", q) \/ At(Motion, "stopped", q))'
                      /\ lock'[q].by = Motion => lock'[q].n = 1
                      /\ lock'[q].by = Main =>
                           /\ calls' # None /\ lock'[q].n \in 1 .. MaxCalls - calls'
                           /\ pc'[Main].at = "checkout" => lock'[q].n < MaxCalls - calls'
                           /\ \E m \in Motions : Alive(q, m)'
    BY DEF LockInv
  <2>1. ~At(Motion, "stopped", q)'
    BY DEF At, MotionBusy
  <2>2. ASSUME lock'[q].by = Main
        PROVE  /\ calls' # None /\ lock'[q].n \in 1 .. MaxCalls - calls'
               /\ pc'[Main].at = "checkout" => lock'[q].n < MaxCalls - calls'
               /\ \E m \in Motions : Alive(q, m)'
    <3>1. lock[q].by = Main /\ lock'[q] = lock[q]
      BY <2>2 DEF Holds
    <3> QED
      BY <3>1, <1>0, <1>1 DEF LockInv
  <2> QED
    BY <2>1, <2>2
<1> QED
  BY <1>1, <1>2, <1>3, <1>4

\* To be at a place is to have its label and its argument.
LEMMA AtIs ==
  /\ \A a, label, x : At(a, label, x) => pc[a].at = label /\ pc[a].arg = x
  /\ \A a, label, x : At(a, label, x)' => pc'[a].at = label /\ pc'[a].arg = x
BY DEF At

\* A round of outputs begins with the motions that Motion has and are not dead,
LEMMA GetOutputsInv ==
  ASSUME IInv, GetOutputs
  PROVE  IInv'
<1>0. TypeOK /\ Parts /\ PcInv /\ MainInv /\ LockInv /\ TodoInv /\ SlotsInv
  BY DEF IInv, Places, Parts
<1>a. Main # Motion /\ Main # None /\ Motion # None /\ Main \in Procs /\ Motion \in Procs
  BY MessagesDiffer
<1>1. /\ UNCHANGED <<free, region, lastAccessor, lock, inbox, mc_id, started, known, calls>>
      /\ MMlock' = Motion /\ todo' = {p \in Used : IsAttached(Motion, p)} /\ pc[Motion] = Idle
      /\ pc'[Motion] = [at |-> "outputs", arg |-> None] /\ pc'[Main] = pc[Main]
      /\ pc' = [b \in Procs |-> pc'[b]]
  BY <1>0, <1>a, GotoIs DEF GetOutputs, table, IsIdle
<1>2. TypeOK'
  <2>1. todo' \subseteq Slots
    BY <1>1 DEF Used
  <2> QED
    BY <2>1, <1>0, <1>1, <1>a DEF TypeOK
<1>3. ~MotionBusy /\ ~MotionBusy'
  BY <1>1 DEF MotionBusy, Idle
<1>4. MotionPlace' /\ MMlock' = IF pc'[Motion].at \in Engaged THEN Motion ELSE None
  BY <1>1 DEF MotionPlace, At, Engaged
<1>5. /\ Parts' /\ PcInv' /\ MainInv' /\ LockInv'
      /\ \A q \in Slots : \A m \in Motions : Running(q, m) => Running(q, m)'
  <2>1. ~At(Motion, "receiving", None)'
    BY <1>1 DEF At
  <2>2. \A q \in Slots : /\ lock[q].by = None => lock[q].n = 0
                         /\ lock[q].by # Motion /\ ~At(Motion, "updating", q)'
    <3>1. pc[Motion].at = "idle" /\ pc'[Motion].at = "outputs"
      BY <1>1 DEF Idle
    <3> QED
      BY <3>1, <1>0, AtIs DEF LockInv
  <2> QED
    BY <2>1, <2>2, <1>1, <1>2, <1>3, <1>4, MotionCalm DEF Holds
<1>6. TodoInv'
  <2>1. ASSUME NEW p \in todo' PROVE \E m \in Motions : Running(p, m)'
    <3>1. p \in Slots /\ p \notin Range(free) /\ lastAccessor[p] # Dead /\ region[Motion][p] # None
      BY <2>1, <1>1 DEF Used, IsAttached
    <3>2. PICK m \in Motions : Added(p, m) \/ Running(p, m)
      <4>1. ~Holds(Motion, p)
        <5>1. pc[Motion].at = "idle"
          BY <1>1 DEF Idle
        <5> QED
          BY <3>1, <5>1, <1>0, AtIs DEF LockInv, Holds
      <4> QED
        BY <3>1, <4>1, <1>0, NotDead
    <3>3. Task(p) = "none"
      BY <1>1 DEF Task, Idle
    <3>4. Running(p, m)
      BY <3>1, <3>2, <3>3 DEF Added
    <3> QED
      BY <3>1, <3>4, <1>5
  <2> QED
    BY <2>1, <1>1 DEF TodoInv
<1> QED
  BY <1>2, <1>5, <1>6 DEF IInv, Places

\* takes the lock of one of them (getOutputs(), line 529),
LEMMA TryCheckoutInv ==
  ASSUME IInv, NEW p \in Slots, TryCheckout(p)
  PROVE  IInv'
<1>0. TypeOK /\ Parts /\ PcInv /\ MainInv /\ LockInv /\ TodoInv /\ SlotsInv
  BY DEF IInv, Places, Parts
<1>a. Main # Motion /\ Main # None /\ Motion # None /\ Main \in Procs /\ Motion \in Procs /\ Motion # Dead
  BY MessagesDiffer
<1>1. /\ UNCHANGED <<free, region, MMlock, inbox, mc_id, started, known, calls, todo>>
      /\ p \in todo /\ lastAccessor[p] # Dead /\ lock[p] = Unlocked
      /\ lock' = [lock EXCEPT ![p] = [by |-> Motion, n |-> 1]]
      /\ lastAccessor' = [lastAccessor EXCEPT ![p] = Motion]
      /\ pc[Motion].at = "outputs"
      /\ pc'[Motion] = [at |-> "updating", arg |-> p] /\ pc'[Main] = pc[Main]
      /\ pc' = [b \in Procs |-> pc'[b]]
  BY <1>0, <1>a, GotoIs, AtIs DEF TryCheckout
<1>b. /\ lock \in [Slots -> [by : Procs \cup {None}, n : 0..MaxCalls]]
      /\ lastAccessor \in [Slots -> Procs \cup {Dead}] /\ 1 \in 0 .. MaxCalls
  BY <1>0, SizesAssumption DEF TypeOK
<1>2. TypeOK'
  <2>1. lock' \in [Slots -> [by : Procs \cup {None}, n : 0..MaxCalls]]
    BY <1>1, <1>a, <1>b
  <2>2. lastAccessor' \in [Slots -> Procs \cup {Dead}]
    BY <1>1, <1>a, <1>b
  <2> QED
    BY <2>1, <2>2, <1>0, <1>1 DEF TypeOK
<1>3. ~MotionBusy /\ ~MotionBusy'
  BY <1>1 DEF MotionBusy
<1>4. MotionPlace' /\ MMlock' = IF pc'[Motion].at \in Engaged THEN Motion ELSE None
  BY <1>0, <1>1 DEF MotionPlace, At, Engaged, PcInv
<1>5. /\ Parts' /\ PcInv' /\ MainInv' /\ LockInv'
      /\ \A q \in Slots : \A m \in Motions : Running(q, m) => Running(q, m)'
  <2>1. ~At(Motion, "receiving", None)'
    BY <1>1 DEF At
  <2>2. /\ \A q \in Slots : At(Motion, "updating", q)' <=> q = p
        /\ \A q \in Slots : lock[q].by # Motion /\ (lock[q].by = None => lock[q].n = 0)
    <3>1. At(Motion, "updating", p)'
      BY <1>1 DEF At
    <3>2. \A q \in Slots : At(Motion, "updating", q)' => q = p
      BY <1>1, AtIs
    <3>3. \A q \in Slots : ~At(Motion, "updating", q) /\ ~At(Motion, "stopped", q)
      BY <1>1, AtIs
    <3> QED
      BY <3>1, <3>2, <3>3, <1>0 DEF LockInv
  <2>3. lock[p].by = None /\ lock'[p] = [by |-> Motion, n |-> 1] /\ lastAccessor'[p] = Motion
    BY <1>1, <1>b DEF Unlocked
  <2>4. ASSUME NEW q \in Slots
        PROVE  /\ lastAccessor'[q] = Dead <=> lastAccessor[q] = Dead
               /\ lastAccessor[q] = Dead \/ Holds(Main, q) => lock'[q] = lock[q]
               /\ Holds(Main, q)' => Holds(Main, q)
               /\ lock'[q].by = None => lock'[q].n = 0
               /\ lock'[q].by = Motion <=> At(Motion, "updating", q)'
               /\ lock'[q].by = Motion => lock'[q].n = 1
    <3>1. CASE q = p
      BY <3>1, <2>2, <2>3, <1>1, <1>a DEF Holds
    <3>2. CASE q # p
      <4>1. lock'[q] = lock[q] /\ lastAccessor'[q] = lastAccessor[q]
        BY <3>2, <1>1, <1>b
      <4> QED
        BY <3>2, <4>1, <2>2 DEF Holds
    <3> QED
      BY <3>1, <3>2
  <2> QED
    BY <2>1, <2>4, <1>1, <1>2, <1>3, <1>4, MotionCalm
<1>6. TodoInv'
  <2>1. \A q \in todo : \E m \in Motions : Running(q, m)
    BY <1>0, <1>1 DEF TodoInv
  <2> QED
    BY <2>1, <1>0, <1>1, <1>5 DEF TodoInv, TypeOK
<1> QED
  BY <1>2, <1>5, <1>6 DEF IInv, Places

\* The end of an update, and a motion that is to be pruned, give back the lock.
LEMMA ReleaseInv ==
  ASSUME IInv, NEW p \in Slots, At(Motion, "updating", p),
         lock' = [lock EXCEPT ![p] = Unlocked],
         UNCHANGED <<free, region, lastAccessor, MMlock, inbox, mc_id, started, known, calls>>,
         \/ todo' = todo \ {p} /\ Goto(Motion, "outputs", None)
         \/ todo' = todo /\ Goto(Motion, "pruning", p)
  PROVE  IInv'
<1>0. TypeOK /\ Parts /\ PcInv /\ MainInv /\ LockInv /\ TodoInv /\ SlotsInv
  BY DEF IInv, Places, Parts
<1>a. Main # Motion /\ Main # None /\ Motion # None /\ Main \in Procs /\ Motion \in Procs /\ Motion # Dead
  BY MessagesDiffer
<1>1. /\ pc[Motion].at = "updating" /\ pc[Motion].arg = p
      /\ pc'[Main] = pc[Main] /\ pc' = [b \in Procs |-> pc'[b]]
      /\ \/ todo' = todo \ {p} /\ pc'[Motion] = [at |-> "outputs", arg |-> None]
         \/ todo' = todo /\ pc'[Motion] = [at |-> "pruning", arg |-> p]
  BY <1>0, <1>a, GotoIs, AtIs
<1>b. /\ lock \in [Slots -> [by : Procs \cup {None}, n : 0..MaxCalls]] /\ 0 \in 0 .. MaxCalls
      /\ lock[p].by = Motion /\ todo \subseteq Slots
  BY <1>0, SizesAssumption DEF TypeOK, LockInv
<1>2. TypeOK'
  <2>1. lock' \in [Slots -> [by : Procs \cup {None}, n : 0..MaxCalls]]
    BY <1>a, <1>b DEF Unlocked
  <2>2. todo' \subseteq Slots
    BY <1>1, <1>b
  <2> QED
    BY <2>1, <2>2, <1>0 DEF TypeOK
<1>3. ~MotionBusy /\ ~MotionBusy' /\ pc'[Motion].at \in {"outputs", "pruning"}
  BY <1>1 DEF MotionBusy
<1>4. MotionPlace' /\ MMlock' = IF pc'[Motion].at \in Engaged THEN Motion ELSE None
  <2>1. MotionPlace'
    BY <1>1 DEF MotionPlace, At
  <2> QED
    BY <2>1, <1>0, <1>1, <1>3 DEF Engaged, PcInv
<1>5. /\ Parts' /\ PcInv' /\ MainInv' /\ LockInv'
      /\ \A q \in Slots : \A m \in Motions : Running(q, m) => Running(q, m)'
  <2>1. ~At(Motion, "receiving", None)'
    BY <1>3, AtIs
  <2>2. \A q \in Slots : /\ ~At(Motion, "updating", q)'
                         /\ lock[q].by = Motion => q = p
                         /\ lock[q].by = None => lock[q].n = 0
    <3>1. \A q \in Slots : At(Motion, "updating", q) \/ At(Motion, "stopped", q) => q = p
      BY <1>1, AtIs
    <3> QED
      BY <3>1, <1>0, <1>3, AtIs DEF LockInv
  <2>3. \E m \in Motions : Running(p, m)
    BY <1>0, <1>1 DEF TodoInv
  <2>4. lastAccessor[p] # Dead
    BY <2>3 DEF Running, Alive
  <2>5. ASSUME NEW q \in Slots
        PROVE  /\ lastAccessor[q] = Dead \/ Holds(Main, q) => lock'[q] = lock[q]
               /\ Holds(Main, q)' => Holds(Main, q)
               /\ lock'[q].by = None => lock'[q].n = 0
               /\ lock'[q].by # Motion
    <3>1. CASE q = p
      BY <3>1, <2>4, <1>a, <1>b DEF Holds, Unlocked
    <3>2. CASE q # p
      <4>1. lock'[q] = lock[q]
        BY <3>2, <1>b
      <4> QED
        BY <3>2, <4>1, <2>2 DEF Holds
    <3> QED
      BY <3>1, <3>2
  <2> QED
    BY <2>1, <2>2, <2>5, <1>1, <1>2, <1>3, <1>4, MotionCalm
<1>6. TodoInv'
  <2>1. \A q \in todo : \E m \in Motions : Running(q, m)
    BY <1>0, <1>1 DEF TodoInv
  <2>2. p \in todo
    BY <1>0, <1>1 DEF TodoInv
  <2>3. \A q \in todo' : q \in Slots /\ \E m \in Motions : Running(q, m)'
    BY <2>1, <1>1, <1>5, <1>b
  <2> QED
    BY <2>2, <2>3, <1>1 DEF TodoInv
<1> QED
  BY <1>2, <1>5, <1>6 DEF IInv, Places

\* A step of Motion that touches no lock
LEMMA MotionMoves ==
  ASSUME IInv, UNCHANGED <<free, region, lastAccessor, lock, inbox, mc_id, started, known, calls>>,
         pc[Motion].at \in {"idle", "outputs"}, pc'[Motion].at \in {"idle", "outputs", "receiving"},
         pc'[Main] = pc[Main], pc' = [b \in Procs |-> pc'[b]],
         MotionPlace', At(Motion, "receiving", None)' => inbox[Motion] # <<>>,
         MMlock' = IF pc'[Motion].at \in Engaged THEN Motion ELSE None,
         todo' \subseteq todo, pc'[Motion].at = "outputs" => pc[Motion].at = "outputs"
  PROVE  IInv'
<1>0. TypeOK /\ Parts /\ PcInv /\ MainInv /\ LockInv /\ TodoInv /\ SlotsInv
  BY DEF IInv, Places, Parts
<1>1. TypeOK'
  <2>1. MMlock' \in Procs \cup {None} /\ todo' \subseteq Slots
    BY <1>0, MessagesDiffer DEF TypeOK
  <2> QED
    BY <2>1, <1>0 DEF TypeOK
<1>2. /\ Parts' /\ PcInv' /\ MainInv' /\ LockInv'
      /\ \A q \in Slots : \A m \in Motions : Running(q, m) => Running(q, m)'
  <2>1. ~MotionBusy /\ ~MotionBusy'
    BY DEF MotionBusy
  <2>2. \A q \in Slots : /\ lock[q].by = None => lock[q].n = 0
                         /\ lock[q].by # Motion /\ ~At(Motion, "updating", q)'
    BY <1>0, AtIs DEF LockInv
  <2> QED
    BY <2>1, <2>2, <1>1, MotionCalm DEF Holds
<1>3. TodoInv'
  <2>1. ASSUME pc'[Motion].at = "outputs" PROVE \A q \in todo' : \E m \in Motions : Running(q, m)'
    BY <2>1, <1>0, <1>2 DEF TodoInv, TypeOK
  <2> QED
    BY <2>1 DEF TodoInv
<1> QED
  BY <1>1, <1>2, <1>3 DEF IInv, Places

\* or passes over one whose lock Main has,
LEMMA VainInv ==
  ASSUME IInv, NEW p \in Slots, TryInVain(p)
  PROVE  IInv'
<1>0. PcInv
  BY DEF IInv, Places
<1>1. /\ UNCHANGED <<free, region, lastAccessor, lock, MMlock, inbox, mc_id, started, known, calls, pc>>
      /\ todo' = todo \ {p} /\ pc[Motion].at = "outputs"
  BY AtIs DEF TryInVain, table
<1>2. /\ pc' = [b \in Procs |-> pc'[b]] /\ MotionPlace'
      /\ MMlock' = IF pc'[Motion].at \in Engaged THEN Motion ELSE None
      /\ At(Motion, "receiving", None)' => inbox[Motion] # <<>>
  BY <1>0, <1>1, MessagesDiffer DEF PcInv, MotionPlace, At, IsIdle
<1> QED
  BY <1>1, <1>2, MotionMoves

\* and ends when none is left.
LEMMA EndOutputsInv ==
  ASSUME IInv, EndOutputs
  PROVE  IInv'
<1>0. PcInv /\ Motion \in Procs /\ Main \in Procs /\ Main # Motion
  BY MessagesDiffer DEF IInv, Places
<1>1. /\ UNCHANGED <<free, region, lastAccessor, lock, inbox, mc_id, started, known, calls, todo>>
      /\ pc[Motion].at = "outputs" /\ MMlock' = None
      /\ pc'[Motion] = Idle /\ pc'[Main] = pc[Main] /\ pc' = [b \in Procs |-> pc'[b]]
  BY <1>0, AtIs, BecomeIs DEF EndOutputs, table
<1>2. /\ MotionPlace' /\ MMlock' = IF pc'[Motion].at \in Engaged THEN Motion ELSE None
      /\ ~At(Motion, "receiving", None)' /\ pc'[Motion].at = "idle"
  BY <1>1 DEF MotionPlace, At, IsIdle, Idle, Engaged
<1> QED
  BY <1>1, <1>2, MotionMoves

\* A message begins to be read (receivedMsg()).
LEMMA ReceivedInv ==
  ASSUME IInv, NEW a \in Procs, ReceivedMsg(a)
  PROVE  IInv'
<1>0. TypeOK /\ Parts /\ PcInv /\ MainInv /\ LockInv /\ TodoInv
  BY DEF IInv, Places
<1>a. Main # Motion /\ Main # None /\ Procs = {Main, Motion}
  BY MessagesDiffer
<1>1. /\ UNCHANGED <<free, region, lastAccessor, lock, MMlock, inbox, mc_id, started, known, calls, todo>>
      /\ pc[a] = Idle /\ inbox[a] # <<>> /\ (a = Main => calls = None)
      /\ pc'[a] = [at |-> "receiving", arg |-> None]
      /\ \A b \in Procs : b # a => pc'[b] = pc[b]
      /\ pc' = [b \in Procs |-> pc'[b]]
  BY <1>0, GotoIs DEF ReceivedMsg, IsIdle, table
<1>2. CASE a = Motion
  <2>1. /\ MotionPlace' /\ MMlock' = IF pc'[Motion].at \in Engaged THEN Motion ELSE None
        /\ pc[Motion].at = "idle" /\ pc'[Motion].at = "receiving"
    BY <1>0, <1>1, <1>2 DEF MotionPlace, At, Idle, Engaged, PcInv
  <2> QED
    BY <2>1, <1>1, <1>2, <1>a, MotionMoves
<1>3. CASE a = Main
  <2>0. pc'[Motion] = pc[Motion]
    BY <1>1, <1>3, <1>a
  <2>1. TypeOK'
    BY <1>0, <1>1 DEF TypeOK
  <2>2. /\ Parts'
        /\ \A q \in Slots : \A m \in Motions : (Alive(q, m) => Alive(q, m)') /\ (Running(q, m) => Running(q, m)')
    BY <1>0, <1>1, <2>0, <2>1, CalmStep, TaskStays
  <2>3. LockInv'
    BY <1>0, <1>1, <1>3, <2>0, <2>2, LocksStay DEF At
  <2>4. MainInv'
    <3>1. pc'[Main].at = "receiving"
      BY <1>1, <1>3
    <3>2. \A x : ~At(Main, "adding", x)' /\ ~At(Main, "removing", x)'
      BY <3>1, AtIs
    <3> QED
      BY <3>2 DEF MainInv
  <2>5. PcInv'
    <3>1. MainPlace'
      BY <1>1, <1>3 DEF MainPlace, At
    <3>2. MotionPlace'
      BY <1>0, <2>0 DEF PcInv, MotionPlace, At, IsIdle
    <3>3. \A b \in Procs : At(b, "receiving", None)' => inbox'[b] # <<>>
      BY <1>0, <1>1, <1>3, <2>0, <1>a DEF PcInv, At
    <3> QED
      BY <3>1, <3>2, <3>3, <1>0, <1>1, <2>0 DEF PcInv
  <2>6. TodoInv'
    BY <1>0, <1>1, <2>0, <2>2, MotionWaits
  <2> QED
    BY <2>1, <2>2, <2>3, <2>4, <2>5, <2>6 DEF IInv, Places
<1> QED
  BY <1>2, <1>3, <1>a
-----------------------------------------------------------------------------
(* The steps in which the life of a slot goes on *)

\* A sequence that holds something is not empty, and what it does not hold is in order.
LEMMA FilledIs ==
  ASSUME NEW S, NEW s \in Seq(S)
  PROVE  /\ \A x : x \in Range(s) => s # <<>>
         /\ \A y, z : y \notin Range(s) \/ z \notin Range(s) => Before(s, y, z)
<1>1. DOMAIN s = 1 .. Len(s) /\ \A x : x \in Range(s) <=> \E i \in 1 .. Len(s) : s[i] = x
  BY RangeIs
<1>2. s = <<>> => Len(s) = 0
  BY EmptySeq
<1>3. \A x : x \in Range(s) => s # <<>>
  BY <1>1, <1>2
<1>4. \A y, z : y \notin Range(s) \/ z \notin Range(s) => Before(s, y, z)
  BY <1>1 DEF Before
<1> QED
  BY <1>3, <1>4

\* A call that is refused, or has ended
LEMMA MainRests ==
  ASSUME IInv, Become(Main),
         UNCHANGED <<free, region, lastAccessor, lock, MMlock, inbox, mc_id, started, known, calls, todo>>
  PROVE  IInv'
<1>0. TypeOK /\ Parts /\ PcInv /\ MainInv /\ LockInv /\ TodoInv
  BY DEF IInv, Places
<1>1. pc'[Main] = Idle /\ pc'[Motion] = pc[Motion] /\ pc' = [b \in Procs |-> pc'[b]]
  BY <1>0, BecomeIs, MessagesDiffer
<1>2. TypeOK'
  BY <1>0 DEF TypeOK
<1>3. /\ Parts'
      /\ \A q \in Slots : \A m \in Motions : (Alive(q, m) => Alive(q, m)') /\ (Running(q, m) => Running(q, m)')
  BY <1>0, <1>1, <1>2, CalmStep, TaskStays
<1>4. LockInv'
  BY <1>0, <1>1, <1>3, LocksStay DEF At, Idle
<1>5. MainInv'
  BY <1>1 DEF MainInv, At, Idle
<1>6. PcInv'
  BY <1>0, <1>1 DEF PcInv, MainPlace, MotionPlace, At, IsIdle, Idle, Procs
<1>7. TodoInv'
  BY <1>0, <1>1, <1>3, MotionWaits
<1> QED
  BY <1>2, <1>3, <1>4, <1>5, <1>6, <1>7 DEF IInv, Places

\* Main takes the first of the free slots for a fresh motion.
LEMMA AddInv ==
  ASSUME IInv, NoDrop, ReusedLate, NEW m \in Motions, DoAddMotion(m)
  PROVE  IInv'
<1>0. /\ TypeOK /\ SlotsInv /\ MotionsInv /\ RegionsInv /\ InboxInv
      /\ PcInv /\ MainInv /\ LockInv /\ TodoInv
  BY DEF IInv, Places, Parts
<1>a. /\ Main \in Procs /\ Motion \in Procs /\ Main # Motion /\ Main # Dead /\ None \notin Motions
      /\ None \notin Slots /\ None # Main /\ Procs = {Main, Motion} /\ AddMotion(m) \in Messages
  BY MessagesDiffer
<1>1. /\ UNCHANGED <<MMlock, started, calls, todo>> /\ Become(Main) /\ At(Main, "adding", m)
      /\ pc'[Main] = Idle /\ pc'[Motion] = pc[Motion] /\ pc' = [b \in Procs |-> pc'[b]]
  BY <1>0, <1>a, BecomeIs DEF DoAddMotion
<1>2. CASE UNCHANGED <<table, inbox, mc_id, known>>
  BY <1>1, <1>2, MainRests DEF table
<1>3. CASE ~UNCHANGED <<table, inbox, mc_id, known>>
  <2>0. PICK p : p = Head(free)
    OBVIOUS
  <2>1. /\ free # <<>> /\ free' = Tail(free)
        /\ mc_id' = [mc_id EXCEPT ![m] = p]
        /\ region' = [region EXCEPT ![Main][p] = m]
        /\ lastAccessor' = [lastAccessor EXCEPT ![p] = Main]
        /\ known' = [known EXCEPT ![p] = m]
        /\ Send(AddMotion(m)) /\ lock' = lock
    BY <1>3, <2>0 DEF DoAddMotion
  <2>2. /\ free' \in Seq(Slots) /\ Distinct(free') /\ p \in Slots /\ p \in Range(free)
        /\ \A q : q \in Range(free') <=> q \in Range(free) /\ q # p
    BY <2>0, <2>1, <1>0, TailIs DEF TypeOK, InboxInv
  <2>3. /\ IsFresh(m) /\ HoldsNothing(Main)
        /\ \A a \in Procs : ~Says(a, DeleteMotion(p))
    BY <1>0, <1>1, <2>0, <2>1 DEF MainInv, ReusedLate
  <2>4. /\ \A q \in Slots : ~Taken(q, m)
        /\ mc_id[m] = None /\ m \notin started
        /\ \A a \in Procs : ~Says(a, AddMotion(m)) /\ \A q \in Slots : region[a][q] # m
    BY <1>0, <2>3, FreshIs
  <2>5. /\ inbox' \in [Procs -> Seq(Messages)]
        /\ \A a \in Procs : Distinct(inbox[a])'
        /\ \A a \in Procs : \A x : Says(a, x)' <=> Says(a, x) \/ x = AddMotion(m)
        /\ \A y, z : Before(inbox[Motion], y, z) /\ y # z /\ (AddMotion(m) = y => ~Says(Motion, z))
             => Before(inbox'[Motion], y, z)
    BY <1>0, <1>a, <2>1, <2>4, SendIs
  <2>6. /\ \A a \in Procs : \A q : Says(a, DeleteMotion(q))' <=> Says(a, DeleteMotion(q))
        /\ \A a \in Procs : \A n : n # m => (Says(a, AddMotion(n))' <=> Says(a, AddMotion(n)))
        /\ \A a \in Procs : Says(a, AddMotion(m))'
    BY <2>5, MessagesDiffer
  <2>7. FreeSlot(p)
    BY <2>2, <1>0 DEF SlotsInv
  <2>a. /\ mc_id \in [Motions -> Slots \cup {None}] /\ region \in [Procs -> [Slots -> Motions \cup {None}]]
        /\ lastAccessor \in [Slots -> Procs \cup {Dead}] /\ known \in [Slots -> Motions \cup {None}]
    BY <1>0 DEF TypeOK
  <2>b. /\ mc_id'[m] = p /\ \A n \in Motions : n # m => mc_id'[n] = mc_id[n]
        /\ region'[Main][p] = m /\ region'[Motion] = region[Motion]
        /\ \A q \in Slots : q # p => region'[Main][q] = region[Main][q]
        /\ lastAccessor'[p] = Main /\ \A q \in Slots : q # p => lastAccessor'[q] = lastAccessor[q]
        /\ known'[p] = m /\ \A q \in Slots : q # p => known'[q] = known[q]
    BY <2>1, <2>2, <2>a, <1>a
  <2>8. TypeOK'
    <3>1. /\ mc_id' \in [Motions -> Slots \cup {None}]
          /\ lastAccessor' \in [Slots -> Procs \cup {Dead}] /\ known' \in [Slots -> Motions \cup {None}]
      BY <2>1, <2>2, <2>a, <1>a
    <3>2. region' \in [Procs -> [Slots -> Motions \cup {None}]]
      BY <2>1, <2>2, <2>a, <1>a
    <3> QED
      BY <3>1, <3>2, <2>1, <2>2, <2>5, <1>0, <1>1 DEF TypeOK, Messages
  <2>c. \A n \in Motions : mc_id[n] # p
    <3> SUFFICES ASSUME NEW n \in Motions, mc_id[n] = p PROVE FALSE
      OBVIOUS
    <3>1. Named(p, n)
      BY <2>2, <1>0 DEF MotionsInv
    <3> QED
      BY <3>1, <2>3, <2>7, <1>a DEF Named, Added, Running, Revoked, Alive, FreeSlot
  <2>9. /\ SlotsInv' /\ MotionsInv' /\ RegionsInv'
        /\ \A q \in Slots : \A n \in Motions :
             q # p => (Alive(q, n) => Alive(q, n)') /\ (Running(q, n) => Running(q, n)')
    <3>1. ASSUME NEW q \in Slots, q # p PROVE Same(q)
      <4>1. \A a \in Procs : region'[a][q] = region[a][q]
        BY <3>1, <2>b, <1>a
      <4>2. Task(q)' = Task(q)
        BY <1>1, TaskStays
      <4> QED
        BY <3>1, <4>1, <4>2, <2>1, <2>2, <2>6, <2>b DEF Same
    <3>2. \A n \in Motions : n # m => SameMotion(n) /\ mc_id[n] # p
      BY <2>6, <2>b, <2>c, <1>1, <1>a DEF SameMotion
    <3>3. Added(p, m)'
      <4>1. Task(p)' = "none"
        BY <2>7, <1>1, TaskStays DEF FreeSlot
      <4>2. Alive(p, m)'
        BY <2>3, <2>6, <2>b, <1>a DEF Alive
      <4> QED
        BY <4>1, <4>2, <2>4, <2>6, <2>7, <2>b, <1>1, <1>a DEF Added, FreeSlot
    <3>4. \A a \in Procs : region'[a][p] \in {None, m}
      BY <2>7, <2>b, <1>a DEF FreeSlot
    <3> QED
      BY <3>1, <3>2, <3>3, <3>4, <2>2, <2>4, <2>8, <2>b, <1>0, <1>a, SlotStep DEF Taken, Named
  <2>10. InboxInv'
    <3>1. ASSUME NEW n \in Motions, NEW q \in Slots, mc_id'[n] = q
          PROVE  Before(inbox'[Motion], AddMotion(n), DeleteMotion(q))
      <4>1. CASE n # m
        BY <4>1, <3>1, <2>5, <2>b, <1>0, MessagesDiffer DEF InboxInv
      <4>2. CASE n = m
        <5>1. Before(inbox[Motion], AddMotion(n), DeleteMotion(q))
          BY <4>2, <2>4, <1>0, <1>a, NoneIsNotTold, FilledIs DEF Says
        <5>2. ~Says(Motion, DeleteMotion(q))
          BY <4>2, <3>1, <2>3, <2>b, <1>a
        <5> QED
          BY <5>1, <5>2, <2>5, MessagesDiffer
      <4> QED
        BY <4>1, <4>2
    <3> QED
      BY <3>1, <2>2, <2>5 DEF InboxInv
  <2>11. LockInv'
    BY <2>1, <2>3, <1>0, <1>1, LocksStay DEF At, HoldsNothing
  <2>12. MainInv'
    BY <1>1 DEF MainInv, At, Idle
  <2>13. PcInv'
    <3>1. \A b \in Procs : inbox'[b] # <<>>
      BY <2>5, <2>6, FilledIs DEF Says
    <3>2. MainPlace' /\ MotionPlace'
      BY <1>0, <1>1 DEF PcInv, MainPlace, MotionPlace, At, IsIdle
    <3> QED
      BY <3>1, <3>2, <1>0, <1>1 DEF PcInv
  <2>14. TodoInv'
    <3>1. \A n \in Motions : ~Running(p, n)
      BY <2>7, <1>a DEF Running, FreeSlot
    <3> QED
      BY <3>1, <2>9, <1>0, <1>1, MotionWaits
  <2> QED
    BY <2>8, <2>9, <2>10, <2>11, <2>12, <2>13, <2>14 DEF IInv, Parts, Places
<1> QED
  BY <1>2, <1>3

\* What one may know of Motion while the table is not locked
LEMMA NotLocked ==
  ASSUME PcInv, MMlock = None
  PROVE  pc[Motion].at \notin Engaged /\ ~MotionBusy /\ \A q : Task(q) = "none"
<1>1. pc[Motion].at \notin Engaged
  BY MessagesDiffer DEF PcInv
<1> QED
  BY <1>1 DEF Engaged, MotionBusy, Task

\* Main removes a motion it has heard of: it is not told of it in Motion yet.
LEMMA RemoveInv ==
  ASSUME IInv, NoDrop, NEW p \in Slots, RemoveMotion(p)
  PROVE  IInv'
<1>0. /\ TypeOK /\ SlotsInv /\ MotionsInv /\ RegionsInv /\ InboxInv
      /\ PcInv /\ MainInv /\ LockInv /\ TodoInv
  BY DEF IInv, Places, Parts
<1>a. /\ Main \in Procs /\ Motion \in Procs /\ Main # Motion /\ Main # Dead /\ None \notin Motions
      /\ None \notin Slots /\ None # Main /\ Procs = {Main, Motion} /\ DeleteMotion(p) \in Messages
  BY MessagesDiffer
<1>1. /\ UNCHANGED <<MMlock, mc_id, started, calls, todo>> /\ Become(Main) /\ At(Main, "removing", p)
      /\ pc'[Main] = Idle /\ pc'[Motion] = pc[Motion] /\ pc' = [b \in Procs |-> pc'[b]]
      /\ MMlock = None /\ ~Holds(Motion, p)
  BY <1>0, <1>a, BecomeIs DEF RemoveMotion
<1>2. CASE ~IsAttached(Main, p)
  <2>1. UNCHANGED <<table, inbox, known>>
    BY <1>2 DEF RemoveMotion
  <2> QED
    BY <2>1, <1>1, MainRests DEF table
<1>3. CASE IsAttached(Main, p)
  <2>1. /\ lastAccessor' = [lastAccessor EXCEPT ![p] = Dead]
        /\ region' = [region EXCEPT ![Main][p] = None]
        /\ Send(DeleteMotion(p)) /\ free' = free /\ lock' = lock
        /\ known' = [known EXCEPT ![p] = None]
    BY <1>3 DEF RemoveMotion, Removed
  <2>2. HoldsNothing(Main) /\ known[p] # None /\ ~Says(Main, AddMotion(known[p]))
    BY <1>0, <1>1 DEF MainInv
  <2>3. PICK m \in Motions : Alive(p, m) /\ (Added(p, m) \/ Running(p, m))
    BY <1>0, <1>1, <1>3, NotDead DEF IsAttached
  <2>4. /\ mc_id[m] = p /\ known[p] = m /\ region[Main][p] = m /\ ~Says(Main, AddMotion(m))
        /\ \A a \in Procs : ~Says(a, DeleteMotion(p))
    <3>1. mc_id[m] = p /\ known[p] = m /\ region[Main][p] = m
      BY <2>3 DEF Alive
    <3>2. ~Says(Main, AddMotion(m))
      BY <3>1, <2>2
    <3> QED
      BY <3>1, <3>2, <2>3 DEF Alive
  <2>5. /\ inbox' \in [Procs -> Seq(Messages)]
        /\ \A a \in Procs : Distinct(inbox[a])'
        /\ \A a \in Procs : \A x : Says(a, x)' <=> Says(a, x) \/ x = DeleteMotion(p)
        /\ \A y, z : Before(inbox[Motion], y, z) /\ y # z /\ (DeleteMotion(p) = y => ~Says(Motion, z))
             => Before(inbox'[Motion], y, z)
    BY <1>0, <1>a, <2>1, <2>4, SendIs
  <2>6. /\ \A a \in Procs : \A q : q # p => (Says(a, DeleteMotion(q))' <=> Says(a, DeleteMotion(q)))
        /\ \A a \in Procs : \A n : Says(a, AddMotion(n))' <=> Says(a, AddMotion(n))
        /\ \A a \in Procs : Says(a, DeleteMotion(p))'
    BY <2>5, MessagesDiffer
  <2>a. /\ region \in [Procs -> [Slots -> Motions \cup {None}]]
        /\ lastAccessor \in [Slots -> Procs \cup {Dead}] /\ known \in [Slots -> Motions \cup {None}]
    BY <1>0 DEF TypeOK
  <2>b. /\ region'[Main][p] = None /\ region'[Motion] = region[Motion]
        /\ \A q \in Slots : q # p => region'[Main][q] = region[Main][q]
        /\ lastAccessor'[p] = Dead /\ \A q \in Slots : q # p => lastAccessor'[q] = lastAccessor[q]
        /\ known'[p] = None /\ \A q \in Slots : q # p => known'[q] = known[q]
    BY <2>1, <2>a, <1>a
  <2>7. Task(p) = "none" /\ \A q : Task(q)' = Task(q)
    BY <1>0, <1>1, NotLocked, TaskStays
  <2>8. TypeOK'
    <3>1. lastAccessor' \in [Slots -> Procs \cup {Dead}] /\ known' \in [Slots -> Motions \cup {None}]
      BY <2>1, <2>a, <1>a
    <3>2. region' \in [Procs -> [Slots -> Motions \cup {None}]]
      BY <2>1, <2>a, <1>a
    <3> QED
      BY <3>1, <3>2, <2>1, <2>5, <1>0, <1>1 DEF TypeOK, Messages
  <2>9. /\ SlotsInv' /\ MotionsInv' /\ RegionsInv'
        /\ \A q \in Slots : \A n \in Motions :
             q # p => (Alive(q, n) => Alive(q, n)') /\ (Running(q, n) => Running(q, n)')
    <3>1. ASSUME NEW q \in Slots, q # p PROVE Same(q)
      <4>1. \A a \in Procs : region'[a][q] = region[a][q]
        BY <3>1, <2>b, <1>a
      <4> QED
        BY <3>1, <4>1, <2>1, <2>6, <2>7, <2>b DEF Same
    <3>2. Taken(p, m)
      BY <2>3 DEF Taken, Named
    <3>3. \A n \in Motions : n # m => SameMotion(n) /\ mc_id[n] # p
      BY <3>2, <2>6, <1>0, <1>1, <1>a, NameIs DEF SameMotion
    <3>4. \A q \in Slots : q # p => ~Taken(q, m)
      BY <3>2, <1>0, OneSlot
    <3>5. Revoked(p, m)'
      <4>1. lock'[p] = Unlocked
        <5>1. lock[p] \in [by : Procs \cup {None}, n : 0 .. MaxCalls]
          BY <1>0 DEF TypeOK
        <5>2. lock[p].by = None
          BY <5>1, <1>1, <1>a, <2>2 DEF HoldsNothing, Holds
        <5> QED
          BY <5>1, <5>2, <2>1, <1>0 DEF LockInv, Unlocked
      <4>a. p \notin Range(free')
        BY <2>1, <2>4, <1>0, <1>a DEF SlotsInv, FreeSlot
      <4>2. CASE Added(p, m)
        BY <4>1, <4>2, <4>a, <2>4, <2>6, <2>7, <2>b, <1>1, <1>a DEF Added, Revoked
      <4>3. CASE Running(p, m)
        BY <4>1, <4>3, <4>a, <2>4, <2>6, <2>7, <2>b, <1>1, <1>a DEF Running, Revoked
      <4> QED
        BY <4>2, <4>3, <2>3
    <3>6. \A a \in Procs : region'[a][p] \in {None, m}
      <4>1. region[Motion][p] \in {None, m}
        BY <2>3 DEF Added, Running
      <4> QED
        BY <4>1, <2>b, <1>a
    <3>7. p \notin Range(free')
      BY <2>1, <2>3, <1>0, <1>a DEF SlotsInv, FreeSlot, Alive
    <3> QED
      BY <3>1, <3>3, <3>4, <3>5, <3>6, <3>7, <2>4, <2>8, <1>0, <1>1, <1>a, SlotStep DEF Taken, Named
  <2>10. InboxInv'
    <3>1. \A x : AddMotion(x) # DeleteMotion(p) /\ \A y : AddMotion(x) # DeleteMotion(y)
      BY MessagesDiffer
    <3> QED
      BY <3>1, <2>1, <2>5, <1>0, <1>1 DEF InboxInv
  <2>11. LockInv'
    BY <2>1, <2>2, <1>0, <1>1, LocksStay DEF At, HoldsNothing
  <2>12. MainInv'
    BY <1>1 DEF MainInv, At, Idle
  <2>13. PcInv'
    <3>1. \A b \in Procs : inbox'[b] # <<>>
      BY <2>5, <2>6, FilledIs DEF Says
    <3>2. MainPlace' /\ MotionPlace'
      BY <1>0, <1>1 DEF PcInv, MainPlace, MotionPlace, At, IsIdle
    <3> QED
      BY <3>1, <3>2, <1>0, <1>1 DEF PcInv
  <2>14. TodoInv'
    <3>1. pc'[Motion].at \notin Engaged
      BY <1>0, <1>1, NotLocked
    <3> QED
      BY <3>1 DEF TodoInv, Engaged
  <2> QED
    BY <2>8, <2>9, <2>10, <2>11, <2>12, <2>13, <2>14 DEF IInv, Parts, Places
<1> QED
  BY <1>2, <1>3

\* Motion removes a motion that is done: Main is not told of it yet.
LEMMA PruneInv ==
  ASSUME IInv, NoDrop, NEW p \in Slots, RemovePruned(p)
  PROVE  IInv'
<1>0. /\ TypeOK /\ SlotsInv /\ MotionsInv /\ RegionsInv /\ InboxInv
      /\ PcInv /\ MainInv /\ LockInv /\ TodoInv
  BY DEF IInv, Places, Parts
<1>a. /\ Main \in Procs /\ Motion \in Procs /\ Main # Motion /\ Motion # Dead /\ None \notin Motions
      /\ None \notin Slots /\ None # Main /\ Procs = {Main, Motion} /\ DeleteMotion(p) \in Messages
  BY MessagesDiffer
<1>1. /\ UNCHANGED <<MMlock, known, calls>> /\ pc[Motion] = [at |-> "pruning", arg |-> p]
      /\ lock[p] = Unlocked /\ todo' = todo \ {p}
      /\ pc'[Motion] = [at |-> "outputs", arg |-> None] /\ pc'[Main] = pc[Main]
      /\ pc' = [b \in Procs |-> pc'[b]]
  BY <1>0, <1>a, GotoIs DEF RemovePruned, At
<1>2. PICK m \in Motions : Running(p, m)
  BY <1>0, <1>1 DEF TodoInv
<1>3. /\ mc_id[m] = p /\ known[p] = m /\ region[Main][p] = m /\ region[Motion][p] = m
      /\ \A a \in Procs : ~Says(a, DeleteMotion(p))
      /\ ~Says(Motion, AddMotion(m)) /\ Taken(p, m)
  BY <1>2 DEF Running, Alive, Taken, Named
<1>4. /\ lastAccessor' = [lastAccessor EXCEPT ![p] = Dead]
      /\ region' = [region EXCEPT ![Motion][p] = None]
      /\ Send(DeleteMotion(p)) /\ free' = free /\ lock' = lock
      /\ started' = started \ {m} /\ mc_id' = [mc_id EXCEPT ![m] = None]
  BY <1>3 DEF RemovePruned, Removed, DoStop
<1>5. /\ inbox' \in [Procs -> Seq(Messages)]
      /\ \A a \in Procs : Distinct(inbox[a])'
      /\ \A a \in Procs : \A x : Says(a, x)' <=> Says(a, x) \/ x = DeleteMotion(p)
      /\ \A y, z : Before(inbox[Motion], y, z) /\ y # z /\ (DeleteMotion(p) = y => ~Says(Motion, z))
           => Before(inbox'[Motion], y, z)
  BY <1>0, <1>a, <1>3, <1>4, SendIs
<1>6. /\ \A a \in Procs : \A q : q # p => (Says(a, DeleteMotion(q))' <=> Says(a, DeleteMotion(q)))
      /\ \A a \in Procs : \A n : Says(a, AddMotion(n))' <=> Says(a, AddMotion(n))
      /\ \A a \in Procs : Says(a, DeleteMotion(p))'
  BY <1>5, MessagesDiffer
<1>b. /\ region \in [Procs -> [Slots -> Motions \cup {None}]]
      /\ lastAccessor \in [Slots -> Procs \cup {Dead}] /\ mc_id \in [Motions -> Slots \cup {None}]
  BY <1>0 DEF TypeOK
<1>c. /\ region'[Motion][p] = None /\ region'[Main] = region[Main]
      /\ \A q \in Slots : q # p => region'[Motion][q] = region[Motion][q]
      /\ lastAccessor'[p] = Dead /\ \A q \in Slots : q # p => lastAccessor'[q] = lastAccessor[q]
      /\ mc_id'[m] = None /\ \A n \in Motions : n # m => mc_id'[n] = mc_id[n]
  BY <1>4, <1>a, <1>b
<1>7. \A q : Task(q) = "none" /\ Task(q)' = "none"
  BY <1>1 DEF Task
<1>8. TypeOK'
  <2>1. lastAccessor' \in [Slots -> Procs \cup {Dead}] /\ mc_id' \in [Motions -> Slots \cup {None}]
    BY <1>4, <1>b, <1>a
  <2>2. region' \in [Procs -> [Slots -> Motions \cup {None}]]
    BY <1>4, <1>b, <1>a
  <2>3. started' \subseteq Motions /\ todo' \subseteq Slots
    BY <1>0, <1>1, <1>4 DEF TypeOK
  <2> QED
    BY <2>1, <2>2, <2>3, <1>4, <1>5, <1>0, <1>1 DEF TypeOK, Messages
<1>9. /\ SlotsInv' /\ MotionsInv' /\ RegionsInv'
      /\ \A q \in Slots : \A n \in Motions :
           q # p => (Alive(q, n) => Alive(q, n)') /\ (Running(q, n) => Running(q, n)')
  <2>1. ASSUME NEW q \in Slots, q # p PROVE Same(q)
    <3>1. \A a \in Procs : region'[a][q] = region[a][q]
      BY <2>1, <1>c, <1>a
    <3> QED
      BY <2>1, <3>1, <1>1, <1>4, <1>6, <1>7, <1>c DEF Same
  <2>2. \A n \in Motions : n # m => SameMotion(n) /\ mc_id[n] # p
    BY <1>0, <1>3, <1>4, <1>6, <1>c, <1>a, NameIs DEF SameMotion
  <2>3. \A q \in Slots : q # p => ~Taken(q, m)
    BY <1>0, <1>3, OneSlot
  <2>4. Pruned(p, m)'
    BY <1>1, <1>3, <1>4, <1>6, <1>7, <1>c, <1>a DEF Pruned
  <2>5. \A a \in Procs : region'[a][p] \in {None, m}
    BY <1>3, <1>c, <1>a
  <2>6. p \notin Range(free')
    BY <1>3, <1>4, <1>0, <1>a DEF SlotsInv, FreeSlot
  <2>7. ~Says(Motion, AddMotion(m))' /\ m \notin started'
    BY <1>3, <1>4, <1>6, <1>a
  <2> QED
    BY <2>1, <2>2, <2>3, <2>4, <2>5, <2>6, <2>7, <1>c, <1>8, <1>0, <1>a, SlotStep DEF Taken
<1>10. InboxInv'
  <2>1. \A x : AddMotion(x) # DeleteMotion(p) /\ \A y : AddMotion(x) # DeleteMotion(y)
    BY MessagesDiffer
  <2>2. \A n \in Motions : \A q \in Slots : mc_id'[n] = q => mc_id[n] = q
    BY <1>c, <1>a
  <2> QED
    BY <2>1, <2>2, <1>4, <1>5, <1>0 DEF InboxInv
<1>11. LockInv'
  <2>1. \A q \in Slots : /\ ~At(Motion, "updating", q) /\ ~At(Motion, "stopped", q)
                         /\ ~At(Motion, "updating", q)' /\ ~At(Motion, "stopped", q)'
    BY <1>1, AtIs
  <2>2. \A q \in Slots : Holds(Main, q) => q # p
    BY <1>1, <1>a DEF Holds, Unlocked
  <2> QED
    BY <2>1, <2>2, <1>0, <1>1, <1>4, <1>9, LocksStay
<1>12. MainInv'
  <2>1. \A a \in Procs : \A q \in Slots : region'[a][q] # None => region'[a][q] = region[a][q]
    BY <1>c, <1>a
  <2> QED
    BY <2>1, <1>0, <1>1, <1>4, <1>6, <1>8, MainWaits DEF Holds
<1>13. PcInv'
  <2>1. \A b \in Procs : inbox'[b] # <<>>
    BY <1>5, <1>6, FilledIs DEF Says
  <2>2. MainPlace'
    BY <1>0, <1>1 DEF PcInv, MainPlace, At, IsIdle, Calling
  <2>3. MotionPlace' /\ MMlock' = IF pc'[Motion].at \in Engaged THEN Motion ELSE None
    BY <1>0, <1>1 DEF MotionPlace, At, PcInv, Engaged
  <2> QED
    BY <2>1, <2>2, <2>3, <1>1 DEF PcInv
<1>14. TodoInv'
  <2>1. \A q \in todo' : \E n \in Motions : Running(q, n)'
    BY <1>0, <1>1, <1>9 DEF TodoInv, TypeOK
  <2> QED
    BY <2>1, <1>1 DEF TodoInv
<1> QED
  BY <1>8, <1>9, <1>10, <1>11, <1>12, <1>13, <1>14 DEF IInv, Parts, Places
-----------------------------------------------------------------------------
(* The messages *)

\* A message that was read is gone from the inbox, and was the first in it.
LEMMA ReceivingIs ==
  ASSUME IInv, NEW a \in Procs, NEW msg, Processes(a, msg)
  PROVE  /\ inbox' \in [Procs -> Seq(Messages)] /\ Says(a, msg)
         /\ \A b \in Procs : Distinct(inbox[b])'
         /\ \A b \in Procs : \A x : Says(b, x)' <=> Says(b, x) /\ (b = a => x # msg)
         /\ \A y, z : Before(inbox[Motion], y, z) => Before(inbox'[Motion], y, z)
         /\ a = Motion => \A y : Before(inbox[Motion], y, msg) => ~Says(Motion, y)
         /\ \A b \in Procs : b # a => inbox'[b] = inbox[b]
         /\ pc[a].at = "receiving" /\ MMlock = None /\ pc[Motion].at \notin Engaged
         /\ \A q : Task(q) = "none"
         /\ a = Main => calls = None /\ HoldsNothing(Main)
<1>0. TypeOK /\ InboxInv /\ PcInv /\ LockInv
  BY DEF IInv, Places, Parts
<1>1. /\ At(a, "receiving", None) /\ MMlock = None /\ inbox' = [inbox EXCEPT ![a] = Tail(@)]
      /\ inbox[a] # <<>>
  BY <1>0 DEF Processes, PcInv
<1>2. \A b \in Procs : b # a => inbox'[b] = inbox[b]
  BY <1>0, <1>1 DEF TypeOK
<1>3. pc[a].at = "receiving"
  BY <1>1, AtIs
<1>4. ASSUME a = Main PROVE calls = None /\ HoldsNothing(Main)
  <2>1. calls = None
    BY <1>0, <1>3, <1>4 DEF PcInv, MainPlace, IsIdle, Idle, At
  <2> QED
    BY <2>1, <1>0 DEF LockInv, HoldsNothing, Holds
<1> QED
  BY <1>0, <1>1, <1>2, <1>3, <1>4, ProcessesIs, NotLocked

\* A message that changes nothing
LEMMA EchoInv ==
  ASSUME IInv, NEW a \in Procs, NEW msg, Processes(a, msg), Become(a),
         UNCHANGED <<free, region, lastAccessor, lock, MMlock, mc_id, started, known, calls, todo>>,
         \A q \in Slots : \A b \in Procs : b = a /\ msg = DeleteMotion(q) =>
           region[b][q] = None /\ \A m \in Motions : mc_id[m] = q => ~Says(b, AddMotion(m)),
         \A m \in Motions : a = Motion => msg # AddMotion(m)
  PROVE  IInv'
<1>0. /\ TypeOK /\ Parts /\ SlotsInv /\ MotionsInv /\ RegionsInv /\ InboxInv
      /\ PcInv /\ MainInv /\ LockInv /\ TodoInv
  BY DEF IInv, Places, Parts
<1>a. Main \in Procs /\ Motion \in Procs /\ Main # Motion /\ Procs = {Main, Motion} /\ None \notin Slots /\ None \notin Motions
  BY MessagesDiffer
<1>1. /\ pc'[a] = Idle /\ pc' = [b \in Procs |-> pc'[b]]
      /\ \A b \in Procs : b # a => pc'[b] = pc[b]
  BY <1>0, BecomeIs
<1>2. /\ inbox' \in [Procs -> Seq(Messages)] /\ \A b \in Procs : Distinct(inbox[b])'
      /\ \A b \in Procs : \A x : Says(b, x)' <=> Says(b, x) /\ (b = a => x # msg)
      /\ \A y, z : Before(inbox[Motion], y, z) => Before(inbox'[Motion], y, z)
      /\ \A b \in Procs : b # a => inbox'[b] = inbox[b]
      /\ pc[a].at = "receiving" /\ pc[Motion].at \notin Engaged /\ MMlock = None
      /\ \A q : Task(q) = "none"
      /\ a = Main => HoldsNothing(Main)
  BY ReceivingIs
<1>3. TypeOK'
  BY <1>0, <1>2 DEF TypeOK, Messages
<1>4. pc'[Motion].at \notin Engaged /\ \A q : Task(q)' = "none"
  <2>1. pc'[Motion].at \notin Engaged
    BY <1>1, <1>2, <1>a DEF Engaged, Idle
  <2> QED
    BY <2>1 DEF Task, Engaged
<1>5. /\ SlotsInv' /\ MotionsInv' /\ RegionsInv'
      /\ \A q \in Slots : \A n \in Motions :
           q # None => (Alive(q, n) => Alive(q, n)') /\ (Running(q, n) => Running(q, n)')
  <2>1. ASSUME NEW q \in Slots PROVE Same(q)
    <3>1. \A b \in Procs : Says(b, DeleteMotion(q))' => Says(b, DeleteMotion(q))
      BY <1>2
    <3>2. \A b \in Procs :
            \/ Says(b, DeleteMotion(q)) => Says(b, DeleteMotion(q))'
            \/ region[b][q] = None /\ \A m \in Motions : mc_id[m] = q => ~Says(b, AddMotion(m))
      BY <1>2
    <3>3. free' = free /\ region' = region /\ known' = known /\ lastAccessor' = lastAccessor /\ lock' = lock
      OBVIOUS
    <3> QED
      BY <3>1, <3>2, <3>3, <1>2, <1>4 DEF Same
  <2>2. ASSUME NEW n \in Motions PROVE SameMotion(n)
    <3>1. mc_id' = mc_id /\ started' = started
      OBVIOUS
    <3> QED
      BY <3>1, <1>2, <1>a DEF SameMotion
  <2> QED
    BY <2>1, <2>2, <1>0, <1>3, <1>a, SlotStep
<1>6. InboxInv'
  BY <1>0, <1>2 DEF InboxInv
<1>7. LockInv'
  <2>1. \A q \in Slots : /\ ~At(Motion, "updating", q) /\ ~At(Motion, "stopped", q)
                         /\ ~At(Motion, "updating", q)' /\ ~At(Motion, "stopped", q)'
    BY <1>2, <1>4, AtIs DEF Engaged
  <2>2. \A q \in Slots : Holds(Main, q) => pc'[Main] = pc[Main] /\ \A m \in Motions : Alive(q, m) => Alive(q, m)'
    BY <1>1, <1>2, <1>5, <1>a DEF HoldsNothing
  <2> QED
    BY <2>1, <2>2, <1>0, LocksStay
<1>8. MainInv'
  <2>1. CASE a = Main
    BY <2>1, <1>1 DEF MainInv, At, Idle
  <2>2. CASE a = Motion
    BY <2>2, <1>0, <1>1, <1>2, <1>3, <1>a, MainWaits DEF Holds
  <2> QED
    BY <2>1, <2>2, <1>a
<1>9. PcInv'
  <2>1. MainPlace' /\ MotionPlace'
    <3>1. CASE a = Main
      BY <3>1, <1>0, <1>1, <1>a DEF PcInv, MainPlace, MotionPlace, At, IsIdle
    <3>2. CASE a = Motion
      BY <3>2, <1>0, <1>1, <1>a DEF PcInv, MainPlace, MotionPlace, At, IsIdle, Calling
    <3> QED
      BY <3>1, <3>2, <1>a
  <2>2. \A b \in Procs : At(b, "receiving", None)' => inbox'[b] # <<>>
    <3> SUFFICES ASSUME NEW b \in Procs, At(b, "receiving", None)' PROVE inbox'[b] # <<>>
      OBVIOUS
    <3>1. b # a
      BY <1>1 DEF At, Idle
    <3> QED
      BY <3>1, <1>0, <1>1, <1>2 DEF PcInv, At
  <2> QED
    BY <2>1, <2>2, <1>1, <1>2, <1>4 DEF PcInv
<1>10. TodoInv'
  BY <1>4 DEF TodoInv, Engaged
<1> QED
  BY <1>3, <1>5, <1>6, <1>7, <1>8, <1>9, <1>10 DEF IInv, Parts, Places

\* What a process removed itself is not there when it hears of it.
LEMMA IgnoreInv ==
  ASSUME IInv, NEW a \in Procs, NEW p \in Slots, IgnoreDelete(a, p)
  PROVE  IInv'
<1>0. MotionsInv /\ InboxInv
  BY DEF IInv, Parts
<1>a. Main # Motion /\ Procs = {Main, Motion} /\ None \notin Slots /\ None \notin Motions
  BY MessagesDiffer
<1>1. /\ Processes(a, DeleteMotion(p)) /\ region[a][p] = None /\ Become(a)
      /\ UNCHANGED <<free, region, lastAccessor, lock, MMlock, mc_id, started, known, calls, todo>>
  BY DEF IgnoreDelete, table
<1>2. ASSUME NEW m \in Motions, mc_id[m] = p PROVE ~Says(a, AddMotion(m))
  <2>1. CASE a = Main
    BY <2>1, <1>0, <1>1, <1>2, <1>a DEF MotionsInv, Named, Added, Running, Alive, Revoked
  <2>2. CASE a = Motion
    <3>1. Before(inbox[Motion], AddMotion(m), DeleteMotion(p))
      BY <1>0, <1>2 DEF InboxInv
    <3> QED
      BY <3>1, <2>2, <1>1, ReceivingIs
  <2> QED
    BY <2>1, <2>2, <1>a
<1>3. \A q \in Slots : \A b \in Procs : b = a /\ DeleteMotion(p) = DeleteMotion(q) =>
        region[b][q] = None /\ \A m \in Motions : mc_id[m] = q => ~Says(b, AddMotion(m))
  <2> SUFFICES ASSUME NEW q \in Slots, DeleteMotion(p) = DeleteMotion(q)
               PROVE  region[a][q] = None /\ \A m \in Motions : mc_id[m] = q => ~Says(a, AddMotion(m))
    OBVIOUS
  <2>1. q = p
    BY MessagesDiffer
  <2> QED
    BY <2>1, <1>1, <1>2
<1>4. \A m \in Motions : DeleteMotion(p) # AddMotion(m)
  BY MessagesDiffer
<1> QED
  BY <1>1, <1>3, <1>4, EchoInv

\* The echo of an addition in Main: it has the region, or has removed it again.
LEMMA MainAddInv ==
  ASSUME IInv, NEW m \in Motions, ReceiveAdd(Main, m)
  PROVE  IInv'
<1>0. TypeOK /\ MotionsInv
  BY DEF IInv, Parts
<1>a. Main \in Procs /\ Main # Motion /\ None \notin Slots /\ None \notin Motions
  BY MessagesDiffer
<1>1. /\ Processes(Main, AddMotion(m)) /\ Become(Main) /\ MMlock' = MMlock
      /\ UNCHANGED <<free, lastAccessor, lock, mc_id, started, known, calls, todo>>
  BY <1>a DEF ReceiveAdd
<1>2. region' = region
  <2>1. Says(Main, AddMotion(m))
    BY <1>1, <1>a, ReceivingIs
  <2>2. PICK p : p = mc_id[m]
    OBVIOUS
  <2>3. ASSUME p # None PROVE region[Main][p] # None
    <3>1. p \in Slots
      BY <2>2, <2>3, <1>0 DEF TypeOK
    <3>2. Named(p, m)
      BY <2>2, <3>1, <1>0 DEF MotionsInv
    <3> QED
      BY <3>2, <2>1, <1>a DEF Named, Added, Running, Alive, Revoked
  <2> QED
    BY <2>2, <2>3 DEF ReceiveAdd
<1>3. \A q \in Slots : AddMotion(m) # DeleteMotion(q)
  BY MessagesDiffer
<1> QED
  BY <1>1, <1>2, <1>3, <1>a, EchoInv

\* Motion hears of an addition and attaches the region, of a motion that is to be started
\* or was removed meanwhile.
LEMMA MotionAddInv ==
  ASSUME IInv, NEW m \in Motions, ReceiveAdd(Motion, m)
  PROVE  IInv'
<1>0. /\ TypeOK /\ SlotsInv /\ MotionsInv /\ RegionsInv /\ InboxInv
      /\ PcInv /\ MainInv /\ LockInv /\ TodoInv
  BY DEF IInv, Places, Parts
<1>a. /\ Main \in Procs /\ Motion \in Procs /\ Main # Motion /\ Procs = {Main, Motion}
      /\ None \notin Slots /\ None \notin Motions /\ \A q : AddMotion(m) # DeleteMotion(q)
      /\ \A n : AddMotion(n) = AddMotion(m) => n = m
  BY MessagesDiffer
<1>1. /\ Processes(Motion, AddMotion(m))
      /\ UNCHANGED <<free, lastAccessor, lock, mc_id, started, known, calls, todo>>
  BY DEF ReceiveAdd
<1>2. /\ inbox' \in [Procs -> Seq(Messages)] /\ \A b \in Procs : Distinct(inbox[b])'
      /\ \A b \in Procs : \A x : Says(b, x)' <=> Says(b, x) /\ (b = Motion => x # AddMotion(m))
      /\ \A y, z : Before(inbox[Motion], y, z) => Before(inbox'[Motion], y, z)
      /\ inbox'[Main] = inbox[Main] /\ Says(Motion, AddMotion(m))
      /\ pc[Motion].at = "receiving" /\ pc[Motion].at \notin Engaged /\ MMlock = None
      /\ \A q : Task(q) = "none"
  BY <1>1, <1>a, ReceivingIs
<1>3. PICK p \in Slots : mc_id[m] = p /\ Named(p, m)
  <2>1. mc_id[m] \in Slots
    BY <1>0, <1>2, <1>a DEF MotionsInv, TypeOK
  <2> QED
    BY <2>1, <1>0 DEF MotionsInv
<1>4. /\ Added(p, m) \/ Revoked(p, m)
      /\ region[Motion][p] = None /\ m \notin started /\ Taken(p, m) /\ p # None
  BY <1>2, <1>3, <1>a DEF Named, Added, Running, Revoked, Taken
<1>5. /\ region' = [region EXCEPT ![Motion][p] = m]
      /\ IF lastAccessor[p] # Dead
         THEN MMlock' = Motion /\ Goto(Motion, "starting", p)
         ELSE UNCHANGED MMlock /\ Become(Motion)
  BY <1>3, <1>4 DEF ReceiveAdd
<1>6. /\ pc' = [b \in Procs |-> pc'[b]] /\ pc'[Main] = pc[Main]
      /\ IF lastAccessor[p] # Dead
         THEN MMlock' = Motion /\ pc'[Motion] = [at |-> "starting", arg |-> p]
         ELSE MMlock' = None /\ pc'[Motion] = Idle
  BY <1>0, <1>2, <1>5, <1>a, GotoIs, BecomeIs
<1>b. region \in [Procs -> [Slots -> Motions \cup {None}]]
  BY <1>0 DEF TypeOK
<1>c. /\ region'[Motion][p] = m /\ region'[Main] = region[Main]
      /\ \A q \in Slots : q # p => region'[Motion][q] = region[Motion][q]
  BY <1>5, <1>a, <1>b
<1>7. /\ \A q \in Slots : q # p => Task(q)' = "none"
      /\ Task(p)' = IF lastAccessor[p] # Dead THEN "starting" ELSE "none"
  BY <1>6 DEF Task, Idle
<1>8. TypeOK'
  <2>1. region' \in [Procs -> [Slots -> Motions \cup {None}]]
    BY <1>5, <1>b, <1>a
  <2>2. MMlock' \in Procs \cup {None}
    BY <1>6, <1>a
  <2> QED
    BY <2>1, <2>2, <1>0, <1>1, <1>2 DEF TypeOK, Messages
<1>9. IF lastAccessor[p] # Dead THEN Added(p, m)' ELSE Revoked(p, m)'
  <2>1. CASE Added(p, m)
    <3>1. lastAccessor[p] # Dead /\ Alive(p, m)
      BY <2>1 DEF Added, Alive
    <3>2. Alive(p, m)'
      BY <3>1, <1>1, <1>2, <1>c, <1>a DEF Alive
    <3> QED
      BY <3>1, <3>2, <1>1, <1>2, <1>4, <1>7, <1>c, <1>a DEF Added
  <2>2. CASE Revoked(p, m)
    <3>1. lastAccessor[p] = Dead /\ ~Says(Main, AddMotion(m))' /\ ~Says(Motion, AddMotion(m))'
      BY <2>2, <1>2, <1>a DEF Revoked
    <3>2. Says(Motion, DeleteMotion(p))'
      BY <2>2, <1>2, <1>4, <1>a DEF Revoked
    <3> QED
      BY <2>2, <3>1, <3>2, <1>1, <1>7, <1>c DEF Revoked
  <2> QED
    BY <2>1, <2>2, <1>4
<1>10. /\ SlotsInv' /\ MotionsInv' /\ RegionsInv'
       /\ \A q \in Slots : \A n \in Motions : q # p => (Alive(q, n) => Alive(q, n)')
  <2>1. ASSUME NEW q \in Slots, q # p PROVE Same(q)
    <3>1. \A a \in Procs : region'[a][q] = region[a][q]
      BY <2>1, <1>c, <1>a
    <3> QED
      BY <2>1, <3>1, <1>1, <1>2, <1>7, <1>a DEF Same
  <2>2. \A n \in Motions : n # m => SameMotion(n) /\ mc_id[n] # p
    BY <1>0, <1>1, <1>2, <1>4, <1>a, NameIs DEF SameMotion
  <2>3. \A q \in Slots : q # p => ~Taken(q, m)
    BY <1>0, <1>4, OneSlot
  <2>4. \A a \in Procs : region'[a][p] \in {None, m}
    BY <1>3, <1>c, <1>a DEF Named, Added, Running, Revoked, Alive
  <2>5. p \notin Range(free')
    BY <1>1, <1>4, <1>0, <1>a DEF SlotsInv, FreeSlot, Added, Revoked, Alive
  <2>6. Named(p, m)' /\ mc_id'[m] = p
    BY <1>1, <1>3, <1>9 DEF Named
  <2> QED
    BY <2>1, <2>2, <2>3, <2>4, <2>5, <2>6, <1>8, <1>0, <1>a, SlotStep DEF Taken
<1>11. InboxInv'
  BY <1>0, <1>1, <1>2 DEF InboxInv
<1>12. LockInv'
  <2>1. \A q \in Slots : /\ ~At(Motion, "updating", q) /\ ~At(Motion, "stopped", q)
                         /\ ~At(Motion, "updating", q)' /\ ~At(Motion, "stopped", q)'
    BY <1>2, <1>6, AtIs DEF Idle
  <2>2. ASSUME Holds(Main, p), NEW n \in Motions, Alive(p, n) PROVE Alive(p, n)'
    <3>1. n = m /\ Added(p, m)'
      BY <2>2, <1>4, <1>9, <1>a DEF Alive, Added, Revoked
    <3> QED
      BY <3>1 DEF Added
  <2> QED
    BY <2>1, <2>2, <1>0, <1>1, <1>6, <1>10, LocksStay
<1>13. MainInv'
  <2>1. \A a \in Procs : \A q \in Slots :
          region'[a][q] # None /\ region'[a][q] # region[a][q] => a = Motion /\ q = p
    BY <1>c, <1>a
  <2> QED
    BY <2>1, <1>0, <1>1, <1>2, <1>6, <1>8, <1>c, MainWaits DEF Holds
<1>14. PcInv'
  <2>1. MainPlace'
    BY <1>0, <1>1, <1>6 DEF PcInv, MainPlace, At, IsIdle, Calling
  <2>2. MotionPlace' /\ MMlock' = IF pc'[Motion].at \in Engaged THEN Motion ELSE None
    BY <1>6 DEF MotionPlace, At, Engaged, IsIdle, Idle
  <2>3. ~At(Motion, "receiving", None)' /\ (At(Main, "receiving", None)' => inbox'[Main] # <<>>)
    BY <1>0, <1>2, <1>6, <1>a DEF PcInv, At, Idle
  <2> QED
    BY <2>1, <2>2, <2>3, <1>6, <1>a DEF PcInv
<1>15. TodoInv'
  BY <1>6 DEF TodoInv, Idle
<1> QED
  BY <1>8, <1>10, <1>11, <1>12, <1>13, <1>14, <1>15 DEF IInv, Parts, Places

\* Motion starts what it attached.
LEMMA StartInv ==
  ASSUME IInv, NEW p \in Slots, DoStart(p)
  PROVE  IInv'
<1>0. /\ TypeOK /\ SlotsInv /\ MotionsInv /\ RegionsInv /\ InboxInv
      /\ PcInv /\ MainInv /\ LockInv /\ TodoInv
  BY DEF IInv, Places, Parts
<1>a. /\ Main \in Procs /\ Motion \in Procs /\ Main # Motion /\ Procs = {Main, Motion}
      /\ Motion # Dead /\ None \notin Slots /\ None \notin Motions
  BY MessagesDiffer
<1>1. /\ UNCHANGED <<free, region, lock, inbox, mc_id, known, calls, todo>>
      /\ At(Motion, "starting", p) /\ pc[Motion] = [at |-> "starting", arg |-> p]
      /\ lastAccessor' = [lastAccessor EXCEPT ![p] = Motion]
      /\ MMlock' = None /\ pc'[Motion] = Idle /\ pc'[Main] = pc[Main] /\ pc' = [b \in Procs |-> pc'[b]]
  BY <1>0, <1>a, BecomeIs DEF DoStart, At
<1>2. PICK m \in Motions : Added(p, m) /\ region[Motion][p] = m /\ ~Says(Motion, AddMotion(m))
  <2>1. Task(p) = "starting"
    BY <1>0, <1>1, TaskIs
  <2> QED
    BY <2>1, <1>0 DEF SlotsInv, FreeSlot, Taken, Named, Added, Running, Revoked, Ended, Pruned
<1>3. Alive(p, m) /\ mc_id[m] = p /\ known[p] = m /\ region[Main][p] = m /\ lastAccessor[p] # Dead /\ Taken(p, m)
  BY <1>2 DEF Added, Alive, Taken, Named
<1>4. started' = started \cup {m}
  BY <1>2 DEF DoStart
<1>5. /\ \A q \in Slots : q # p => Task(q) = "none" /\ Task(q)' = "none"
      /\ Task(p)' = "none"
  BY <1>1 DEF Task, Idle
<1>6. lastAccessor \in [Slots -> Procs \cup {Dead}] /\ \A a \in Procs : \A x : Says(a, x)' <=> Says(a, x)
  BY <1>0, <1>1 DEF TypeOK, Says
<1>7. TypeOK'
  <2>1. lastAccessor' \in [Slots -> Procs \cup {Dead}]
    BY <1>1, <1>6, <1>a
  <2>2. MMlock' \in Procs \cup {None} /\ started' \subseteq Motions
    BY <1>0, <1>1, <1>4 DEF TypeOK
  <2> QED
    BY <2>1, <2>2, <1>0, <1>1 DEF TypeOK
<1>8. Alive(p, m)' /\ Running(p, m)'
  <2>1. Alive(p, m)'
    BY <1>1, <1>3, <1>6, <1>a DEF Alive
  <2> QED
    BY <2>1, <1>1, <1>2, <1>4, <1>5, <1>6, <1>a DEF Running
<1>9. /\ SlotsInv' /\ MotionsInv' /\ RegionsInv'
      /\ \A q \in Slots : \A n \in Motions : q # p => (Alive(q, n) => Alive(q, n)')
  <2>1. ASSUME NEW q \in Slots, q # p PROVE Same(q)
    <3>1. lastAccessor'[q] = lastAccessor[q] /\ free' = free /\ region' = region /\ known' = known /\ lock' = lock
      BY <2>1, <1>1, <1>6
    <3> QED
      BY <2>1, <3>1, <1>5, <1>6 DEF Same
  <2>2. \A n \in Motions : n # m => SameMotion(n) /\ mc_id[n] # p
    BY <1>0, <1>1, <1>3, <1>4, <1>6, <1>a, NameIs DEF SameMotion
  <2>3. \A q \in Slots : q # p => ~Taken(q, m)
    BY <1>0, <1>3, OneSlot
  <2>4. \A a \in Procs : region'[a][p] \in {None, m}
    BY <1>1, <1>2, <1>3, <1>a
  <2>5. p \notin Range(free')
    BY <1>1, <1>3, <1>0, <1>a DEF SlotsInv, FreeSlot
  <2>6. Named(p, m)' /\ mc_id'[m] = p
    BY <1>1, <1>3, <1>8 DEF Named
  <2> QED
    BY <2>1, <2>2, <2>3, <2>4, <2>5, <2>6, <1>7, <1>0, <1>a, SlotStep DEF Taken
<1>10. InboxInv'
  BY <1>0, <1>1 DEF InboxInv
<1>11. LockInv'
  <2>1. \A q \in Slots : /\ ~At(Motion, "updating", q) /\ ~At(Motion, "stopped", q)
                         /\ ~At(Motion, "updating", q)' /\ ~At(Motion, "stopped", q)'
    BY <1>1, AtIs DEF Idle
  <2>2. ASSUME NEW n \in Motions, Alive(p, n) PROVE Alive(p, n)'
    BY <2>2, <1>3, <1>8 DEF Alive
  <2> QED
    BY <2>1, <2>2, <1>0, <1>1, <1>9, LocksStay
<1>12. MainInv'
  BY <1>0, <1>1, <1>6, <1>7, MainWaits DEF Holds
<1>13. PcInv'
  <2>1. MainPlace'
    BY <1>0, <1>1 DEF PcInv, MainPlace, At, IsIdle, Calling
  <2>2. MotionPlace' /\ MMlock' = IF pc'[Motion].at \in Engaged THEN Motion ELSE None
    BY <1>1 DEF MotionPlace, At, Engaged, IsIdle, Idle
  <2>3. ~At(Motion, "receiving", None)' /\ (At(Main, "receiving", None)' => inbox'[Main] # <<>>)
    BY <1>0, <1>1, <1>a DEF PcInv, At, Idle
  <2> QED
    BY <2>1, <2>2, <2>3, <1>1, <1>a DEF PcInv
<1>14. TodoInv'
  BY <1>1 DEF TodoInv, Idle
<1> QED
  BY <1>7, <1>9, <1>10, <1>11, <1>12, <1>13, <1>14 DEF IInv, Parts, Places

\* Main hears that Motion removed a motion, and frees the slot.
LEMMA DeleteInv ==
  ASSUME IInv, NEW p \in Slots, ReceiveDelete(p)
  PROVE  IInv'
<1>0. /\ TypeOK /\ SlotsInv /\ MotionsInv /\ RegionsInv /\ InboxInv
      /\ PcInv /\ MainInv /\ LockInv /\ TodoInv
  BY DEF IInv, Places, Parts
<1>a. /\ Main \in Procs /\ Motion \in Procs /\ Main # Motion /\ Procs = {Main, Motion}
      /\ None \notin Slots /\ None \notin Motions /\ \A n : AddMotion(n) # DeleteMotion(p)
      /\ \A q : DeleteMotion(q) = DeleteMotion(p) => q = p
  BY MessagesDiffer
<1>1. /\ Processes(Main, DeleteMotion(p)) /\ region[Main][p] # None /\ LetGo(Main, p)
      /\ UNCHANGED <<MMlock, mc_id, started, calls, todo>>
      /\ known' = [known EXCEPT ![p] = None]
      /\ pc'[Main] = Idle /\ pc'[Motion] = pc[Motion] /\ pc' = [b \in Procs |-> pc'[b]]
  BY <1>0, <1>a, BecomeIs DEF ReceiveDelete
<1>2. /\ inbox' \in [Procs -> Seq(Messages)] /\ \A b \in Procs : Distinct(inbox[b])'
      /\ \A b \in Procs : \A x : Says(b, x)' <=> Says(b, x) /\ (b = Main => x # DeleteMotion(p))
      /\ \A y, z : Before(inbox[Motion], y, z) => Before(inbox'[Motion], y, z)
      /\ inbox'[Motion] = inbox[Motion] /\ Says(Main, DeleteMotion(p))
      /\ MMlock = None /\ pc[Motion].at \notin Engaged
      /\ HoldsNothing(Main)
  BY <1>1, <1>a, ReceivingIs
<1>3. \A q : Task(q) = "none" /\ Task(q)' = "none"
  BY <1>1, <1>2 DEF Task, Engaged
<1>4. PICK m \in Motions : Pruned(p, m) /\ p \notin Range(free)
  BY <1>0, <1>1, <1>2, <1>3, <1>a DEF SlotsInv, FreeSlot, Taken, Named, Added, Running, Revoked, Ended, Alive
<1>5. /\ Taken(p, m) /\ mc_id[m] = None /\ region[Motion][p] = None /\ lastAccessor[p] = Dead
      /\ lock[p] = Unlocked
  BY <1>4 DEF Taken, Pruned
<1>b. /\ region \in [Procs -> [Slots -> Motions \cup {None}]] /\ free \in Seq(Slots)
      /\ lock \in [Slots -> [by : Procs \cup {None}, n : 0..MaxCalls]]
      /\ lastAccessor \in [Slots -> Procs \cup {Dead}] /\ known \in [Slots -> Motions \cup {None}]
  BY <1>0 DEF TypeOK
<1>6. /\ region' = [region EXCEPT ![Main][p] = None] /\ lock' = lock /\ lastAccessor' = lastAccessor
      /\ free' = Append(free, p)
  <2>1. \A b \in Procs \ {Main} : region[b][p] = None
    BY <1>5, <1>a
  <2> QED
    BY <2>1, <1>1, <1>5, <1>b DEF LetGo
<1>7. /\ free' \in Seq(Slots) /\ Distinct(free')
      /\ \A q : q \in Range(free') <=> q \in Range(free) \/ q = p
  BY <1>0, <1>4, <1>6, <1>b, AppendIs DEF InboxInv
<1>c. /\ region'[Main][p] = None /\ region'[Motion] = region[Motion]
      /\ \A q \in Slots : q # p => region'[Main][q] = region[Main][q]
      /\ known'[p] = None /\ \A q \in Slots : q # p => known'[q] = known[q]
  BY <1>1, <1>6, <1>a, <1>b
<1>8. TypeOK'
  <2>1. region' \in [Procs -> [Slots -> Motions \cup {None}]]
    BY <1>6, <1>b, <1>a
  <2>2. known' \in [Slots -> Motions \cup {None}]
    BY <1>1, <1>b
  <2> QED
    BY <2>1, <2>2, <1>0, <1>1, <1>2, <1>6, <1>7 DEF TypeOK, Messages
<1>9. /\ SlotsInv' /\ MotionsInv' /\ RegionsInv'
      /\ \A q \in Slots : \A n \in Motions :
           q # p => (Alive(q, n) => Alive(q, n)') /\ (Running(q, n) => Running(q, n)')
  <2>1. ASSUME NEW q \in Slots, q # p PROVE Same(q)
    <3>1. \A a \in Procs : region'[a][q] = region[a][q]
      BY <2>1, <1>c, <1>a
    <3>2. \A a \in Procs : Says(a, DeleteMotion(q))' <=> Says(a, DeleteMotion(q))
      BY <2>1, <1>2, <1>a
    <3> QED
      BY <2>1, <3>1, <3>2, <1>3, <1>6, <1>7, <1>c DEF Same
  <2>2. \A n \in Motions : n # m => SameMotion(n) /\ mc_id[n] # p
    BY <1>0, <1>1, <1>2, <1>5, <1>a, NameIs DEF SameMotion
  <2>3. \A q \in Slots : q # p => ~Taken(q, m)
    BY <1>0, <1>5, OneSlot
  <2>4. \A a \in Procs : region'[a][p] \in {None, m}
    BY <1>5, <1>c, <1>a
  <2>5. FreeSlot(p)'
    BY <1>3, <1>5, <1>6, <1>7, <1>c DEF FreeSlot
  <2>6. mc_id'[m] = None /\ ~Says(Motion, AddMotion(m))' /\ m \notin started'
    BY <1>0, <1>1, <1>2, <1>5, <1>a DEF MotionsInv
  <2> QED
    BY <2>1, <2>2, <2>3, <2>4, <2>5, <2>6, <1>8, <1>0, <1>a, SlotStep
<1>10. InboxInv'
  BY <1>0, <1>1, <1>2, <1>7 DEF InboxInv
<1>11. LockInv'
  BY <1>0, <1>1, <1>2, <1>6, LocksStay DEF HoldsNothing, At
<1>12. MainInv'
  BY <1>1 DEF MainInv, At, Idle
<1>13. PcInv'
  <2>1. MainPlace' /\ MotionPlace'
    BY <1>0, <1>1 DEF PcInv, MainPlace, MotionPlace, At, IsIdle
  <2>2. ~At(Main, "receiving", None)' /\ (At(Motion, "receiving", None)' => inbox'[Motion] # <<>>)
    BY <1>0, <1>1, <1>2, <1>a DEF PcInv, At, Idle
  <2> QED
    BY <2>1, <2>2, <1>0, <1>1, <1>a DEF PcInv
<1>14. TodoInv'
  BY <1>1, <1>2 DEF TodoInv, Engaged
<1> QED
  BY <1>8, <1>9, <1>10, <1>11, <1>12, <1>13, <1>14 DEF IInv, Parts, Places

\* Motion hears that Main removed a motion,
LEMMA AwaitInv ==
  ASSUME IInv, NEW p \in Slots, AwaitDelete(p)
  PROVE  IInv'
<1>0. /\ TypeOK /\ SlotsInv /\ MotionsInv /\ RegionsInv /\ InboxInv
      /\ PcInv /\ MainInv /\ LockInv /\ TodoInv
  BY DEF IInv, Places, Parts
<1>a. /\ Main \in Procs /\ Motion \in Procs /\ Main # Motion /\ Procs = {Main, Motion}
      /\ None \notin Slots /\ None \notin Motions /\ \A n : AddMotion(n) # DeleteMotion(p)
      /\ \A q : DeleteMotion(q) = DeleteMotion(p) => q = p
  BY MessagesDiffer
<1>1. /\ Processes(Motion, DeleteMotion(p)) /\ region[Motion][p] # None
      /\ UNCHANGED <<free, region, lastAccessor, lock, mc_id, started, known, calls, todo>>
      /\ MMlock' = Motion
      /\ pc'[Motion] = [at |-> "stopping", arg |-> p] /\ pc'[Main] = pc[Main]
      /\ pc' = [b \in Procs |-> pc'[b]]
  BY <1>0, <1>a, GotoIs DEF AwaitDelete, table
<1>2. /\ inbox' \in [Procs -> Seq(Messages)] /\ \A b \in Procs : Distinct(inbox[b])'
      /\ \A b \in Procs : \A x : Says(b, x)' <=> Says(b, x) /\ (b = Motion => x # DeleteMotion(p))
      /\ \A y, z : Before(inbox[Motion], y, z) => Before(inbox'[Motion], y, z)
      /\ inbox'[Main] = inbox[Main] /\ Says(Motion, DeleteMotion(p))
      /\ pc[Motion].at = "receiving" /\ \A q : Task(q) = "none"
  BY <1>1, <1>a, ReceivingIs
<1>3. Task(p)' = "stopping" /\ \A q \in Slots : q # p => Task(q)' = "none"
  BY <1>1 DEF Task
<1>4. PICK m \in Motions : Revoked(p, m) /\ region[Motion][p] = m /\ ~Says(Motion, AddMotion(m))
  <2>1. PICK n \in Motions : Taken(p, n) /\ p \notin Range(free)
    BY <1>0, <1>1 DEF SlotsInv, FreeSlot
  <2>2. Revoked(p, n)
    BY <2>1, <1>1, <1>2, <1>a DEF Taken, Named, Added, Running, Ended, Pruned, Alive
  <2> QED
    BY <2>2, <1>1, <1>2 DEF Revoked
<1>5. Taken(p, m) /\ mc_id[m] = p /\ region[Main][p] = None
  BY <1>4 DEF Taken, Named, Revoked
<1>6. TypeOK'
  BY <1>0, <1>1, <1>2, <1>a DEF TypeOK, Messages
<1>7. Revoked(p, m)'
  <2>1. ~Says(Motion, DeleteMotion(p))' /\ ~Says(Motion, AddMotion(m))' /\ ~Says(Main, AddMotion(m))'
    BY <1>2, <1>4, <1>a DEF Revoked
  <2> QED
    BY <2>1, <1>1, <1>3, <1>4 DEF Revoked
<1>8. /\ SlotsInv' /\ MotionsInv' /\ RegionsInv'
      /\ \A q \in Slots : \A n \in Motions : q # p => (Alive(q, n) => Alive(q, n)')
  <2>1. ASSUME NEW q \in Slots, q # p PROVE Same(q)
    <3>1. \A a \in Procs : Says(a, DeleteMotion(q))' <=> Says(a, DeleteMotion(q))
      BY <2>1, <1>2, <1>a
    <3>2. free' = free /\ region' = region /\ known' = known /\ lastAccessor' = lastAccessor /\ lock' = lock
      BY <1>1
    <3> QED
      BY <2>1, <3>1, <3>2, <1>2, <1>3 DEF Same
  <2>2. \A n \in Motions : n # m => SameMotion(n) /\ mc_id[n] # p
    BY <1>0, <1>1, <1>2, <1>5, <1>a, NameIs DEF SameMotion
  <2>3. \A q \in Slots : q # p => ~Taken(q, m)
    BY <1>0, <1>5, OneSlot
  <2>4. \A a \in Procs : region'[a][p] \in {None, m}
    BY <1>1, <1>4, <1>5, <1>a
  <2>5. p \notin Range(free') /\ Named(p, m)' /\ mc_id'[m] = p
    BY <1>1, <1>5, <1>7 DEF Revoked, Named
  <2> QED
    BY <2>1, <2>2, <2>3, <2>4, <2>5, <1>6, <1>0, <1>a, SlotStep DEF Taken
<1>9. InboxInv'
  BY <1>0, <1>1, <1>2 DEF InboxInv
<1>10. LockInv'
  <2>1. \A q \in Slots : /\ ~At(Motion, "updating", q) /\ ~At(Motion, "stopped", q)
                         /\ ~At(Motion, "updating", q)' /\ ~At(Motion, "stopped", q)'
    BY <1>1, <1>2, AtIs
  <2>2. ~Holds(Main, p)
    BY <1>4, MessagesDiffer DEF Revoked, Holds, Unlocked
  <2> QED
    BY <2>1, <2>2, <1>0, <1>1, <1>8, LocksStay
<1>11. MainInv'
  BY <1>0, <1>1, <1>2, <1>6, MainWaits DEF Holds
<1>12. PcInv'
  <2>1. MainPlace'
    BY <1>0, <1>1 DEF PcInv, MainPlace, At, IsIdle, Calling
  <2>2. MotionPlace' /\ MMlock' = IF pc'[Motion].at \in Engaged THEN Motion ELSE None
    BY <1>1 DEF MotionPlace, At, Engaged
  <2>3. ~At(Motion, "receiving", None)' /\ (At(Main, "receiving", None)' => inbox'[Main] # <<>>)
    BY <1>0, <1>1, <1>2, <1>a DEF PcInv, At
  <2> QED
    BY <2>1, <2>2, <2>3, <1>1, <1>a DEF PcInv
<1>13. TodoInv'
  BY <1>1 DEF TodoInv
<1> QED
  BY <1>6, <1>8, <1>9, <1>10, <1>11, <1>12, <1>13 DEF IInv, Parts, Places

\* stops it,
LEMMA StopInv ==
  ASSUME IInv, NEW p \in Slots, StopDeleted(p)
  PROVE  IInv'
<1>0. /\ TypeOK /\ SlotsInv /\ MotionsInv /\ RegionsInv /\ InboxInv
      /\ PcInv /\ MainInv /\ LockInv /\ TodoInv
  BY DEF IInv, Places, Parts
<1>a. /\ Main \in Procs /\ Motion \in Procs /\ Main # Motion /\ Procs = {Main, Motion}
      /\ None \notin Slots /\ None \notin Motions /\ None # Main /\ None # Motion
  BY MessagesDiffer
<1>1. /\ UNCHANGED <<free, region, MMlock, inbox, known, calls, todo>>
      /\ At(Motion, "stopping", p) /\ lock[p] = Unlocked
      /\ lock' = [lock EXCEPT ![p] = [by |-> Motion, n |-> 1]]
      /\ lastAccessor' = [lastAccessor EXCEPT ![p] = Motion] /\ DoStop(p)
      /\ pc[Motion].at = "stopping"
      /\ pc'[Motion] = [at |-> "stopped", arg |-> p] /\ pc'[Main] = pc[Main]
      /\ pc' = [b \in Procs |-> pc'[b]]
  BY <1>0, <1>a, GotoIs, AtIs DEF StopDeleted
<1>2. /\ Task(p) = "stopping" /\ Task(p)' = "stopped"
      /\ \A q \in Slots : q # p => Task(q) = "none" /\ Task(q)' = "none"
  <2>1. pc[Motion].arg = p
    BY <1>1, AtIs
  <2> QED
    BY <2>1, <1>1 DEF Task
<1>3. PICK m \in Motions : Revoked(p, m) /\ region[Motion][p] = m
                           /\ ~Says(Motion, AddMotion(m)) /\ ~Says(Motion, DeleteMotion(p))
  BY <1>0, <1>2 DEF SlotsInv, FreeSlot, Taken, Named, Added, Running, Revoked, Ended, Pruned
<1>4. /\ Taken(p, m) /\ mc_id[m] = p /\ region[Main][p] = None /\ known[p] = None
      /\ p \notin Range(free) /\ ~Says(Main, AddMotion(m))
  BY <1>3 DEF Taken, Named, Revoked
<1>5. started' = started \ {m} /\ mc_id' = [mc_id EXCEPT ![m] = None]
  BY <1>1, <1>3 DEF DoStop
<1>b. /\ lock \in [Slots -> [by : Procs \cup {None}, n : 0..MaxCalls]] /\ 1 \in 0 .. MaxCalls
      /\ lastAccessor \in [Slots -> Procs \cup {Dead}] /\ mc_id \in [Motions -> Slots \cup {None}]
      /\ \A a \in Procs : \A x : Says(a, x)' <=> Says(a, x)
  BY <1>0, <1>1, SizesAssumption DEF TypeOK, Says
<1>c. /\ lock'[p] = [by |-> Motion, n |-> 1] /\ \A q \in Slots : q # p => lock'[q] = lock[q]
      /\ \A q \in Slots : q # p => lastAccessor'[q] = lastAccessor[q]
      /\ mc_id'[m] = None /\ \A n \in Motions : n # m => mc_id'[n] = mc_id[n]
  BY <1>1, <1>5, <1>b
<1>6. TypeOK'
  <2>1. lock' \in [Slots -> [by : Procs \cup {None}, n : 0..MaxCalls]]
    BY <1>1, <1>a, <1>b
  <2>2. lastAccessor' \in [Slots -> Procs \cup {Dead}] /\ mc_id' \in [Motions -> Slots \cup {None}]
    BY <1>1, <1>5, <1>a, <1>b
  <2>3. started' \subseteq Motions
    BY <1>0, <1>5 DEF TypeOK
  <2> QED
    BY <2>1, <2>2, <2>3, <1>0, <1>1 DEF TypeOK
<1>7. Ended(p, m)'
  BY <1>1, <1>2, <1>3, <1>4, <1>b, <1>c, <1>a DEF Ended
<1>8. /\ SlotsInv' /\ MotionsInv' /\ RegionsInv'
      /\ \A q \in Slots : \A n \in Motions : q # p => (Alive(q, n) => Alive(q, n)')
  <2>1. ASSUME NEW q \in Slots, q # p PROVE Same(q)
    <3>1. free' = free /\ region' = region /\ known' = known
      BY <1>1
    <3> QED
      BY <2>1, <3>1, <1>2, <1>b, <1>c DEF Same
  <2>2. \A n \in Motions : n # m => SameMotion(n) /\ mc_id[n] # p
    BY <1>0, <1>4, <1>5, <1>b, <1>c, <1>a, NameIs DEF SameMotion
  <2>3. \A q \in Slots : q # p => ~Taken(q, m)
    BY <1>0, <1>4, OneSlot
  <2>4. \A a \in Procs : region'[a][p] \in {None, m}
    BY <1>1, <1>3, <1>4, <1>a
  <2>5. p \notin Range(free') /\ ~Says(Motion, AddMotion(m))' /\ m \notin started'
    BY <1>1, <1>3, <1>4, <1>5, <1>b, <1>a
  <2> QED
    BY <2>1, <2>2, <2>3, <2>4, <2>5, <1>6, <1>7, <1>c, <1>0, <1>a, SlotStep DEF Taken
<1>9. InboxInv'
  <2>1. \A n \in Motions : \A q \in Slots : mc_id'[n] = q => mc_id[n] = q
    BY <1>c, <1>a
  <2> QED
    BY <2>1, <1>0, <1>1 DEF InboxInv
<1>10. LockInv'
  <2> SUFFICES ASSUME NEW q \in Slots
               PROVE  /\ lock'[q].by = None => lock'[q].n = 0
                      /\ lock'[q].by = Motion <=> (At(Motion, "updating", q) \/ At(Motion, "stopped", q))'
                      /\ lock'[q].by = Motion => lock'[q].n = 1
                      /\ lock'[q].by = Main =>
                           /\ calls' # None /\ lock'[q].n \in 1 .. MaxCalls - calls'
                           /\ pc'[Main].at = "checkout" => lock'[q].n < MaxCalls - calls'
                           /\ \E n \in Motions : Alive(q, n)'
    BY DEF LockInv
  <2>1. ~At(Motion, "updating", q)' /\ (At(Motion, "stopped", q)' <=> q = p)
    BY <1>1 DEF At
  <2>2. CASE q = p
    BY <2>1, <2>2, <1>c, <1>a
  <2>3. CASE q # p
    <3>1. ~At(Motion, "updating", q) /\ ~At(Motion, "stopped", q)
      BY <1>1, AtIs
    <3> QED
      BY <2>1, <2>3, <3>1, <1>0, <1>1, <1>8, <1>c DEF LockInv
  <2> QED
    BY <2>2, <2>3
<1>11. MainInv'
  <2>1. \A q \in Slots : Holds(Main, q)' => Holds(Main, q)
    BY <1>c, <1>a DEF Holds
  <2> QED
    BY <2>1, <1>0, <1>1, <1>6, <1>b, MainWaits
<1>12. PcInv'
  <2>1. MainPlace'
    BY <1>0, <1>1 DEF PcInv, MainPlace, At, IsIdle, Calling
  <2>2. MotionPlace' /\ MMlock' = IF pc'[Motion].at \in Engaged THEN Motion ELSE None
    BY <1>0, <1>1 DEF MotionPlace, At, Engaged, PcInv
  <2>3. ~At(Motion, "receiving", None)' /\ (At(Main, "receiving", None)' => inbox'[Main] # <<>>)
    BY <1>0, <1>1, <1>a DEF PcInv, At
  <2> QED
    BY <2>1, <2>2, <2>3, <1>1, <1>a DEF PcInv
<1>13. TodoInv'
  BY <1>1 DEF TodoInv
<1> QED
  BY <1>6, <1>8, <1>9, <1>10, <1>11, <1>12, <1>13 DEF IInv, Parts, Places

\* and frees the slot, whose region Main let go of first.
LEMMA EndInv ==
  ASSUME IInv, NEW p \in Slots, EndDelete(p)
  PROVE  IInv'
<1>0. /\ TypeOK /\ SlotsInv /\ MotionsInv /\ RegionsInv /\ InboxInv
      /\ PcInv /\ MainInv /\ LockInv /\ TodoInv
  BY DEF IInv, Places, Parts
<1>a. /\ Main \in Procs /\ Motion \in Procs /\ Main # Motion /\ Procs = {Main, Motion}
      /\ None \notin Slots /\ None \notin Motions /\ None # Main /\ None # Motion
  BY MessagesDiffer
<1>1. /\ UNCHANGED <<inbox, mc_id, started, known, calls, todo>>
      /\ At(Motion, "stopped", p) /\ LetGo(Motion, p) /\ MMlock' = None
      /\ pc[Motion].at = "stopped" /\ pc[Motion].arg = p
      /\ pc'[Motion] = Idle /\ pc'[Main] = pc[Main] /\ pc' = [b \in Procs |-> pc'[b]]
  BY <1>0, <1>a, BecomeIs, AtIs DEF EndDelete
<1>2. /\ Task(p) = "stopped" /\ \A q \in Slots : Task(q)' = "none"
      /\ \A q \in Slots : q # p => Task(q) = "none"
  BY <1>1 DEF Task, Idle
<1>3. PICK m \in Motions : Ended(p, m) /\ p \notin Range(free)
  BY <1>0, <1>2 DEF SlotsInv, FreeSlot, Taken, Named, Added, Running, Revoked, Pruned
<1>4. /\ Taken(p, m) /\ mc_id[m] = None /\ region[Main][p] = None /\ region[Motion][p] = m
      /\ known[p] = None
  BY <1>3 DEF Taken, Ended
<1>b. /\ region \in [Procs -> [Slots -> Motions \cup {None}]] /\ free \in Seq(Slots)
      /\ lock \in [Slots -> [by : Procs \cup {None}, n : 0..MaxCalls]] /\ 0 \in 0 .. MaxCalls
      /\ lastAccessor \in [Slots -> Procs \cup {Dead}]
      /\ \A a \in Procs : \A x : Says(a, x)' <=> Says(a, x)
  BY <1>0, <1>1, SizesAssumption DEF TypeOK, Says
<1>5. /\ region' = [region EXCEPT ![Motion][p] = None] /\ lock' = [lock EXCEPT ![p] = Unlocked]
      /\ free' = Append(free, p) /\ lastAccessor' = [lastAccessor EXCEPT ![p] = Dead]
  <2>1. \A b \in Procs \ {Motion} : region[b][p] = None
    BY <1>4, <1>a
  <2> QED
    BY <2>1, <1>1 DEF LetGo
<1>6. /\ free' \in Seq(Slots) /\ Distinct(free')
      /\ \A q : q \in Range(free') <=> q \in Range(free) \/ q = p
  BY <1>0, <1>3, <1>5, <1>b, AppendIs DEF InboxInv
<1>c. /\ region'[Motion][p] = None /\ region'[Main] = region[Main]
      /\ \A q \in Slots : q # p => region'[Motion][q] = region[Motion][q]
      /\ lock'[p] = Unlocked /\ \A q \in Slots : q # p => lock'[q] = lock[q]
      /\ lastAccessor'[p] = Dead /\ \A q \in Slots : q # p => lastAccessor'[q] = lastAccessor[q]
  BY <1>5, <1>a, <1>b
<1>7. TypeOK'
  <2>1. region' \in [Procs -> [Slots -> Motions \cup {None}]]
    BY <1>5, <1>b, <1>a
  <2>2. lock' \in [Slots -> [by : Procs \cup {None}, n : 0..MaxCalls]]
    BY <1>5, <1>b, <1>a DEF Unlocked
  <2>3. lastAccessor' \in [Slots -> Procs \cup {Dead}] /\ MMlock' \in Procs \cup {None}
    BY <1>1, <1>5, <1>b
  <2> QED
    BY <2>1, <2>2, <2>3, <1>0, <1>1, <1>6 DEF TypeOK
<1>8. /\ SlotsInv' /\ MotionsInv' /\ RegionsInv'
      /\ \A q \in Slots : \A n \in Motions : q # p => (Alive(q, n) => Alive(q, n)')
  <2>1. ASSUME NEW q \in Slots, q # p PROVE Same(q)
    <3>1. \A a \in Procs : region'[a][q] = region[a][q]
      BY <2>1, <1>c, <1>a
    <3>2. known' = known
      BY <1>1
    <3> QED
      BY <2>1, <3>1, <3>2, <1>2, <1>6, <1>b, <1>c DEF Same
  <2>2. \A n \in Motions : n # m => SameMotion(n) /\ mc_id[n] # p
    BY <1>0, <1>1, <1>4, <1>b, <1>a, NameIs DEF SameMotion
  <2>3. \A q \in Slots : q # p => ~Taken(q, m)
    BY <1>0, <1>4, OneSlot
  <2>4. \A a \in Procs : region'[a][p] \in {None, m}
    BY <1>4, <1>c, <1>a
  <2>5. FreeSlot(p)'
    BY <1>1, <1>2, <1>4, <1>6, <1>c DEF FreeSlot
  <2>6. mc_id'[m] = None /\ ~Says(Motion, AddMotion(m))' /\ m \notin started'
    BY <1>0, <1>1, <1>4, <1>b, <1>a DEF MotionsInv
  <2> QED
    BY <2>1, <2>2, <2>3, <2>4, <2>5, <2>6, <1>7, <1>0, <1>a, SlotStep
<1>9. InboxInv'
  BY <1>0, <1>1, <1>6 DEF InboxInv
<1>10. LockInv'
  <2> SUFFICES ASSUME NEW q \in Slots
               PROVE  /\ lock'[q].by = None => lock'[q].n = 0
                      /\ lock'[q].by = Motion <=> (At(Motion, "updating", q) \/ At(Motion, "stopped", q))'
                      /\ lock'[q].by = Motion => lock'[q].n = 1
                      /\ lock'[q].by = Main =>
                           /\ calls' # None /\ lock'[q].n \in 1 .. MaxCalls - calls'
                           /\ pc'[Main].at = "checkout" => lock'[q].n < MaxCalls - calls'
                           /\ \E n \in Motions : Alive(q, n)'
    BY DEF LockInv
  <2>1. ~At(Motion, "updating", q)' /\ ~At(Motion, "stopped", q)'
    BY <1>1 DEF At, Idle
  <2>2. CASE q = p
    BY <2>1, <2>2, <1>c, <1>a DEF Unlocked
  <2>3. CASE q # p
    <3>1. ~At(Motion, "updating", q) /\ ~At(Motion, "stopped", q)
      BY <2>3, <1>1, AtIs
    <3> QED
      BY <2>1, <2>3, <3>1, <1>0, <1>1, <1>8, <1>c DEF LockInv
  <2> QED
    BY <2>2, <2>3
<1>11. MainInv'
  <2>1. \A q \in Slots : Holds(Main, q)' => Holds(Main, q)
    BY <1>c, <1>a DEF Holds, Unlocked
  <2>2. \A a \in Procs : \A q \in Slots : region'[a][q] # None => region'[a][q] = region[a][q]
    BY <1>c, <1>a
  <2> QED
    BY <2>1, <2>2, <1>0, <1>1, <1>7, <1>b, MainWaits
<1>12. PcInv'
  <2>1. MainPlace'
    BY <1>0, <1>1 DEF PcInv, MainPlace, At, IsIdle, Calling
  <2>2. MotionPlace' /\ MMlock' = IF pc'[Motion].at \in Engaged THEN Motion ELSE None
    BY <1>1 DEF MotionPlace, At, IsIdle, Idle, Engaged
  <2>3. ~At(Motion, "receiving", None)' /\ (At(Main, "receiving", None)' => inbox'[Main] # <<>>)
    BY <1>0, <1>1, <1>a DEF PcInv, At, Idle
  <2> QED
    BY <2>1, <2>2, <2>3, <1>1, <1>a DEF PcInv
<1>13. TodoInv'
  BY <1>1 DEF TodoInv, Idle
<1> QED
  BY <1>7, <1>8, <1>9, <1>10, <1>11, <1>12, <1>13 DEF IInv, Parts, Places
-----------------------------------------------------------------------------
(* The invariant holds at the start and is kept by every step. *)

\* No motion was added, and all slots are free.
LEMMA InitInv == Init => IInv
<1> SUFFICES ASSUME Init PROVE IInv
  OBVIOUS
<1>a. /\ Main \in Procs /\ Motion \in Procs /\ Procs = {Main, Motion} /\ None \notin Slots
      /\ None # Main /\ None # Motion
  BY MessagesDiffer
<1>0. /\ \A p \in Slots : /\ region[Main][p] = None /\ region[Motion][p] = None /\ known[p] = None
                          /\ lastAccessor[p] = Dead /\ lock[p] = Unlocked /\ free[p] = p
      /\ inbox[Main] = <<>> /\ inbox[Motion] = <<>> /\ pc[Main] = Idle /\ pc[Motion] = Idle
      /\ \A m \in Motions : mc_id[m] = None
  BY <1>a DEF Init, Nothing
<1>b. MaxMotions \in Nat /\ 0 \in 0 .. MaxCalls
  BY SizesAssumption
<1>1. free \in Seq(Slots) /\ DOMAIN free = Slots /\ \A p \in Slots : p \in Range(free)
  <2>1. free \in [1 .. MaxMotions -> Slots]
    BY DEF Init, Slots
  <2>2. free \in Seq(Slots)
    BY <2>1, <1>b, IsASeq
  <2> QED
    BY <2>1, <2>2, <1>0 DEF Slots, Range
<1>2. \A a \in Procs : \A x : ~Says(a, x)
  <2> SUFFICES ASSUME NEW a \in Procs, NEW x PROVE ~Says(a, x)
    OBVIOUS
  <2>1. inbox[a] = <<>> /\ inbox[a] \in Seq(Messages)
    BY <1>0, <1>a, EmptySeq
  <2> QED
    BY <2>1, FilledIs DEF Says
<1>3. TypeOK
  <2>1. /\ region \in [Procs -> [Slots -> Motions \cup {None}]]
        /\ lastAccessor \in [Slots -> Procs \cup {Dead}]
        /\ mc_id \in [Motions -> Slots \cup {None}]
        /\ known \in [Slots -> Motions \cup {None}]
    BY DEF Init, Nothing
  <2>2. lock \in [Slots -> [by : Procs \cup {None}, n : 0..MaxCalls]]
    BY <1>b DEF Init, Unlocked
  <2>3. inbox \in [Procs -> Seq({AddMotion(m) : m \in Motions} \cup {DeleteMotion(p) : p \in Slots})]
    BY DEF Init
  <2> QED
    BY <1>1, <2>1, <2>2, <2>3 DEF Init, TypeOK
<1>4. \A q : Task(q) = "none"
  BY <1>0 DEF Task, Idle
<1>5. SlotsInv
  BY <1>0, <1>1, <1>4 DEF SlotsInv, FreeSlot
<1>6. MotionsInv
  BY <1>0, <1>2, <1>a DEF MotionsInv, Init
<1>7. RegionsInv
  BY <1>0, <1>a DEF RegionsInv
<1>8. InboxInv
  <2>1. Distinct(free)
    BY <1>0, <1>1 DEF Distinct
  <2>2. \A a \in Procs : Distinct(inbox[a])
    BY <1>0, <1>a DEF Distinct
  <2> QED
    BY <1>0, <2>1, <2>2, <1>a DEF InboxInv
<1>9. PcInv
  <2>1. \A a \in Procs : ~At(a, "receiving", None)
    BY <1>0, <1>a DEF At, Idle
  <2> QED
    BY <2>1, <1>0 DEF PcInv, MainPlace, MotionPlace, IsIdle, Init, Idle, Engaged
<1>10. MainInv
  BY <1>0 DEF MainInv, At, Idle
<1>11. LockInv
  BY <1>0, <1>a DEF LockInv, Unlocked, At, Idle
<1>12. TodoInv
  BY <1>0 DEF TodoInv, Idle
<1> QED
  BY <1>3, <1>5, <1>6, <1>7, <1>8, <1>9, <1>10, <1>11, <1>12 DEF IInv, Parts, Places

\* The invariant speaks of the variables only.
LEMMA StutterInv ==
  ASSUME IInv, UNCHANGED vars
  PROVE  IInv'
<1>0. /\ UNCHANGED <<free, region, lastAccessor, lock, MMlock, inbox, mc_id, started, known, calls, todo, pc>>
      /\ TypeOK /\ Parts /\ PcInv /\ MainInv /\ LockInv /\ TodoInv
  BY DEF vars, table, IInv, Places
<1>1. TypeOK'
  BY <1>0 DEF TypeOK
<1>2. /\ Parts'
      /\ \A q \in Slots : \A m \in Motions : (Alive(q, m) => Alive(q, m)') /\ (Running(q, m) => Running(q, m)')
  BY <1>0, <1>1, CalmStep, TaskStays
<1>3. LockInv' /\ TodoInv'
  BY <1>0, <1>2, LocksStay, MotionWaits DEF At
<1>4. MainInv'
  BY <1>0 DEF MainInv, At, IsFresh, HoldsNothing, Holds, Says, AddMotion
<1>5. PcInv'
  BY <1>0 DEF PcInv, MainPlace, MotionPlace, At, IsIdle, Calling
<1> QED
  BY <1>1, <1>2, <1>3, <1>4, <1>5 DEF IInv, Places

\* Every step of behaviors without bad habits keeps the invariant, as long as there is room
\* for its message and it takes no slot that is still spoken of.
LEMMA NextInv ==
  ASSUME IInv, Habits = {}, NoDrop, ReusedLate, [Next]_vars
  PROVE  IInv'
<1>1. CASE Behavior
  <2>1. CASE BeginHandler \/ EndHandler
    BY <2>1, BeginHandlerInv, EndHandlerInv
  <2>2. CASE \E m \in Motions : CallAdd(m) \/ DoAddMotion(m)
    BY <2>2, CallInv, AddInv
  <2>3. CASE \E p \in Slots : CallRemove(p) \/ RemoveMotion(p)
    BY <2>3, CallInv, RemoveInv
  <2>4. CASE \E p \in Slots : CallCheckout(p) \/ CheckoutMotion(p) \/ CheckinMotion(p)
    BY <2>4, CallInv, CheckoutInv, CheckinInv
  <2> QED
    BY <1>1, <2>1, <2>2, <2>3, <2>4 DEF Behavior
<1>2. CASE Outputs
  <2>1. CASE GetOutputs \/ EndOutputs
    BY <2>1, GetOutputsInv, EndOutputsInv
  <2>2. ASSUME NEW p \in Slots, TryCheckout(p) \/ TryInVain(p) PROVE IInv'
    BY <2>2, TryCheckoutInv, VainInv
  <2>3. ASSUME NEW p \in Slots, UpdateOutputs(p) PROVE IInv'
    BY <2>3, ReleaseInv DEF UpdateOutputs
  <2>4. ASSUME NEW p \in Slots, Prune(p) PROVE IInv'
    BY <2>4, ReleaseInv DEF Prune
  <2>5. ASSUME NEW p \in Slots, RemovePruned(p) PROVE IInv'
    BY <2>5, PruneInv
  <2> QED
    BY <1>2, <2>1, <2>2, <2>3, <2>4, <2>5 DEF Outputs
<1>3. CASE Started \/ Stopped
  BY <1>3, StartInv, StopInv, EndInv DEF Started, Stopped
<1>4. ASSUME NEW a \in Procs, ReceivedMsg(a) \/ ProcessMsg(a) PROVE IInv'
  <2>1. CASE ReceivedMsg(a)
    BY <2>1, ReceivedInv
  <2>2. ASSUME NEW m \in Motions, ReceiveAdd(a, m) PROVE IInv'
    <3>1. a = Main \/ a = Motion
      BY MessagesDiffer
    <3> QED
      BY <2>2, <3>1, MainAddInv, MotionAddInv
  <2>3. ASSUME NEW p \in Slots, IgnoreDelete(a, p) PROVE IInv'
    BY <2>3, IgnoreInv
  <2>4. ASSUME NEW p \in Slots, ReceiveDelete(p) \/ AwaitDelete(p) PROVE IInv'
    BY <2>4, DeleteInv, AwaitInv
  <2> QED
    BY <1>4, <2>1, <2>2, <2>3, <2>4 DEF ProcessMsg
<1>5. CASE UNCHANGED vars
  BY <1>5, StutterInv
<1> QED
  BY <1>1, <1>2, <1>3, <1>4, <1>5 DEF Next

\* From the life of each slot follows what the table promises of it,
LEMMA TableInv ==
  ASSUME IInv
  PROVE  TableIsSound
<1>0. TypeOK /\ SlotsInv /\ InboxInv /\ PcInv /\ LockInv /\ TodoInv
  BY DEF IInv, Places, Parts
<1>a. Main \in Procs /\ Motion \in Procs /\ Procs = {Main, Motion} /\ None \notin Motions
  BY MessagesDiffer
<1>1. HeldIsAttached
  <2> SUFFICES ASSUME NEW p \in Slots, Holds(Main, p)
               PROVE  /\ lastAccessor[p] # Dead /\ known[p] # None /\ region[Main][p] = known[p]
                      /\ \A a \in Procs : DeleteMotion(p) \notin Range(inbox[a])
    BY DEF HeldIsAttached
  <2>1. PICK m \in Motions : Alive(p, m)
    BY <1>0 DEF LockInv, Holds
  <2> QED
    BY <2>1, <1>a DEF Alive, Says
<1>2. UpdatedIsStarted
  <2> SUFFICES ASSUME NEW p \in Slots, At(Motion, "updating", p)
               PROVE  Holds(Motion, p) /\ region[Motion][p] \in started
    BY DEF UpdatedIsStarted
  <2>1. PICK m \in Motions : Running(p, m)
    BY <1>0, AtIs DEF TodoInv
  <2> QED
    BY <2>1, <1>0 DEF Running, LockInv, Holds
<1>3. IdsAreRight
  BY <1>0, <1>a DEF IdsAreRight, SlotsInv, FreeSlot, Used, Taken, Named, Added, Running, Revoked, Ended, Pruned, Alive
<1>4. FreeIsUnused
  <2>1. \A p \in Range(free) : p \in Slots
    BY <1>0, RangeIs DEF TypeOK
  <2>2. \A p \in Range(free) : lastAccessor[p] = Dead /\ \A a \in Procs : region[a][p] = None
    BY <2>1, <1>0, <1>a DEF SlotsInv, FreeSlot
  <2> QED
    BY <2>2, <1>0 DEF FreeIsUnused, InboxInv, Distinct
<1> QED
  BY <1>0, <1>1, <1>2, <1>3, <1>4 DEF TableIsSound

\* that a motion with a slot is running, or is spoken of,
LEMMA ForgottenInv ==
  ASSUME IInv
  PROVE  NothingForgotten
<1>0. TypeOK /\ SlotsInv /\ PcInv
  BY DEF IInv, Places, Parts
<1>a. Main \in Procs /\ Motion \in Procs /\ None \notin Motions
  BY MessagesDiffer
<1>1. \A p \in Used : p \in Slots /\ \E m \in Motions : Taken(p, m)
  BY <1>0 DEF Used, SlotsInv, FreeSlot
<1>2. \A p \in Slots : (Task(p) = "starting" <=> At(Motion, "starting", p))
                       /\ (Task(p) = "stopping" <=> At(Motion, "stopping", p))
                       /\ (Task(p) = "stopped" <=> At(Motion, "stopped", p))
  BY <1>0, TaskIs
<1>3. NoSlotLost
  <2> SUFFICES ASSUME NEW p \in Used, lastAccessor[p] = Dead
               PROVE  \E a \in Procs :
                        /\ DeleteMotion(p) \in Range(inbox[a]) \/ At(a, "stopping", p) \/ At(a, "stopped", p)
                        /\ region[a][p] # None
                           \/ \E m \in Motions : mc_id[m] = p /\ AddMotion(m) \in Range(inbox[a])
    BY DEF NoSlotLost
  <2>1. PICK m \in Motions : Revoked(p, m) \/ Ended(p, m) \/ Pruned(p, m)
    BY <1>1 DEF Taken, Named, Added, Running, Alive
  <2>2. CASE Revoked(p, m)
    <3>1. /\ Says(Motion, DeleteMotion(p)) \/ Task(p) = "stopping"
          /\ region[Motion][p] = m \/ (mc_id[m] = p /\ Says(Motion, AddMotion(m)))
      BY <2>2 DEF Revoked
    <3> QED
      BY <3>1, <1>1, <1>2, <1>a DEF Says
  <2>3. CASE Ended(p, m)
    BY <2>3, <1>1, <1>2, <1>a DEF Ended
  <2>4. CASE Pruned(p, m)
    BY <2>4, <1>a DEF Pruned, Says
  <2> QED
    BY <2>1, <2>2, <2>3, <2>4
<1>4. AddedWillStart
  <2> SUFFICES ASSUME NEW p \in Used, lastAccessor[p] # Dead, region[Main][p] \notin started
               PROVE  \/ \E m \in Motions : mc_id[m] = p /\ AddMotion(m) \in Range(inbox[Motion])
                      \/ At(Motion, "starting", p) \/ At(Motion, "stopped", p)
    BY DEF AddedWillStart
  <2>1. PICK m \in Motions : Added(p, m) \/ Ended(p, m)
    BY <1>1 DEF Taken, Named, Running, Revoked, Pruned, Alive
  <2>2. CASE Added(p, m)
    BY <2>2, <1>1, <1>2 DEF Added, Alive, Says
  <2>3. CASE Ended(p, m)
    BY <2>3, <1>1, <1>2 DEF Ended
  <2> QED
    BY <2>1, <2>2, <2>3
<1> QED
  BY <1>3, <1>4 DEF NothingForgotten

\* and that the region of a motion is Main's as long as behaviors think it is there.
LEMMA GoneInv ==
  ASSUME IInv
  PROVE  \A p \in Slots : region[Main][p] # None => known[p] # None
BY MessagesDiffer DEF IInv, Parts, SlotsInv, FreeSlot, Taken, Named, Added, Running, Revoked, Ended, Pruned, Alive

-----------------------------------------------------------------------------
\* So the invariant holds, as long as there is room and no slot is used again too early.
LEMMA Invariance ==
  ASSUME Habits = {}
  PROVE  Spec /\ []NoDrop /\ []ReusedLate => []IInv
<1>1. Init => IInv
  BY InitInv
<1>2. IInv /\ NoDrop /\ ReusedLate /\ [Next]_vars => IInv'
  BY NextInv
<1> QED
  BY <1>1, <1>2, PTL DEF Spec

\* Whatever the number of motions, then, the table is sound while messages find room and slots
\* are used late,
LEMMA TableWhenOrderly ==
  ASSUME Habits = {}
  PROVE  Spec /\ []NoDrop /\ []ReusedLate => []TableIsSound
<1>1. IInv => TableIsSound
  BY TableInv
<1> QED
  BY <1>1, Invariance, PTL

\* and no motion and no slot is forgotten,
LEMMA NothingForgottenWhenOrderly ==
  ASSUME Habits = {}
  PROVE  Spec /\ []NoDrop /\ []ReusedLate => []NothingForgotten
<1>1. IInv => NothingForgotten
  BY ForgottenInv
<1> QED
  BY <1>1, Invariance, PTL

\* and behaviors hear of each removal before Main lets go of the region.
LEMMA ToldOnceWhenOrderly ==
  ASSUME Habits = {}
  PROVE  Spec /\ []NoDrop /\ []ReusedLate => GoneIsToldOnce
<1>1. IInv => \A p \in Slots : region[Main][p] # None /\ region'[Main][p] = None => known[p] # None
  BY GoneInv
<1> QED
  BY <1>1, Invariance, PTL DEF GoneIsToldOnce

-----------------------------------------------------------------------------
(***************************************************************************)
(* When there is room: no more motions than there are slots for twice, and *)
(* a queue that holds three messages for each.  Then the queue is never    *)
(* full, and a slot that was given up goes to the end of the free ones,    *)
(* where it stays until all have heard that it was: before its turn comes, *)
(* each motion was added since, and waits to be heard of.                  *)
(***************************************************************************)
Room ==
  /\ IsFiniteSet(Motions)
  /\ 2 * Cardinality(Motions) <= MaxMotions /\ 3 * Cardinality(Motions) < QueueLen

\* What a sequence holds from place i on
From(s, i) == {s[j] : j \in {k \in DOMAIN s : i <= k}}

AddsFrom(a, i) == {m \in Motions : AddMotion(m) \in From(inbox[a], i)}
GivenUp(a, i) == {p \in Range(free) : DeleteMotion(p) \in From(inbox[a], i)}

\* More motions were added since slot free[k] was given up than the k - 1 slots before it
\* leave motions to add.
ReuseInv ==
  \A a \in Procs : \A i \in DOMAIN inbox[a], k \in DOMAIN free :
    inbox[a][i] = DeleteMotion(free[k]) => Cardinality(Motions) < k + Cardinality(AddsFrom(a, i))

\* The slots in use, and those given up since a message was sent, are no more than the
\* motions there are and those added since.
QuotaInv ==
  \A a \in Procs : \A i \in DOMAIN inbox[a] :
    Cardinality(GivenUp(a, i)) + MaxMotions
      <= Cardinality(Motions) + Cardinality(AddsFrom(a, i)) + Len(free)

\* What is appended is there from every place on,
LEMMA FromAppend ==
  ASSUME NEW S, NEW s \in Seq(S), NEW x \in S
  PROVE  /\ DOMAIN Append(s, x) = 1 .. Len(s) + 1 /\ Len(s) \in Nat /\ DOMAIN s = 1 .. Len(s)
         /\ \A i \in 1 .. Len(s) : /\ Append(s, x)[i] = s[i]
                                   /\ From(Append(s, x), i) = From(s, i) \cup {x}
         /\ Append(s, x)[Len(s) + 1] = x /\ From(Append(s, x), Len(s) + 1) = {x}
<1> DEFINE t == Append(s, x)
<1>1. /\ t \in Seq(S) /\ Len(t) = Len(s) + 1 /\ t[Len(s) + 1] = x
      /\ \A i \in 1 .. Len(s) : t[i] = s[i]
  BY AppendProperties
<1>2. DOMAIN t = 1 .. Len(s) + 1 /\ Len(s) \in Nat /\ DOMAIN s = 1 .. Len(s)
  BY <1>1, LenProperties
<1> HIDE DEF t
<1>3. \A i \in 1 .. Len(s) + 1 : i \in 1 .. Len(s) \/ i = Len(s) + 1
  BY <1>2
<1>4. \A i \in 1 .. Len(s) : i \in 1 .. Len(s) + 1 /\ i <= Len(s) + 1 /\ ~(Len(s) + 1 <= i)
  BY <1>2
<1>5. Len(s) + 1 \in 1 .. Len(s) + 1 /\ Len(s) + 1 <= Len(s) + 1
  BY <1>2
<1>6. ASSUME NEW i \in 1 .. Len(s) PROVE From(t, i) = From(s, i) \cup {x}
  BY <1>1, <1>2, <1>3, <1>4, <1>5 DEF From
<1>7. From(t, Len(s) + 1) = {x}
  BY <1>1, <1>2, <1>3, <1>4, <1>5 DEF From
<1> QED
  BY <1>1, <1>2, <1>6, <1>7 DEF t

\* and the rest holds from a place what the whole did from the next.
LEMMA FromTail ==
  ASSUME NEW S, NEW s \in Seq(S), s # <<>>
  PROVE  /\ Len(s) \in Nat \ {0} /\ DOMAIN s = 1 .. Len(s) /\ DOMAIN Tail(s) = 1 .. Len(s) - 1
         /\ \A i \in 1 .. Len(s) - 1 : /\ i + 1 \in DOMAIN s /\ Tail(s)[i] = s[i + 1]
                                       /\ From(Tail(s), i) = From(s, i + 1)
         /\ Len(Tail(s)) = Len(s) - 1
<1> DEFINE t == Tail(s)
<1>1. /\ t \in Seq(S) /\ Len(t) = Len(s) - 1 /\ \A i \in 1 .. Len(t) : t[i] = s[i + 1]
      /\ Len(s) \in Nat \ {0} /\ DOMAIN s = 1 .. Len(s)
  <2>1. Len(s) \in Nat /\ Len(s) # 0 /\ DOMAIN s = 1 .. Len(s)
    BY EmptySeq, LenProperties
  <2> QED
    BY <2>1, HeadTailProperties
<1> HIDE DEF t
<1>2. DOMAIN t = 1 .. Len(s) - 1
  BY <1>1, LenProperties
<1>3. \A i \in 1 .. Len(s) - 1 : i + 1 \in 1 .. Len(s) /\ t[i] = s[i + 1]
  BY <1>1
<1>4. ASSUME NEW i \in 1 .. Len(s) - 1 PROVE From(t, i) = From(s, i + 1)
  <2>1. \A x : x \in From(t, i) => x \in From(s, i + 1)
    <3> SUFFICES ASSUME NEW j \in 1 .. Len(s) - 1, i <= j PROVE t[j] \in From(s, i + 1)
      BY <1>2 DEF From
    <3>1. i + 1 <= j + 1 /\ j + 1 \in 1 .. Len(s) /\ t[j] = s[j + 1]
      BY <1>1, <1>3
    <3> QED
      BY <3>1, <1>1 DEF From
  <2>2. \A x : x \in From(s, i + 1) => x \in From(t, i)
    <3> SUFFICES ASSUME NEW j \in 1 .. Len(s), i + 1 <= j PROVE s[j] \in From(t, i)
      BY <1>1 DEF From
    <3>1. j - 1 \in 1 .. Len(s) - 1 /\ i <= j - 1 /\ (j - 1) + 1 = j
      BY <1>1
    <3>2. t[j - 1] = s[j]
      BY <3>1, <1>3
    <3> QED
      BY <3>1, <3>2, <1>2 DEF From
  <2> QED
    BY <2>1, <2>2
<1> QED
  BY <1>1, <1>2, <1>3, <1>4 DEF t

\* A sequence without repetition is as long as the set of what it holds.
LEMMA LengthIs ==
  ASSUME NEW S, NEW s \in Seq(S), Distinct(s)
  PROVE  IsFiniteSet(Range(s)) /\ Cardinality(Range(s)) = Len(s)
<1>1. DOMAIN s = 1 .. Len(s) /\ Len(s) \in Nat /\ \A x : x \in Range(s) <=> \E i \in 1 .. Len(s) : s[i] = x
  BY RangeIs
<1>2. s \in [1 .. Len(s) -> Range(s)]
  <2>1. s = [i \in 1 .. Len(s) |-> s[i]]
    BY <1>1, LenProperties
  <2> QED
    BY <2>1, <1>1
<1>3. s \in Bijection(1 .. Len(s), Range(s))
  BY <1>1, <1>2 DEF Bijection, Injection, Surjection, IsInjective, Distinct
<1>4. ExistsBijection(1 .. Len(s), Range(s))
  BY <1>3 DEF ExistsBijection
<1>5. IsFiniteSet(1 .. Len(s)) /\ Cardinality(1 .. Len(s)) = Len(s)
  BY <1>1, FS_Interval
<1> QED
  BY <1>4, <1>5, FS_Bijection

\* The slots in use are no more than the motions.
LEMMA UsedIs ==
  ASSUME IInv, IsFiniteSet(Motions)
  PROVE  /\ IsFiniteSet(Used) /\ Cardinality(Used) = MaxMotions - Len(free)
         /\ Cardinality(Used) <= Cardinality(Motions) /\ Cardinality(Motions) \in Nat
         /\ Len(free) \in Nat
<1>0. TypeOK /\ SlotsInv /\ MotionsInv /\ RegionsInv /\ InboxInv
  BY DEF IInv, Parts
<1>1. free \in Seq(Slots) /\ Range(free) \subseteq Slots /\ Len(free) \in Nat /\ MaxMotions \in Nat
  BY <1>0, RangeIs, SizesAssumption DEF TypeOK
<1>2. IsFiniteSet(Slots) /\ Cardinality(Slots) = MaxMotions
  BY <1>1, FS_Interval DEF Slots
<1>3. IsFiniteSet(Range(free)) /\ Cardinality(Range(free)) = Len(free)
  BY <1>0, <1>1, LengthIs DEF InboxInv
<1>4. IsFiniteSet(Used) /\ Cardinality(Used) = MaxMotions - Len(free)
  <2>1. Slots \cap Range(free) = Range(free)
    BY <1>1
  <2>2. /\ IsFiniteSet(Slots \ Range(free))
        /\ Cardinality(Slots \ Range(free)) = Cardinality(Slots) - Cardinality(Slots \cap Range(free))
    BY <1>2, FS_Difference
  <2> QED
    BY <2>1, <2>2, <1>2, <1>3 DEF Used
<1>5. Cardinality(Used) <= Cardinality(Motions)
  <2> DEFINE of == [p \in Used |-> CHOOSE m \in Motions : Taken(p, m)]
  <2>1. \A p \in Used : p \in Slots /\ of[p] \in Motions /\ Taken(p, of[p])
    <3> SUFFICES ASSUME NEW p \in Used PROVE p \in Slots /\ of[p] \in Motions /\ Taken(p, of[p])
      OBVIOUS
    <3>1. p \in Slots /\ \E m \in Motions : Taken(p, m)
      BY <1>0 DEF Used, SlotsInv, FreeSlot
    <3> QED
      BY <3>1
  <2> HIDE DEF of
  <2>2. of \in [Used -> Motions] /\ DOMAIN of = Used
    BY <2>1 DEF of
  <2>3. ASSUME NEW p \in Used, NEW q \in Used, of[p] = of[q] PROVE p = q
    BY <2>1, <2>3, <1>0, OneSlot
  <2>4. of \in Injection(Used, Motions)
    BY <2>2, <2>3 DEF Injection, IsInjective
  <2> QED
    BY <2>4, FS_Injection
<1> QED
  BY <1>1, <1>4, <1>5, FS_CardinalityType

\* Nothing new is told; the first message may be gone.
Shorter ==
  \A a \in Procs : \A i \in DOMAIN inbox'[a] : \E j \in DOMAIN inbox[a] :
    inbox'[a][i] = inbox[a][j] /\ From(inbox'[a], i) = From(inbox[a], j)

\* Processing a message makes no inbox longer.
LEMMA ShorterIs ==
  ASSUME TypeOK, PcInv
  PROVE  /\ inbox' = inbox => Shorter
         /\ \A a \in Procs : \A msg : Processes(a, msg) => Shorter
<1>1. inbox' = inbox => Shorter
  BY DEF Shorter
<1>2. ASSUME NEW a \in Procs, NEW msg, Processes(a, msg) PROVE Shorter
  <2>1. inbox' = [inbox EXCEPT ![a] = Tail(@)] /\ inbox \in [Procs -> Seq(Messages)] /\ inbox[a] # <<>>
    BY <1>2 DEF Processes, PcInv, TypeOK, Messages
  <2>2. inbox'[a] = Tail(inbox[a]) /\ inbox[a] \in Seq(Messages)
        /\ \A b \in Procs : b # a => inbox'[b] = inbox[b]
    BY <2>1
  <2>3. \A i \in DOMAIN Tail(inbox[a]) : \E j \in DOMAIN inbox[a] :
          Tail(inbox[a])[i] = inbox[a][j] /\ From(Tail(inbox[a]), i) = From(inbox[a], j)
    BY <2>1, <2>2, FromTail
  <2>4. ASSUME NEW b \in Procs, NEW i \in DOMAIN inbox'[b]
        PROVE  \E j \in DOMAIN inbox[b] :
                 inbox'[b][i] = inbox[b][j] /\ From(inbox'[b], i) = From(inbox[b], j)
    <3>1. CASE b = a
      BY <3>1, <2>2, <2>3
    <3>2. CASE b # a
      BY <3>2, <2>2
    <3> QED
      BY <3>1, <3>2
  <2> QED
    BY <2>4 DEF Shorter
<1> QED
  BY <1>1, <1>2

\* The motions and slots that a message is followed by can be counted.
LEMMA SetsAreFinite ==
  ASSUME TypeOK, IsFiniteSet(Motions), NEW a \in Procs, NEW i
  PROVE  /\ IsFiniteSet(AddsFrom(a, i)) /\ Cardinality(AddsFrom(a, i)) \in Nat
         /\ IsFiniteSet(GivenUp(a, i)) /\ Cardinality(GivenUp(a, i)) \in Nat
<1>1. AddsFrom(a, i) \in SUBSET Motions
  BY DEF AddsFrom
<1>2. GivenUp(a, i) \in SUBSET Slots
  BY RangeIs DEF GivenUp, TypeOK
<1>3. IsFiniteSet(Slots)
  BY SizesAssumption, FS_Interval DEF Slots
<1>4. IsFiniteSet(AddsFrom(a, i)) /\ IsFiniteSet(GivenUp(a, i))
  BY <1>1, <1>2, <1>3, FS_Subset
<1> QED
  BY <1>4, FS_CardinalityType

\* Nothing is sent, and no slot is freed or taken.
LEMMA RoomKept ==
  ASSUME TypeOK, ReuseInv, QuotaInv, free' = free, Shorter
  PROVE  ReuseInv' /\ QuotaInv'
<1> SUFFICES ASSUME NEW a \in Procs, NEW i \in DOMAIN inbox'[a]
             PROVE  /\ \A k \in DOMAIN free' :
                         inbox'[a][i] = DeleteMotion(free'[k])
                           => Cardinality(Motions) < k + Cardinality(AddsFrom(a, i)')
                    /\ Cardinality(GivenUp(a, i)') + MaxMotions
                         <= Cardinality(Motions) + Cardinality(AddsFrom(a, i)') + Len(free')
  BY DEF ReuseInv, QuotaInv
<1>1. PICK j \in DOMAIN inbox[a] : inbox'[a][i] = inbox[a][j] /\ From(inbox'[a], i) = From(inbox[a], j)
  BY DEF Shorter
<1>2. AddsFrom(a, i)' = AddsFrom(a, j) /\ GivenUp(a, i)' = GivenUp(a, j)
  BY <1>1 DEF AddsFrom, GivenUp
<1> QED
  BY <1>1, <1>2 DEF ReuseInv, QuotaInv

\* A slot is freed: it comes last.
LEMMA RoomFreed ==
  ASSUME IInv, Room, ReuseInv, QuotaInv,
         NEW p \in Slots, p \notin Range(free), free' = Append(free, p), Shorter
  PROVE  ReuseInv' /\ QuotaInv'
<1>0. TypeOK /\ free \in Seq(Slots) /\ IsFiniteSet(Motions)
  BY DEF IInv, TypeOK, Room
<1>1. /\ DOMAIN free = 1 .. Len(free) /\ DOMAIN free' = 1 .. Len(free) + 1 /\ Len(free) \in Nat
      /\ \A k \in DOMAIN free : free'[k] = free[k]
      /\ Len(free') = Len(free) + 1
      /\ \A q : q \in Range(free') <=> q \in Range(free) \/ q = p
  <2>1. Len(Append(free, p)) = Len(free) + 1
    BY <1>0, AppendProperties
  <2> QED
    BY <2>1, <1>0, FromAppend, AppendIs
<1>2. Cardinality(Motions) < Len(free) + 1 /\ Cardinality(Motions) \in Nat /\ MaxMotions \in Nat
  <2>1. /\ Cardinality(Used) = MaxMotions - Len(free) /\ Cardinality(Used) <= Cardinality(Motions)
        /\ Cardinality(Motions) \in Nat
    BY <1>0, UsedIs
  <2> QED
    BY <2>1, <1>1, SizesAssumption DEF Room
<1> SUFFICES ASSUME NEW a \in Procs, NEW i \in DOMAIN inbox'[a]
             PROVE  /\ \A k \in DOMAIN free' :
                         inbox'[a][i] = DeleteMotion(free'[k])
                           => Cardinality(Motions) < k + Cardinality(AddsFrom(a, i)')
                    /\ Cardinality(GivenUp(a, i)') + MaxMotions
                         <= Cardinality(Motions) + Cardinality(AddsFrom(a, i)') + Len(free')
  BY DEF ReuseInv, QuotaInv
<1>3. PICK j \in DOMAIN inbox[a] : inbox'[a][i] = inbox[a][j] /\ From(inbox'[a], i) = From(inbox[a], j)
  BY DEF Shorter
<1>4. /\ AddsFrom(a, i)' = AddsFrom(a, j) /\ Cardinality(AddsFrom(a, j)) \in Nat
      /\ IsFiniteSet(GivenUp(a, j)) /\ Cardinality(GivenUp(a, j)) \in Nat
  BY <1>0, <1>3, SetsAreFinite DEF AddsFrom
<1>5. Cardinality(GivenUp(a, i)') \in Nat /\ Cardinality(GivenUp(a, i)') <= Cardinality(GivenUp(a, j)) + 1
  <2>1. GivenUp(a, i)' \in SUBSET (GivenUp(a, j) \cup {p})
    BY <1>1, <1>3 DEF GivenUp
  <2>2. /\ IsFiniteSet(GivenUp(a, j) \cup {p})
        /\ Cardinality(GivenUp(a, j) \cup {p}) <= Cardinality(GivenUp(a, j)) + 1
        /\ Cardinality(GivenUp(a, j) \cup {p}) \in Nat
    <3>1. /\ IsFiniteSet(GivenUp(a, j) \cup {p})
          /\ Cardinality(GivenUp(a, j) \cup {p})
               = IF p \in GivenUp(a, j) THEN Cardinality(GivenUp(a, j)) ELSE Cardinality(GivenUp(a, j)) + 1
      BY <1>4, FS_AddElement
    <3> QED
      BY <3>1, <1>4
  <2>3. IsFiniteSet(GivenUp(a, i)') /\ Cardinality(GivenUp(a, i)') <= Cardinality(GivenUp(a, j) \cup {p})
    BY <2>1, <2>2, FS_Subset
  <2>4. Cardinality(GivenUp(a, i)') \in Nat
    BY <2>3, FS_CardinalityType
  <2> QED
    BY <2>2, <2>3, <2>4, <1>4
<1>6. ASSUME NEW k \in DOMAIN free', inbox'[a][i] = DeleteMotion(free'[k])
      PROVE  Cardinality(Motions) < k + Cardinality(AddsFrom(a, i)')
  <2>1. CASE k \in DOMAIN free
    BY <2>1, <1>1, <1>3, <1>4, <1>6 DEF ReuseInv
  <2>2. CASE k = Len(free) + 1
    BY <2>2, <1>1, <1>2, <1>4
  <2> QED
    BY <2>1, <2>2, <1>1
<1>7. Cardinality(GivenUp(a, j)) + MaxMotions
        <= Cardinality(Motions) + Cardinality(AddsFrom(a, j)) + Len(free)
  BY DEF QuotaInv
<1> QED
  BY <1>1, <1>2, <1>4, <1>5, <1>6, <1>7

\* A slot that is in use is given up, and all are told.
LEMMA RoomSent ==
  ASSUME IInv, NoDrop, Room, ReuseInv, QuotaInv,
         NEW p \in Slots, p \notin Range(free), free' = free, Send(DeleteMotion(p))
  PROVE  ReuseInv' /\ QuotaInv'
<1>0. TypeOK /\ free \in Seq(Slots) /\ IsFiniteSet(Motions) /\ DeleteMotion(p) \in Messages
  BY MessagesDiffer DEF IInv, TypeOK, Room
<1>1. \A q : DeleteMotion(q) = DeleteMotion(p) => q = p
  BY MessagesDiffer
<1>2. \A k \in DOMAIN free : free[k] # p
  BY DEF Range
<1> SUFFICES ASSUME NEW a \in Procs, NEW i \in DOMAIN inbox'[a]
             PROVE  /\ \A k \in DOMAIN free' :
                         inbox'[a][i] = DeleteMotion(free'[k])
                           => Cardinality(Motions) < k + Cardinality(AddsFrom(a, i)')
                    /\ Cardinality(GivenUp(a, i)') + MaxMotions
                         <= Cardinality(Motions) + Cardinality(AddsFrom(a, i)') + Len(free')
  BY DEF ReuseInv, QuotaInv
<1>3. inbox'[a] = Append(inbox[a], DeleteMotion(p)) /\ inbox[a] \in Seq(Messages)
  <2>1. inbox' = [b \in Procs |-> Append(inbox[b], DeleteMotion(p))]
    BY <1>0, AllGetIt
  <2> QED
    BY <2>1, <1>0, NoneIsNotTold
<1>4. /\ DOMAIN inbox'[a] = 1 .. Len(inbox[a]) + 1 /\ Len(inbox[a]) \in Nat
      /\ DOMAIN inbox[a] = 1 .. Len(inbox[a])
      /\ \A j \in 1 .. Len(inbox[a]) : /\ inbox'[a][j] = inbox[a][j]
                                       /\ From(inbox'[a], j) = From(inbox[a], j) \cup {DeleteMotion(p)}
      /\ inbox'[a][Len(inbox[a]) + 1] = DeleteMotion(p)
      /\ From(inbox'[a], Len(inbox[a]) + 1) = {DeleteMotion(p)}
  BY <1>0, <1>3, FromAppend
<1>5. CASE i \in DOMAIN inbox[a]
  <2>1. inbox'[a][i] = inbox[a][i] /\ From(inbox'[a], i) = From(inbox[a], i) \cup {DeleteMotion(p)}
    BY <1>4, <1>5
  <2>2. AddsFrom(a, i)' = AddsFrom(a, i)
    BY <2>1, MessagesDiffer DEF AddsFrom
  <2>3. GivenUp(a, i)' = GivenUp(a, i)
    BY <2>1, <1>1 DEF GivenUp
  <2> QED
    BY <2>1, <2>2, <2>3, <1>5 DEF ReuseInv, QuotaInv
<1>6. CASE i = Len(inbox[a]) + 1
  <2>1. inbox'[a][i] = DeleteMotion(p) /\ From(inbox'[a], i) = {DeleteMotion(p)}
    BY <1>4, <1>6
  <2>2. AddsFrom(a, i)' = {}
    BY <2>1, MessagesDiffer DEF AddsFrom
  <2>3. GivenUp(a, i)' = {}
    BY <2>1, <1>1 DEF GivenUp
  <2>4. Cardinality({}) = 0
    BY FS_EmptySet
  <2>5. MaxMotions - Len(free) <= Cardinality(Motions) /\ Cardinality(Motions) \in Nat
        /\ Len(free) \in Nat /\ MaxMotions \in Nat
    BY <1>0, UsedIs, SizesAssumption
  <2>6. \A k \in DOMAIN free' : inbox'[a][i] # DeleteMotion(free'[k])
    BY <2>1, <1>1, <1>2
  <2>7. Cardinality(GivenUp(a, i)') = 0 /\ Cardinality(AddsFrom(a, i)') = 0
    BY <2>2, <2>3, <2>4
  <2> QED
    BY <2>5, <2>6, <2>7
<1> QED
  BY <1>4, <1>5, <1>6

\* A fresh motion is added to the first slot.
LEMMA RoomAdded ==
  ASSUME IInv, NoDrop, Room, ReuseInv, QuotaInv, NEW m \in Motions, IsFresh(m),
         free # <<>>, free' = Tail(free), Send(AddMotion(m))
  PROVE  ReuseInv' /\ QuotaInv'
<1>0. TypeOK /\ free \in Seq(Slots) /\ IsFiniteSet(Motions) /\ AddMotion(m) \in Messages /\ Distinct(free)
  BY MessagesDiffer DEF IInv, TypeOK, Room, Parts, InboxInv
<1>1. \A n : AddMotion(n) = AddMotion(m) => n = m
  BY MessagesDiffer
<1>2. /\ DOMAIN free = 1 .. Len(free) /\ DOMAIN free' = 1 .. Len(free) - 1 /\ Len(free) \in Nat \ {0}
      /\ \A k \in 1 .. Len(free) - 1 : k + 1 \in DOMAIN free /\ free'[k] = free[k + 1]
      /\ Len(free') = Len(free) - 1 /\ \A q \in Range(free') : q \in Range(free)
  BY <1>0, FromTail, TailIs
<1> SUFFICES ASSUME NEW a \in Procs, NEW i \in DOMAIN inbox'[a]
             PROVE  /\ \A k \in DOMAIN free' :
                         inbox'[a][i] = DeleteMotion(free'[k])
                           => Cardinality(Motions) < k + Cardinality(AddsFrom(a, i)')
                    /\ Cardinality(GivenUp(a, i)') + MaxMotions
                         <= Cardinality(Motions) + Cardinality(AddsFrom(a, i)') + Len(free')
  BY DEF ReuseInv, QuotaInv
<1>3. inbox'[a] = Append(inbox[a], AddMotion(m)) /\ inbox[a] \in Seq(Messages)
  <2>1. inbox' = [b \in Procs |-> Append(inbox[b], AddMotion(m))]
    BY <1>0, AllGetIt
  <2> QED
    BY <2>1, <1>0, NoneIsNotTold
<1>4. /\ DOMAIN inbox'[a] = 1 .. Len(inbox[a]) + 1 /\ Len(inbox[a]) \in Nat
      /\ DOMAIN inbox[a] = 1 .. Len(inbox[a])
      /\ \A j \in 1 .. Len(inbox[a]) : /\ inbox'[a][j] = inbox[a][j]
                                       /\ From(inbox'[a], j) = From(inbox[a], j) \cup {AddMotion(m)}
      /\ inbox'[a][Len(inbox[a]) + 1] = AddMotion(m)
      /\ From(inbox'[a], Len(inbox[a]) + 1) = {AddMotion(m)}
  BY <1>0, <1>3, FromAppend
<1>5. /\ Cardinality(Motions) \in Nat /\ MaxMotions \in Nat
      /\ MaxMotions - Len(free) <= Cardinality(Motions)
  BY <1>0, UsedIs, SizesAssumption
<1>6. CASE i \in DOMAIN inbox[a]
  <2>1. inbox'[a][i] = inbox[a][i] /\ From(inbox'[a], i) = From(inbox[a], i) \cup {AddMotion(m)}
    BY <1>4, <1>6
  <2>2. AddsFrom(a, i)' = AddsFrom(a, i) \cup {m}
    BY <2>1, <1>1 DEF AddsFrom
  <2>3. m \notin AddsFrom(a, i)
    BY DEF AddsFrom, From, IsFresh, Range
  <2>4. /\ IsFiniteSet(AddsFrom(a, i)) /\ Cardinality(AddsFrom(a, i)) \in Nat
        /\ IsFiniteSet(GivenUp(a, i)) /\ Cardinality(GivenUp(a, i)) \in Nat
    BY <1>0, SetsAreFinite
  <2>5. Cardinality(AddsFrom(a, i)') = Cardinality(AddsFrom(a, i)) + 1
    BY <2>2, <2>3, <2>4, FS_AddElement
  <2>6. Cardinality(GivenUp(a, i)') \in Nat /\ Cardinality(GivenUp(a, i)') <= Cardinality(GivenUp(a, i))
    <3>1. GivenUp(a, i)' \in SUBSET GivenUp(a, i)
      BY <2>1, <1>2, MessagesDiffer DEF GivenUp
    <3>2. IsFiniteSet(GivenUp(a, i)') /\ Cardinality(GivenUp(a, i)') <= Cardinality(GivenUp(a, i))
      BY <3>1, <2>4, FS_Subset
    <3> QED
      BY <3>2, FS_CardinalityType
  <2>7. ASSUME NEW k \in DOMAIN free', inbox'[a][i] = DeleteMotion(free'[k])
        PROVE  Cardinality(Motions) < k + Cardinality(AddsFrom(a, i)')
    <3>1. k + 1 \in DOMAIN free /\ inbox[a][i] = DeleteMotion(free[k + 1]) /\ k \in Nat
      BY <2>1, <2>7, <1>2
    <3>2. Cardinality(Motions) < (k + 1) + Cardinality(AddsFrom(a, i))
      BY <3>1, <1>6 DEF ReuseInv
    <3> QED
      BY <3>1, <3>2, <2>4, <2>5, <1>5
  <2>8. Cardinality(GivenUp(a, i)) + MaxMotions
          <= Cardinality(Motions) + Cardinality(AddsFrom(a, i)) + Len(free)
    BY <1>6 DEF QuotaInv
  <2> QED
    BY <2>4, <2>5, <2>6, <2>7, <2>8, <1>2, <1>5
<1>7. CASE i = Len(inbox[a]) + 1
  <2>1. inbox'[a][i] = AddMotion(m) /\ From(inbox'[a], i) = {AddMotion(m)}
    BY <1>4, <1>7
  <2>2. AddsFrom(a, i)' = {m}
    BY <2>1, <1>1 DEF AddsFrom
  <2>3. GivenUp(a, i)' = {}
    BY <2>1, MessagesDiffer DEF GivenUp
  <2>4. Cardinality(GivenUp(a, i)') = 0 /\ Cardinality(AddsFrom(a, i)') = 1
    BY <2>2, <2>3, FS_EmptySet, FS_Singleton
  <2>5. \A k \in DOMAIN free' : inbox'[a][i] # DeleteMotion(free'[k])
    BY <2>1, MessagesDiffer
  <2> QED
    BY <2>4, <2>5, <1>2, <1>5
<1> QED
  BY <1>4, <1>6, <1>7

\* There are but these four kinds of step.
LEMMA StepKinds ==
  ASSUME IInv, [Next]_vars
  PROVE  \/ free' = free /\ Shorter
         \/ \E p \in Slots : p \notin Range(free) /\ free' = Append(free, p) /\ Shorter
         \/ \E p \in Slots : p \notin Range(free) /\ free' = free /\ Send(DeleteMotion(p))
         \/ \E m \in Motions : IsFresh(m) /\ free # <<>> /\ free' = Tail(free) /\ Send(AddMotion(m))
<1>0. TypeOK /\ PcInv /\ SlotsInv /\ MainInv /\ TodoInv
  BY DEF IInv, Places, Parts
<1>a. Main \in Procs /\ Motion \in Procs /\ None \notin Motions
  BY MessagesDiffer
<1>1. inbox' = inbox => Shorter
  BY <1>0, ShorterIs
<1>2. \A a \in Procs : \A msg : Processes(a, msg) => Shorter
  BY <1>0, ShorterIs
<1>3. \A p \in Slots : lastAccessor[p] # Dead \/ region[Main][p] # None \/ region[Motion][p] # None
                       \/ Task(p) # "none" => p \notin Range(free)
  BY <1>0 DEF SlotsInv, FreeSlot
<1>4. CASE Behavior
  <2>1. CASE BeginHandler \/ EndHandler
    BY <2>1, <1>1 DEF BeginHandler, EndHandler, table
  <2>2. ASSUME NEW m \in Motions, CallAdd(m) \/ DoAddMotion(m)
        PROVE  \/ free' = free /\ Shorter
               \/ IsFresh(m) /\ free # <<>> /\ free' = Tail(free) /\ Send(AddMotion(m))
    <3>1. CASE CallAdd(m)
      BY <3>1, <1>1 DEF CallAdd, Calls, table
    <3>2. CASE DoAddMotion(m) /\ UNCHANGED <<table, inbox, mc_id, known>>
      BY <3>2, <1>1 DEF table
    <3>3. CASE DoAddMotion(m) /\ ~UNCHANGED <<table, inbox, mc_id, known>>
      BY <3>3, <1>0 DEF DoAddMotion, MainInv
    <3> QED
      BY <2>2, <3>1, <3>2, <3>3
  <2>3. ASSUME NEW p \in Slots, CallRemove(p) \/ RemoveMotion(p)
        PROVE  \/ free' = free /\ Shorter
               \/ p \notin Range(free) /\ free' = free /\ Send(DeleteMotion(p))
    <3>1. CASE CallRemove(p)
      BY <3>1, <1>1 DEF CallRemove, Calls, table
    <3>2. CASE RemoveMotion(p) /\ ~IsAttached(Main, p)
      BY <3>2, <1>1 DEF RemoveMotion, table
    <3>3. CASE RemoveMotion(p) /\ IsAttached(Main, p)
      BY <3>3, <1>3 DEF RemoveMotion, Removed, IsAttached
    <3> QED
      BY <2>3, <3>1, <3>2, <3>3
  <2>4. ASSUME NEW p \in Slots, CallCheckout(p) \/ CheckoutMotion(p) \/ CheckinMotion(p)
        PROVE  free' = free /\ Shorter
    BY <2>4, <1>1 DEF CallCheckout, Calls, CheckoutMotion, CheckinMotion, table
  <2> QED
    BY <1>4, <2>1, <2>2, <2>3, <2>4 DEF Behavior
<1>5. CASE Outputs
  <2>1. CASE GetOutputs \/ EndOutputs
    BY <2>1, <1>1 DEF GetOutputs, EndOutputs, table
  <2>2. ASSUME NEW p \in Slots, TryCheckout(p) \/ TryInVain(p) \/ UpdateOutputs(p) \/ Prune(p)
        PROVE  free' = free /\ Shorter
    BY <2>2, <1>1 DEF TryCheckout, TryInVain, UpdateOutputs, Prune, table
  <2>3. ASSUME NEW p \in Slots, RemovePruned(p)
        PROVE  p \notin Range(free) /\ free' = free /\ Send(DeleteMotion(p))
    <3>1. \E m \in Motions : Running(p, m)
      BY <2>3, <1>0, AtIs DEF RemovePruned, TodoInv
    <3>2. p \notin Range(free)
      BY <3>1, <1>3 DEF Running, Alive
    <3> QED
      BY <2>3, <3>2 DEF RemovePruned, Removed
  <2> QED
    BY <1>5, <2>1, <2>2, <2>3 DEF Outputs
<1>6. ASSUME NEW a \in Procs, NEW p \in Slots, p \notin Range(free), LetGo(a, p), Shorter
      PROVE  \/ free' = free /\ Shorter
             \/ p \notin Range(free) /\ free' = Append(free, p) /\ Shorter
  BY <1>6 DEF LetGo
<1>7. CASE Started \/ Stopped
  <2>1. ASSUME NEW p \in Slots, DoStart(p) \/ StopDeleted(p) PROVE free' = free /\ Shorter
    BY <2>1, <1>1 DEF DoStart, StopDeleted
  <2>2. ASSUME NEW p \in Slots, EndDelete(p)
        PROVE  p \notin Range(free) /\ LetGo(Motion, p) /\ Shorter
    <3>1. Task(p) = "stopped"
      BY <2>2, <1>0, TaskIs DEF EndDelete
    <3> QED
      BY <2>2, <3>1, <1>1, <1>3 DEF EndDelete
  <2> QED
    BY <1>7, <2>1, <2>2, <1>6, <1>a DEF Started, Stopped
<1>8. ASSUME NEW a \in Procs, ReceivedMsg(a) \/ ProcessMsg(a)
      PROVE  \/ free' = free /\ Shorter
             \/ \E p \in Slots : p \notin Range(free) /\ free' = Append(free, p) /\ Shorter
  <2>1. CASE ReceivedMsg(a)
    BY <2>1, <1>1 DEF ReceivedMsg, table
  <2>2. ASSUME NEW m \in Motions, ReceiveAdd(a, m) PROVE free' = free /\ Shorter
    BY <2>2, <1>2 DEF ReceiveAdd
  <2>3. ASSUME NEW p \in Slots, IgnoreDelete(a, p) PROVE free' = free /\ Shorter
    BY <2>3, <1>2 DEF IgnoreDelete, table
  <2>4. ASSUME NEW p \in Slots, ReceiveDelete(p)
        PROVE  p \notin Range(free) /\ LetGo(Main, p) /\ Shorter
    BY <2>4, <1>2, <1>3, <1>a DEF ReceiveDelete
  <2>5. ASSUME NEW p \in Slots, AwaitDelete(p) PROVE free' = free /\ Shorter
    BY <2>5, <1>2, <1>a DEF AwaitDelete, table
  <2> QED
    BY <1>8, <2>1, <2>2, <2>3, <2>4, <2>5, <1>6, <1>a DEF ProcessMsg
<1>9. CASE UNCHANGED vars
  BY <1>9, <1>1 DEF vars, table
<1> QED
  BY <1>4, <1>5, <1>7, <1>8, <1>9 DEF Next

\* The two invariants about the order of messages and slots are kept by every step.
LEMMA RoomStep ==
  ASSUME IInv, NoDrop, Room, ReuseInv, QuotaInv, [Next]_vars
  PROVE  ReuseInv' /\ QuotaInv'
<1>0. TypeOK
  BY DEF IInv
<1> QED
  BY <1>0, StepKinds, RoomKept, RoomFreed, RoomSent, RoomAdded

\* Then the queue is never full,
LEMMA RoomForAll ==
  ASSUME IInv, Room, QuotaInv
  PROVE  NoDrop
<1> SUFFICES ASSUME NEW a \in Procs PROVE Len(inbox[a]) < QueueLen
  BY DEF NoDrop
<1>0. TypeOK /\ IsFiniteSet(Motions) /\ InboxInv
  BY DEF IInv, Room, Parts
<1>1. /\ IsFiniteSet(Used) /\ Cardinality(Used) = MaxMotions - Len(free)
      /\ Cardinality(Used) <= Cardinality(Motions) /\ Cardinality(Motions) \in Nat
      /\ Len(free) \in Nat /\ MaxMotions \in Nat /\ QueueLen \in Nat
  BY <1>0, UsedIs, SizesAssumption
<1>2. /\ inbox[a] \in Seq(Messages) /\ Distinct(inbox[a]) /\ DOMAIN inbox[a] = 1 .. Len(inbox[a])
      /\ Len(inbox[a]) \in Nat /\ Range(inbox[a]) \subseteq Messages
      /\ \A x : x \in Range(inbox[a]) <=> \E i \in 1 .. Len(inbox[a]) : inbox[a][i] = x
  BY <1>0, NoneIsNotTold, RangeIs DEF InboxInv
<1>3. CASE Len(inbox[a]) = 0
  BY <1>3, <1>1 DEF Room
<1>4. CASE Len(inbox[a]) # 0
  <2> DEFINE A == AddsFrom(a, 1)
             G == GivenUp(a, 1)
             adds == [m \in A |-> AddMotion(m)]
             deletes == [p \in G \cup Used |-> DeleteMotion(p)]
  <2>1. 1 \in DOMAIN inbox[a]
    BY <1>2, <1>4
  <2>2. Cardinality(G) + MaxMotions <= Cardinality(Motions) + Cardinality(A) + Len(free)
    BY <2>1 DEF QuotaInv
  <2>3. /\ IsFiniteSet(A) /\ Cardinality(A) \in Nat /\ IsFiniteSet(G) /\ Cardinality(G) \in Nat
        /\ Cardinality(A) <= Cardinality(Motions)
    <3>1. A \in SUBSET Motions
      BY DEF AddsFrom
    <3> QED
      BY <3>1, <1>0, SetsAreFinite, FS_Subset
  <2> HIDE DEF A, G
  <2>4. /\ IsFiniteSet(G \cup Used) /\ Cardinality(G \cup Used) \in Nat
        /\ Cardinality(G \cup Used) <= Cardinality(G) + Cardinality(Used)
    <3>1. /\ IsFiniteSet(G \cup Used) /\ IsFiniteSet(G \cap Used)
          /\ Cardinality(G \cup Used) = Cardinality(G) + Cardinality(Used) - Cardinality(G \cap Used)
      BY <2>3, <1>1, FS_Union, FS_Intersection
    <3>2. Cardinality(G \cup Used) \in Nat /\ Cardinality(G \cap Used) \in Nat
      BY <3>1, FS_CardinalityType
    <3>3. Cardinality(Used) \in Nat
      BY <1>1, FS_CardinalityType
    <3> QED
      BY <3>1, <3>2, <3>3, <2>3
  <2>5. adds \in Surjection(A, Range(adds)) /\ deletes \in Surjection(G \cup Used, Range(deletes))
    BY DEF Surjection, Range
  <2>6. /\ IsFiniteSet(Range(adds)) /\ Cardinality(Range(adds)) <= Cardinality(A)
        /\ IsFiniteSet(Range(deletes)) /\ Cardinality(Range(deletes)) <= Cardinality(G \cup Used)
    BY <2>3, <2>4, <2>5, FS_Surjection
  <2>7. Range(inbox[a]) \subseteq Range(adds) \cup Range(deletes)
    <3> SUFFICES ASSUME NEW x \in Range(inbox[a]) PROVE x \in Range(adds) \cup Range(deletes)
      OBVIOUS
    <3>1. x \in From(inbox[a], 1)
      <4>1. PICK i \in 1 .. Len(inbox[a]) : inbox[a][i] = x
        BY <1>2
      <4>2. 1 <= i
        BY <4>1, <1>2
      <4> QED
        BY <4>1, <4>2, <1>2 DEF From
    <3>2. CASE \E m \in Motions : x = AddMotion(m)
      <4>1. PICK m \in Motions : x = AddMotion(m)
        BY <3>2
      <4>2. m \in A
        BY <4>1, <3>1 DEF A, AddsFrom
      <4> QED
        BY <4>1, <4>2 DEF Range
    <3>3. CASE \E p \in Slots : x = DeleteMotion(p)
      <4>1. PICK p \in Slots : x = DeleteMotion(p)
        BY <3>3
      <4>2. p \in G \cup Used
        BY <4>1, <3>1 DEF G, GivenUp, Used
      <4> QED
        BY <4>1, <4>2 DEF Range
    <3> QED
      BY <3>2, <3>3, <1>2 DEF Messages
  <2> HIDE DEF adds, deletes
  <2>8. /\ IsFiniteSet(Range(adds) \cup Range(deletes))
        /\ Cardinality(Range(adds) \cup Range(deletes)) \in Nat
        /\ Cardinality(Range(adds) \cup Range(deletes))
             <= Cardinality(Range(adds)) + Cardinality(Range(deletes))
        /\ Cardinality(Range(adds)) \in Nat /\ Cardinality(Range(deletes)) \in Nat
    <3>1. /\ IsFiniteSet(Range(adds) \cup Range(deletes)) /\ IsFiniteSet(Range(adds) \cap Range(deletes))
          /\ Cardinality(Range(adds) \cup Range(deletes))
               = Cardinality(Range(adds)) + Cardinality(Range(deletes))
                 - Cardinality(Range(adds) \cap Range(deletes))
      BY <2>6, FS_Union, FS_Intersection
    <3>2. /\ Cardinality(Range(adds) \cup Range(deletes)) \in Nat
          /\ Cardinality(Range(adds) \cap Range(deletes)) \in Nat
      BY <3>1, FS_CardinalityType
    <3>3. Cardinality(Range(adds)) \in Nat /\ Cardinality(Range(deletes)) \in Nat
      BY <2>6, FS_CardinalityType
    <3> QED
      BY <3>1, <3>2, <3>3
  <2>9. Len(inbox[a]) <= Cardinality(Range(adds) \cup Range(deletes))
    <3>1. Cardinality(Range(inbox[a])) = Len(inbox[a])
      BY <1>2, LengthIs
    <3>2. Range(inbox[a]) \in SUBSET (Range(adds) \cup Range(deletes))
      BY <2>7
    <3> QED
      BY <3>1, <3>2, <2>8, FS_Subset
  <2>10. 3 * Cardinality(Motions) < QueueLen
    BY DEF Room
  <2>11. Cardinality(Used) \in Nat
    BY <1>1, FS_CardinalityType
  <2> QED
    BY <2>2, <2>3, <2>4, <2>6, <2>8, <2>9, <2>10, <2>11, <1>1, <1>2
<1> QED
  BY <1>3, <1>4

\* and no slot is used again too early.
LEMMA NoneTooEarly ==
  ASSUME IInv, Room, ReuseInv
  PROVE  ReusedLate
<1> SUFFICES ASSUME NEW m \in Motions, At(Main, "adding", m), free # <<>>,
                    NEW a \in Procs, Says(a, DeleteMotion(Head(free)))
             PROVE  FALSE
  BY DEF ReusedLate
<1>0. TypeOK /\ IsFiniteSet(Motions) /\ IsFresh(m)
  BY DEF IInv, Room, Places, MainInv
<1>1. free \in Seq(Slots) /\ inbox[a] \in Seq(Messages)
  BY <1>0, NoneIsNotTold DEF TypeOK
<1>2. 1 \in DOMAIN free /\ Head(free) = free[1]
  <2>1. Len(free) \in Nat \ {0} /\ DOMAIN free = 1 .. Len(free)
    BY <1>1, FromTail
  <2> QED
    BY <2>1, <1>1, HeadTailProperties
<1>3. PICK i \in DOMAIN inbox[a] : inbox[a][i] = DeleteMotion(free[1])
  BY <1>1, <1>2, RangeIs DEF Says
<1>4. Cardinality(Motions) < 1 + Cardinality(AddsFrom(a, i))
  BY <1>2, <1>3 DEF ReuseInv
<1>5. AddsFrom(a, i) \in SUBSET (Motions \ {m})
  BY <1>0 DEF AddsFrom, From, IsFresh, Range
<1>6. IsFiniteSet(Motions \ {m}) /\ Cardinality(Motions \ {m}) = Cardinality(Motions) - 1
  BY <1>0, FS_RemoveElement
<1>7. Cardinality(AddsFrom(a, i)) <= Cardinality(Motions) - 1
  BY <1>5, <1>6, FS_Subset
<1>8. Cardinality(AddsFrom(a, i)) \in Nat /\ Cardinality(Motions) \in Nat
  BY <1>0, SetsAreFinite, FS_CardinalityType
<1> QED
  BY <1>4, <1>7, <1>8

\* So with that room nothing is dropped, no slot is used too early, and the invariant holds.
LEMMA RoomInvariance ==
  ASSUME Habits = {}, Room
  PROVE  Spec => [](IInv /\ NoDrop /\ ReusedLate)
<1> DEFINE RInv == IInv /\ ReuseInv /\ QuotaInv
<1>1. Init => RInv
  <2> SUFFICES ASSUME Init PROVE RInv
    OBVIOUS
  <2>1. \A a \in Procs : DOMAIN inbox[a] = {}
    <3>1. \A a \in Procs : inbox[a] = <<>> /\ inbox[a] \in Seq(Messages)
      BY EmptySeq DEF Init
    <3>2. \A a \in Procs : Len(inbox[a]) = 0 /\ DOMAIN inbox[a] = 1 .. Len(inbox[a])
      BY <3>1, EmptySeq, LenProperties
    <3>3. 1 .. 0 = {}
      OBVIOUS
    <3> QED
      BY <3>2, <3>3
  <2> QED
    BY <2>1, InitInv DEF ReuseInv, QuotaInv
<1>2. RInv => NoDrop /\ ReusedLate
  BY RoomForAll, NoneTooEarly
<1>3. RInv /\ [Next]_vars => RInv'
  BY <1>2, NextInv, RoomStep
<1> QED
  BY <1>1, <1>2, <1>3, PTL DEF Spec

-----------------------------------------------------------------------------
(* What the manager promises, for no more motions than there is room for *)

\* The queue of motions, which throws when it is full so that the message is lost
\* (MotionManager.cc:807 and 936 report it and go on), never is, and no slot is given to a
\* new motion while a process has yet to hear that the last one was removed from it.
THEOREM RoomIsEnough ==
  ASSUME Habits = {}, Room
  PROVE  Spec => [](NoDrop /\ ReusedLate)
BY RoomInvariance, PTL

\* No slot is free twice or in use while free, none that is free is attached, locked or
\* known to anybody, and behaviors and Motion are never at the same motion.
THEOREM TableStaysSound ==
  ASSUME Habits = {}, Room
  PROVE  Spec => []TableIsSound
<1>1. IInv => TableIsSound
  BY TableInv
<1> QED
  BY <1>1, RoomInvariance, PTL

\* Each motion that was added and not removed is attached, and started by Motion or about
\* to be; each slot that is not free has a process that is yet to let go of it.
THEOREM NothingIsForgotten ==
  ASSUME Habits = {}, Room
  PROVE  Spec => []NothingForgotten
<1>1. IInv => NothingForgotten
  BY ForgottenInv
<1> QED
  BY <1>1, RoomInvariance, PTL

\* Main lets go of the region of a motion that behaviors take to be there, and so tells
\* them that it is gone, once.
THEOREM ToldOnce ==
  ASSUME Habits = {}, Room
  PROVE  Spec => GoneIsToldOnce
<1>1. IInv => \A p \in Slots : region[Main][p] # None /\ region'[Main][p] = None => known[p] # None
  BY GoneInv
<1> QED
  BY <1>1, RoomInvariance, PTL DEF GoneIsToldOnce
=============================================================================
