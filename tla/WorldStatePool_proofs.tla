------------------------ MODULE WorldStatePool_proofs ------------------------
(***************************************************************************)
(* Proofs about WorldStatePool, for any number of buffers from two on and  *)
(* of frames, with and without feedback.                                   *)
(*                                                                         *)
(* IndInv is inductive whatever happens; QuietInv says what is true on top *)
(* of it until a writer finds no buffer that nobody uses.                  *)
(***************************************************************************)
EXTENDS WorldStatePool, FiniteSetTheorems, SequenceTheorems, TLAPS

\* The smallest and the largest of some places are among them.
LEMMA MinOfPlaces ==
  ASSUME NEW S \in SUBSET Nat, S # {}
  PROVE  Min(S) \in S /\ \A y \in S : Min(S) <= y
<1>1. PICK x \in S : \A y \in S : ~(<<y, x>> \in OpToRel(<, Nat))
  BY NatLessThanWellFounded, WFMin, Zenon
<1>2. \A y \in S : x <= y
  <2> TAKE y \in S
  <2>1. ~(y < x)
    BY <1>1 DEF OpToRel
  <2> QED
    BY <2>1
<1> QED
  BY <1>2 DEF Min

\* A set of places that is not empty has a last.
LEMMA MaxOfPlaces ==
  ASSUME NEW n \in Nat, NEW S \in SUBSET (1..n), S # {}
  PROVE  Max(S) \in S
<1> DEFINE T == {n - x : x \in S}
<1>1. T \in SUBSET Nat /\ T # {}
  <2>1. \A x \in S : n - x \in Nat
    OBVIOUS
  <2>2. PICK x \in S : TRUE
    OBVIOUS
  <2>3. n - x \in T
    OBVIOUS
  <2> QED
    BY <2>1, <2>3
<1>2. Min(T) \in T /\ \A y \in T : Min(T) <= y
  BY <1>1, MinOfPlaces
<1>3. PICK x \in S : Min(T) = n - x
  BY <1>2
<1>4. \A y \in S : x >= y
  <2> TAKE y \in S
  <2>1. n - x <= n - y
    BY <1>2, <1>3
  <2> QED
    BY <2>1
<1> QED
  BY <1>4 DEF Max

\* A buffer that moves to the back leaves the others in their order.
LEMMA MoveToBack ==
  ASSUME NEW S, NEW s \in Seq(S), NEW k \in 1..Len(s)
  PROVE  LET moved == Append(RemoveAt(s, k), s[k])
         IN  /\ moved \in Seq(S) /\ Len(moved) = Len(s)
             /\ \A j \in 1..Len(s) :
                  moved[j] = IF j < k THEN s[j] ELSE IF j < Len(s) THEN s[j+1] ELSE s[k]
<1> DEFINE front == SubSeq(s, 1, k-1)
           back == SubSeq(s, k+1, Len(s))
<1>0. Len(s) \in Nat /\ \A i \in 1..Len(s) : s[i] \in S
  BY ElementOfSeq, LenProperties
<1>1. /\ front \in Seq(S) /\ Len(front) = k-1
      /\ \A i \in 1..k-1 : front[i] = s[i]
  <2>1. \A i \in 1..k-1 : s[i] \in S
    BY <1>0
  <2>2. /\ SubSeq(s, 1, k-1) \in Seq(S)
        /\ Len(SubSeq(s, 1, k-1)) = IF 1 <= k-1 THEN (k-1)-1+1 ELSE 0
        /\ \A i \in 1 .. (k-1)-1+1 : SubSeq(s, 1, k-1)[i] = s[1+i-1]
    BY <2>1, <1>0, SubSeqProperties
  <2> QED
    BY <2>2, <1>0
<1>2. /\ back \in Seq(S) /\ Len(back) = Len(s) - k
      /\ \A i \in 1..Len(s) - k : back[i] = s[k+i]
  <2>1. \A i \in k+1..Len(s) : s[i] \in S
    BY <1>0
  <2>2. /\ SubSeq(s, k+1, Len(s)) \in Seq(S)
        /\ Len(SubSeq(s, k+1, Len(s))) = IF k+1 <= Len(s) THEN Len(s)-(k+1)+1 ELSE 0
        /\ \A i \in 1 .. Len(s)-(k+1)+1 : SubSeq(s, k+1, Len(s))[i] = s[k+1+i-1]
    BY <2>1, <1>0, SubSeqProperties
  <2> QED
    BY <2>2, <1>0
<1> HIDE DEF front, back
<1> DEFINE rest == front \o back
<1>3. /\ rest \in Seq(S) /\ Len(rest) = Len(s) - 1
      /\ \A j \in 1..Len(s) - 1 : rest[j] = IF j < k THEN s[j] ELSE s[j+1]
  <2>1. /\ rest \in Seq(S)
        /\ Len(rest) = Len(front) + Len(back)
        /\ \A i \in 1 .. Len(front) + Len(back) :
             rest[i] = IF i <= Len(front) THEN front[i] ELSE back[i - Len(front)]
    BY <1>1, <1>2, ConcatProperties
  <2> HIDE DEF rest
  <2>3. Len(front) + Len(back) = Len(s) - 1
    BY <1>1, <1>2, <1>0
  <2>4. \A i \in 1..Len(s) - 1 : rest[i] = IF i <= k-1 THEN front[i] ELSE back[i - (k-1)]
    BY <2>1, <2>3, <1>1
  <2>2. ASSUME NEW j \in 1..Len(s) - 1 PROVE rest[j] = IF j < k THEN s[j] ELSE s[j+1]
    <3>1. CASE j < k
      <4>1. j \in 1..k-1
        BY <3>1, <1>0
      <4>2. rest[j] = front[j]
        BY <4>1, <2>4
      <4> QED
        BY <4>1, <4>2, <1>1, <3>1
    <3>2. CASE j >= k
      <4>0. j \in 1..Len(s) - 1 /\ ~(j <= k-1)
        BY <3>2, <1>0
      <4>1. rest[j] = back[j - (k-1)]
        BY <4>0, <2>4
      <4>2. j - (k-1) \in 1..Len(s) - k
        BY <3>2, <1>0
      <4>3. back[j - (k-1)] = s[k + (j - (k-1))]
        BY <4>2, <1>2
      <4>4. k + (j - (k-1)) = j + 1
        BY <1>0
      <4> QED
        BY <4>1, <4>3, <4>4, <3>2
    <3> QED
      BY <3>1, <3>2, <1>0
  <2> QED
    BY <2>1, <2>2, <1>1, <1>2, <1>0
<1> HIDE DEF rest
<1>4. RemoveAt(s, k) = front \o back
  BY DEF RemoveAt, front, back
<1>5. /\ Append(rest, s[k]) \in Seq(S)
      /\ Len(Append(rest, s[k])) = Len(rest)+1
      /\ \A i \in 1.. Len(rest) : Append(rest, s[k])[i] = rest[i]
      /\ Append(rest, s[k])[Len(rest)+1] = s[k]
  BY <1>3, <1>0, AppendProperties
<1> QED
  <2>1. Append(RemoveAt(s, k), s[k]) = Append(rest, s[k])
    BY <1>4 DEF rest
  <2>3. \A j \in 1..Len(s) :
          Append(rest, s[k])[j] = IF j < k THEN s[j] ELSE IF j < Len(s) THEN s[j+1] ELSE s[k]
    BY <1>3, <1>5, <1>0
  <2> QED
    BY <1>3, <2>1, <2>3, <1>5, <1>0

-----------------------------------------------------------------------------
(* The bookkeeping. *)

WithBuffer == {"wait", "verify", "retry", "load", "store", "done"}
WithSource == {"choose", "releaseSource", "apply"} \cup WithBuffer
WithFrame == {"isUnread", "source"} \cup WithSource

\* What a process has got, at each place.
PlaceInv ==
  \A p \in Procs :
    /\ held[p] = None <=> pc[p] = "idle"
    /\ src[p] = None <=> pc[p] \notin WithSource
    /\ pc[p] \in WithBuffer => buf[p] # None
    /\ buf[p] # None => pc[p] \in WithBuffer \cup {"apply"}
    /\ pc[p] \in WithFrame => msg[p] # None

\* Whoever has done waiting for its buffer has the lock of it.
LockInv == \A p \in Procs : buf[p] # None /\ pc[p] # "wait" => writeLocks[buf[p]] = p

\* No frame is newer than the newest.
FrameInv ==
  /\ \A b \in Buffers : frames[b] <= newest \/ frames[b] = 0
  /\ \A p \in Procs : msg[p] # None => msg[p] <= newest \/ msg[p] = 0

\* The counts, as sums over the two processes.
One(use, p, b) == IF use[p] = b THEN 1 ELSE 0
Both(use, b) == One(use, Main, b) + One(use, Motion, b)

CountInv ==
  \A b \in Buffers : /\ reading[b] = Both(held, b) + Both(src, b)
                     /\ writing[b] = Both(buf, b)

OrderInv == Len(order) = NumStates /\ OrderSorted

IndInv == TypeOK /\ PlaceInv /\ LockInv /\ FrameInv /\ CountInv /\ OrderInv

\* The sums are the numbers of users.
LEMMA UsersCounted ==
  ASSUME NEW use, NEW b
  PROVE  Cardinality(Uses(use, b)) = Both(use, b)
<1>1. IsFiniteSet({}) /\ Cardinality({}) = 0
  BY FS_EmptySet
<1> DEFINE one == IF use[Main] = b THEN {Main} ELSE {}
<1>2. IsFiniteSet(one) /\ Cardinality(one) = One(use, Main, b) /\ Motion \notin one
  BY <1>1, FS_Singleton DEF One, Main, Motion
<1>3. Uses(use, b) = IF use[Motion] = b THEN one \cup {Motion} ELSE one
  BY DEF Uses, Procs
<1>4. Cardinality(one \cup {Motion}) = Cardinality(one) + 1
  BY <1>2, FS_AddElement
<1> QED
  BY <1>2, <1>3, <1>4 DEF Both, One

\* A process changes the buffer it uses.
LEMMA UserMoves ==
  ASSUME NEW use, NEW new, NEW p \in Procs, \A q \in Procs : q # p => new[q] = use[q]
  PROVE  \A b : /\ Both(use, b) \in Nat
                /\ Both(new, b) = Both(use, b) - One(use, p, b) + One(new, p, b)
<1> TAKE b
<1>0. Main # Motion /\ Procs = {Main, Motion}
  BY DEF Procs, Main, Motion
<1>1. CASE p = Main
  <2>1. new[Motion] = use[Motion]
    BY <1>1, <1>0
  <2> QED
    BY <2>1, <1>1 DEF Both, One
<1>2. CASE p = Motion
  <2>1. new[Main] = use[Main]
    BY <1>2, <1>0
  <2> QED
    BY <2>1, <1>2 DEF Both, One
<1> QED
  BY <1>1, <1>2, <1>0

\* Whoever uses a buffer is counted.
LEMMA UserIsCounted ==
  ASSUME NEW use, NEW p \in Procs, NEW b
  PROVE  Both(use, b) \in Nat /\ (use[p] = b => Both(use, b) > 0)
  BY DEF Both, One, Procs

-----------------------------------------------------------------------------
(* What the searches find. *)

\* The newest buffer that is complete is one of the pool.
LEMMA NewestIsABuffer ==
  ASSUME TypeOK, OrderInv
  PROVE  newestComplete \in Buffers /\ (complete # {} => newestComplete \in complete)
<1> DEFINE done == {k \in DOMAIN order : order[k] \in complete}
           place == IF done = {} THEN NumStates ELSE Max(done)
<1>1. /\ DOMAIN order = 1..NumStates /\ NumStates \in Nat \ {0, 1}
      /\ \A k \in 1..NumStates : order[k] \in Buffers
  <2>1. order \in Seq(Buffers) /\ Len(order) = NumStates /\ NumStates \in Nat \ {0, 1}
    BY PoolAssumption DEF TypeOK, OrderInv
  <2> QED
    BY <2>1, ElementOfSeq, LenProperties
<1>2. done # {} => place \in done
  BY <1>1, MaxOfPlaces
<1>3. place \in 1..NumStates
  BY <1>1, <1>2
<1>4. ASSUME complete # {} PROVE done # {}
  <2>1. PICK b \in complete : b \in Buffers
    BY <1>4 DEF TypeOK
  <2>2. \E k \in DOMAIN order : order[k] = b
    BY <2>1 DEF OrderInv, OrderSorted, Range
  <2> QED
    BY <2>1, <2>2
<1>5. newestComplete = order[place]
  BY DEF newestComplete
<1> HIDE DEF place
<1> QED
  BY <1>1, <1>2, <1>3, <1>4, <1>5

\* The place of the buffer to write: the last one's for its frame, else one of an
\* older frame, which nobody uses or somebody writes.
LEMMA ChosenPlace ==
  ASSUME TypeOK, OrderInv, NEW n \in Nat
  PROVE  LET k == selectWriteState(n)
         IN  /\ frames[Last(order)] = n => k = NumStates
             /\ frames[Last(order)] > n => k = None
             /\ k # None => k \in 1..NumStates
             /\ k # None /\ frames[Last(order)] # n =>
                  /\ frames[Last(order)] < n /\ frames[order[k]] < n
                  /\ \/ writing[order[k]] > 0
                     \/ reading[order[k]] = 0 /\ writing[order[k]] = 0
             /\ Unused(n) # {} /\ frames[Last(order)] # n /\ k # None =>
                  reading[order[k]] = 0 /\ writing[order[k]] = 0
             /\ k = None /\ frames[Last(order)] < n => Unused(n) = {} /\ Written(n) = {}
<1>1. /\ DOMAIN order = 1..NumStates /\ NumStates \in Nat \ {0, 1}
      /\ \A k \in 1..NumStates : order[k] \in Buffers
  <2>1. order \in Seq(Buffers) /\ Len(order) = NumStates /\ NumStates \in Nat \ {0, 1}
    BY PoolAssumption DEF TypeOK, OrderInv
  <2> QED
    BY <2>1, ElementOfSeq, LenProperties
<1> DEFINE f == frames[Last(order)]
<1>2. f \in Nat
  <2>1. Last(order) = order[NumStates]
    BY DEF Last, OrderInv
  <2> QED
    BY <2>1, <1>1, PoolAssumption DEF TypeOK
<1>3. /\ Unused(n) \in SUBSET (1..NumStates)
      /\ Written(n) \in SUBSET (1..NumStates)
      /\ \A j \in Unused(n) : frames[order[j]] < n /\ writing[order[j]] = 0 /\ reading[order[j]] = 0
      /\ \A j \in Written(n) : frames[order[j]] < n /\ writing[order[j]] > 0
  BY <1>1 DEF Unused, Written, Older
<1>4. \A S \in SUBSET (1..NumStates) : S # {} => Min(S) \in S
  BY <1>1, MinOfPlaces
<1>5. None \notin Int
  BY PoolAssumption
<1>6. selectWriteState(n) =
        IF f = n THEN NumStates
        ELSE IF f > n THEN None
        ELSE IF Unused(n) # {} THEN Min(Unused(n))
        ELSE IF Written(n) # {} THEN Min(Written(n)) ELSE None
  BY DEF selectWriteState
<1> HIDE DEF f
<1>7. CASE f = n
  BY <1>7, <1>6, <1>2, <1>1, <1>5 DEF f
<1>8. CASE f > n
  BY <1>8, <1>6, <1>2, <1>1, <1>5 DEF f
<1>9. CASE f < n
  <2>1. CASE Unused(n) # {}
    <3>1. selectWriteState(n) = Min(Unused(n)) /\ Min(Unused(n)) \in Unused(n)
      BY <1>9, <1>6, <1>2, <2>1, <1>3, <1>4
    <3> QED
      BY <3>1, <1>9, <1>2, <1>3, <1>5, <1>1 DEF f
  <2>2. CASE Unused(n) = {} /\ Written(n) # {}
    <3>1. selectWriteState(n) = Min(Written(n)) /\ Min(Written(n)) \in Written(n)
      BY <1>9, <1>6, <1>2, <2>2, <1>3, <1>4
    <3> QED
      BY <3>1, <2>2, <1>9, <1>2, <1>3, <1>5, <1>1 DEF f
  <2>3. CASE Unused(n) = {} /\ Written(n) = {}
    <3>1. selectWriteState(n) = None
      BY <1>9, <1>6, <1>2, <2>3
    <3> QED
      BY <3>1, <2>3, <1>9, <1>2 DEF f
  <2> QED
    BY <2>1, <2>2, <2>3
<1> QED
  BY <1>7, <1>8, <1>9, <1>2

-----------------------------------------------------------------------------
(* The inductive steps. *)

\* The invariant of the bookkeeping holds at first,
LEMMA Starting == Init => IndInv
<1> SUFFICES ASSUME Init PROVE IndInv
  OBVIOUS
<1> USE PoolAssumption DEF Init
<1>1. order \in Seq(Buffers) /\ Len(order) = NumStates /\ DOMAIN order = 1..NumStates
  <2>1. order = [k \in 1..NumStates |-> k - 1] /\ \A k \in 1..NumStates : k - 1 \in Buffers
    BY DEF Buffers
  <2> QED
    BY <2>1, IsASeq
<1>2. TypeOK
  <2>1. NumStates \in Nat /\ MaxFrame \in Nat /\ 0 \in 0..MaxFrame /\ NoFrame \in NoFrame..MaxFrame
    BY DEF NoFrame
  <2>2. frames \in [Buffers -> 0..MaxFrame] /\ sensors \in [Buffers -> NoFrame..MaxFrame]
        /\ frameNumber \in [Buffers -> NoFrame..MaxFrame] /\ newest \in NoFrame..MaxFrame
        /\ received \in [Procs -> NoFrame..MaxFrame]
    BY <2>1
  <2>3. cache \in [Procs -> [status : SUBSET {Sensors, Feedback}, complete : BOOLEAN]]
    BY DEF Blank
  <2> QED
    BY <1>1, <2>2, <2>3 DEF TypeOK, Labels
<1>3. OrderInv
  <2>1. \A b \in Buffers : b + 1 \in 1..NumStates /\ order[b+1] = b
    BY DEF Buffers
  <2>2. \A k \in 1..NumStates : order[k] = k - 1 /\ order[k] \in Buffers
    BY DEF Buffers
  <2>3. IsInjective(order)
    BY <2>2, <1>1 DEF IsInjective
  <2>4. Range(order) = Buffers
    <3>1. \A b \in Buffers : \E k \in 1..NumStates : order[k] = b
      BY <2>1
    <3> HIDE DEF Init
    <3> QED
      BY <3>1, <2>2, <1>1 DEF Range
  <2>5. \A j, k \in DOMAIN order : j < k => frames[order[j]] <= frames[order[k]]
    BY <2>2, <1>1
  <2> QED
    BY <2>3, <2>4, <2>5, <1>1 DEF OrderInv, OrderSorted
<1>4. CountInv
  <2>1. None \notin Buffers
    BY DEF Buffers
  <2> QED
    BY <2>1 DEF CountInv, Both, One, Procs
<1>5. PlaceInv /\ LockInv /\ FrameInv
  BY DEF PlaceInv, LockInv, FrameInv, WithBuffer, WithSource, WithFrame, Procs
<1> QED
  BY <1>2, <1>3, <1>4, <1>5 DEF IndInv

\* and each step keeps it.
LEMMA Stepping == ASSUME IndInv, [Next]_vars PROVE IndInv'
<1> USE DEF IndInv
<1>types. /\ frames \in [Buffers -> 0..MaxFrame] /\ MaxFrame \in Nat
          /\ newest \in NoFrame..MaxFrame /\ NoFrame = -1
          /\ msg \in [Procs -> 0..MaxFrame \cup {None}]
          /\ \A q \in Procs : msg[q] # None => msg[q] \in 0..MaxFrame
  BY PoolAssumption DEF TypeOK, NoFrame
<1>none. None \notin Buffers /\ None \notin Procs /\ None \notin Int
  BY PoolAssumption DEF Buffers, Procs, Main, Motion
<1>order. /\ DOMAIN order = 1..NumStates /\ NumStates \in Nat \ {0, 1} /\ Last(order) = order[NumStates]
          /\ \A k \in 1..NumStates : order[k] \in Buffers
  <2>1. order \in Seq(Buffers) /\ Len(order) = NumStates /\ NumStates \in Nat \ {0, 1}
    BY PoolAssumption DEF TypeOK, OrderInv
  <2> QED
    BY <2>1, ElementOfSeq, LenProperties DEF Last
<1>a. CASE UNCHANGED vars
  BY <1>a DEF vars, pool, states, world, mine, TypeOK, PlaceInv, LockInv, FrameInv, CountInv, Both, One, OrderInv, OrderSorted
<1>b. CASE SendFrame
  <2> USE <1>b DEF SendFrame, pool, states, mine
  <2>1. TypeOK'
    BY <1>types DEF TypeOK
  <2>2. FrameInv'
    BY <1>types DEF FrameInv
  <2>3. PlaceInv' /\ LockInv'
    BY DEF PlaceInv, LockInv
  <2>4. CountInv' /\ OrderInv'
    BY DEF CountInv, Both, One, OrderInv, OrderSorted
  <2> QED
    BY <2>1, <2>2, <2>3, <2>4
<1>c. ASSUME NEW p \in Procs, Behave(p) PROVE IndInv'
  <2> USE <1>c, <1>none
  <2>1. TypeOK'
    <3>1. newestComplete \in Buffers
      BY NewestIsABuffer
    <3>2. /\ reading' \in [Buffers -> Nat] /\ held' \in [Procs -> Buffers \cup {None}]
          /\ pc' \in [Procs -> Labels]
      BY <3>1 DEF Behave, Begin, Goto, TypeOK, Labels
    <3>3. task' \in [Procs -> {"behave", "pids", "sensors", None}] /\ msg' \in [Procs -> 0..MaxFrame \cup {None}]
      BY DEF Behave, Begin, TypeOK
    <3> QED
      BY <3>2, <3>3 DEF Behave, Begin, states, TypeOK
  <2>2. PlaceInv'
    <3>1. newestComplete \in Buffers
      BY NewestIsABuffer
    <3> QED
      BY <3>1, <1>types DEF Behave, Begin, pool, states, world, mine, At, Goto, PlaceInv, WithBuffer, WithSource, WithFrame, TypeOK
  <2>3. LockInv'
    BY DEF Behave, Begin, pool, states, world, mine, At, Goto, LockInv, PlaceInv, WithBuffer, WithSource, WithFrame, TypeOK
  <2>4. FrameInv'
    BY <1>types DEF Behave, Begin, pool, states, world, mine, At, Goto, FrameInv, TypeOK
  <2>5. CountInv'
    <3>1. newestComplete \in Buffers
      BY NewestIsABuffer
    <3>2. held' = [held EXCEPT ![p] = newestComplete] /\ held[p] = None
      BY DEF Begin, At, PlaceInv, Behave, states
    <3>3. \A b \in Buffers : Both(held', b) = Both(held, b) + (IF b = newestComplete THEN 1 ELSE 0)
      <4>1. held[p] = None /\ held'[p] = newestComplete /\ \A q \in Procs : q # p => held'[q] = held[q]
        BY <3>2 DEF TypeOK
      <4>2. \A b : Both(held, b) \in Nat /\ Both(held', b) = Both(held, b) - One(held, p, b) + One(held', p, b)
        BY <4>1, UserMoves
      <4> QED
        BY <4>1, <4>2 DEF One
    <3>4. \A b \in Buffers : reading'[b] = reading[b] + (IF b = newestComplete THEN 1 ELSE 0)
      BY <3>1 DEF Begin, TypeOK, Behave, states
    <3> QED
      BY <3>3, <3>4, UserIsCounted DEF CountInv, Both, One, Begin, Behave, states
  <2>6. OrderInv'
    BY DEF Behave, Begin, pool, states, world, mine, At, Goto, OrderInv, OrderSorted
  <2> QED
    BY <2>1, <2>2, <2>3, <2>4, <2>5, <2>6
<1>d. ASSUME NEW p \in Procs, UpdatePIDs(p) PROVE IndInv'
  <2> USE <1>d, <1>none
  <2>1. TypeOK'
    <3>1. newestComplete \in Buffers
      BY NewestIsABuffer
    <3>2. /\ reading' \in [Buffers -> Nat] /\ held' \in [Procs -> Buffers \cup {None}]
          /\ pc' \in [Procs -> Labels]
      BY <3>1 DEF UpdatePIDs, Begin, Goto, TypeOK, Labels
    <3>3. task' \in [Procs -> {"behave", "pids", "sensors", None}] /\ msg' \in [Procs -> 0..MaxFrame \cup {None}]
      BY DEF UpdatePIDs, Begin, TypeOK
    <3> QED
      BY <3>2, <3>3 DEF UpdatePIDs, Begin, states, TypeOK
  <2>2. PlaceInv'
    <3>1. newestComplete \in Buffers
      BY NewestIsABuffer
    <3> QED
      BY <3>1, <1>types DEF UpdatePIDs, Begin, pool, states, world, mine, At, Goto, PlaceInv, WithBuffer, WithSource, WithFrame, TypeOK
  <2>3. LockInv'
    BY DEF UpdatePIDs, Begin, pool, states, world, mine, At, Goto, LockInv, PlaceInv, WithBuffer, WithSource, WithFrame, TypeOK
  <2>4. FrameInv'
    BY <1>types DEF UpdatePIDs, Begin, pool, states, world, mine, At, Goto, FrameInv, TypeOK
  <2>5. CountInv'
    <3>1. newestComplete \in Buffers
      BY NewestIsABuffer
    <3>2. held' = [held EXCEPT ![p] = newestComplete] /\ held[p] = None
      BY DEF Begin, At, PlaceInv, UpdatePIDs, states
    <3>3. \A b \in Buffers : Both(held', b) = Both(held, b) + (IF b = newestComplete THEN 1 ELSE 0)
      <4>1. held[p] = None /\ held'[p] = newestComplete /\ \A q \in Procs : q # p => held'[q] = held[q]
        BY <3>2 DEF TypeOK
      <4>2. \A b : Both(held, b) \in Nat /\ Both(held', b) = Both(held, b) - One(held, p, b) + One(held', p, b)
        BY <4>1, UserMoves
      <4> QED
        BY <4>1, <4>2 DEF One
    <3>4. \A b \in Buffers : reading'[b] = reading[b] + (IF b = newestComplete THEN 1 ELSE 0)
      BY <3>1 DEF Begin, TypeOK, UpdatePIDs, states
    <3> QED
      BY <3>3, <3>4, UserIsCounted DEF CountInv, Both, One, Begin, UpdatePIDs, states
  <2>6. OrderInv'
    BY DEF UpdatePIDs, Begin, pool, states, world, mine, At, Goto, OrderInv, OrderSorted
  <2> QED
    BY <2>1, <2>2, <2>3, <2>4, <2>5, <2>6
<1>e. ASSUME NEW p \in Procs, GotSensors(p) PROVE IndInv'
  <2> USE <1>e, <1>none
  <2>1. TypeOK'
    <3>1. newestComplete \in Buffers
      BY NewestIsABuffer
    <3>2. PICK n \in received[p] + 1..newest : Begin(p, "sensors", n, "isUnread") /\ received' = [received EXCEPT ![p] = n]
      BY DEF GotSensors
    <3>3. n \in 0..MaxFrame /\ n \in NoFrame..MaxFrame /\ n # None
      <4>1. received[p] \in NoFrame..MaxFrame
        BY DEF TypeOK
      <4> QED
        BY <3>2, <4>1, <1>types
    <3>4. /\ reading' \in [Buffers -> Nat] /\ held' \in [Procs -> Buffers \cup {None}]
          /\ pc' \in [Procs -> Labels]
      BY <3>1, <3>2 DEF Begin, Goto, TypeOK, Labels
    <3>5. /\ task' \in [Procs -> {"behave", "pids", "sensors", None}] /\ msg' \in [Procs -> 0..MaxFrame \cup {None}]
          /\ received' \in [Procs -> NoFrame..MaxFrame]
      BY <3>2, <3>3 DEF Begin, TypeOK
    <3> QED
      BY <3>2, <3>4, <3>5 DEF Begin, states, TypeOK
  <2>2. PlaceInv'
    <3>1. newestComplete \in Buffers
      BY NewestIsABuffer
    <3>2. PICK n \in received[p] + 1..newest : Begin(p, "sensors", n, "isUnread") /\ received' = [received EXCEPT ![p] = n]
      BY DEF GotSensors
    <3>3. n \in 0..MaxFrame /\ n \in NoFrame..MaxFrame /\ n # None
      <4>1. received[p] \in NoFrame..MaxFrame
        BY DEF TypeOK
      <4> QED
        BY <3>2, <4>1, <1>types
    <3> QED
      BY <3>1, <1>types, <3>2, <3>3 DEF Begin, pool, states, world, mine, At, Goto, PlaceInv, WithBuffer, WithSource, WithFrame, TypeOK
  <2>3. LockInv'
    BY DEF GotSensors, Begin, pool, states, world, mine, At, Goto, LockInv, PlaceInv, WithBuffer, WithSource, WithFrame, TypeOK
  <2>4. FrameInv'
    <3>2. PICK n \in received[p] + 1..newest : Begin(p, "sensors", n, "isUnread") /\ received' = [received EXCEPT ![p] = n]
      BY DEF GotSensors
    <3>3. n \in 0..MaxFrame /\ n \in NoFrame..MaxFrame /\ n # None
      <4>1. received[p] \in NoFrame..MaxFrame
        BY DEF TypeOK
      <4> QED
        BY <3>2, <4>1, <1>types
    <3> QED
      BY <1>types, <3>2, <3>3 DEF Begin, pool, states, world, mine, At, Goto, FrameInv, TypeOK
  <2>5. CountInv'
    <3>1. newestComplete \in Buffers
      BY NewestIsABuffer
    <3>2. held' = [held EXCEPT ![p] = newestComplete] /\ held[p] = None
      BY DEF Begin, At, PlaceInv, GotSensors, states
    <3>3. \A b \in Buffers : Both(held', b) = Both(held, b) + (IF b = newestComplete THEN 1 ELSE 0)
      <4>1. held[p] = None /\ held'[p] = newestComplete /\ \A q \in Procs : q # p => held'[q] = held[q]
        BY <3>2 DEF TypeOK
      <4>2. \A b : Both(held, b) \in Nat /\ Both(held', b) = Both(held, b) - One(held, p, b) + One(held', p, b)
        BY <4>1, UserMoves
      <4> QED
        BY <4>1, <4>2 DEF One
    <3>4. \A b \in Buffers : reading'[b] = reading[b] + (IF b = newestComplete THEN 1 ELSE 0)
      BY <3>1 DEF Begin, TypeOK, GotSensors, states
    <3> QED
      BY <3>3, <3>4, UserIsCounted DEF CountInv, Both, One, Begin, GotSensors, states
  <2>6. OrderInv'
    BY DEF GotSensors, Begin, pool, states, world, mine, At, Goto, OrderInv, OrderSorted
  <2> QED
    BY <2>1, <2>2, <2>3, <2>4, <2>5, <2>6
<1>f. ASSUME NEW p \in Procs, RequestNewest(p) PROVE IndInv'
  <2> USE <1>f, <1>none
  <2>1. TypeOK'
    BY <1>types DEF RequestNewest, pool, states, world, mine, At, Goto, TypeOK, Labels
  <2>2. PlaceInv'
    <3>1. /\ pc[p] = "request" /\ pc' = [pc EXCEPT ![p] = "source"]
          /\ msg' = [msg EXCEPT ![p] = IF newest = NoFrame THEN 0 ELSE newest]
          /\ UNCHANGED <<held, src, buf>>
      BY DEF RequestNewest, mine, At, Goto
    <3>2. msg'[p] # None /\ pc'[p] = "source"
      BY <3>1, <1>types DEF TypeOK
    <3>3. \A q \in Procs : q # p => msg'[q] = msg[q] /\ pc'[q] = pc[q]
      BY <3>1 DEF TypeOK
    <3> QED
      BY <3>1, <3>2, <3>3 DEF PlaceInv, WithBuffer, WithSource, WithFrame
  <2>3. LockInv'
    BY DEF RequestNewest, pool, states, world, mine, At, Goto, LockInv, PlaceInv, WithBuffer, WithSource, WithFrame, TypeOK
  <2>4. FrameInv'
    BY <1>types DEF RequestNewest, pool, states, world, mine, At, Goto, FrameInv, TypeOK
  <2>5. CountInv'
    BY DEF RequestNewest, pool, states, world, mine, At, Goto, CountInv, Both, One
  <2>6. OrderInv'
    BY DEF RequestNewest, pool, states, world, mine, At, Goto, OrderInv, OrderSorted
  <2> QED
    BY <2>1, <2>2, <2>3, <2>4, <2>5, <2>6
<1>g. ASSUME NEW p \in Procs, IsUnread(p) PROVE IndInv'
  <2> USE <1>g, <1>none
  <2>1. TypeOK'
    BY <1>types DEF IsUnread, pool, states, world, mine, At, Goto, TypeOK, Labels
  <2>2. PlaceInv'
    BY DEF IsUnread, pool, states, world, mine, At, Goto, PlaceInv, WithBuffer, WithSource, WithFrame, TypeOK
  <2>3. LockInv'
    BY DEF IsUnread, pool, states, world, mine, At, Goto, LockInv, PlaceInv, WithBuffer, WithSource, WithFrame, TypeOK
  <2>4. FrameInv'
    BY <1>types DEF IsUnread, pool, states, world, mine, At, Goto, FrameInv
  <2>5. CountInv'
    BY DEF IsUnread, pool, states, world, mine, At, Goto, CountInv, Both, One
  <2>6. OrderInv'
    BY DEF IsUnread, pool, states, world, mine, At, Goto, OrderInv, OrderSorted
  <2> QED
    BY <2>1, <2>2, <2>3, <2>4, <2>5, <2>6
<1>h. ASSUME NEW p \in Procs, ChooseNothing(p) PROVE IndInv'
  <2> USE <1>h, <1>none
  <2>1. TypeOK'
    BY DEF ChooseNothing, pool, states, world, mine, At, Goto, TypeOK, Labels
  <2>2. PlaceInv'
    BY DEF ChooseNothing, pool, states, world, mine, At, Goto, PlaceInv, WithBuffer, WithSource, WithFrame, TypeOK
  <2>3. LockInv'
    BY DEF ChooseNothing, pool, states, world, mine, At, Goto, LockInv, PlaceInv, WithBuffer, WithSource, WithFrame, TypeOK
  <2>4. FrameInv'
    BY <1>types DEF ChooseNothing, pool, states, world, mine, At, Goto, FrameInv
  <2>5. CountInv'
    BY DEF ChooseNothing, pool, states, world, mine, At, Goto, CountInv, Both, One
  <2>6. OrderInv'
    BY DEF ChooseNothing, pool, states, world, mine, At, Goto, OrderInv, OrderSorted
  <2> QED
    BY <2>1, <2>2, <2>3, <2>4, <2>5, <2>6
<1>i. ASSUME NEW p \in Procs, Verify(p) PROVE IndInv'
  <2> USE <1>i, <1>none
  <2>1. TypeOK'
    BY <1>types DEF Verify, pool, states, world, mine, At, Goto, TypeOK, Labels
  <2>2. PlaceInv'
    BY DEF Verify, pool, states, world, mine, At, Goto, PlaceInv, WithBuffer, WithSource, WithFrame, TypeOK
  <2>3. LockInv'
    BY DEF Verify, pool, states, world, mine, At, Goto, LockInv, PlaceInv, WithBuffer, WithSource, WithFrame, TypeOK
  <2>4. FrameInv'
    BY <1>types DEF Verify, pool, states, world, mine, At, Goto, FrameInv
  <2>5. CountInv'
    BY DEF Verify, pool, states, world, mine, At, Goto, CountInv, Both, One
  <2>6. OrderInv'
    BY DEF Verify, pool, states, world, mine, At, Goto, OrderInv, OrderSorted
  <2> QED
    BY <2>1, <2>2, <2>3, <2>4, <2>5, <2>6
<1>j. ASSUME NEW p \in Procs, LoadStatus(p) PROVE IndInv'
  <2> USE <1>j, <1>none
  <2>1. TypeOK'
    <3>1. buf[p] \in Buffers
      BY DEF LoadStatus, At, PlaceInv, WithBuffer, TypeOK
    <3>2. status[buf[p]] \in SUBSET {Sensors, Feedback}
      BY <3>1 DEF TypeOK
    <3>3. cache' \in [Procs -> [status : SUBSET {Sensors, Feedback}, complete : BOOLEAN]]
      BY <3>2 DEF LoadStatus, TypeOK
    <3>4. pc' \in [Procs -> Labels]
      BY DEF LoadStatus, Goto, TypeOK, Labels
    <3> QED
      BY <3>3, <3>4 DEF LoadStatus, pool, states, world, TypeOK
  <2>2. PlaceInv'
    BY DEF LoadStatus, pool, states, world, mine, At, Goto, PlaceInv, WithBuffer, WithSource, WithFrame, TypeOK
  <2>3. LockInv'
    BY DEF LoadStatus, pool, states, world, mine, At, Goto, LockInv, PlaceInv, WithBuffer, WithSource, WithFrame, TypeOK
  <2>4. FrameInv'
    BY <1>types DEF LoadStatus, pool, states, world, mine, At, Goto, FrameInv
  <2>5. CountInv'
    BY DEF LoadStatus, pool, states, world, mine, At, Goto, CountInv, Both, One
  <2>6. OrderInv'
    BY DEF LoadStatus, pool, states, world, mine, At, Goto, OrderInv, OrderSorted
  <2> QED
    BY <2>1, <2>2, <2>3, <2>4, <2>5, <2>6
<1>k. ASSUME NEW p \in Procs, StoreStatus(p) PROVE IndInv'
  <2> USE <1>k, <1>none
  <2>1. TypeOK'
    BY DEF StoreStatus, pool, states, world, mine, At, Goto, PlaceInv, WithBuffer, WithSource, WithFrame, TypeOK, Labels
  <2>2. PlaceInv'
    BY DEF StoreStatus, pool, states, world, mine, At, Goto, PlaceInv, WithBuffer, WithSource, WithFrame, TypeOK
  <2>3. LockInv'
    BY DEF StoreStatus, pool, states, world, mine, At, Goto, LockInv, PlaceInv, WithBuffer, WithSource, WithFrame, TypeOK
  <2>4. FrameInv'
    BY <1>types DEF StoreStatus, pool, states, world, mine, At, Goto, FrameInv
  <2>5. CountInv'
    BY DEF StoreStatus, pool, states, world, mine, At, Goto, CountInv, Both, One
  <2>6. OrderInv'
    BY DEF StoreStatus, pool, states, world, mine, At, Goto, OrderInv, OrderSorted
  <2> QED
    BY <2>1, <2>2, <2>3, <2>4, <2>5, <2>6
<1>l. ASSUME NEW p \in Procs, Apply(p) PROVE IndInv'
  <2> USE <1>l, <1>none
  <2>1. TypeOK'
    <3>1. buf[p] \in Buffers \cup {None} /\ held[p] \in Buffers /\ msg[p] \in 0..MaxFrame
      BY <1>types DEF Apply, pool, states, world, mine, At, Goto, PlaceInv, WithBuffer, WithSource, WithFrame, TypeOK
    <3>2. Target(p) \in Buffers
      BY <3>1 DEF Target
    <3>3. sensors' \in [Buffers -> NoFrame..MaxFrame] /\ frameNumber' \in [Buffers -> NoFrame..MaxFrame]
      <4>1. sensors \in [Buffers -> NoFrame..MaxFrame] /\ frameNumber \in [Buffers -> NoFrame..MaxFrame]
        BY DEF TypeOK
      <4>2. msg[p] \in NoFrame..MaxFrame
        BY <3>1, <1>types
      <4>3. /\ sensors' \in {sensors, [sensors EXCEPT ![Target(p)] = msg[p]], [sensors EXCEPT ![Target(p)] = NoFrame]}
            /\ frameNumber' \in {frameNumber, [frameNumber EXCEPT ![Target(p)] = msg[p]]}
        BY DEF Apply, LoadFails, pool, states, world, mine, At, Goto
      <4>4. NoFrame \in NoFrame..MaxFrame
        BY <1>types
      <4> QED
        BY <4>1, <4>2, <4>3, <4>4, <3>2
    <3>4. cache' \in [Procs -> [status : SUBSET {Sensors, Feedback}, complete : BOOLEAN]]
      <4>1. cache[p].status \in SUBSET {Sensors, Feedback}
        BY DEF TypeOK
      <4>2. \A S : IsComplete(S) \in BOOLEAN
        BY DEF IsComplete
      <4> QED
        BY <4>1, <4>2 DEF Apply, pool, states, world, mine, At, Goto, TypeOK
    <3> QED
      BY <3>3, <3>4 DEF Apply, pool, states, world, mine, At, Goto, TypeOK, Labels
  <2>2. PlaceInv'
    BY DEF Apply, pool, states, world, mine, At, Goto, PlaceInv, WithBuffer, WithSource, WithFrame, TypeOK
  <2>3. LockInv'
    BY DEF Apply, pool, states, world, mine, At, Goto, LockInv, PlaceInv, WithBuffer, WithSource, WithFrame, TypeOK
  <2>4. FrameInv'
    BY <1>types DEF Apply, pool, states, world, mine, At, Goto, FrameInv
  <2>5. CountInv'
    BY DEF Apply, pool, states, world, mine, At, Goto, CountInv, Both, One
  <2>6. OrderInv'
    BY DEF Apply, pool, states, world, mine, At, Goto, OrderInv, OrderSorted
  <2> QED
    BY <2>1, <2>2, <2>3, <2>4, <2>5, <2>6
<1>m. ASSUME NEW p \in Procs, ReadSource(p) PROVE IndInv'
  <2> USE <1>m, <1>none
  <2>1. TypeOK'
    <3>1. newestComplete \in Buffers
      BY NewestIsABuffer
    <3> QED
      BY <3>1, <1>types DEF ReadSource, pool, states, world, mine, At, Goto, TypeOK, Labels
  <2>2. PlaceInv'
    <3>1. newestComplete \in Buffers
      BY NewestIsABuffer
    <3> QED
      BY <3>1, <1>types DEF ReadSource, pool, states, world, mine, At, Goto, PlaceInv, WithBuffer, WithSource, WithFrame, TypeOK
  <2>3. LockInv'
    BY DEF ReadSource, pool, states, world, mine, At, Goto, LockInv, PlaceInv, WithBuffer, WithSource, WithFrame, TypeOK
  <2>4. FrameInv'
    BY <1>types DEF ReadSource, pool, states, world, mine, At, Goto, FrameInv
  <2>5. CountInv'
    <3>1. newestComplete \in Buffers
      BY NewestIsABuffer
    <3>2. src' = [src EXCEPT ![p] = newestComplete] /\ src[p] = None
      BY DEF ReadSource, pool, states, world, mine, At, Goto, PlaceInv, WithBuffer, WithSource, WithFrame
    <3>3. \A b \in Buffers : Both(src', b) = Both(src, b) + (IF b = newestComplete THEN 1 ELSE 0)
      <4>1. src[p] = None /\ src'[p] = newestComplete /\ \A q \in Procs : q # p => src'[q] = src[q]
        BY <3>2 DEF TypeOK
      <4>2. \A b : Both(src, b) \in Nat /\ Both(src', b) = Both(src, b) - One(src, p, b) + One(src', p, b)
        BY <4>1, UserMoves
      <4> QED
        BY <4>1, <4>2 DEF One
    <3>4. \A b \in Buffers : reading'[b] = reading[b] + (IF b = newestComplete THEN 1 ELSE 0)
      BY <3>1 DEF ReadSource, pool, states, world, mine, At, Goto, TypeOK
    <3> QED
      BY <3>3, <3>4, UserIsCounted DEF CountInv, Both, One, ReadSource, pool, states, world, mine, At, Goto
  <2>6. OrderInv'
    BY DEF ReadSource, pool, states, world, mine, At, Goto, OrderInv, OrderSorted
  <2> QED
    BY <2>1, <2>2, <2>3, <2>4, <2>5, <2>6
<1>n. ASSUME NEW p \in Procs, LockBuffer(p) PROVE IndInv'
  <2> USE <1>n, <1>none
  <2>1. TypeOK'
    BY DEF LockBuffer, pool, states, world, mine, At, Goto, TypeOK, Labels
  <2>2. PlaceInv'
    BY DEF LockBuffer, pool, states, world, mine, At, Goto, PlaceInv, WithBuffer, WithSource, WithFrame, TypeOK
  <2>3. LockInv'
    <3>1. buf[p] \in Buffers
      BY DEF LockBuffer, pool, states, world, mine, At, Goto, PlaceInv, WithBuffer, WithSource, WithFrame, TypeOK
    <3> QED
      BY <3>1 DEF LockBuffer, pool, states, world, mine, At, Goto, LockInv, TypeOK
  <2>4. FrameInv'
    BY <1>types DEF LockBuffer, pool, states, world, mine, At, Goto, FrameInv
  <2>5. CountInv'
    BY DEF LockBuffer, pool, states, world, mine, At, Goto, CountInv, Both, One
  <2>6. OrderInv'
    BY DEF LockBuffer, pool, states, world, mine, At, Goto, OrderInv, OrderSorted
  <2> QED
    BY <2>1, <2>2, <2>3, <2>4, <2>5, <2>6
<1>o. ASSUME NEW p \in Procs, Retry(p) PROVE IndInv'
  <2> USE <1>o, <1>none
  <2>1. TypeOK'
    <3>1. buf[p] \in Buffers /\ pc[p] \in Labels \ {"wait", "apply"}
      BY DEF Retry, DoneWriting, pool, states, world, mine, At, Goto, PlaceInv, WithBuffer, WithSource, WithFrame, TypeOK, Labels
    <3>2. writing[buf[p]] > 0 /\ writing[buf[p]] \in Nat
      BY <3>1, UserIsCounted DEF CountInv, TypeOK
    <3>3. writing' \in [Buffers -> Nat]
      BY <3>1, <3>2 DEF Retry, DoneWriting, pool, states, world, mine, At, Goto, TypeOK
    <3> QED
      BY <3>1, <3>3 DEF Retry, DoneWriting, pool, states, world, mine, At, Goto, TypeOK, Labels
  <2>2. PlaceInv'
    BY DEF Retry, DoneWriting, pool, states, world, mine, At, Goto, PlaceInv, WithBuffer, WithSource, WithFrame, TypeOK
  <2>3. LockInv'
    <3>1. buf[p] \in Buffers /\ pc[p] \in Labels \ {"wait", "apply"}
      BY DEF Retry, DoneWriting, pool, states, world, mine, At, Goto, PlaceInv, WithBuffer, WithSource, WithFrame, TypeOK, Labels
    <3>2. \A q \in Procs : q # p /\ buf'[q] # None /\ pc'[q] # "wait" => buf[q] # buf[p]
      BY <3>1 DEF Retry, DoneWriting, pool, states, world, mine, At, Goto, LockInv, TypeOK
    <3> QED
      BY <3>1, <3>2 DEF Retry, DoneWriting, pool, states, world, mine, At, Goto, LockInv, TypeOK
  <2>4. FrameInv'
    BY <1>types DEF Retry, DoneWriting, pool, states, world, mine, At, Goto, FrameInv
  <2>5. CountInv'
    <3>1. buf[p] \in Buffers /\ pc[p] \in Labels \ {"wait", "apply"}
      BY DEF Retry, DoneWriting, pool, states, world, mine, At, Goto, PlaceInv, WithBuffer, WithSource, WithFrame, TypeOK, Labels
    <3>2. buf' = [buf EXCEPT ![p] = None]
      BY DEF Retry, DoneWriting, pool, states, world, mine, At, Goto
    <3>3. \A b \in Buffers : Both(buf', b) = Both(buf, b) - (IF b = buf[p] THEN 1 ELSE 0)
      <4>1. buf'[p] = None /\ \A q \in Procs : q # p => buf'[q] = buf[q]
        BY <3>2 DEF TypeOK
      <4>2. \A b : Both(buf, b) \in Nat /\ Both(buf', b) = Both(buf, b) - One(buf, p, b) + One(buf', p, b)
        BY <4>1, UserMoves
      <4> QED
        BY <4>1, <4>2 DEF One
    <3>4. \A b \in Buffers : writing'[b] = writing[b] - (IF b = buf[p] THEN 1 ELSE 0)
      BY <3>1 DEF Retry, DoneWriting, pool, states, world, mine, At, Goto, TypeOK
    <3> QED
      BY <3>3, <3>4, UserIsCounted DEF CountInv, Both, One, Retry, DoneWriting, pool, states, world, mine, At, Goto
  <2>6. OrderInv'
    BY DEF Retry, DoneWriting, pool, states, world, mine, At, Goto, OrderInv, OrderSorted
  <2> QED
    BY <2>1, <2>2, <2>3, <2>4, <2>5, <2>6
<1>q. ASSUME NEW p \in Procs, Complete(p) PROVE IndInv'
  <2> USE <1>q, <1>none
  <2>1. TypeOK'
    <3>1. buf[p] \in Buffers /\ pc[p] \in Labels \ {"wait", "apply"}
      BY DEF Complete, DoneWriting, pool, states, world, mine, At, Goto, PlaceInv, WithBuffer, WithSource, WithFrame, TypeOK, Labels
    <3>2. writing[buf[p]] > 0 /\ writing[buf[p]] \in Nat
      BY <3>1, UserIsCounted DEF CountInv, TypeOK
    <3>3. writing' \in [Buffers -> Nat]
      BY <3>1, <3>2 DEF Complete, DoneWriting, pool, states, world, mine, At, Goto, TypeOK
    <3> QED
      BY <3>1, <3>3 DEF Complete, DoneWriting, pool, states, world, mine, At, Goto, TypeOK, Labels
  <2>2. PlaceInv'
    BY DEF Complete, DoneWriting, pool, states, world, mine, At, Goto, PlaceInv, WithBuffer, WithSource, WithFrame, TypeOK
  <2>3. LockInv'
    <3>1. buf[p] \in Buffers /\ pc[p] \in Labels \ {"wait", "apply"}
      BY DEF Complete, DoneWriting, pool, states, world, mine, At, Goto, PlaceInv, WithBuffer, WithSource, WithFrame, TypeOK, Labels
    <3>2. \A q \in Procs : q # p /\ buf'[q] # None /\ pc'[q] # "wait" => buf[q] # buf[p]
      BY <3>1 DEF Complete, DoneWriting, pool, states, world, mine, At, Goto, LockInv, TypeOK
    <3> QED
      BY <3>1, <3>2 DEF Complete, DoneWriting, pool, states, world, mine, At, Goto, LockInv, TypeOK
  <2>4. FrameInv'
    BY <1>types DEF Complete, DoneWriting, pool, states, world, mine, At, Goto, FrameInv
  <2>5. CountInv'
    <3>1. buf[p] \in Buffers /\ pc[p] \in Labels \ {"wait", "apply"}
      BY DEF Complete, DoneWriting, pool, states, world, mine, At, Goto, PlaceInv, WithBuffer, WithSource, WithFrame, TypeOK, Labels
    <3>2. buf' = [buf EXCEPT ![p] = None]
      BY DEF Complete, DoneWriting, pool, states, world, mine, At, Goto
    <3>3. \A b \in Buffers : Both(buf', b) = Both(buf, b) - (IF b = buf[p] THEN 1 ELSE 0)
      <4>1. buf'[p] = None /\ \A q \in Procs : q # p => buf'[q] = buf[q]
        BY <3>2 DEF TypeOK
      <4>2. \A b : Both(buf, b) \in Nat /\ Both(buf', b) = Both(buf, b) - One(buf, p, b) + One(buf', p, b)
        BY <4>1, UserMoves
      <4> QED
        BY <4>1, <4>2 DEF One
    <3>4. \A b \in Buffers : writing'[b] = writing[b] - (IF b = buf[p] THEN 1 ELSE 0)
      BY <3>1 DEF Complete, DoneWriting, pool, states, world, mine, At, Goto, TypeOK
    <3> QED
      BY <3>3, <3>4, UserIsCounted DEF CountInv, Both, One, Complete, DoneWriting, pool, states, world, mine, At, Goto
  <2>6. OrderInv'
    BY DEF Complete, DoneWriting, pool, states, world, mine, At, Goto, OrderInv, OrderSorted
  <2> QED
    BY <2>1, <2>2, <2>3, <2>4, <2>5, <2>6
<1>r. ASSUME NEW p \in Procs, ReleaseSource(p) PROVE IndInv'
  <2> USE <1>r, <1>none
  <2>1. TypeOK'
    <3>1. src[p] \in Buffers
      BY DEF ReleaseSource, pool, states, world, mine, At, Goto, PlaceInv, WithBuffer, WithSource, WithFrame, TypeOK
    <3>2. reading[src[p]] > 0 /\ reading[src[p]] \in Nat
      BY <3>1, UserIsCounted DEF CountInv, TypeOK
    <3>3. reading' \in [Buffers -> Nat]
      BY <3>1, <3>2 DEF ReleaseSource, pool, states, world, mine, At, Goto, TypeOK
    <3> QED
      BY <3>1, <3>3 DEF ReleaseSource, pool, states, world, mine, At, Goto, TypeOK, Labels, Blank
  <2>2. PlaceInv'
    BY DEF ReleaseSource, pool, states, world, mine, At, Goto, PlaceInv, WithBuffer, WithSource, WithFrame, TypeOK
  <2>3. LockInv'
    BY DEF ReleaseSource, pool, states, world, mine, At, Goto, LockInv, PlaceInv, WithBuffer, WithSource, WithFrame, TypeOK
  <2>4. FrameInv'
    BY <1>types DEF ReleaseSource, pool, states, world, mine, At, Goto, FrameInv, TypeOK
  <2>5. CountInv'
    <3>1. src[p] \in Buffers
      BY DEF ReleaseSource, pool, states, world, mine, At, Goto, PlaceInv, WithBuffer, WithSource, WithFrame, TypeOK
    <3>2. src' = [src EXCEPT ![p] = None]
      BY DEF ReleaseSource, pool, states, world, mine, At, Goto
    <3>3. \A b \in Buffers : Both(src', b) = Both(src, b) - (IF b = src[p] THEN 1 ELSE 0)
      <4>1. src'[p] = None /\ \A q \in Procs : q # p => src'[q] = src[q]
        BY <3>2 DEF TypeOK
      <4>2. \A b : Both(src, b) \in Nat /\ Both(src', b) = Both(src, b) - One(src, p, b) + One(src', p, b)
        BY <4>1, UserMoves
      <4> QED
        BY <4>1, <4>2 DEF One
    <3>4. \A b \in Buffers : reading'[b] = reading[b] - (IF b = src[p] THEN 1 ELSE 0)
      BY <3>1 DEF ReleaseSource, pool, states, world, mine, At, Goto, TypeOK
    <3> QED
      BY <3>3, <3>4, UserIsCounted DEF CountInv, Both, One, ReleaseSource, pool, states, world, mine, At, Goto
  <2>6. OrderInv'
    BY DEF ReleaseSource, pool, states, world, mine, At, Goto, OrderInv, OrderSorted
  <2> QED
    BY <2>1, <2>2, <2>3, <2>4, <2>5, <2>6
<1>s. ASSUME NEW p \in Procs, Release(p) PROVE IndInv'
  <2> USE <1>s, <1>none
  <2>1. TypeOK'
    <3>1. held[p] \in Buffers
      BY DEF Release, pool, states, world, mine, At, Goto, PlaceInv, WithBuffer, WithSource, WithFrame, TypeOK
    <3>2. reading[held[p]] > 0 /\ reading[held[p]] \in Nat
      BY <3>1, UserIsCounted DEF CountInv, TypeOK
    <3>3. reading' \in [Buffers -> Nat]
      BY <3>1, <3>2 DEF Release, pool, states, world, mine, At, Goto, TypeOK
    <3> QED
      BY <3>1, <3>3 DEF Release, pool, states, world, mine, At, Goto, TypeOK, Labels, Blank
  <2>2. PlaceInv'
    BY DEF Release, pool, states, world, mine, At, Goto, PlaceInv, WithBuffer, WithSource, WithFrame, TypeOK
  <2>3. LockInv'
    BY DEF Release, pool, states, world, mine, At, Goto, LockInv, PlaceInv, WithBuffer, WithSource, WithFrame, TypeOK
  <2>4. FrameInv'
    BY <1>types DEF Release, pool, states, world, mine, At, Goto, FrameInv, TypeOK
  <2>5. CountInv'
    <3>1. held[p] \in Buffers
      BY DEF Release, pool, states, world, mine, At, Goto, PlaceInv, WithBuffer, WithSource, WithFrame, TypeOK
    <3>2. held' = [held EXCEPT ![p] = None]
      BY DEF Release, pool, states, world, mine, At, Goto
    <3>3. \A b \in Buffers : Both(held', b) = Both(held, b) - (IF b = held[p] THEN 1 ELSE 0)
      <4>1. held'[p] = None /\ \A q \in Procs : q # p => held'[q] = held[q]
        BY <3>2 DEF TypeOK
      <4>2. \A b : Both(held, b) \in Nat /\ Both(held', b) = Both(held, b) - One(held, p, b) + One(held', p, b)
        BY <4>1, UserMoves
      <4> QED
        BY <4>1, <4>2 DEF One
    <3>4. \A b \in Buffers : reading'[b] = reading[b] - (IF b = held[p] THEN 1 ELSE 0)
      BY <3>1 DEF Release, pool, states, world, mine, At, Goto, TypeOK
    <3> QED
      BY <3>3, <3>4, UserIsCounted DEF CountInv, Both, One, Release, pool, states, world, mine, At, Goto
  <2>6. OrderInv'
    BY DEF Release, pool, states, world, mine, At, Goto, OrderInv, OrderSorted
  <2> QED
    BY <2>1, <2>2, <2>3, <2>4, <2>5, <2>6
<1>t. ASSUME NEW p \in Procs, ChooseBuffer(p) PROVE IndInv'
  <2> USE <1>t, <1>none
  <2> DEFINE k == selectWriteState(msg[p])
             b == order[k]
             moved == Append(RemoveAt(order, k), b)
  <2>1. msg[p] \in 0..MaxFrame /\ msg[p] \in Nat
    BY <1>types DEF ChooseBuffer, pool, states, world, mine, At, Goto, PlaceInv, WithBuffer, WithSource, WithFrame
  <2>2. /\ k \in 1..NumStates /\ b \in Buffers
        /\ \/ frames[Last(order)] = msg[p] /\ k = NumStates
           \/ frames[Last(order)] < msg[p] /\ frames[b] < msg[p]
    BY <2>1, <1>order, ChosenPlace DEF ChooseBuffer, pool, states, world, mine, At, Goto
  <2>3. /\ moved \in Seq(Buffers) /\ Len(moved) = NumStates
        /\ \A j \in 1..NumStates :
             moved[j] = IF j < k THEN order[j] ELSE IF j < NumStates THEN order[j+1] ELSE order[k]
    <3>1. order \in Seq(Buffers) /\ Len(order) = NumStates /\ k \in 1..Len(order)
      BY <2>2 DEF TypeOK, OrderInv
    <3> HIDE DEF k
    <3> QED
      BY <3>1, MoveToBack
  <2>new. /\ buf' = [buf EXCEPT ![p] = b] /\ buf[p] = None
          /\ writing' = [writing EXCEPT ![b] = @ + 1]
          /\ IF frames[b] = msg[p]
             THEN UNCHANGED <<order, frames, status, complete, scarce>>
             ELSE /\ order' = moved
                  /\ frames' = [frames EXCEPT ![b] = msg[p]]
                  /\ status' = [status EXCEPT ![b] = {}]
                  /\ complete' = complete \ {b}
                  /\ scarce' = (scarce \/ writing[b] > 0)
          /\ pc[p] = "choose" /\ pc' = [pc EXCEPT ![p] = "wait"]
          /\ UNCHANGED <<reading, writeLocks, sensors, frameNumber, newest, received, task, msg, held, src, cache>>
    BY DEF ChooseBuffer, pool, states, world, mine, At, Goto, PlaceInv, WithBuffer, WithSource, WithFrame
  <2> HIDE DEF k, b, moved
  <2>4. TypeOK'
    <3>1. scarce' \in BOOLEAN
      BY <2>new DEF TypeOK
    <3> QED
      <4>1. order' \in Seq(Buffers) /\ complete' \subseteq Buffers
        BY <2>new, <2>3 DEF TypeOK
      <4>2. frames' \in [Buffers -> 0..MaxFrame] /\ status' \in [Buffers -> SUBSET {Sensors, Feedback}]
        BY <2>new, <2>1, <2>2 DEF TypeOK
      <4>3. buf' \in [Procs -> Buffers \cup {None}] /\ pc' \in [Procs -> Labels]
        BY <2>new, <2>2 DEF TypeOK, Labels
      <4>4. writing' \in [Buffers -> Nat]
        BY <2>new, <2>2 DEF TypeOK
      <4> QED
        BY <4>1, <4>2, <4>3, <4>4, <3>1, <2>new DEF TypeOK
  <2>5. PlaceInv'
    BY <2>new, <2>2 DEF PlaceInv, WithBuffer, WithSource, WithFrame, TypeOK
  <2>6. LockInv'
    BY <2>new, <2>2 DEF LockInv, TypeOK
  <2>7. FrameInv'
    BY <2>new, <2>1, <2>2, <1>types DEF FrameInv
  <2>8. CountInv'
    <3>1. \A c \in Buffers : Both(buf', c) = Both(buf, c) + (IF c = b THEN 1 ELSE 0)
      <4>1. buf[p] = None /\ buf'[p] = b /\ \A q \in Procs : q # p => buf'[q] = buf[q]
        BY <2>new DEF TypeOK
      <4>2. \A c : Both(buf, c) \in Nat /\ Both(buf', c) = Both(buf, c) - One(buf, p, c) + One(buf', p, c)
        BY <4>1, UserMoves
      <4> QED
        BY <4>1, <4>2 DEF One
    <3>2. \A c \in Buffers : writing'[c] = writing[c] + (IF c = b THEN 1 ELSE 0)
      <4>1. writing \in [Buffers -> Nat] /\ writing' = [writing EXCEPT ![b] = @ + 1]
        BY <2>new DEF TypeOK
      <4> QED
        BY <4>1, <2>2
    <3> QED
      BY <3>1, <3>2, <2>new, UserIsCounted DEF CountInv, Both, One
  <2>9. OrderInv'
    <3>1. CASE frames[b] = msg[p]
      BY <3>1, <2>new DEF OrderInv, OrderSorted
    <3>2. CASE frames[b] # msg[p]
      <4>1. order' = moved /\ DOMAIN moved = 1..NumStates /\ frames' = [frames EXCEPT ![b] = msg[p]]
        BY <3>2, <2>new, <2>3
      <4>old. /\ \A i, j \in 1..NumStates : order[i] = order[j] => i = j
              /\ \A i, j \in 1..NumStates : i < j => frames[order[i]] <= frames[order[j]]
              /\ \A c \in Buffers : \E j \in 1..NumStates : order[j] = c
        BY <1>order DEF OrderInv, OrderSorted, IsInjective, Range
      <4>at. \A j \in 1..NumStates :
               \E i \in 1..NumStates : /\ moved[j] = order[i]
                                       /\ i = IF j < k THEN j ELSE IF j < NumStates THEN j+1 ELSE k
        BY <2>2, <2>3, <1>order
      <4>2. IsInjective(moved)
        <5>1. ASSUME NEW i \in 1..NumStates, NEW j \in 1..NumStates, moved[i] = moved[j] PROVE i = j
          <6>1. PICK ii \in 1..NumStates : moved[i] = order[ii] /\ ii = IF i < k THEN i ELSE IF i < NumStates THEN i+1 ELSE k
            BY <4>at, Zenon
          <6>2. PICK jj \in 1..NumStates : moved[j] = order[jj] /\ jj = IF j < k THEN j ELSE IF j < NumStates THEN j+1 ELSE k
            BY <4>at, Zenon
          <6>3. ii = jj
            BY <5>1, <6>1, <6>2, <4>old
          <6> QED
            BY <6>1, <6>2, <6>3, <2>2, <1>order
        <5> QED
          BY <5>1, <4>1 DEF IsInjective
      <4>3. Range(moved) = Buffers
        <5>1. ASSUME NEW c \in Buffers PROVE \E j \in 1..NumStates : moved[j] = c
          <6>1. PICK i \in 1..NumStates : order[i] = c
            BY <4>old
          <6>2. CASE i < k
            BY <6>1, <6>2, <2>2, <2>3
          <6>3. CASE i = k
            BY <6>1, <6>3, <2>2, <2>3, <1>order
          <6>4. CASE i > k
            <7>1. i-1 \in 1..NumStates /\ ~(i-1 < k) /\ i-1 < NumStates /\ (i-1)+1 = i
              BY <6>4, <2>2, <1>order
            <7> QED
              BY <7>1, <6>1, <2>3
          <6> QED
            BY <6>2, <6>3, <6>4, <2>2
        <5>2. \A j \in 1..NumStates : moved[j] \in Buffers
          BY <4>at, <1>order
        <5> QED
          BY <5>1, <5>2, <4>1 DEF Range
      <4>4. ASSUME NEW i \in 1..NumStates, NEW j \in 1..NumStates, i < j
            PROVE  frames'[moved[i]] <= frames'[moved[j]]
        <5>0. \A h \in 1..NumStates : frames[order[h]] \in 0..MaxFrame /\ frames[order[h]] < msg[p]
          <6> TAKE h \in 1..NumStates
          <6>1. frames[order[h]] <= frames[order[NumStates]] /\ frames[order[NumStates]] < msg[p]
            BY <4>old, <1>order, <1>types, <2>1, <2>2, <3>2 DEF b
          <6> QED
            BY <6>1, <1>order, <1>types, <2>1
        <5>1. PICK ii \in 1..NumStates : moved[i] = order[ii] /\ ii = (IF i < k THEN i ELSE i+1)
          <6>1. PICK ii \in 1..NumStates : moved[i] = order[ii] /\ ii = IF i < k THEN i ELSE IF i < NumStates THEN i+1 ELSE k
            BY <4>at, Zenon
          <6>2. i < NumStates
            BY <4>4, <1>order
          <6> QED
            BY <6>1, <6>2
        <5>2. ii # k
          BY <5>1, <2>2
        <5>3. order[ii] # b
          BY <5>2, <4>old, <2>2 DEF b
        <5>4. frames'[moved[i]] = frames[order[ii]]
          BY <5>1, <5>3, <4>1, <1>order, <1>types
        <5>5. CASE j = NumStates
          <6>1. moved[j] = b
            BY <5>5, <2>3, <2>2 DEF b
          <6> QED
            BY <6>1, <5>4, <5>0, <4>1, <2>2, <1>types, <2>1
        <5>6. CASE j < NumStates
          <6>1. PICK jj \in 1..NumStates : moved[j] = order[jj] /\ jj = (IF j < k THEN j ELSE j+1)
            BY <5>6, <4>at
          <6>2. jj # k /\ ii < jj
            BY <6>1, <5>1, <2>2, <4>4
          <6>3. order[jj] # b
            BY <6>2, <4>old, <2>2 DEF b
          <6>4. frames'[moved[j]] = frames[order[jj]]
            BY <6>1, <6>3, <4>1, <1>order, <1>types
          <6> QED
            BY <6>2, <6>4, <5>4, <4>old
        <5> QED
          BY <5>5, <5>6, <1>order
      <4> QED
        BY <4>1, <4>2, <4>3, <4>4, <2>3 DEF OrderInv, OrderSorted
    <3> QED
      BY <3>1, <3>2
  <2> QED
    BY <2>4, <2>5, <2>6, <2>7, <2>8, <2>9
<1> QED
  BY <1>a, <1>b, <1>c, <1>d, <1>e, <1>f, <1>g, <1>h, <1>i, <1>j, <1>k, <1>l, <1>m, <1>n, <1>o,
     <1>q, <1>r, <1>s, <1>t DEF Next, Process, Write

\* The bookkeeping of the pool (order, the counts of readers and writers, the frames)
\* is right whatever the two processes do.
THEOREM PoolStaysSound == Spec => []PoolIsSound
<1>1. IndInv => PoolIsSound
  BY UsersCounted DEF IndInv, PoolIsSound, CountInv, CountsAgree, Both, OrderInv
<1> QED
  BY <1>1, Starting, Stepping, PTL DEF Spec

-----------------------------------------------------------------------------
(* While no buffer is scarce. *)

\* All sensors of the frame the buffer is for.
Whole(b) == frameNumber[b] = sensors[b] /\ sensors[b] = frames[b]
\* ... or of none.
Readable(b) == frameNumber[b] = sensors[b] /\ frameNumber[b] \in {frames[b], NoFrame}

\* What is read is complete.
ReadInv ==
  /\ complete # {}
  /\ \A p \in Procs : /\ held[p] # None => held[p] \in complete
                      /\ src[p] # None => src[p] \in complete

\* A writer's buffer stays for its frame; who has got none is too late.
WriteInv ==
  \A p \in Procs : /\ buf[p] # None => frames[buf[p]] = msg[p]
                   /\ pc[p] = "apply" /\ buf[p] = None => msg[p] < newest

\* Nobody completes a buffer or changes its status while another has its lock.
CacheInv ==
  \A p \in Procs : pc[p] = "apply" /\ buf[p] # None =>
    /\ cache[p].status = status[buf[p]]
    /\ cache[p].complete = (buf[p] \in complete)

\* What the status says, of a buffer or of the request that writes it.
WholeInv ==
  /\ \A b \in Buffers : /\ Sensors \in status[b] => Whole(b)
                        /\ b \in complete => Readable(b)
  /\ \A p \in Procs : pc[p] \in {"store", "done"} =>
       /\ Sensors \in cache[p].status => Whole(buf[p])
       /\ cache[p].complete => Readable(buf[p])

\* Feedback completes a buffer.
DoneInv ==
  /\ \A b \in Buffers : Feedback \in status[b] =>
       b \in complete \/ \E p \in Procs : pc[p] = "done" /\ buf[p] = b /\ cache[p].complete
  /\ \A p \in Procs : pc[p] \in {"store", "done"} /\ Feedback \in cache[p].status => cache[p].complete

\* Motion has not given its feedback to the frame it is about to apply.
BeforeApply == WithFrame \ {"store", "done", "releaseSource"}
FeedbackInv ==
  /\ task[Motion] = "sensors" /\ pc[Motion] \in WithFrame => msg[Motion] = received[Motion]
  /\ pc[Motion] = "request" => task[Motion] # "sensors"
  /\ \A b \in Buffers : Feedback \in status[b] =>
       /\ frames[b] <= received[Motion]
       /\ task[Motion] = "sensors" /\ pc[Motion] \in BeforeApply => frames[b] < received[Motion]
  /\ \A p \in Procs : pc[p] = "store" /\ Feedback \in cache[p].status =>
       Feedback \in status[buf[p]] \/ (p = Motion /\ task[p] = "sensors")

Quiet == ReadInv /\ WriteInv /\ CacheInv /\ WholeInv /\ DoneInv /\ FeedbackInv
QuietInv == ~scarce => Quiet

\* So does the one of what is read and written, as long as nothing was scarce,
LEMMA QuietAtFirst == Init => QuietInv
<1> SUFFICES ASSUME Init PROVE QuietInv
  OBVIOUS
<1> USE PoolAssumption DEF Init
<1>1. ReadInv
  <2>1. 0 \in Buffers \ {NumStates - 1}
    BY DEF Buffers
  <2> QED
    BY <2>1 DEF ReadInv
<1>2. WriteInv /\ CacheInv /\ DoneInv
  BY DEF WriteInv, CacheInv, DoneInv
<1>3. WholeInv
  BY DEF WholeInv, Readable
<1>4. FeedbackInv
  <2>1. Motion \in Procs
    BY DEF Procs
  <2> QED
    BY <2>1 DEF FeedbackInv, WithFrame, WithSource, WithBuffer, BeforeApply
<1> QED
  BY <1>1, <1>2, <1>3, <1>4 DEF QuietInv, Quiet

\* at first and after each step.
LEMMA QuietSteps == ASSUME IndInv, QuietInv, [Next]_vars PROVE QuietInv'
<1>1. scarce \in BOOLEAN /\ (scarce => scarce')
  BY DEF IndInv, TypeOK, Next, Process, Write, SendFrame, Behave, UpdatePIDs, GotSensors, Begin,
         RequestNewest, IsUnread, ReadSource, ChooseNothing, ChooseBuffer, LockBuffer, Verify, Retry,
         DoneWriting, LoadStatus, Apply, StoreStatus, Complete, ReleaseSource, Release, mine, vars
<1> SUFFICES ASSUME ~scarce, ~scarce'
             PROVE  Quiet'
  BY <1>1 DEF QuietInv, Quiet
<1>quiet. ReadInv /\ WriteInv /\ CacheInv /\ WholeInv /\ DoneInv /\ FeedbackInv
  BY DEF QuietInv, Quiet
<1>motion. Motion \in Procs /\ Procs = {Main, Motion} /\ Main # Motion
  BY DEF Procs, Main, Motion
<1>type. TypeOK /\ OrderInv /\ PlaceInv /\ LockInv
  BY DEF IndInv
<1>nums. /\ frames \in [Buffers -> 0..MaxFrame] /\ MaxFrame \in Nat
         /\ newest \in NoFrame..MaxFrame /\ NoFrame = -1
         /\ \A q \in Procs : received[q] \in NoFrame..MaxFrame
         /\ \A q \in Procs : msg[q] # None => msg[q] \in 0..MaxFrame
         /\ \A b \in Buffers : frames[b] \in 0..MaxFrame
  BY <1>type, PoolAssumption DEF TypeOK, NoFrame
<1>none. None \notin Buffers /\ None \notin Procs /\ None \notin Int
  BY PoolAssumption DEF Buffers, Procs, Main, Motion
<1>place. \A q \in Procs : /\ pc[q] \in WithBuffer => buf[q] \in Buffers
                           /\ pc[q] \in WithFrame => msg[q] \in 0..MaxFrame
                           /\ pc[q] \in WithSource => src[q] \in Buffers
                           /\ pc[q] # "idle" => held[q] \in Buffers
                           /\ buf[q] # None => buf[q] \in Buffers /\ pc[q] \in WithBuffer \cup {"apply"}
  BY <1>type, <1>nums DEF TypeOK, PlaceInv
<1>lock. \A q, r \in Procs : /\ buf[q] # None /\ pc[q] # "wait"
                             /\ buf[r] # None /\ pc[r] # "wait" /\ q # r
                             => buf[q] # buf[r]
  BY <1>type DEF LockInv
<1>newest. newestComplete \in complete /\ newestComplete \in Buffers
  BY <1>type, <1>quiet, NewestIsABuffer DEF ReadInv
<1>last. Last(order) \in Buffers /\ None # NumStates /\ NumStates \in Nat
  <2>1. order \in Seq(Buffers) /\ Len(order) = NumStates /\ NumStates \in Nat \ {0, 1}
    BY <1>type, PoolAssumption DEF TypeOK, OrderInv
  <2> QED
    BY <2>1, <1>none, ElementOfSeq DEF Last
<1>a. CASE UNCHANGED vars
  BY <1>a, <1>quiet DEF Quiet, vars, pool, states, world, mine, ReadInv, WriteInv, CacheInv, WholeInv, Whole,
        Readable, DoneInv, FeedbackInv
<1>b. ASSUME SendFrame PROVE Quiet'
  <2> USE <1>b, <1>none, <1>motion
  <2>1. ReadInv'
    BY <1>quiet, <1>place, <1>nums DEF SendFrame, pool, states, world, mine, At, Goto, ReadInv, TypeOK, WithBuffer, WithSource, WithFrame
  <2>2. WriteInv'
    BY <1>quiet, <1>place, <1>nums DEF SendFrame, pool, states, world, mine, At, Goto, WriteInv, TypeOK, WithBuffer, WithSource, WithFrame
  <2>3. CacheInv'
    BY <1>quiet, <1>place, <1>nums DEF SendFrame, pool, states, world, mine, At, Goto, CacheInv, TypeOK, WithBuffer, WithSource, WithFrame
  <2>4. WholeInv'
    BY <1>quiet, <1>place, <1>nums DEF SendFrame, pool, states, world, mine, At, Goto, WholeInv, Whole, Readable, TypeOK, WithBuffer, WithSource, WithFrame
  <2>5. DoneInv'
    BY <1>quiet, <1>place, <1>nums DEF SendFrame, pool, states, world, mine, At, Goto, DoneInv, TypeOK, WithBuffer, WithSource, WithFrame
  <2>6. FeedbackInv'
    BY <1>quiet, <1>place, <1>nums DEF SendFrame, pool, states, world, mine, At, Goto, FeedbackInv, BeforeApply, TypeOK, WithBuffer, WithSource, WithFrame
  <2> QED
    BY <2>1, <2>2, <2>3, <2>4, <2>5, <2>6 DEF Quiet
<1>c. ASSUME NEW p \in Procs, Behave(p) PROVE Quiet'
  <2> USE <1>c, <1>none, <1>motion
  <2>1. ReadInv'
    BY <1>quiet, <1>place, <1>nums, <1>newest, <1>type DEF Behave, Begin, pool, states, world, mine, At, Goto, ReadInv, TypeOK, WithBuffer, WithSource, WithFrame
  <2>2. WriteInv'
    BY <1>quiet, <1>place, <1>nums, <1>newest, <1>type DEF Behave, Begin, pool, states, world, mine, At, Goto, WriteInv, TypeOK, WithBuffer, WithSource, WithFrame
  <2>3. CacheInv'
    BY <1>quiet, <1>place, <1>nums, <1>newest, <1>type DEF Behave, Begin, pool, states, world, mine, At, Goto, CacheInv, TypeOK, WithBuffer, WithSource, WithFrame
  <2>4. WholeInv'
    BY <1>quiet, <1>place, <1>nums, <1>newest, <1>type DEF Behave, Begin, pool, states, world, mine, At, Goto, WholeInv, Whole, Readable, TypeOK, WithBuffer, WithSource, WithFrame
  <2>5. DoneInv'
    BY <1>quiet, <1>place, <1>nums, <1>newest, <1>type DEF Behave, Begin, pool, states, world, mine, At, Goto, DoneInv, TypeOK, WithBuffer, WithSource, WithFrame
  <2>6. FeedbackInv'
    BY <1>quiet, <1>place, <1>nums, <1>newest, <1>type DEF Behave, Begin, pool, states, world, mine, At, Goto, FeedbackInv, BeforeApply, TypeOK, WithBuffer, WithSource, WithFrame
  <2> QED
    BY <2>1, <2>2, <2>3, <2>4, <2>5, <2>6 DEF Quiet
<1>d. ASSUME NEW p \in Procs, UpdatePIDs(p) PROVE Quiet'
  <2> USE <1>d, <1>none, <1>motion
  <2>1. ReadInv'
    BY <1>quiet, <1>place, <1>nums, <1>newest, <1>type DEF UpdatePIDs, Begin, pool, states, world, mine, At, Goto, ReadInv, TypeOK, WithBuffer, WithSource, WithFrame
  <2>2. WriteInv'
    BY <1>quiet, <1>place, <1>nums, <1>newest, <1>type DEF UpdatePIDs, Begin, pool, states, world, mine, At, Goto, WriteInv, TypeOK, WithBuffer, WithSource, WithFrame
  <2>3. CacheInv'
    BY <1>quiet, <1>place, <1>nums, <1>newest, <1>type DEF UpdatePIDs, Begin, pool, states, world, mine, At, Goto, CacheInv, TypeOK, WithBuffer, WithSource, WithFrame
  <2>4. WholeInv'
    BY <1>quiet, <1>place, <1>nums, <1>newest, <1>type DEF UpdatePIDs, Begin, pool, states, world, mine, At, Goto, WholeInv, Whole, Readable, TypeOK, WithBuffer, WithSource, WithFrame
  <2>5. DoneInv'
    BY <1>quiet, <1>place, <1>nums, <1>newest, <1>type DEF UpdatePIDs, Begin, pool, states, world, mine, At, Goto, DoneInv, TypeOK, WithBuffer, WithSource, WithFrame
  <2>6. FeedbackInv'
    BY <1>quiet, <1>place, <1>nums, <1>newest, <1>type DEF UpdatePIDs, Begin, pool, states, world, mine, At, Goto, FeedbackInv, BeforeApply, TypeOK, WithBuffer, WithSource, WithFrame
  <2> QED
    BY <2>1, <2>2, <2>3, <2>4, <2>5, <2>6 DEF Quiet
<1>e. ASSUME NEW p \in Procs, GotSensors(p) PROVE Quiet'
  <2> USE <1>e, <1>none, <1>motion
  <2>n. PICK n \in received[p] + 1..newest :
          Begin(p, "sensors", n, "isUnread") /\ received' = [received EXCEPT ![p] = n]
    BY DEF GotSensors
  <2>m. n \in Int /\ n > received[p] /\ n <= newest /\ n # None
    BY <2>n, <1>nums
  <2>1. ReadInv'
    BY <1>quiet, <1>place, <1>nums, <1>newest, <1>type, <2>n, <2>m DEF Begin, pool, states, world, mine, At, Goto, ReadInv, TypeOK, WithBuffer, WithSource, WithFrame
  <2>2. WriteInv'
    BY <1>quiet, <1>place, <1>nums, <1>newest, <1>type, <2>n, <2>m DEF Begin, pool, states, world, mine, At, Goto, WriteInv, TypeOK, WithBuffer, WithSource, WithFrame
  <2>3. CacheInv'
    BY <1>quiet, <1>place, <1>nums, <1>newest, <1>type, <2>n, <2>m DEF Begin, pool, states, world, mine, At, Goto, CacheInv, TypeOK, WithBuffer, WithSource, WithFrame
  <2>4. WholeInv'
    BY <1>quiet, <1>place, <1>nums, <1>newest, <1>type, <2>n, <2>m DEF Begin, pool, states, world, mine, At, Goto, WholeInv, Whole, Readable, TypeOK, WithBuffer, WithSource, WithFrame
  <2>5. DoneInv'
    BY <1>quiet, <1>place, <1>nums, <1>newest, <1>type, <2>n, <2>m DEF Begin, pool, states, world, mine, At, Goto, DoneInv, TypeOK, WithBuffer, WithSource, WithFrame
  <2>6. FeedbackInv'
    <3>1. /\ UNCHANGED <<status, frames, buf, cache>>
          /\ task' = [task EXCEPT ![p] = "sensors"] /\ msg' = [msg EXCEPT ![p] = n]
          /\ pc' = [pc EXCEPT ![p] = "isUnread"] /\ received' = [received EXCEPT ![p] = n]
      BY <2>n DEF Begin, Goto
    <3>2. /\ \A q \in Procs : q # p => /\ task'[q] = task[q] /\ msg'[q] = msg[q]
                                       /\ pc'[q] = pc[q] /\ received'[q] = received[q]
          /\ msg'[p] = n /\ pc'[p] = "isUnread" /\ received'[p] = n
      BY <3>1, <1>type DEF TypeOK
    <3>3. CASE p = Motion
      <4>1. \A b \in Buffers : Feedback \in status[b] => frames[b] <= received[Motion]
        BY <1>quiet DEF FeedbackInv
      <4>2. \A b \in Buffers : frames[b] \in Int /\ received[Motion] \in Int
        BY <1>nums
      <4>3. \A b \in Buffers : Feedback \in status'[b] => frames'[b] < received'[Motion]
        BY <3>1, <3>2, <3>3, <4>1, <4>2, <2>m
      <4>4. \A b \in Buffers : Feedback \in status'[b] => frames'[b] <= received'[Motion]
        BY <3>1, <3>2, <3>3, <4>1, <4>2, <2>m
      <4> QED
        BY <3>1, <3>2, <3>3, <4>3, <4>4, <1>quiet DEF FeedbackInv
    <3>4. CASE p # Motion
      BY <3>1, <3>2, <3>4, <1>quiet DEF FeedbackInv
    <3> QED
      BY <3>3, <3>4
  <2> QED
    BY <2>1, <2>2, <2>3, <2>4, <2>5, <2>6 DEF Quiet
<1>f. ASSUME NEW p \in Procs, RequestNewest(p) PROVE Quiet'
  <2> USE <1>f, <1>none, <1>motion
  <2>1. ReadInv'
    BY <1>quiet, <1>place, <1>nums, <1>type DEF RequestNewest, pool, states, world, mine, At, Goto, ReadInv, TypeOK, WithBuffer, WithSource, WithFrame
  <2>2. WriteInv'
    BY <1>quiet, <1>place, <1>nums, <1>type DEF RequestNewest, pool, states, world, mine, At, Goto, WriteInv, TypeOK, WithBuffer, WithSource, WithFrame
  <2>3. CacheInv'
    BY <1>quiet, <1>place, <1>nums, <1>type DEF RequestNewest, pool, states, world, mine, At, Goto, CacheInv, TypeOK, WithBuffer, WithSource, WithFrame
  <2>4. WholeInv'
    BY <1>quiet, <1>place, <1>nums, <1>type DEF RequestNewest, pool, states, world, mine, At, Goto, WholeInv, Whole, Readable, TypeOK, WithBuffer, WithSource, WithFrame
  <2>5. DoneInv'
    BY <1>quiet, <1>place, <1>nums, <1>type DEF RequestNewest, pool, states, world, mine, At, Goto, DoneInv, TypeOK, WithBuffer, WithSource, WithFrame
  <2>6. FeedbackInv'
    BY <1>quiet, <1>place, <1>nums, <1>type DEF RequestNewest, pool, states, world, mine, At, Goto, FeedbackInv, BeforeApply, TypeOK, WithBuffer, WithSource, WithFrame
  <2> QED
    BY <2>1, <2>2, <2>3, <2>4, <2>5, <2>6 DEF Quiet
<1>g. ASSUME NEW p \in Procs, IsUnread(p) PROVE Quiet'
  <2> USE <1>g, <1>none, <1>motion
  <2>1. ReadInv'
    BY <1>quiet, <1>place, <1>nums, <1>type DEF IsUnread, pool, states, world, mine, At, Goto, ReadInv, TypeOK, WithBuffer, WithSource, WithFrame
  <2>2. WriteInv'
    BY <1>quiet, <1>place, <1>nums, <1>type DEF IsUnread, pool, states, world, mine, At, Goto, WriteInv, TypeOK, WithBuffer, WithSource, WithFrame
  <2>3. CacheInv'
    BY <1>quiet, <1>place, <1>nums, <1>type DEF IsUnread, pool, states, world, mine, At, Goto, CacheInv, TypeOK, WithBuffer, WithSource, WithFrame
  <2>4. WholeInv'
    BY <1>quiet, <1>place, <1>nums, <1>type DEF IsUnread, pool, states, world, mine, At, Goto, WholeInv, Whole, Readable, TypeOK, WithBuffer, WithSource, WithFrame
  <2>5. DoneInv'
    BY <1>quiet, <1>place, <1>nums, <1>type DEF IsUnread, pool, states, world, mine, At, Goto, DoneInv, TypeOK, WithBuffer, WithSource, WithFrame
  <2>6. FeedbackInv'
    BY <1>quiet, <1>place, <1>nums, <1>type DEF IsUnread, pool, states, world, mine, At, Goto, FeedbackInv, BeforeApply, TypeOK, WithBuffer, WithSource, WithFrame
  <2> QED
    BY <2>1, <2>2, <2>3, <2>4, <2>5, <2>6 DEF Quiet
<1>h. ASSUME NEW p \in Procs, ReadSource(p) PROVE Quiet'
  <2> USE <1>h, <1>none, <1>motion
  <2>1. ReadInv'
    BY <1>quiet, <1>place, <1>nums, <1>type, <1>newest DEF ReadSource, pool, states, world, mine, At, Goto, ReadInv, TypeOK, WithBuffer, WithSource, WithFrame
  <2>2. WriteInv'
    BY <1>quiet, <1>place, <1>nums, <1>type, <1>newest DEF ReadSource, pool, states, world, mine, At, Goto, WriteInv, TypeOK, WithBuffer, WithSource, WithFrame
  <2>3. CacheInv'
    BY <1>quiet, <1>place, <1>nums, <1>type, <1>newest DEF ReadSource, pool, states, world, mine, At, Goto, CacheInv, TypeOK, WithBuffer, WithSource, WithFrame
  <2>4. WholeInv'
    BY <1>quiet, <1>place, <1>nums, <1>type, <1>newest DEF ReadSource, pool, states, world, mine, At, Goto, WholeInv, Whole, Readable, TypeOK, WithBuffer, WithSource, WithFrame
  <2>5. DoneInv'
    BY <1>quiet, <1>place, <1>nums, <1>type, <1>newest DEF ReadSource, pool, states, world, mine, At, Goto, DoneInv, TypeOK, WithBuffer, WithSource, WithFrame
  <2>6. FeedbackInv'
    BY <1>quiet, <1>place, <1>nums, <1>type, <1>newest DEF ReadSource, pool, states, world, mine, At, Goto, FeedbackInv, BeforeApply, TypeOK, WithBuffer, WithSource, WithFrame
  <2> QED
    BY <2>1, <2>2, <2>3, <2>4, <2>5, <2>6 DEF Quiet
<1>j. ASSUME NEW p \in Procs, LockBuffer(p) PROVE Quiet'
  <2> USE <1>j, <1>none, <1>motion
  <2>1. ReadInv'
    BY <1>quiet, <1>place, <1>nums, <1>type DEF LockBuffer, pool, states, world, mine, At, Goto, ReadInv, TypeOK, WithBuffer, WithSource, WithFrame
  <2>2. WriteInv'
    BY <1>quiet, <1>place, <1>nums, <1>type DEF LockBuffer, pool, states, world, mine, At, Goto, WriteInv, TypeOK, WithBuffer, WithSource, WithFrame
  <2>3. CacheInv'
    BY <1>quiet, <1>place, <1>nums, <1>type DEF LockBuffer, pool, states, world, mine, At, Goto, CacheInv, TypeOK, WithBuffer, WithSource, WithFrame
  <2>4. WholeInv'
    BY <1>quiet, <1>place, <1>nums, <1>type DEF LockBuffer, pool, states, world, mine, At, Goto, WholeInv, Whole, Readable, TypeOK, WithBuffer, WithSource, WithFrame
  <2>5. DoneInv'
    BY <1>quiet, <1>place, <1>nums, <1>type DEF LockBuffer, pool, states, world, mine, At, Goto, DoneInv, TypeOK, WithBuffer, WithSource, WithFrame
  <2>6. FeedbackInv'
    BY <1>quiet, <1>place, <1>nums, <1>type DEF LockBuffer, pool, states, world, mine, At, Goto, FeedbackInv, BeforeApply, TypeOK, WithBuffer, WithSource, WithFrame
  <2> QED
    BY <2>1, <2>2, <2>3, <2>4, <2>5, <2>6 DEF Quiet
<1>k. ASSUME NEW p \in Procs, Verify(p) PROVE Quiet'
  <2> USE <1>k, <1>none, <1>motion
  <2>1. ReadInv'
    BY <1>quiet, <1>place, <1>nums, <1>type DEF Verify, pool, states, world, mine, At, Goto, ReadInv, TypeOK, WithBuffer, WithSource, WithFrame
  <2>2. WriteInv'
    BY <1>quiet, <1>place, <1>nums, <1>type DEF Verify, pool, states, world, mine, At, Goto, WriteInv, TypeOK, WithBuffer, WithSource, WithFrame
  <2>3. CacheInv'
    BY <1>quiet, <1>place, <1>nums, <1>type DEF Verify, pool, states, world, mine, At, Goto, CacheInv, TypeOK, WithBuffer, WithSource, WithFrame
  <2>4. WholeInv'
    BY <1>quiet, <1>place, <1>nums, <1>type DEF Verify, pool, states, world, mine, At, Goto, WholeInv, Whole, Readable, TypeOK, WithBuffer, WithSource, WithFrame
  <2>5. DoneInv'
    BY <1>quiet, <1>place, <1>nums, <1>type DEF Verify, pool, states, world, mine, At, Goto, DoneInv, TypeOK, WithBuffer, WithSource, WithFrame
  <2>6. FeedbackInv'
    BY <1>quiet, <1>place, <1>nums, <1>type DEF Verify, pool, states, world, mine, At, Goto, FeedbackInv, BeforeApply, TypeOK, WithBuffer, WithSource, WithFrame
  <2> QED
    BY <2>1, <2>2, <2>3, <2>4, <2>5, <2>6 DEF Quiet
<1>l. ASSUME NEW p \in Procs, Retry(p) PROVE Quiet'
  <2> USE <1>l, <1>none, <1>motion
  <2>1. ReadInv'
    BY <1>quiet, <1>place, <1>nums, <1>type, <1>lock DEF Retry, DoneWriting, pool, states, world, mine, At, Goto, ReadInv, TypeOK, WithBuffer, WithSource, WithFrame
  <2>2. WriteInv'
    BY <1>quiet, <1>place, <1>nums, <1>type, <1>lock DEF Retry, DoneWriting, pool, states, world, mine, At, Goto, WriteInv, TypeOK, WithBuffer, WithSource, WithFrame
  <2>3. CacheInv'
    BY <1>quiet, <1>place, <1>nums, <1>type, <1>lock DEF Retry, DoneWriting, pool, states, world, mine, At, Goto, CacheInv, TypeOK, WithBuffer, WithSource, WithFrame
  <2>4. WholeInv'
    BY <1>quiet, <1>place, <1>nums, <1>type, <1>lock DEF Retry, DoneWriting, pool, states, world, mine, At, Goto, WholeInv, Whole, Readable, TypeOK, WithBuffer, WithSource, WithFrame
  <2>5. DoneInv'
    BY <1>quiet, <1>place, <1>nums, <1>type, <1>lock DEF Retry, DoneWriting, pool, states, world, mine, At, Goto, DoneInv, TypeOK, WithBuffer, WithSource, WithFrame
  <2>6. FeedbackInv'
    BY <1>quiet, <1>place, <1>nums, <1>type, <1>lock DEF Retry, DoneWriting, pool, states, world, mine, At, Goto, FeedbackInv, BeforeApply, TypeOK, WithBuffer, WithSource, WithFrame
  <2> QED
    BY <2>1, <2>2, <2>3, <2>4, <2>5, <2>6 DEF Quiet
<1>m. ASSUME NEW p \in Procs, LoadStatus(p) PROVE Quiet'
  <2> USE <1>m, <1>none, <1>motion
  <2>1. ReadInv'
    BY <1>quiet, <1>place, <1>nums, <1>type, <1>lock DEF LoadStatus, pool, states, world, mine, At, Goto, ReadInv, TypeOK, WithBuffer, WithSource, WithFrame
  <2>2. WriteInv'
    <3>0. pc[p] = "load" /\ pc' = [pc EXCEPT ![p] = "apply"]
      BY DEF LoadStatus, At, Goto
    <3>1. buf[p] # None /\ \A q \in Procs : q # p => pc'[q] = pc[q]
      <4>1. buf[p] \in Buffers
        BY <3>0, <1>place DEF WithBuffer
      <4>2. pc \in [Procs -> Labels]
        BY <1>type DEF TypeOK
      <4> QED
        BY <4>1, <4>2, <3>0
    <3>2. UNCHANGED <<frames, msg, newest, buf>>
      BY DEF LoadStatus, pool, world
    <3> QED
      BY <3>1, <3>2, <1>quiet DEF WriteInv
  <2>3. CacheInv'
    BY <1>quiet, <1>place, <1>nums, <1>type, <1>lock DEF LoadStatus, pool, states, world, mine, At, Goto, CacheInv, TypeOK, WithBuffer, WithSource, WithFrame
  <2>4. WholeInv'
    BY <1>quiet, <1>place, <1>nums, <1>type, <1>lock DEF LoadStatus, pool, states, world, mine, At, Goto, WholeInv, Whole, Readable, TypeOK, WithBuffer, WithSource, WithFrame
  <2>5. DoneInv'
    BY <1>quiet, <1>place, <1>nums, <1>type, <1>lock DEF LoadStatus, pool, states, world, mine, At, Goto, DoneInv, TypeOK, WithBuffer, WithSource, WithFrame
  <2>6. FeedbackInv'
    BY <1>quiet, <1>place, <1>nums, <1>type, <1>lock DEF LoadStatus, pool, states, world, mine, At, Goto, FeedbackInv, BeforeApply, TypeOK, WithBuffer, WithSource, WithFrame
  <2> QED
    BY <2>1, <2>2, <2>3, <2>4, <2>5, <2>6 DEF Quiet
<1>r. ASSUME NEW p \in Procs, ReleaseSource(p) PROVE Quiet'
  <2> USE <1>r, <1>none, <1>motion
  <2>1. ReadInv'
    BY <1>quiet, <1>place, <1>nums, <1>type DEF ReleaseSource, pool, states, world, mine, At, Goto, ReadInv, TypeOK, WithBuffer, WithSource, WithFrame
  <2>2. WriteInv'
    BY <1>quiet, <1>place, <1>nums, <1>type DEF ReleaseSource, pool, states, world, mine, At, Goto, WriteInv, TypeOK, WithBuffer, WithSource, WithFrame
  <2>3. CacheInv'
    BY <1>quiet, <1>place, <1>nums, <1>type DEF ReleaseSource, pool, states, world, mine, At, Goto, CacheInv, TypeOK, WithBuffer, WithSource, WithFrame
  <2>4. WholeInv'
    BY <1>quiet, <1>place, <1>nums, <1>type DEF ReleaseSource, pool, states, world, mine, At, Goto, WholeInv, Whole, Readable, TypeOK, WithBuffer, WithSource, WithFrame
  <2>5. DoneInv'
    BY <1>quiet, <1>place, <1>nums, <1>type DEF ReleaseSource, pool, states, world, mine, At, Goto, DoneInv, TypeOK, WithBuffer, WithSource, WithFrame
  <2>6. FeedbackInv'
    BY <1>quiet, <1>place, <1>nums, <1>type DEF ReleaseSource, pool, states, world, mine, At, Goto, FeedbackInv, BeforeApply, TypeOK, WithBuffer, WithSource, WithFrame
  <2> QED
    BY <2>1, <2>2, <2>3, <2>4, <2>5, <2>6 DEF Quiet
<1>s. ASSUME NEW p \in Procs, Release(p) PROVE Quiet'
  <2> USE <1>s, <1>none, <1>motion
  <2>1. ReadInv'
    BY <1>quiet, <1>place, <1>nums, <1>type DEF Release, pool, states, world, mine, At, Goto, ReadInv, TypeOK, WithBuffer, WithSource, WithFrame
  <2>2. WriteInv'
    BY <1>quiet, <1>place, <1>nums, <1>type DEF Release, pool, states, world, mine, At, Goto, WriteInv, TypeOK, WithBuffer, WithSource, WithFrame
  <2>3. CacheInv'
    BY <1>quiet, <1>place, <1>nums, <1>type DEF Release, pool, states, world, mine, At, Goto, CacheInv, TypeOK, WithBuffer, WithSource, WithFrame
  <2>4. WholeInv'
    BY <1>quiet, <1>place, <1>nums, <1>type DEF Release, pool, states, world, mine, At, Goto, WholeInv, Whole, Readable, TypeOK, WithBuffer, WithSource, WithFrame
  <2>5. DoneInv'
    BY <1>quiet, <1>place, <1>nums, <1>type DEF Release, pool, states, world, mine, At, Goto, DoneInv, TypeOK, WithBuffer, WithSource, WithFrame
  <2>6. FeedbackInv'
    BY <1>quiet, <1>place, <1>nums, <1>type DEF Release, pool, states, world, mine, At, Goto, FeedbackInv, BeforeApply, TypeOK, WithBuffer, WithSource, WithFrame
  <2> QED
    BY <2>1, <2>2, <2>3, <2>4, <2>5, <2>6 DEF Quiet
<1>i. ASSUME NEW p \in Procs, ChooseNothing(p) PROVE Quiet'
  <2> USE <1>i, <1>none, <1>motion
  <2>n. msg[p] < newest
    <3>1. msg[p] \in 0..MaxFrame /\ msg[p] \in Nat /\ selectWriteState(msg[p]) = None
      BY <1>place DEF ChooseNothing, At, WithFrame, WithSource
    <3>2. ~(frames[Last(order)] < msg[p])
      BY DEF ChooseNothing
    <3>3. Last(order) \in Buffers
      BY <1>type, <1>last
    <3>4. frames[Last(order)] # msg[p]
      BY <3>1, <1>type, <1>last, ChosenPlace
    <3>5. frames[Last(order)] <= newest \/ frames[Last(order)] = 0
      BY <3>3 DEF IndInv, FrameInv
    <3> QED
      BY <3>1, <3>2, <3>3, <3>4, <3>5, <1>nums
  <2>1. ReadInv'
    BY <1>quiet, <1>place, <1>nums, <1>type DEF ChooseNothing, pool, states, world, mine, At, Goto, ReadInv, TypeOK, WithBuffer, WithSource, WithFrame
  <2>2. WriteInv'
    BY <2>n, <1>quiet, <1>place DEF ChooseNothing, pool, states, world, mine, At, Goto, WriteInv, TypeOK, WithBuffer, WithSource, WithFrame
  <2>3. CacheInv'
    BY <1>quiet, <1>place, <1>nums, <1>type DEF ChooseNothing, pool, states, world, mine, At, Goto, CacheInv, TypeOK, WithBuffer, WithSource, WithFrame
  <2>4. WholeInv'
    BY <1>quiet, <1>place, <1>nums, <1>type DEF ChooseNothing, pool, states, world, mine, At, Goto, WholeInv, Whole, Readable, TypeOK, WithBuffer, WithSource, WithFrame
  <2>5. DoneInv'
    BY <1>quiet, <1>place, <1>nums, <1>type DEF ChooseNothing, pool, states, world, mine, At, Goto, DoneInv, TypeOK, WithBuffer, WithSource, WithFrame
  <2>6. FeedbackInv'
    BY <1>quiet, <1>place, <1>nums, <1>type DEF ChooseNothing, pool, states, world, mine, At, Goto, FeedbackInv, BeforeApply, TypeOK, WithBuffer, WithSource, WithFrame
  <2> QED
    BY <2>1, <2>2, <2>3, <2>4, <2>5, <2>6 DEF Quiet
<1>n. ASSUME NEW p \in Procs, Apply(p) PROVE Quiet'
  <2> USE <1>n, <1>none, <1>motion
  <2> DEFINE t == buf[p]
             first == Sensors \notin status[t]
             corrupted == first /\ msg[p] \in Corrupted
             fresh == first => ~corrupted /\ frameNumber[t] <= frameNumber[src[p]]
             applied == status[t] \cup {Sensors} \cup (IF FeedbackGenerated /\ p = Motion THEN {Feedback} ELSE {})
  <2>at. /\ pc[p] = "apply" /\ pc' = [pc EXCEPT ![p] = IF t = None THEN "releaseSource" ELSE "store"]
         /\ UNCHANGED <<order, frames, reading, writing, status, complete, writeLocks,
                        newest, received, task, msg, held, src, buf, scarce>>
    BY DEF Apply, At, Goto, pool, world
  <2>pc. \A q \in Procs : q # p => pc'[q] = pc[q]
    BY <2>at, <1>type DEF TypeOK
  <2>own. t # None => /\ t \in Buffers /\ frames[t] = msg[p] /\ pc'[p] = "store"
                      /\ cache[p].status = status[t] /\ cache[p].complete = (t \in complete)
                      /\ \A q \in Procs : q # p /\ buf[q] # None /\ pc[q] # "wait" => buf[q] # t
    BY <2>at, <1>quiet, <1>place, <1>lock, <1>type DEF WriteInv, CacheInv, TypeOK
  <2>none. t = None => pc'[p] = "releaseSource"
    BY <2>at, <1>type DEF TypeOK
  <2>given. t # None /\ Feedback \in status[t] => cache[p].complete
    <3> SUFFICES ASSUME t # None, Feedback \in status[t] PROVE t \in complete
      BY <2>own
    <3>1. ASSUME NEW q \in Procs, pc[q] = "done", buf[q] = t PROVE FALSE
      <4>1. q # p
        BY <2>at, <3>1
      <4> QED
        BY <4>1, <3>1, <2>own
    <3> QED
      BY <3>1, <2>own, <1>quiet DEF DoneInv
  <2>do. \/ UNCHANGED <<sensors, frameNumber, cache>>
         \/ /\ t # None /\ task[p] = "sensors" /\ msg[p] = newest /\ ~cache[p].complete
            /\ sensors' \in {sensors, [sensors EXCEPT ![t] = msg[p]], [sensors EXCEPT ![t] = NoFrame]}
            /\ frameNumber' \in {frameNumber, [frameNumber EXCEPT ![t] = msg[p]]}
            /\ ~first => UNCHANGED states
            /\ first /\ fresh => /\ sensors' = [sensors EXCEPT ![t] = msg[p]]
                                 /\ frameNumber' = [frameNumber EXCEPT ![t] = msg[p]]
            /\ cache' = IF fresh
                        THEN [cache EXCEPT ![p] = [status |-> applied, complete |-> IsComplete(applied)]]
                        ELSE cache
    <3>1. CASE task[p] # "sensors" \/ msg[p] # newest \/ cache[p].complete
      BY <3>1 DEF Apply, states
    <3>2. CASE ~(task[p] # "sensors" \/ msg[p] # newest \/ cache[p].complete)
      <4>1. t # None
        BY <3>2, <2>at, <1>quiet, <1>nums DEF WriteInv
      <4>2. Target(p) = t /\ cache[p].status = status[t]
        BY <4>1, <2>own DEF Target
      <4>3. /\ \/ corrupted /\ LoadFails(t, msg[p])
               \/ /\ ~corrupted
                  /\ sensors' = IF first THEN [sensors EXCEPT ![t] = msg[p]] ELSE sensors
                  /\ frameNumber' = IF first /\ fresh THEN [frameNumber EXCEPT ![t] = msg[p]] ELSE frameNumber
            /\ cache' = IF fresh
                        THEN [cache EXCEPT ![p] = [status |-> applied, complete |-> IsComplete(applied)]]
                        ELSE cache
        BY <3>2, <4>2 DEF Apply
      <4> HIDE DEF t, applied
      <4> QED
        BY <3>2, <4>1, <4>3 DEF LoadFails, states
    <3> QED
      BY <3>1, <3>2
  <2> HIDE DEF t, first, corrupted, fresh, applied
  <2>c. \A q \in Procs : q # p => cache'[q] = cache[q]
    BY <2>do, <1>type DEF TypeOK
  <2>1. ReadInv'
    BY <2>at, <1>quiet DEF ReadInv
  <2>2. WriteInv'
    BY <2>at, <2>pc, <2>own, <2>none, <1>quiet DEF WriteInv
  <2>3. CacheInv'
    BY <2>at, <2>pc, <2>own, <2>none, <2>c, <1>quiet DEF CacheInv
  <2>4. WholeInv'
    <3>1. CASE UNCHANGED <<sensors, frameNumber, cache>>
      <4>1. ASSUME NEW q \in Procs, pc'[q] \in {"store", "done"}
            PROVE  (Sensors \in cache[q].status => Whole(buf[q])) /\ (cache[q].complete => Readable(buf[q]))
        <5>1. CASE q # p
          BY <5>1, <4>1, <2>pc, <1>quiet DEF WholeInv
        <5>2. CASE q = p
          <6>1. t # None
            BY <5>2, <4>1, <2>none
          <6> QED
            BY <6>1, <5>2, <2>own, <1>quiet DEF WholeInv, t
        <5> QED
          BY <5>1, <5>2
      <4> QED
        BY <3>1, <4>1, <2>at, <1>quiet DEF WholeInv, Whole, Readable
    <3>2. CASE ~(UNCHANGED <<sensors, frameNumber, cache>>)
      <4>t. PICK w \in Buffers :
            /\ w \notin complete /\ w = t /\ w = buf[p] /\ w # None
            /\ sensors' \in {sensors, [sensors EXCEPT ![w] = msg[p]], [sensors EXCEPT ![w] = NoFrame]}
            /\ frameNumber' \in {frameNumber, [frameNumber EXCEPT ![w] = msg[p]]}
            /\ ~first => UNCHANGED states
            /\ first /\ fresh => /\ sensors' = [sensors EXCEPT ![w] = msg[p]]
                                 /\ frameNumber' = [frameNumber EXCEPT ![w] = msg[p]]
        BY <3>2, <2>do, <2>own DEF t
      <4>1. \A b \in Buffers : b # w => sensors'[b] = sensors[b] /\ frameNumber'[b] = frameNumber[b]
        BY <4>t, <1>type DEF TypeOK
      <4>2. \A b \in Buffers : b # w => (Whole(b) => Whole(b)') /\ (Readable(b) => Readable(b)')
        BY <4>1, <2>at DEF Whole, Readable
      <4>3. first /\ fresh => Whole(w)'
        <5> SUFFICES ASSUME first, fresh PROVE Whole(w)'
          OBVIOUS
        <5>1. sensors'[w] = msg[p] /\ frameNumber'[w] = msg[p] /\ frames'[w] = msg[p]
          BY <4>t, <2>own, <2>at, <1>type DEF TypeOK
        <5> QED
          BY <5>1 DEF Whole
      <4>4. ~first => Whole(w)'
        <5> SUFFICES ASSUME ~first PROVE Whole(w)'
          OBVIOUS
        <5>1. Whole(w)
          BY <4>t, <1>quiet DEF WholeInv, first
        <5> QED
          BY <5>1, <4>t, <2>at DEF Whole, states
      <4>5. \A b \in Buffers : (Sensors \in status'[b] => Whole(b)') /\ (b \in complete' => Readable(b)')
        <5> TAKE b \in Buffers
        <5>1. CASE b # w
          BY <5>1, <4>2, <2>at, <1>quiet DEF WholeInv
        <5>2. CASE b = w
          BY <5>2, <4>4, <4>t, <2>at DEF first
        <5> QED
          BY <5>1, <5>2
      <4>6. ASSUME NEW q \in Procs, pc'[q] \in {"store", "done"}
            PROVE  (Sensors \in cache'[q].status => Whole(buf[q])') /\ (cache'[q].complete => Readable(buf[q])')
        <5>1. CASE q # p
          <6>1. pc[q] \in {"store", "done"} /\ cache'[q] = cache[q] /\ buf'[q] = buf[q]
            BY <4>6, <5>1, <2>pc, <2>c, <2>at
          <6>2. buf[q] # w /\ buf[q] \in Buffers
            BY <6>1, <5>1, <2>own, <4>t, <1>place DEF WithBuffer
          <6> QED
            BY <6>1, <6>2, <4>2, <1>quiet DEF WholeInv
        <5>2. CASE q = p /\ fresh
          <6>1. Whole(w)'
            BY <4>3, <4>4, <5>2
          <6>2. Readable(w)'
            BY <6>1 DEF Whole, Readable
          <6>3. buf'[q] = w
            BY <5>2, <4>t, <2>at
          <6> QED
            BY <6>1, <6>2, <6>3
        <5>3. CASE q = p /\ ~fresh
          <6>1. cache'[q] = cache[q] /\ first /\ buf'[q] = w
            BY <5>3, <2>do, <2>at, <4>t DEF fresh
          <6>2. Sensors \notin cache[q].status /\ ~cache[q].complete
            BY <6>1, <5>3, <4>t, <2>own DEF first
          <6> QED
            BY <6>1, <6>2
        <5> QED
          BY <5>1, <5>2, <5>3
      <4> QED
        BY <4>5, <4>6 DEF WholeInv
    <3> QED
      BY <3>1, <3>2
  <2>5. DoneInv'
    <3>1. ASSUME NEW b \in Buffers, Feedback \in status'[b]
          PROVE  b \in complete' \/ \E q \in Procs : pc'[q] = "done" /\ buf'[q] = b /\ cache'[q].complete
      <4>1. b \in complete \/ \E q \in Procs : pc[q] = "done" /\ buf[q] = b /\ cache[q].complete
        BY <3>1, <2>at, <1>quiet DEF DoneInv
      <4>2. CASE b \in complete
        BY <4>2, <2>at
      <4>3. CASE \E q \in Procs : pc[q] = "done" /\ buf[q] = b /\ cache[q].complete
        <5>1. PICK q \in Procs : pc[q] = "done" /\ buf[q] = b /\ cache[q].complete
          BY <4>3
        <5>2. q # p
          BY <5>1, <2>at
        <5> QED
          BY <5>1, <5>2, <2>at, <2>pc, <2>c
      <4> QED
        BY <4>1, <4>2, <4>3
    <3>2. ASSUME NEW q \in Procs, pc'[q] \in {"store", "done"}, Feedback \in cache'[q].status
          PROVE  cache'[q].complete
      <4>1. CASE q # p
        BY <4>1, <3>2, <2>pc, <2>c, <1>quiet DEF DoneInv
      <4>2. CASE q = p /\ cache' = cache
        <5>1. t # None
          BY <4>2, <3>2, <2>none
        <5> QED
          BY <5>1, <4>2, <3>2, <2>own, <2>given
      <4>3. CASE q = p /\ cache' # cache
        <5>1. /\ t # None /\ ~cache[p].complete
              /\ cache'[p] = [status |-> applied, complete |-> IsComplete(applied)]
          BY <4>3, <2>do, <1>type DEF TypeOK
        <5>2. Feedback \notin status[t]
          BY <5>1, <2>given
        <5>3. Feedback \in applied
          BY <5>1, <4>3, <3>2
        <5>4. FeedbackGenerated /\ p = Motion
          BY <5>2, <5>3 DEF applied, Sensors, Feedback
        <5>5. IsComplete(applied)
          BY <5>4 DEF IsComplete, applied
        <5> QED
          BY <5>5, <5>1, <4>3
      <4> QED
        BY <4>1, <4>2, <4>3
    <3> QED
      BY <3>1, <3>2 DEF DoneInv
  <2>6. FeedbackInv'
    <3>1. /\ (task[Motion] = "sensors" /\ pc[Motion] \in WithFrame => msg[Motion] = received[Motion])'
          /\ (pc[Motion] = "request" => task[Motion] # "sensors")'
      BY <2>at, <2>own, <2>none, <2>pc, <1>quiet DEF FeedbackInv, WithFrame, WithSource, WithBuffer
    <3>2. ASSUME NEW b \in Buffers, Feedback \in status'[b]
          PROVE  /\ (frames[b] <= received[Motion])'
                 /\ (task[Motion] = "sensors" /\ pc[Motion] \in BeforeApply => frames[b] < received[Motion])'
      <4>1. pc'[Motion] \in BeforeApply => pc[Motion] \in BeforeApply
        BY <2>at, <2>own, <2>none, <2>pc DEF BeforeApply, WithFrame, WithSource, WithBuffer
      <4> QED
        BY <4>1, <3>2, <2>at, <1>quiet DEF FeedbackInv
    <3>3. ASSUME NEW q \in Procs, pc'[q] = "store", Feedback \in cache'[q].status
          PROVE  Feedback \in status'[buf'[q]] \/ (q = Motion /\ task'[q] = "sensors")
      <4>1. CASE q # p
        BY <4>1, <3>3, <2>at, <2>pc, <2>c, <1>quiet DEF FeedbackInv
      <4>2. CASE q = p /\ cache' = cache
        <5>1. t # None
          BY <4>2, <3>3, <2>none
        <5> QED
          <6>1. cache[p].status = status[buf[p]] /\ buf'[p] = buf[p] /\ status' = status
            BY <5>1, <2>own, <2>at DEF t
          <6>2. Feedback \in cache[p].status
            BY <4>2, <3>3
          <6>3. Feedback \in status'[buf'[p]]
            BY <6>1, <6>2
          <6> QED
            BY <6>3, <4>2
      <4>3. CASE q = p /\ cache' # cache
        <5>1. /\ t # None /\ task[p] = "sensors"
              /\ cache'[p] = [status |-> applied, complete |-> IsComplete(applied)]
          BY <4>3, <2>do, <1>type DEF TypeOK
        <5>2. Feedback \in applied
          BY <5>1, <4>3, <3>3
        <5>3. Feedback \in status[t] \/ p = Motion
          BY <5>2 DEF applied, Sensors, Feedback
        <5> QED
          BY <5>3, <5>1, <4>3, <2>at DEF t
      <4> QED
        BY <4>1, <4>2, <4>3
    <3> QED
      BY <3>1, <3>2, <3>3 DEF FeedbackInv
  <2> QED
    BY <2>1, <2>2, <2>3, <2>4, <2>5, <2>6 DEF Quiet
<1>t. ASSUME NEW p \in Procs, ChooseBuffer(p) PROVE Quiet'
  <2> USE <1>t, <1>none, <1>motion
  <2> DEFINE k == selectWriteState(msg[p])
             b == order[k]
             blank == frames[b] # msg[p]
  <2>msg. msg[p] \in Nat /\ k # None
    BY <1>place DEF ChooseBuffer, At, WithFrame, WithSource
  <2>at. /\ k \in 1..NumStates
         /\ frames[Last(order)] = msg[p] => k = NumStates
         /\ frames[Last(order)] # msg[p] => writing[b] > 0 \/ (reading[b] = 0 /\ writing[b] = 0)
    <3>1. LET h == selectWriteState(msg[p])
          IN  /\ frames[Last(order)] = msg[p] => h = NumStates
              /\ h # None => h \in 1..NumStates
              /\ h # None /\ frames[Last(order)] # msg[p] =>
                   (writing[order[h]] > 0 \/ (reading[order[h]] = 0 /\ writing[order[h]] = 0))
      BY <2>msg, <1>type, ChosenPlace, Zenon
    <3> QED
      BY <3>1, <2>msg
  <2>b. b \in Buffers
    <3>1. order \in Seq(Buffers) /\ Len(order) = NumStates
      BY <1>type DEF TypeOK, OrderInv
    <3> QED
      BY <3>1, <2>at, ElementOfSeq
  <2>new. /\ buf' = [buf EXCEPT ![p] = b]
          /\ frames' = IF blank THEN [frames EXCEPT ![b] = msg[p]] ELSE frames
          /\ status' = IF blank THEN [status EXCEPT ![b] = {}] ELSE status
          /\ complete' = IF blank THEN complete \ {b} ELSE complete
          /\ scarce' = IF blank THEN scarce \/ writing[b] > 0 ELSE scarce
          /\ pc[p] = "choose" /\ pc' = [pc EXCEPT ![p] = "wait"]
          /\ UNCHANGED <<sensors, frameNumber, newest, received, task, msg, held, src, cache>>
    BY DEF ChooseBuffer, At, Goto, states, world
  <2>free. blank => reading[b] = 0 /\ writing[b] = 0
    <3> SUFFICES ASSUME blank PROVE reading[b] = 0 /\ writing[b] = 0
      OBVIOUS
    <3>1. ~(writing[b] > 0)
      BY <2>new
    <3>2. frames[Last(order)] # msg[p]
      <4> SUFFICES ASSUME frames[Last(order)] = msg[p] PROVE FALSE
        OBVIOUS
      <4>1. k = Len(order)
        BY <2>at, <1>type DEF OrderInv
      <4> QED
        BY <4>1 DEF Last
    <3> QED
      BY <3>1, <3>2, <2>at
  <2> HIDE DEF k, b
  <2>users. blank => \A q \in Procs : held[q] # b /\ src[q] # b /\ buf[q] # b
    <3> SUFFICES ASSUME blank, NEW q \in Procs PROVE held[q] # b /\ src[q] # b /\ buf[q] # b
      OBVIOUS
    <3>1. /\ 0 = Both(held, b) + Both(src, b)
          /\ 0 = Both(buf, b)
      BY <2>free, <2>b DEF IndInv, CountInv
    <3>2. \A use : Both(use, b) \in Nat /\ (use[q] = b => Both(use, b) > 0)
      BY UserIsCounted
    <3>3. Both(held, b) \in Nat /\ Both(src, b) \in Nat /\ Both(buf, b) \in Nat
      BY <3>2
    <3>4. /\ held[q] = b => Both(held, b) > 0
          /\ src[q] = b => Both(src, b) > 0
          /\ buf[q] = b => Both(buf, b) > 0
      BY <3>2
    <3>5. ~(Both(held, b) > 0) /\ ~(Both(src, b) > 0) /\ ~(Both(buf, b) > 0)
      BY <3>1, <3>3
    <3> QED
      BY <3>4, <3>5
  <2>same. /\ \A c \in Buffers : c # b => frames'[c] = frames[c] /\ status'[c] = status[c]
           /\ \A c \in Buffers : c # b => (c \in complete' <=> c \in complete)
           /\ \A q \in Procs : q # p => buf'[q] = buf[q] /\ pc'[q] = pc[q]
           /\ buf'[p] = b /\ pc'[p] = "wait"
           /\ frames'[b] = msg[p]
           /\ blank => status'[b] = {} /\ b \notin complete'
           /\ ~blank => frames' = frames /\ status' = status /\ complete' = complete
    BY <2>new, <2>b, <2>msg, <1>type DEF TypeOK
  <2> HIDE DEF blank
  <2>1. ReadInv'
    <3>1. src[p] # None
      BY <2>new, <1>place, <1>none DEF WithSource
    <3>2. src[p] \in complete'
      BY <3>1, <2>new, <2>users, <1>quiet DEF ReadInv
    <3>3. \A q \in Procs : (held'[q] # None => held'[q] \in complete') /\ (src'[q] # None => src'[q] \in complete')
      BY <2>new, <2>users, <1>quiet DEF ReadInv
    <3> QED
      BY <3>2, <3>3 DEF ReadInv
  <2>2. WriteInv'
    <3>1. ASSUME NEW q \in Procs, q # p PROVE (buf[q] # None => frames[buf[q]] = msg[q])'
      BY <3>1, <2>same, <2>users, <2>new, <1>quiet, <1>place DEF WriteInv
    <3> QED
      BY <3>1, <2>same, <2>new, <1>quiet DEF WriteInv
  <2>3. CacheInv'
    BY <2>same, <2>new, <2>users, <1>quiet, <1>place DEF CacheInv
  <2>4. WholeInv'
    <3>1. \A c \in Buffers : c # b \/ ~blank => (Whole(c) => Whole(c)') /\ (Readable(c) => Readable(c)')
      BY <2>same, <2>new DEF Whole, Readable
    <3>2. \A c \in Buffers : (Sensors \in status'[c] => Whole(c)') /\ (c \in complete' => Readable(c)')
      BY <3>1, <2>same, <1>quiet DEF WholeInv
    <3>3. ASSUME NEW q \in Procs, pc'[q] \in {"store", "done"}
          PROVE  (Sensors \in cache'[q].status => Whole(buf[q])') /\ (cache'[q].complete => Readable(buf[q])')
      <4>1. q # p
        BY <3>3, <2>same
      <4>2. buf'[q] = buf[q] /\ buf[q] \in Buffers /\ pc[q] = pc'[q] /\ cache' = cache
        BY <4>1, <3>3, <2>same, <2>new, <1>place DEF WithBuffer
      <4>3. buf[q] # b \/ ~blank
        BY <2>users
      <4> QED
        BY <4>2, <4>3, <3>1, <3>3, <1>quiet DEF WholeInv
    <3> QED
      BY <3>2, <3>3 DEF WholeInv
  <2>5. DoneInv'
    <3>1. ASSUME NEW c \in Buffers, Feedback \in status'[c]
          PROVE  c \in complete' \/ \E q \in Procs : pc'[q] = "done" /\ buf'[q] = c /\ cache'[q].complete
      <4>1. Feedback \in status[c] /\ (c \in complete' <=> c \in complete)
        BY <3>1, <2>same
      <4>2. ASSUME NEW q \in Procs, pc[q] = "done", buf[q] = c, cache[q].complete
            PROVE  pc'[q] = "done" /\ buf'[q] = c /\ cache'[q].complete
        BY <4>2, <2>same, <2>new
      <4> QED
        BY <4>1, <4>2, <1>quiet DEF DoneInv
    <3>2. \A q \in Procs : pc'[q] \in {"store", "done"} => q # p /\ pc'[q] = pc[q]
      BY <2>same
    <3> QED
      BY <3>1, <3>2, <2>new, <1>quiet DEF DoneInv
  <2>6. FeedbackInv'
    <3>1. /\ (task[Motion] = "sensors" /\ pc[Motion] \in WithFrame => msg[Motion] = received[Motion])'
          /\ (pc[Motion] = "request" => task[Motion] # "sensors")'
      BY <2>same, <2>new, <1>quiet DEF FeedbackInv, WithFrame, WithSource, WithBuffer
    <3>2. ASSUME NEW c \in Buffers, Feedback \in status'[c]
          PROVE  /\ (frames[c] <= received[Motion])'
                 /\ (task[Motion] = "sensors" /\ pc[Motion] \in BeforeApply => frames[c] < received[Motion])'
      <4>1. Feedback \in status[c] /\ frames'[c] = frames[c]
        BY <3>2, <2>same
      <4>2. pc'[Motion] \in BeforeApply => pc[Motion] \in BeforeApply
        BY <2>same, <2>new DEF BeforeApply, WithFrame, WithSource, WithBuffer
      <4> QED
        BY <4>1, <4>2, <2>new, <1>quiet DEF FeedbackInv
    <3>3. ASSUME NEW q \in Procs, pc'[q] = "store", Feedback \in cache'[q].status
          PROVE  Feedback \in status'[buf'[q]] \/ (q = Motion /\ task'[q] = "sensors")
      <4>1. q # p /\ buf'[q] = buf[q] /\ pc[q] = "store" /\ buf[q] \in Buffers
        BY <3>3, <2>same, <1>place DEF WithBuffer
      <4>2. status'[buf[q]] = status[buf[q]]
        BY <4>1, <2>same, <2>users
      <4> QED
        BY <4>1, <4>2, <3>3, <2>new, <1>quiet DEF FeedbackInv
    <3> QED
      BY <3>1, <3>2, <3>3 DEF FeedbackInv
  <2> QED
    BY <2>1, <2>2, <2>3, <2>4, <2>5, <2>6 DEF Quiet
<1>o. ASSUME NEW p \in Procs, StoreStatus(p) PROVE Quiet'
  <2> USE <1>o, <1>none, <1>motion
  <2>at. /\ pc[p] = "store" /\ pc' = [pc EXCEPT ![p] = "done"] /\ buf[p] \in Buffers
         /\ status' = [status EXCEPT ![buf[p]] = cache[p].status]
         /\ UNCHANGED <<frames, complete, sensors, frameNumber, newest, received, task, msg, held, src, buf, cache, scarce>>
    BY <1>place DEF StoreStatus, At, Goto, states, world, WithBuffer
  <2>pc. /\ \A q \in Procs : q # p => pc'[q] = pc[q]
         /\ pc'[p] = "done"
         /\ \A b \in Buffers : b # buf[p] => status'[b] = status[b]
         /\ status'[buf[p]] = cache[p].status
    BY <2>at, <1>type DEF TypeOK
  <2>1. ReadInv'
    BY <1>quiet, <1>place, <1>nums, <1>type, <1>lock DEF StoreStatus, pool, states, world, mine, At, Goto, ReadInv, TypeOK, WithBuffer, WithSource, WithFrame
  <2>2. WriteInv'
    BY <1>quiet, <1>place, <1>nums, <1>type, <1>lock DEF StoreStatus, pool, states, world, mine, At, Goto, WriteInv, TypeOK, WithBuffer, WithSource, WithFrame
  <2>3. CacheInv'
    <3>1. ASSUME NEW q \in Procs, pc'[q] = "apply", buf'[q] # None
          PROVE  cache'[q].status = status'[buf'[q]] /\ cache'[q].complete = (buf'[q] \in complete')
      <4>1. q # p /\ pc[q] = "apply" /\ buf[q] # None /\ buf[q] \in Buffers
        BY <3>1, <2>at, <2>pc, <1>place
      <4>2. buf[q] # buf[p]
        BY <4>1, <2>at, <1>lock, <1>none
      <4> QED
        BY <4>1, <4>2, <2>at, <2>pc, <1>quiet DEF CacheInv
    <3> QED
      BY <3>1 DEF CacheInv
  <2>4. WholeInv'
    <3>1. \A c \in Buffers : (Whole(c) => Whole(c)') /\ (Readable(c) => Readable(c)')
      BY <2>at DEF Whole, Readable
    <3>2. Sensors \in cache[p].status => Whole(buf[p])
      BY <2>at, <1>quiet DEF WholeInv
    <3>3. \A c \in Buffers : (Sensors \in status'[c] => Whole(c)') /\ (c \in complete' => Readable(c)')
      BY <3>1, <3>2, <2>at, <2>pc, <1>quiet DEF WholeInv
    <3>4. ASSUME NEW q \in Procs, pc'[q] \in {"store", "done"}
          PROVE  (Sensors \in cache'[q].status => Whole(buf[q])') /\ (cache'[q].complete => Readable(buf[q])')
      <4>1. pc[q] \in {"store", "done"} /\ buf'[q] = buf[q] /\ cache'[q] = cache[q] /\ buf[q] \in Buffers
        BY <3>4, <2>pc, <2>at, <1>place DEF WithBuffer
      <4> QED
        BY <4>1, <3>1, <1>quiet DEF WholeInv
    <3> QED
      BY <3>3, <3>4 DEF WholeInv
  <2>5. DoneInv'
    BY <1>quiet, <1>place, <1>nums, <1>type, <1>lock DEF StoreStatus, pool, states, world, mine, At, Goto, DoneInv, TypeOK, WithBuffer, WithSource, WithFrame
  <2>6. FeedbackInv'
    <3>1. /\ (task[Motion] = "sensors" /\ pc[Motion] \in WithFrame => msg[Motion] = received[Motion])'
          /\ (pc[Motion] = "request" => task[Motion] # "sensors")'
      BY <2>at, <2>pc, <1>quiet DEF FeedbackInv, WithFrame, WithSource, WithBuffer
    <3>2. ASSUME NEW c \in Buffers, Feedback \in status'[c]
          PROVE  /\ (frames[c] <= received[Motion])'
                 /\ (task[Motion] = "sensors" /\ pc[Motion] \in BeforeApply => frames[c] < received[Motion])'
      <4>0. pc'[Motion] \in BeforeApply => pc[Motion] \in BeforeApply /\ Motion # p
        BY <2>at, <2>pc DEF BeforeApply, WithFrame, WithSource, WithBuffer
      <4>1. CASE Feedback \in status[c]
        BY <4>0, <4>1, <2>at, <1>quiet DEF FeedbackInv
      <4>2. CASE Feedback \notin status[c]
        <5>1. c = buf[p] /\ Feedback \in cache[p].status
          BY <4>2, <3>2, <2>pc
        <5>2. p = Motion /\ task[p] = "sensors"
          BY <5>1, <4>2, <2>at, <1>quiet DEF FeedbackInv
        <5>3. msg[p] = received[Motion]
          BY <5>2, <2>at, <1>quiet DEF FeedbackInv, WithFrame, WithSource, WithBuffer
        <5>4. frames[c] = received[Motion]
          BY <5>1, <5>3, <2>at, <1>none, <1>quiet DEF WriteInv
        <5> QED
          BY <5>4, <5>2, <4>0, <2>at, <1>nums
      <4> QED
        BY <4>1, <4>2
    <3>3. ASSUME NEW q \in Procs, pc'[q] = "store", Feedback \in cache'[q].status
          PROVE  Feedback \in status'[buf'[q]] \/ (q = Motion /\ task'[q] = "sensors")
      <4>1. q # p /\ pc[q] = "store" /\ buf[q] \in Buffers
        BY <3>3, <2>pc, <1>place DEF WithBuffer
      <4>2. buf[q] # buf[p]
        BY <4>1, <2>at, <1>lock, <1>none
      <4> QED
        BY <4>1, <4>2, <3>3, <2>at, <2>pc, <1>quiet DEF FeedbackInv
    <3> QED
      BY <3>1, <3>2, <3>3 DEF FeedbackInv
  <2> QED
    BY <2>1, <2>2, <2>3, <2>4, <2>5, <2>6 DEF Quiet
<1>q. ASSUME NEW p \in Procs, Complete(p) PROVE Quiet'
  <2> USE <1>q, <1>none, <1>motion
  <2>at. /\ pc[p] = "done" /\ pc' = [pc EXCEPT ![p] = "releaseSource"] /\ buf[p] \in Buffers
         /\ complete' = IF cache[p].complete THEN complete \cup {buf[p]} ELSE complete
         /\ buf' = [buf EXCEPT ![p] = None]
         /\ UNCHANGED <<frames, status, sensors, frameNumber, newest, received, task, msg, held, src, cache, scarce>>
    BY <1>place DEF Complete, DoneWriting, At, Goto, states, world, WithBuffer
  <2>pc. /\ \A q \in Procs : q # p => pc'[q] = pc[q] /\ buf'[q] = buf[q]
         /\ pc'[p] = "releaseSource" /\ buf'[p] = None
    BY <2>at, <1>type DEF TypeOK
  <2>1. ReadInv'
    BY <1>quiet, <1>place, <1>nums, <1>type, <1>lock DEF Complete, DoneWriting, pool, states, world, mine, At, Goto, ReadInv, TypeOK, WithBuffer, WithSource, WithFrame
  <2>2. WriteInv'
    BY <1>quiet, <1>place, <1>nums, <1>type, <1>lock DEF Complete, DoneWriting, pool, states, world, mine, At, Goto, WriteInv, TypeOK, WithBuffer, WithSource, WithFrame
  <2>3. CacheInv'
    <3>1. ASSUME NEW q \in Procs, pc'[q] = "apply", buf'[q] # None
          PROVE  cache'[q].status = status'[buf'[q]] /\ cache'[q].complete = (buf'[q] \in complete')
      <4>1. q # p /\ buf'[q] = buf[q] /\ pc[q] = "apply" /\ buf[q] # None
        BY <3>1, <2>pc
      <4>2. buf[q] # buf[p]
        BY <4>1, <2>at, <1>lock, <1>none
      <4>3. buf[q] \in complete' <=> buf[q] \in complete
        BY <4>2, <2>at
      <4> QED
        BY <4>1, <4>3, <2>at, <1>quiet DEF CacheInv
    <3> QED
      BY <3>1 DEF CacheInv
  <2>4. WholeInv'
    <3>1. \A c \in Buffers : (Whole(c) => Whole(c)') /\ (Readable(c) => Readable(c)')
      BY <2>at DEF Whole, Readable
    <3>2. cache[p].complete => Readable(buf[p])
      BY <2>at, <1>quiet DEF WholeInv
    <3>3. \A c \in Buffers : (Sensors \in status'[c] => Whole(c)') /\ (c \in complete' => Readable(c)')
      BY <3>1, <3>2, <2>at, <1>quiet DEF WholeInv
    <3>4. ASSUME NEW q \in Procs, pc'[q] \in {"store", "done"}
          PROVE  (Sensors \in cache'[q].status => Whole(buf[q])') /\ (cache'[q].complete => Readable(buf[q])')
      <4>1. pc[q] \in {"store", "done"} /\ buf'[q] = buf[q] /\ cache'[q] = cache[q] /\ buf[q] \in Buffers
        BY <3>4, <2>pc, <2>at, <1>place DEF WithBuffer
      <4> QED
        BY <4>1, <3>1, <1>quiet DEF WholeInv
    <3> QED
      BY <3>3, <3>4 DEF WholeInv
  <2>5. DoneInv'
    <3>1. ASSUME NEW c \in Buffers, Feedback \in status'[c]
          PROVE  c \in complete' \/ \E q \in Procs : pc'[q] = "done" /\ buf'[q] = c /\ cache'[q].complete
      <4>1. CASE c \in complete
        BY <4>1, <2>at
      <4>2. ASSUME NEW q \in Procs, pc[q] = "done", buf[q] = c, cache[q].complete
            PROVE  c \in complete' \/ (pc'[q] = "done" /\ buf'[q] = c /\ cache'[q].complete)
        <5>1. CASE q = p
          <6>1. complete' = complete \cup {buf[p]} /\ c = buf[p]
            BY <5>1, <4>2, <2>at
          <6> QED
            BY <6>1
        <5>2. CASE q # p
          BY <5>2, <4>2, <2>at, <2>pc
        <5> QED
          BY <5>1, <5>2
      <4> QED
        BY <3>1, <4>1, <4>2, <2>at, <1>quiet DEF DoneInv
    <3> QED
      BY <3>1, <2>at, <2>pc, <1>quiet DEF DoneInv
  <2>6. FeedbackInv'
    BY <1>quiet, <1>place, <1>nums, <1>type, <1>lock DEF Complete, DoneWriting, pool, states, world, mine, At, Goto, FeedbackInv, BeforeApply, TypeOK, WithBuffer, WithSource, WithFrame
  <2> QED
    BY <2>1, <2>2, <2>3, <2>4, <2>5, <2>6 DEF Quiet
<1> QED
  BY <1>a, <1>b, <1>c, <1>d, <1>e, <1>f, <1>g, <1>h, <1>i, <1>j, <1>k, <1>l, <1>m, <1>n, <1>o,
     <1>q, <1>r, <1>s, <1>t DEF Next, Process, Write

-----------------------------------------------------------------------------
(* What follows. *)

\* Whoever may apply something new has a buffer of its own, which is not complete.
LEMMA OwnBuffer ==
  ASSUME IndInv, QuietInv, ~scarce, NEW p \in Procs,
         pc[p] = "apply", msg[p] = newest
  PROVE  /\ buf[p] \in Buffers /\ Target(p) = buf[p] /\ frames[buf[p]] = msg[p]
         /\ cache[p].status = status[buf[p]]
         /\ cache[p].complete = (buf[p] \in complete)
<1>1. buf[p] # None
  <2>1. newest \in Int
    BY PoolAssumption DEF IndInv, TypeOK, NoFrame
  <2>2. ~(newest < newest)
    BY <2>1
  <2> QED
    BY <2>2 DEF QuietInv, Quiet, WriteInv
<1>2. buf[p] \in Buffers
  BY <1>1 DEF IndInv, TypeOK
<1> QED
  BY <1>1, <1>2 DEF QuietInv, Quiet, WriteInv, CacheInv, Target

\* What the second invariant is for
LEMMA QuietIsRight ==
  ASSUME IndInv, QuietInv, ~scarce
  PROVE  BuffersAreRight
<1>1. CompleteIsWhole
  <2>1. \A b \in complete : b \in Buffers /\ Readable(b)
    BY DEF QuietInv, Quiet, WholeInv, IndInv, TypeOK
  <2> QED
    BY <2>1 DEF CompleteIsWhole, QuietInv, Quiet, ReadInv, Readable
<1>2. ASSUME NEW p \in Procs, pc[p] = "apply", task[p] = "sensors", msg[p] = newest, Feedback \in cache[p].status
      PROVE  p # Motion /\ cache[p].complete
  <2>own. /\ buf[p] \in Buffers /\ frames[buf[p]] = msg[p]
          /\ cache[p].status = status[buf[p]]
          /\ cache[p].complete = (buf[p] \in complete)
    BY <1>2, OwnBuffer
  <2>none. None \notin Buffers
    BY PoolAssumption DEF Buffers
  <2>1. p # Motion
    <3> SUFFICES ASSUME p = Motion PROVE FALSE
      OBVIOUS
    <3>1. msg[p] = received[p] /\ frames[buf[p]] < received[p]
      BY <1>2, <2>own DEF QuietInv, Quiet, FeedbackInv, BeforeApply, WithFrame, WithSource
    <3>2. received[p] \in Int
      BY PoolAssumption DEF IndInv, TypeOK, NoFrame
    <3> QED
      BY <3>1, <3>2, <2>own
  <2>2. buf[p] \in complete
    <3>1. ASSUME NEW q \in Procs, pc[q] = "done", buf[q] = buf[p] PROVE FALSE
      BY <3>1, <1>2, <2>own, <2>none DEF IndInv, LockInv
    <3> QED
      BY <3>1, <1>2, <2>own DEF QuietInv, Quiet, DoneInv
  <2> QED
    BY <2>1, <2>2, <2>own
<1> QED
  BY <1>1, <1>2 DEF BuffersAreRight, FeedbackOnce, At

\* A complete buffer has the values of one frame, its own, and feedback is given
\* once (the assertions of WorldStatePool.cc:163 and Motion.cc:212), however many
\* buffers there are, until a writer finds none that nobody uses.
THEOREM BuffersRightUnlessScarce == Spec => [](NeverScarce => BuffersAreRight)
<1>1. Init => IndInv /\ QuietInv
  BY Starting, QuietAtFirst
<1>2. IndInv /\ QuietInv /\ [Next]_vars => IndInv' /\ QuietInv'
  BY Stepping, QuietSteps
<1>3. IndInv /\ QuietInv => (NeverScarce => BuffersAreRight)
  BY QuietIsRight DEF NeverScarce
<1> QED
  BY <1>1, <1>2, <1>3, PTL DEF Spec

\* No sensor value changes under a reader, however many buffers there are, until a
\* writer finds none that nobody uses.
THEOREM ReadersStayUndisturbed == Spec => ReadersUndisturbed
<1>1. Init => IndInv /\ QuietInv
  BY Starting, QuietAtFirst
<1>2. IndInv /\ QuietInv /\ [Next]_vars => IndInv' /\ QuietInv'
  BY Stepping, QuietSteps
<1>3. ASSUME IndInv, QuietInv, [Next]_vars
      PROVE  [\A b \in Buffers : sensors'[b] # sensors[b] =>
                scarce \/ \A p \in Procs : b \notin {held[p], src[p]}]_vars
  <2> SUFFICES ASSUME NEW b \in Buffers, sensors'[b] # sensors[b], ~scarce, NEW q \in Procs
               PROVE  b \notin {held[q], src[q]}
    OBVIOUS
  <2>1. PICK p \in Procs : Apply(p)
    BY <1>3 DEF Next, Process, Write, Behave, UpdatePIDs, GotSensors, Begin, SendFrame,
         RequestNewest, IsUnread, ReadSource, ChooseNothing, ChooseBuffer, LockBuffer, Verify, Retry,
         DoneWriting, LoadStatus, StoreStatus, Complete, ReleaseSource, Release, states, vars
  <2>2. /\ pc[p] = "apply" /\ msg[p] = newest /\ ~cache[p].complete
        /\ sensors' \in {[sensors EXCEPT ![Target(p)] = msg[p]], [sensors EXCEPT ![Target(p)] = NoFrame]}
    BY <2>1 DEF Apply, LoadFails, At, states
  <2>3. Target(p) = buf[p] /\ buf[p] \notin complete
    BY <1>3, <2>2, OwnBuffer
  <2>4. b = buf[p]
    BY <1>3, <2>2, <2>3 DEF IndInv, TypeOK
  <2>5. None \notin Buffers
    BY PoolAssumption DEF Buffers
  <2> QED
    BY <1>3, <2>3, <2>4, <2>5 DEF QuietInv, Quiet, ReadInv
<1> QED
  BY <1>1, <1>2, <1>3, PTL DEF Spec, ReadersUndisturbed
===============================================================================
