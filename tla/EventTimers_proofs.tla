-------------------------- MODULE EventTimers_proofs --------------------------
(***************************************************************************)
(* Proofs about EventTimers, for any listeners, sources, delays, heap and  *)
(* clock, under two conditions: no listener touches a timer whose turn in  *)
(* the same round is still to come, and no delay reaches past the last     *)
(* time that an unsigned int can tell.                                     *)
(***************************************************************************)
EXTENDS EventTimers, FiniteSetTheorems, SequenceTheorems, TLAPS

\* The clock does not come near the end of its range.
NoWrap == \A delay \in Delays : MaxTime + delay < Never

\* Each element is at one place.
Distinct(s) == \A m, n \in 1 .. Len(s) : s[m] = s[n] => m = n

\* The elements of a sequence
In(x, s) == \E n \in 1 .. Len(s) : s[n] = x

SortedIn(mem, s) ==
  \A m, n \in 1 .. Len(s) : m < n => mem[s[m]].next <= mem[s[n]].next

\* The pointers of s are those to S, each once, and sorted.
Keeps(mem, s, S) ==
  /\ s \in Seq(Slots) /\ Distinct(s) /\ SortedIn(mem, s)
  /\ \A x \in Slots : In(x, s) <=> x \in S

\* The vector owns each TimerEntry that is allocated, and there is one of a key.
VectorInv ==
  /\ Keeps(entry, timers, allocated)
  /\ \A s \in allocated : entry[s].key \in Keys /\ entry[s].delay \in Delays
  /\ \A s, t \in allocated : entry[s].key = entry[t].key => s = t

\* So has the copy, as long as there is one.
ProcessInv ==
  /\ Distinct(process)
  /\ \A s \in Slots : In(s, process) => s \in allocated
  /\ phase = "idle" => process = <<>>

\* A timer whose turn is still to come is due, and has been moved on by a period at
\* least, or to the end of time;
Coming(s) ==
  /\ entry[s].key \in armed /\ due[entry[s].key] <= now
  /\ IF entry[s].repeat
     THEN due[entry[s].key] + entry[s].delay <= entry[s].next /\ entry[s].next < Never
     ELSE entry[s].next = Never

\* any other does not go off early,
Waiting(s) ==
  entry[s].key \in armed /\ due[entry[s].key] <= entry[s].next /\ entry[s].next < Never

\* or is used up and will be deleted at the end of the round.
UsedUp(s) ==
  entry[s].key \notin armed /\ entry[s].next = Never /\ phase # "idle"

ArmedInv ==
  /\ \A key \in armed : \E s \in allocated : entry[s].key = key
  /\ \A s \in allocated : IF In(s, process) THEN Coming(s) ELSE Waiting(s) \/ UsedUp(s)

IndInv == TypeOK /\ VectorInv /\ ProcessInv /\ ArmedInv

-----------------------------------------------------------------------------
(* Numbers *)

\* What is smaller than the modulus is its own remainder.
LEMMA WrappedIs ==
  ASSUME NEW n \in Nat, n <= Never
  PROVE  Wrapped(n) = n /\ n \in Times
BY TimesAssumption DEF Wrapped, Times

\* A set of numbers has a least,
LEMMA MinOfNumbers ==
  ASSUME NEW S \in SUBSET Nat, S # {}
  PROVE  Min(S) \in S /\ \A y \in S : Min(S) <= y
<1>1. PICK x \in S : \A y \in S : ~(<<y, x>> \in OpToRel(<, Nat))
  BY NatLessThanWellFounded, WFMin, Zenon
<1>2. \A y \in S : x <= y
  <2> TAKE y \in S
  <2>1. ~(y < x)
    BY <1>1 DEF OpToRel
  <2> QED
    BY <2>1
<1> QED
  BY <1>2 DEF Min

\* and a bounded one a greatest.
LEMMA MaxOfPlaces ==
  ASSUME NEW n \in Nat, NEW S \in SUBSET (1 .. n), S # {}
  PROVE  \E x \in S : \A y \in S : y <= x
<1> DEFINE T == {n - x : x \in S}
<1>1. T \in SUBSET Nat /\ T # {}
  <2>1. \A x \in S : n - x \in Nat
    OBVIOUS
  <2>2. PICK x \in S : TRUE
    OBVIOUS
  <2>3. n - x \in T
    OBVIOUS
  <2> QED
    BY <2>1, <2>3
<1>2. Min(T) \in T /\ \A y \in T : Min(T) <= y
  BY <1>1, MinOfNumbers
<1>3. PICK x \in S : Min(T) = n - x
  BY <1>2
<1>4. \A y \in S : y <= x
  <2> TAKE y \in S
  <2>1. n - x <= n - y
    BY <1>2, <1>3
  <2> QED
    BY <2>1
<1> QED
  BY <1>4

\* When a timer that is due goes off again: a period later at least, and not so late
\* that the clock has to wrap round.
LEMMA AdvancedIs ==
  ASSUME NoWrap, now \in 0 .. MaxTime, NEW e \in Entries, e.delay \in Delays, e.next <= now
  PROVE  /\ Advanced(e) \in Entries
         /\ Advanced(e).key = e.key /\ Advanced(e).delay = e.delay /\ Advanced(e).repeat = e.repeat
         /\ ~e.repeat => Advanced(e).next = Never
         /\ e.repeat => e.next + e.delay <= Advanced(e).next /\ Advanced(e).next < Never
<1> DEFINE next == e.next
           delay == e.delay
           after(k) == Wrapped(next + k * delay)
           later == Min({k \in 1 .. Never : after(k) > now})
           value == IF ~e.repeat THEN Never ELSE IF delay = 0 THEN now + 1 ELSE after(later)
<1>0. /\ Never \in Nat /\ MaxTime \in Nat /\ now \in Nat /\ next \in Nat /\ delay \in Nat
      /\ next <= now /\ now <= MaxTime /\ MaxTime + 1 < Never /\ now + delay < Never /\ next <= Never
  <2>1. Never \in Nat /\ MaxTime \in Nat /\ MaxTime + 1 < Never /\ next \in 0 .. Never /\ delay \in 0 .. Never
    BY TimesAssumption DEF Entries, Times
  <2>2. MaxTime + delay < Never
    BY DEF NoWrap
  <2> QED
    BY <2>1, <2>2
<1>1. Advanced(e) = [e EXCEPT !.next = value]
  BY DEF Advanced
<1>2. CASE ~e.repeat
  <2>1. value = Never /\ Never \in Times
    BY <1>2, <1>0 DEF Times
  <2> HIDE DEF value
  <2> QED
    BY <1>1, <1>2, <2>1 DEF Entries
<1>3. CASE e.repeat /\ delay = 0
  <2>1. value = now + 1 /\ now + 1 \in Times /\ next + delay <= now + 1 /\ now + 1 < Never
    BY <1>3, <1>0 DEF Times
  <2> HIDE DEF value
  <2> QED
    BY <1>1, <1>3, <2>1 DEF Entries
<1>4. CASE e.repeat /\ delay # 0
  <2> DEFINE at(k) == next + k * delay
  <2>1. /\ at(0) = next /\ at(now + 1) > now
        /\ \A k \in Nat : at(k) \in Nat /\ (k > 0 => at(k) = at(k - 1) + delay /\ at(k) >= next + delay)
    <3>1. 0 * delay = 0 /\ (now + 1) * delay >= now + 1
      BY <1>0, <1>4
    <3>2. \A k \in Nat : k * delay \in Nat
      BY <1>0
    <3>3. ASSUME NEW k \in Nat, k > 0 PROVE k * delay = (k - 1) * delay + delay /\ k * delay >= delay
      BY <3>3, <1>0
    <3> HIDE DEF next, delay
    <3>4. at(0) = next /\ at(now + 1) > now
      <4>1. \A p \in Nat : p >= now + 1 => next + p > now
        BY <1>0
      <4>2. (now + 1) * delay \in Nat
        BY <3>2, <1>0
      <4> QED
        BY <3>1, <4>1, <4>2, <1>0
    <3>5. ASSUME NEW k \in Nat
          PROVE  at(k) \in Nat /\ (k > 0 => at(k) = at(k - 1) + delay /\ at(k) >= next + delay)
      <4> DEFINE p == (k - 1) * delay
                 q == k * delay
      <4>1. q \in Nat /\ at(k) = next + q
        BY <3>2
      <4>2. ASSUME k > 0 PROVE p \in Nat /\ at(k - 1) = next + p /\ q = p + delay /\ q >= delay
        BY <3>2, <3>3, <4>2
      <4> HIDE DEF at, p, q
      <4> QED
        BY <4>1, <4>2, <1>0
    <3> QED
      BY <3>4, <3>5
  <2>2. \A k \in Nat : at(k) <= Never => after(k) = at(k)
    BY <2>1, WrappedIs
  <2> HIDE DEF at, after
  <2> DEFINE T == {k \in Nat : at(k) > now}
             first == Min(T)
  <2>3. now + 1 \in T
    BY <2>1, <1>0
  <2>4. first \in T /\ first \in Nat /\ \A k \in T : first <= k
    BY <2>3, MinOfNumbers
  <2> HIDE DEF first
  <2>5. first # 0
    BY <2>1, <2>4, <1>0
  <2>6. first - 1 \in Nat /\ first \in 1 .. Never
    <3>1. first <= now + 1
      BY <2>3, <2>4
    <3> QED
      BY <3>1, <2>4, <2>5, <1>0
  <2>7. at(first - 1) <= now
    <3>1. first - 1 \notin T
      BY <2>4, <2>6
    <3>2. at(first - 1) \in Nat
      BY <2>1, <2>6
    <3> QED
      BY <3>1, <3>2, <2>6, <1>0
  <2>8. at(first) \in Nat /\ now < at(first) /\ next + delay <= at(first) /\ at(first) < Never
    <3>1. first > 0
      BY <2>4, <2>5
    <3>2. at(first) \in Nat /\ at(first) = at(first - 1) + delay /\ at(first) >= next + delay
      BY <3>1, <2>1, <2>4
    <3>3. at(first) > now
      BY <2>4
    <3>4. at(first - 1) \in Nat
      BY <2>1, <2>6
    <3> HIDE DEF next, delay
    <3> QED
      BY <3>2, <3>3, <3>4, <2>7, <1>0
  <2>9. after(first) = at(first)
    BY <2>2, <2>4, <2>8, <1>0
  <2>10. \A k \in 1 .. Never : k < first => ~(after(k) > now)
    <3> SUFFICES ASSUME NEW k \in 1 .. Never, k < first PROVE ~(after(k) > now)
      OBVIOUS
    <3>1. k \in Nat /\ k \notin T
      BY <2>4, <2>6, <1>0
    <3>2. at(k) \in Nat /\ at(k) <= now
      BY <3>1, <2>1, <1>0
    <3>3. after(k) = at(k)
      BY <3>1, <3>2, <2>2, <1>0
    <3> QED
      BY <3>2, <3>3, <1>0
  <2>11. later = first
    <3> DEFINE L == {k \in 1 .. Never : after(k) > now}
    <3>1. first \in L
      BY <2>6, <2>8, <2>9
    <3>2. L \in SUBSET Nat /\ L # {}
      BY <3>1, <1>0
    <3>3. Min(L) \in L /\ Min(L) <= first
      BY <3>1, <3>2, MinOfNumbers
    <3>4. Min(L) \in 1 .. Never /\ after(Min(L)) > now
      BY <3>3
    <3>5. later = Min(L)
      OBVIOUS
    <3> HIDE DEF L, later
    <3>6. ~(Min(L) < first)
      BY <2>10, <3>4
    <3> QED
      BY <3>3, <3>4, <3>5, <3>6, <2>4, <2>6, <1>0
  <2>12. value = at(first)
    BY <2>9, <2>11, <1>4
  <2>13. value \in Times /\ next + delay <= value /\ value < Never
    BY <2>8, <2>12, <1>0 DEF Times
  <2> HIDE DEF value
  <2> QED
    BY <1>1, <1>4, <2>13 DEF Entries
<1> QED
  BY <1>2, <1>3, <1>4

-----------------------------------------------------------------------------
(* Vectors *)

\* What has no gap from the front on is a front part, as long as it has elements.
LEMMA FrontIs ==
  ASSUME NEW n \in Nat, NEW S \in SUBSET (1 .. n), \A i \in S, j \in 1 .. n : j < i => j \in S
  PROVE  Cardinality(S) \in 0 .. n /\ S = 1 .. Cardinality(S)
<1>1. CASE S = {}
  <2>1. Cardinality(S) = 0
    BY <1>1, FS_EmptySet
  <2> QED
    BY <2>1, <1>1
<1>2. CASE S # {}
  <2>1. PICK m \in S : \A y \in S : y <= m
    BY <1>2, MaxOfPlaces
  <2>2. S = 1 .. m
    <3>1. ASSUME NEW y \in 1 .. m PROVE y \in S
      <4>1. y = m \/ (y < m /\ y \in 1 .. n)
        OBVIOUS
      <4> QED
        BY <4>1, <2>1
    <3>2. ASSUME NEW y \in S PROVE y \in 1 .. m
      <4>1. y \in 1 .. n /\ y <= m
        BY <2>1
      <4> QED
        BY <4>1, <2>1
    <3> QED
      BY <3>1, <3>2
  <2>3. 1 \in Int /\ m \in Int /\ m >= 1 /\ m <= n
    BY <2>1
  <2>4. Cardinality(1 .. m) = IF 1 > m THEN 0 ELSE m - 1 + 1
    BY <2>3, FS_Interval, Zenon
  <2> QED
    BY <2>2, <2>3, <2>4
<1> QED
  BY <1>1, <1>2

\* Where the elements are in a vector that got one more as its n-th,
LEMMA InsertAtIs ==
  ASSUME NEW S, NEW s \in Seq(S), NEW n \in 1 .. Len(s) + 1, NEW x \in S
  PROVE  LET t == InsertAt(s, n, x)
         IN  /\ t \in Seq(S) /\ Len(t) = Len(s) + 1
             /\ \A j \in 1 .. Len(s) + 1 :
                  t[j] = IF j < n THEN s[j] ELSE IF j = n THEN x ELSE s[j - 1]
<1> DEFINE front == SubSeq(s, 1, n - 1)
           back == SubSeq(s, n, Len(s))
           half == front \o <<x>>
           t == half \o back
<1>0. Len(s) \in Nat /\ \A i \in 1 .. Len(s) : s[i] \in S
  BY ElementOfSeq, LenProperties
<1>1. /\ front \in Seq(S) /\ Len(front) = n - 1
      /\ \A i \in 1 .. n - 1 : front[i] = s[i]
  <2>1. \A i \in 1 .. n - 1 : s[i] \in S
    BY <1>0
  <2>2. /\ SubSeq(s, 1, n - 1) \in Seq(S)
        /\ Len(SubSeq(s, 1, n - 1)) = IF 1 <= n - 1 THEN (n - 1) - 1 + 1 ELSE 0
        /\ \A i \in 1 .. (n - 1) - 1 + 1 : SubSeq(s, 1, n - 1)[i] = s[1 + i - 1]
    BY <2>1, <1>0, SubSeqProperties
  <2> QED
    BY <2>2, <1>0
<1>2. /\ back \in Seq(S) /\ Len(back) = Len(s) + 1 - n
      /\ \A i \in 1 .. Len(s) + 1 - n : back[i] = s[n + i - 1]
  <2>1. \A i \in n .. Len(s) : s[i] \in S
    BY <1>0
  <2>2. /\ SubSeq(s, n, Len(s)) \in Seq(S)
        /\ Len(SubSeq(s, n, Len(s))) = IF n <= Len(s) THEN Len(s) - n + 1 ELSE 0
        /\ \A i \in 1 .. Len(s) - n + 1 : SubSeq(s, n, Len(s))[i] = s[n + i - 1]
    BY <2>1, <1>0, SubSeqProperties
  <2> QED
    BY <2>2, <1>0
<1> HIDE DEF front, back
<1>3. /\ half \in Seq(S) /\ Len(half) = n
      /\ \A i \in 1 .. n : half[i] = IF i <= n - 1 THEN s[i] ELSE x
  <2>1. <<x>> \in Seq(S) /\ Len(<<x>>) = 1 /\ <<x>>[1] = x
    OBVIOUS
  <2> DEFINE one == <<x>>
  <2>2. one \in Seq(S) /\ Len(one) = 1 /\ one[1] = x
    BY <2>1
  <2> HIDE DEF one
  <2>3. /\ front \o one \in Seq(S)
        /\ Len(front \o one) = Len(front) + Len(one)
        /\ \A i \in 1 .. Len(front) + Len(one) :
             (front \o one)[i] = IF i <= Len(front) THEN front[i] ELSE one[i - Len(front)]
    BY <1>1, <2>2, ConcatProperties
  <2>4. half = front \o one
    BY DEF one
  <2> HIDE DEF half
  <2>5. Len(front) + Len(one) = n /\ Len(front) = n - 1
    BY <1>1, <2>2, <1>0
  <2>6. \A i \in 1 .. n : half[i] = IF i <= n - 1 THEN front[i] ELSE one[i - (n - 1)]
    BY <2>3, <2>4, <2>5
  <2>7. ASSUME NEW i \in 1 .. n PROVE half[i] = IF i <= n - 1 THEN s[i] ELSE x
    <3>1. i <= n - 1 => i \in 1 .. n - 1
      BY <1>0
    <3>2. ~(i <= n - 1) => i - (n - 1) = 1
      BY <1>0
    <3> QED
      BY <3>1, <3>2, <2>6, <1>1, <2>2
  <2> QED
    BY <2>3, <2>4, <2>5, <2>7
<1> HIDE DEF half
<1>4. /\ t \in Seq(S) /\ Len(t) = Len(s) + 1
      /\ \A i \in 1 .. Len(s) + 1 : t[i] = IF i <= n THEN half[i] ELSE back[i - n]
  <2>1. /\ half \o back \in Seq(S)
        /\ Len(half \o back) = Len(half) + Len(back)
        /\ \A i \in 1 .. Len(half) + Len(back) :
             (half \o back)[i] = IF i <= Len(half) THEN half[i] ELSE back[i - Len(half)]
    BY <1>2, <1>3, ConcatProperties
  <2>2. Len(half) + Len(back) = Len(s) + 1 /\ Len(half) = n
    BY <1>2, <1>3, <1>0
  <2> QED
    BY <2>1, <2>2
<1> HIDE DEF t
<1>5. ASSUME NEW j \in 1 .. Len(s) + 1
      PROVE  t[j] = IF j < n THEN s[j] ELSE IF j = n THEN x ELSE s[j - 1]
  <2>1. CASE j < n
    <3>1. j \in 1 .. n /\ j <= n - 1 /\ j <= n
      BY <2>1, <1>0
    <3> QED
      BY <3>1, <2>1, <1>3, <1>4
  <2>2. CASE j = n
    <3>1. j \in 1 .. n /\ ~(j <= n - 1) /\ j <= n /\ ~(j < n)
      BY <2>2, <1>0
    <3> QED
      BY <3>1, <2>2, <1>3, <1>4
  <2>3. CASE j > n
    <3>1. ~(j <= n) /\ j - n \in 1 .. Len(s) + 1 - n /\ n + (j - n) - 1 = j - 1 /\ ~(j < n) /\ j # n
      BY <2>3, <1>0
    <3>2. t[j] = back[j - n]
      BY <3>1, <1>4
    <3>3. back[j - n] = s[n + (j - n) - 1]
      BY <3>1, <1>2
    <3> QED
      BY <3>1, <3>2, <3>3
  <2> QED
    BY <2>1, <2>2, <2>3, <1>0
<1>6. InsertAt(s, n, x) = t
  BY DEF InsertAt, t, half, front, back
<1> QED
  BY <1>4, <1>5, <1>6

\* and in one that lost its n-th.
LEMMA RemoveAtIs ==
  ASSUME NEW S, NEW s \in Seq(S), NEW n \in 1 .. Len(s)
  PROVE  LET t == RemoveAt(s, n)
         IN  /\ t \in Seq(S) /\ Len(t) = Len(s) - 1
             /\ \A j \in 1 .. Len(s) - 1 : t[j] = IF j < n THEN s[j] ELSE s[j + 1]
<1> DEFINE front == SubSeq(s, 1, n - 1)
           back == SubSeq(s, n + 1, Len(s))
           t == front \o back
<1>0. Len(s) \in Nat /\ \A i \in 1 .. Len(s) : s[i] \in S
  BY ElementOfSeq, LenProperties
<1>1. /\ front \in Seq(S) /\ Len(front) = n - 1
      /\ \A i \in 1 .. n - 1 : front[i] = s[i]
  <2>1. \A i \in 1 .. n - 1 : s[i] \in S
    BY <1>0
  <2>2. /\ SubSeq(s, 1, n - 1) \in Seq(S)
        /\ Len(SubSeq(s, 1, n - 1)) = IF 1 <= n - 1 THEN (n - 1) - 1 + 1 ELSE 0
        /\ \A i \in 1 .. (n - 1) - 1 + 1 : SubSeq(s, 1, n - 1)[i] = s[1 + i - 1]
    BY <2>1, <1>0, SubSeqProperties
  <2> QED
    BY <2>2, <1>0
<1>2. /\ back \in Seq(S) /\ Len(back) = Len(s) - n
      /\ \A i \in 1 .. Len(s) - n : back[i] = s[n + i]
  <2>1. \A i \in n + 1 .. Len(s) : s[i] \in S
    BY <1>0
  <2>2. /\ SubSeq(s, n + 1, Len(s)) \in Seq(S)
        /\ Len(SubSeq(s, n + 1, Len(s))) = IF n + 1 <= Len(s) THEN Len(s) - (n + 1) + 1 ELSE 0
        /\ \A i \in 1 .. Len(s) - (n + 1) + 1 : SubSeq(s, n + 1, Len(s))[i] = s[n + 1 + i - 1]
    BY <2>1, <1>0, SubSeqProperties
  <2> QED
    BY <2>2, <1>0
<1> HIDE DEF front, back
<1>3. /\ t \in Seq(S) /\ Len(t) = Len(s) - 1
      /\ \A i \in 1 .. Len(s) - 1 : t[i] = IF i <= n - 1 THEN front[i] ELSE back[i - (n - 1)]
  <2>1. /\ front \o back \in Seq(S)
        /\ Len(front \o back) = Len(front) + Len(back)
        /\ \A i \in 1 .. Len(front) + Len(back) :
             (front \o back)[i] = IF i <= Len(front) THEN front[i] ELSE back[i - Len(front)]
    BY <1>1, <1>2, ConcatProperties
  <2>2. Len(front) + Len(back) = Len(s) - 1 /\ Len(front) = n - 1
    BY <1>1, <1>2, <1>0
  <2> QED
    BY <2>1, <2>2
<1> HIDE DEF t
<1>4. ASSUME NEW j \in 1 .. Len(s) - 1 PROVE t[j] = IF j < n THEN s[j] ELSE s[j + 1]
  <2>1. CASE j < n
    <3>1. j \in 1 .. n - 1 /\ j <= n - 1
      BY <2>1, <1>0
    <3> QED
      BY <3>1, <2>1, <1>1, <1>3
  <2>2. CASE ~(j < n)
    <3>1. ~(j <= n - 1) /\ j - (n - 1) \in 1 .. Len(s) - n /\ n + (j - (n - 1)) = j + 1
      BY <2>2, <1>0
    <3>2. t[j] = back[j - (n - 1)]
      BY <3>1, <1>3
    <3>3. back[j - (n - 1)] = s[n + (j - (n - 1))]
      BY <3>1, <1>2
    <3> QED
      BY <3>1, <3>2, <3>3, <2>2
  <2> QED
    BY <2>1, <2>2
<1>5. RemoveAt(s, n) = t
  BY DEF RemoveAt, t, front, back
<1> QED
  BY <1>3, <1>4, <1>5

\* What is in a cell of the heap
LEMMA TimesAre ==
  ASSUME NEW mem \in [Slots -> Entries], NEW s \in Slots
  PROVE  mem[s].next \in Nat /\ mem[s].next <= Never /\ mem[s] \in Entries
<1>1. mem[s] \in Entries
  OBVIOUS
<1>2. mem[s].next \in 0 .. Never
  BY <1>1 DEF Entries, Times
<1> QED
  BY <1>1, <1>2, TimesAssumption

\* In a sorted vector, the pointers before t and those not after it are a front part.
LEMMA BoundsAre ==
  ASSUME NEW mem \in [Slots -> Entries], NEW q \in Seq(Slots), SortedIn(mem, q), NEW t \in Nat
  PROVE  /\ Earlier(mem, q, t) \in 0 .. Len(q) /\ NotLater(mem, q, t) \in 0 .. Len(q)
         /\ \A i \in 1 .. Len(q) : /\ i <= Earlier(mem, q, t) <=> mem[q[i]].next < t
                                   /\ i <= NotLater(mem, q, t) <=> mem[q[i]].next <= t
<1> DEFINE S == {n \in DOMAIN q : mem[q[n]].next < t}
           T == {n \in DOMAIN q : mem[q[n]].next <= t}
<1>0. Len(q) \in Nat /\ DOMAIN q = 1 .. Len(q) /\ \A i \in 1 .. Len(q) : q[i] \in Slots
  BY LenProperties, ElementOfSeq
<1>1. \A i \in 1 .. Len(q) : mem[q[i]].next \in Nat
  BY <1>0, TimesAre
<1>2. \A i, j \in 1 .. Len(q) : j < i => mem[q[j]].next <= mem[q[i]].next
  BY DEF SortedIn
<1>3. S \in SUBSET (1 .. Len(q)) /\ \A i \in S, j \in 1 .. Len(q) : j < i => j \in S
  <2> SUFFICES ASSUME NEW i \in S, NEW j \in 1 .. Len(q), j < i PROVE mem[q[j]].next < t
    BY <1>0
  <2> QED
    BY <1>0, <1>1, <1>2
<1>4. T \in SUBSET (1 .. Len(q)) /\ \A i \in T, j \in 1 .. Len(q) : j < i => j \in T
  <2> SUFFICES ASSUME NEW i \in T, NEW j \in 1 .. Len(q), j < i PROVE mem[q[j]].next <= t
    BY <1>0
  <2> QED
    BY <1>0, <1>1, <1>2
<1>5. Earlier(mem, q, t) = Cardinality(S) /\ NotLater(mem, q, t) = Cardinality(T)
  BY DEF Earlier, NotLater
<1>6. \A i \in 1 .. Len(q) : (i \in S <=> mem[q[i]].next < t) /\ (i \in T <=> mem[q[i]].next <= t)
  BY <1>0
<1> HIDE DEF S, T
<1>7. Cardinality(S) \in 0 .. Len(q) /\ S = 1 .. Cardinality(S)
  BY <1>0, <1>3, FrontIs
<1>8. Cardinality(T) \in 0 .. Len(q) /\ T = 1 .. Cardinality(T)
  BY <1>0, <1>4, FrontIs
<1>9. \A i \in 1 .. Len(q) : (i \in S <=> i <= Cardinality(S)) /\ (i \in T <=> i <= Cardinality(T))
  BY <1>0, <1>7, <1>8
<1> QED
  BY <1>5, <1>6, <1>7, <1>8, <1>9

\* A pointer that is put where its time belongs
LEMMA InsertedIs ==
  ASSUME NEW mem \in [Slots -> Entries], NEW q, NEW S, Keeps(mem, q, S), NEW s \in Slots, s \notin S,
         NEW k \in 0 .. Len(q),
         \A i \in 1 .. Len(q) : IF i <= k THEN mem[q[i]].next <= mem[s].next
                                          ELSE mem[s].next <= mem[q[i]].next
  PROVE  Keeps(mem, InsertAt(q, k + 1, s), S \cup {s})
<1> DEFINE t == InsertAt(q, k + 1, s)
           was(j) == IF j <= k THEN j ELSE j - 1
<1>0. /\ q \in Seq(Slots) /\ Len(q) \in Nat /\ Distinct(q) /\ SortedIn(mem, q)
      /\ \A i \in 1 .. Len(q) : q[i] \in Slots
      /\ k + 1 \in 1 .. Len(q) + 1 /\ k \in Nat
  BY LenProperties, ElementOfSeq DEF Keeps
<1>1. /\ t \in Seq(Slots) /\ Len(t) = Len(q) + 1
      /\ \A j \in 1 .. Len(q) + 1 :
           t[j] = IF j < k + 1 THEN q[j] ELSE IF j = k + 1 THEN s ELSE q[j - 1]
  <2> DEFINE n == k + 1
  <2>1. q \in Seq(Slots) /\ n \in 1 .. Len(q) + 1
    BY <1>0
  <2> HIDE DEF n
  <2>2. LET r == InsertAt(q, n, s)
        IN  /\ r \in Seq(Slots) /\ Len(r) = Len(q) + 1
            /\ \A j \in 1 .. Len(q) + 1 :
                 r[j] = IF j < n THEN q[j] ELSE IF j = n THEN s ELSE q[j - 1]
    BY <2>1, InsertAtIs
  <2> QED
    BY <2>2 DEF n
<1> HIDE DEF t
<1>2. t[k + 1] = s
  BY <1>0, <1>1
<1>3. \A j \in 1 .. Len(t) : j # k + 1 => was(j) \in 1 .. Len(q) /\ t[j] = q[was(j)]
  <2> TAKE j \in 1 .. Len(t)
  <2>1. CASE j < k + 1
    BY <2>1, <1>0, <1>1
  <2>2. CASE j > k + 1
    <3>1. ~(j < k + 1) /\ j # k + 1 /\ ~(j <= k) /\ j - 1 \in 1 .. Len(q) /\ j \in 1 .. Len(q) + 1
      BY <2>2, <1>0, <1>1
    <3> QED
      BY <3>1, <1>1
  <2> QED
    BY <2>1, <2>2, <1>0, <1>1
<1>4. \A i \in 1 .. Len(q) : q[i] # s
  BY <1>0 DEF Keeps, In
<1>5. Distinct(t)
  <2> SUFFICES ASSUME NEW m \in 1 .. Len(t), NEW n \in 1 .. Len(t), t[m] = t[n] PROVE m = n
    BY DEF Distinct
  <2>1. m = k + 1 <=> n = k + 1
    BY <1>2, <1>3, <1>4
  <2>2. CASE m # k + 1
    <3>1. was(m) = was(n)
      BY <2>1, <2>2, <1>0, <1>3 DEF Distinct
    <3> QED
      BY <3>1, <2>1, <2>2, <1>0, <1>1
  <2> QED
    BY <2>1, <2>2
<1>6. \A x \in Slots : mem[x].next \in Nat
  BY TimesAre
<1>7. SortedIn(mem, t)
  <2> SUFFICES ASSUME NEW m \in 1 .. Len(t), NEW n \in 1 .. Len(t), m < n
               PROVE  mem[t[m]].next <= mem[t[n]].next
    BY DEF SortedIn
  <2>0. m \in Int /\ n \in Int
    BY <1>0
  <2>1. CASE m # k + 1 /\ n # k + 1
    <3>1. was(m) \in 1 .. Len(q) /\ was(n) \in 1 .. Len(q) /\ t[m] = q[was(m)] /\ t[n] = q[was(n)]
      BY <2>1, <1>3
    <3>2. was(m) < was(n)
      BY <2>0, <2>1, <1>0
    <3> QED
      BY <3>1, <3>2, <1>0 DEF SortedIn
  <2>2. CASE m = k + 1
    <3>1. n # k + 1 /\ ~(was(n) <= k)
      BY <2>0, <2>2, <1>0
    <3> QED
      BY <3>1, <2>2, <1>2, <1>3
  <2>3. CASE n = k + 1
    <3>1. m # k + 1 /\ was(m) <= k
      BY <2>0, <2>3, <1>0
    <3> QED
      BY <3>1, <2>3, <1>2, <1>3
  <2> QED
    BY <2>1, <2>2, <2>3
<1>8. \A x \in Slots : In(x, t) <=> x \in S \cup {s}
  <2> TAKE x \in Slots
  <2>1. k + 1 \in 1 .. Len(t)
    BY <1>0, <1>1
  <2>2. In(x, q) => In(x, t)
    <3> SUFFICES ASSUME NEW i \in 1 .. Len(q), q[i] = x PROVE In(x, t)
      BY DEF In
    <3>1. CASE i <= k
      <4>1. i \in 1 .. Len(t) /\ i < k + 1
        BY <3>1, <1>0, <1>1
      <4> QED
        BY <4>1, <1>1 DEF In
    <3>2. CASE i > k
      <4>1. i + 1 \in 1 .. Len(t) /\ ~(i + 1 < k + 1) /\ i + 1 # k + 1 /\ (i + 1) - 1 = i
        BY <3>2, <1>0, <1>1
      <4>2. t[i + 1] = q[(i + 1) - 1]
        BY <4>1, <1>1
      <4> QED
        BY <4>1, <4>2 DEF In
    <3> QED
      BY <3>1, <3>2, <1>0
  <2>3. In(x, t) => x = s \/ In(x, q)
    <3> SUFFICES ASSUME NEW j \in 1 .. Len(t), t[j] = x PROVE x = s \/ In(x, q)
      BY DEF In
    <3> QED
      BY <1>2, <1>3 DEF In
  <2>4. In(s, t)
    BY <2>1, <1>2 DEF In
  <2>5. In(x, q) <=> x \in S
    BY DEF Keeps
  <2> QED
    BY <2>2, <2>3, <2>4, <2>5
<1>9. Keeps(mem, t, S \cup {s})
  BY <1>1, <1>5, <1>7, <1>8 DEF Keeps
<1> QED
  BY <1>9 DEF t

\* lower_bound() and upper_bound() are such places.
LEMMA InsertsAre ==
  ASSUME NEW mem \in [Slots -> Entries], NEW q, NEW S, Keeps(mem, q, S), NEW s \in Slots, s \notin S
  PROVE  /\ Keeps(mem, InsertBefore(mem, q, s), S \cup {s})
         /\ Keeps(mem, InsertAfter(mem, q, s), S \cup {s})
<1> DEFINE t == mem[s].next
<1>0. q \in Seq(Slots) /\ SortedIn(mem, q) /\ t \in Nat
  BY TimesAre DEF Keeps
<1>1. \A i \in 1 .. Len(q) : mem[q[i]].next \in Nat
  BY <1>0, ElementOfSeq, TimesAre
<1>2. /\ Earlier(mem, q, t) \in 0 .. Len(q) /\ NotLater(mem, q, t) \in 0 .. Len(q)
      /\ \A i \in 1 .. Len(q) : /\ i <= Earlier(mem, q, t) <=> mem[q[i]].next < t
                                /\ i <= NotLater(mem, q, t) <=> mem[q[i]].next <= t
  BY <1>0, BoundsAre
<1>3. \A i \in 1 .. Len(q) : /\ IF i <= Earlier(mem, q, t) THEN mem[q[i]].next <= t ELSE t <= mem[q[i]].next
                             /\ IF i <= NotLater(mem, q, t) THEN mem[q[i]].next <= t ELSE t <= mem[q[i]].next
  BY <1>0, <1>1, <1>2
<1>4. Keeps(mem, InsertAt(q, Earlier(mem, q, t) + 1, s), S \cup {s})
  BY <1>2, <1>3, InsertedIs
<1>5. Keeps(mem, InsertAt(q, NotLater(mem, q, t) + 1, s), S \cup {s})
  BY <1>2, <1>3, InsertedIs
<1> QED
  BY <1>4, <1>5 DEF InsertBefore, InsertAfter

\* One pointer that is taken out, whatever becomes of its time
LEMMA RemovedIs ==
  ASSUME NEW old, NEW mem, NEW q, NEW S, Keeps(old, q, S), NEW n \in 1 .. Len(q),
         \A x \in Slots : x # q[n] => mem[x] = old[x]
  PROVE  Keeps(mem, RemoveAt(q, n), S \ {q[n]})
<1> DEFINE t == RemoveAt(q, n)
           was(j) == IF j < n THEN j ELSE j + 1
<1>0. /\ q \in Seq(Slots) /\ Len(q) \in Nat /\ Distinct(q) /\ SortedIn(old, q)
      /\ \A i \in 1 .. Len(q) : q[i] \in Slots
  BY LenProperties, ElementOfSeq DEF Keeps
<1>1. /\ t \in Seq(Slots) /\ Len(t) = Len(q) - 1
      /\ \A j \in 1 .. Len(q) - 1 : t[j] = IF j < n THEN q[j] ELSE q[j + 1]
  <2>1. q \in Seq(Slots)
    BY <1>0
  <2> QED
    BY <2>1, RemoveAtIs
<1> HIDE DEF t
<1>2. \A j \in 1 .. Len(t) : was(j) \in 1 .. Len(q) /\ was(j) # n /\ t[j] = q[was(j)]
  <2> TAKE j \in 1 .. Len(t)
  <2>1. CASE j < n
    BY <2>1, <1>0, <1>1
  <2>2. CASE ~(j < n)
    <3>1. j + 1 \in 1 .. Len(q) /\ j + 1 # n /\ j \in 1 .. Len(q) - 1
      BY <2>2, <1>0, <1>1
    <3> QED
      BY <3>1, <2>2, <1>1
  <2> QED
    BY <2>1, <2>2
<1>3. Distinct(t)
  <2> SUFFICES ASSUME NEW k \in 1 .. Len(t), NEW m \in 1 .. Len(t), t[k] = t[m] PROVE k = m
    BY DEF Distinct
  <2>1. was(k) = was(m)
    BY <1>0, <1>2 DEF Distinct
  <2> QED
    BY <2>1, <1>0, <1>1
<1>4. SortedIn(mem, t)
  <2> SUFFICES ASSUME NEW k \in 1 .. Len(t), NEW m \in 1 .. Len(t), k < m
               PROVE  mem[t[k]].next <= mem[t[m]].next
    BY DEF SortedIn
  <2>1. was(k) < was(m)
    BY <1>0, <1>1
  <2>2. old[q[was(k)]].next <= old[q[was(m)]].next
    BY <2>1, <1>0, <1>2 DEF SortedIn
  <2>3. t[k] # q[n] /\ t[m] # q[n]
    <3>1. \A i \in 1 .. Len(q) : q[i] = q[n] => i = n
      BY <1>0 DEF Distinct
    <3> HIDE DEF was
    <3> QED
      BY <3>1, <1>2
  <2> QED
    BY <2>2, <2>3, <1>0, <1>2
<1>5. \A x \in Slots : In(x, t) <=> x \in S \ {q[n]}
  <2> TAKE x \in Slots
  <2>1. In(x, t) => In(x, q) /\ x # q[n]
    BY <1>0, <1>2 DEF In, Distinct
  <2>2. In(x, q) /\ x # q[n] => In(x, t)
    <3> SUFFICES ASSUME NEW i \in 1 .. Len(q), q[i] = x, i # n PROVE In(x, t)
      BY DEF In
    <3>1. CASE i < n
      <4>1. i \in 1 .. Len(t)
        BY <3>1, <1>0, <1>1
      <4> QED
        BY <4>1, <3>1, <1>1 DEF In
    <3>2. CASE i > n
      <4>1. i - 1 \in 1 .. Len(t) /\ ~(i - 1 < n) /\ (i - 1) + 1 = i
        BY <3>2, <1>0, <1>1
      <4>2. t[i - 1] = q[(i - 1) + 1]
        BY <4>1, <1>1
      <4> QED
        BY <4>1, <4>2 DEF In
    <3> QED
      BY <3>1, <3>2, <1>0
  <2>3. In(x, q) <=> x \in S
    BY DEF Keeps
  <2> QED
    BY <2>1, <2>2, <2>3
<1>6. Keeps(mem, t, S \ {q[n]})
  BY <1>1, <1>3, <1>4, <1>5 DEF Keeps
<1> QED
  BY <1>6 DEF t

\* addTimer() of a timer that exists: the vector is sorted by its new time.
LEMMA RepositionIs ==
  ASSUME NEW mem \in [Slots -> Entries], NEW S, S \subseteq Slots, Keeps(entry, timers, S),
         NEW n \in 1 .. Len(timers), \A x \in Slots : x # timers[n] => mem[x] = entry[x]
  PROVE  Keeps(mem, Reposition(mem, n), S)
<1> DEFINE s == timers[n]
           others == RemoveAt(timers, n)
           early == n > 1 /\ mem[s].next < mem[timers[n - 1]].next
           late == n < Len(timers) /\ mem[s].next > mem[timers[n + 1]].next
<1>0. /\ timers \in Seq(Slots) /\ Len(timers) \in Nat /\ Distinct(timers) /\ SortedIn(entry, timers)
      /\ \A i \in 1 .. Len(timers) : timers[i] \in Slots
      /\ s \in Slots /\ s \in S
  <2>1. timers \in Seq(Slots) /\ Distinct(timers) /\ SortedIn(entry, timers)
    BY DEF Keeps
  <2>2. Len(timers) \in Nat /\ \A i \in 1 .. Len(timers) : timers[i] \in Slots
    BY <2>1, LenProperties, ElementOfSeq
  <2> QED
    BY <2>1, <2>2 DEF Keeps, In
<1>1. Keeps(mem, others, S \ {s})
  BY RemovedIs
<1> HIDE DEF s
<1>2. (S \ {s}) \cup {s} = S
  BY <1>0
<1>3. Keeps(mem, InsertBefore(mem, others, s), S) /\ Keeps(mem, InsertAfter(mem, others, s), S)
  <2>1. s \notin S \ {s}
    OBVIOUS
  <2> HIDE DEF others
  <2> DEFINE rest == S \ {s}
  <2>2. s \notin rest /\ Keeps(mem, others, rest) /\ rest \cup {s} = S
    BY <2>1, <1>1, <1>2
  <2> HIDE DEF rest
  <2>3. /\ Keeps(mem, InsertBefore(mem, others, s), rest \cup {s})
        /\ Keeps(mem, InsertAfter(mem, others, s), rest \cup {s})
    BY <2>2, <1>0, InsertsAre
  <2> QED
    BY <2>2, <2>3
<1>4. \A x \in Slots : mem[x].next \in Nat
  BY TimesAre
<1>5. ASSUME ~early, ~late PROVE SortedIn(mem, timers)
  <2> SUFFICES ASSUME NEW k \in 1 .. Len(timers), NEW m \in 1 .. Len(timers), k < m
               PROVE  mem[timers[k]].next <= mem[timers[m]].next
    BY DEF SortedIn
  <2>0. k \in Int /\ m \in Int /\ n \in Int
    BY <1>0
  <2>1. \A i \in 1 .. Len(timers) : i # n => mem[timers[i]] = entry[timers[i]]
    BY <1>0 DEF Distinct, s
  <2>2. CASE k # n /\ m # n
    BY <2>1, <2>2, <1>0 DEF SortedIn
  <2>3. CASE k = n
    <3>1. n < Len(timers) /\ n + 1 \in 1 .. Len(timers) /\ n + 1 # n /\ n + 1 <= m /\ m # n
      BY <2>0, <2>3, <1>0
    <3>2. mem[s].next <= mem[timers[n + 1]].next
      BY <3>1, <1>0, <1>4, <1>5
    <3>3. entry[timers[n + 1]].next <= entry[timers[m]].next \/ n + 1 = m
      BY <3>1, <2>0, <1>0 DEF SortedIn
    <3>4. mem[timers[n + 1]].next <= mem[timers[m]].next
      BY <3>1, <3>3, <2>1, <1>0, <1>4
    <3>5. mem[s].next \in Nat /\ mem[timers[n + 1]].next \in Nat /\ mem[timers[m]].next \in Nat
      BY <3>1, <1>0, <1>4
    <3> QED
      BY <3>2, <3>4, <3>5, <2>3 DEF s
  <2>4. CASE m = n
    <3>1. n > 1 /\ n - 1 \in 1 .. Len(timers) /\ n - 1 # n /\ k <= n - 1 /\ k # n
      BY <2>0, <2>4, <1>0
    <3>2. mem[timers[n - 1]].next <= mem[s].next
      BY <3>1, <1>0, <1>4, <1>5
    <3>3. entry[timers[k]].next <= entry[timers[n - 1]].next \/ n - 1 = k
      BY <3>1, <2>0, <1>0 DEF SortedIn
    <3>4. mem[timers[k]].next <= mem[timers[n - 1]].next
      BY <3>1, <3>3, <2>1, <1>0, <1>4
    <3>5. mem[s].next \in Nat /\ mem[timers[n - 1]].next \in Nat /\ mem[timers[k]].next \in Nat
      BY <3>1, <1>0, <1>4
    <3> QED
      BY <3>2, <3>4, <3>5, <2>4 DEF s
  <2> QED
    BY <2>2, <2>3, <2>4
<1>6. Reposition(mem, n) = CASE early -> InsertAfter(mem, others, s)
                             [] ~early /\ late -> InsertBefore(mem, others, s)
                             [] OTHER -> timers
  BY DEF Reposition, s
<1> HIDE DEF early, late, others
<1>7. CASE early
  <2>1. Reposition(mem, n) = InsertAfter(mem, others, s)
    BY <1>6, <1>7
  <2> QED
    BY <2>1, <1>3
<1>8. CASE ~early /\ late
  <2>1. Reposition(mem, n) = InsertBefore(mem, others, s)
    BY <1>6, <1>8
  <2> QED
    BY <2>1, <1>3
<1>9. CASE ~early /\ ~late
  <2>1. Reposition(mem, n) = timers
    BY <1>6, <1>9
  <2> QED
    BY <2>1, <1>5, <1>9 DEF Keeps
<1> QED
  BY <1>7, <1>8, <1>9

\* The two ranges of a vector are the vector,
LEMMA CutIs ==
  ASSUME NEW q \in Seq(Slots), NEW k \in 0 .. Len(q)
  PROVE  LET first == SubSeq(q, 1, k)
             rest == SubSeq(q, k + 1, Len(q))
         IN  /\ first \in Seq(Slots) /\ Len(first) = k /\ \A i \in 1 .. k : first[i] = q[i]
             /\ rest \in Seq(Slots) /\ Len(rest) = Len(q) - k
             /\ first \o rest = q
<1> DEFINE first == SubSeq(q, 1, k)
           rest == SubSeq(q, k + 1, Len(q))
<1>0. Len(q) \in Nat /\ \A i \in 1 .. Len(q) : q[i] \in Slots
  BY LenProperties, ElementOfSeq
<1>1. first \in Seq(Slots) /\ Len(first) = k /\ \A i \in 1 .. k : first[i] = q[i]
  <2>1. \A i \in 1 .. k : q[i] \in Slots
    BY <1>0
  <2>2. /\ SubSeq(q, 1, k) \in Seq(Slots)
        /\ Len(SubSeq(q, 1, k)) = IF 1 <= k THEN k - 1 + 1 ELSE 0
        /\ \A i \in 1 .. k - 1 + 1 : SubSeq(q, 1, k)[i] = q[1 + i - 1]
    BY <2>1, <1>0, SubSeqProperties
  <2> QED
    BY <2>2, <1>0
<1>2. rest \in Seq(Slots) /\ Len(rest) = Len(q) - k /\ \A i \in 1 .. Len(q) - k : rest[i] = q[k + i]
  <2>1. \A i \in k + 1 .. Len(q) : q[i] \in Slots
    BY <1>0
  <2>2. /\ SubSeq(q, k + 1, Len(q)) \in Seq(Slots)
        /\ Len(SubSeq(q, k + 1, Len(q))) = IF k + 1 <= Len(q) THEN Len(q) - (k + 1) + 1 ELSE 0
        /\ \A i \in 1 .. Len(q) - (k + 1) + 1 : SubSeq(q, k + 1, Len(q))[i] = q[k + 1 + i - 1]
    BY <2>1, <1>0, SubSeqProperties
  <2> QED
    BY <2>2, <1>0
<1> HIDE DEF first, rest
<1> DEFINE both == first \o rest
<1>3. /\ both \in Seq(Slots) /\ Len(both) = Len(q)
      /\ \A i \in 1 .. Len(q) : both[i] = IF i <= k THEN first[i] ELSE rest[i - k]
  <2>1. /\ first \o rest \in Seq(Slots)
        /\ Len(first \o rest) = Len(first) + Len(rest)
        /\ \A i \in 1 .. Len(first) + Len(rest) :
             (first \o rest)[i] = IF i <= Len(first) THEN first[i] ELSE rest[i - Len(first)]
    BY <1>1, <1>2, ConcatProperties
  <2>2. Len(first) + Len(rest) = Len(q) /\ Len(first) = k
    BY <1>0, <1>1, <1>2
  <2> QED
    BY <2>1, <2>2
<1> HIDE DEF both
<1>4. \A i \in 1 .. Len(q) : both[i] = q[i]
  <2> TAKE i \in 1 .. Len(q)
  <2>1. CASE i <= k
    <3>1. i \in 1 .. k
      BY <2>1, <1>0
    <3> QED
      BY <3>1, <2>1, <1>1, <1>3
  <2>2. CASE ~(i <= k)
    <3>1. i - k \in 1 .. Len(q) - k /\ k + (i - k) = i
      BY <2>2, <1>0
    <3>2. rest[i - k] = q[k + (i - k)]
      BY <3>1, <1>2
    <3> QED
      BY <3>1, <3>2, <2>2, <1>3
  <2> QED
    BY <2>1, <2>2
<1>5. both = q
  BY <1>3, <1>4, SeqEqual
<1> QED
  BY <1>1, <1>2, <1>5 DEF first, rest, both

\* and any order in which sort and merge may put them is one by their times.
LEMMA ResortsAre ==
  ASSUME NEW old, NEW mem \in [Slots -> Entries], NEW q, NEW S, Keeps(old, q, S), NEW k \in 0 .. Len(q),
         NEW r \in Resorts(mem, SubSeq(q, 1, k), SubSeq(q, k + 1, Len(q)))
  PROVE  Keeps(mem, r, S)
<1> DEFINE first == SubSeq(q, 1, k)
           rest == SubSeq(q, k + 1, Len(q))
<1>0. /\ q \in Seq(Slots) /\ Len(q) \in Nat /\ DOMAIN q = 1 .. Len(q) /\ Distinct(q)
      /\ \A i \in 1 .. Len(q) : q[i] \in Slots
  BY LenProperties, ElementOfSeq DEF Keeps
<1>1. first \o rest = q
  BY <1>0, CutIs
<1>2. PICK place \in Bijection(DOMAIN q, DOMAIN q) :
        /\ r = [n \in DOMAIN q |-> q[place[n]]]
        /\ \A m, n \in DOMAIN q : m < n =>
             \/ mem[q[place[m]]].next < mem[q[place[n]]].next
             \/ mem[q[place[m]]].next = mem[q[place[n]]].next
  <2> HIDE DEF first, rest
  <2>1. r \in Resorts(mem, first, rest)
    BY DEF first, rest
  <2> QED
    BY <2>1, <1>1 DEF Resorts
<1>3. /\ place \in [1 .. Len(q) -> 1 .. Len(q)]
      /\ \A m, n \in 1 .. Len(q) : place[m] = place[n] => m = n
      /\ \A i \in 1 .. Len(q) : \E n \in 1 .. Len(q) : place[n] = i
  BY <1>0, <1>2 DEF Bijection, Injection, IsInjective, Surjection
<1>4. r \in Seq(Slots) /\ Len(r) = Len(q) /\ \A n \in 1 .. Len(q) : r[n] = q[place[n]]
  <2>1. r \in [1 .. Len(q) -> Slots]
    BY <1>0, <1>2, <1>3
  <2>2. r \in Seq(Slots) /\ Len(r) = Len(q)
    BY <2>1, <1>0
  <2> QED
    BY <2>2, <1>0, <1>2
<1>5. Distinct(r)
  <2> SUFFICES ASSUME NEW m \in 1 .. Len(q), NEW n \in 1 .. Len(q), r[m] = r[n] PROVE m = n
    BY <1>4 DEF Distinct
  <2>1. place[m] \in 1 .. Len(q) /\ place[n] \in 1 .. Len(q) /\ q[place[m]] = q[place[n]]
    BY <1>3, <1>4
  <2>2. place[m] = place[n]
    BY <2>1, <1>0 DEF Distinct
  <2> QED
    BY <2>2, <1>3
<1>6. SortedIn(mem, r)
  <2> SUFFICES ASSUME NEW m \in 1 .. Len(q), NEW n \in 1 .. Len(q), m < n
               PROVE  mem[r[m]].next <= mem[r[n]].next
    BY <1>4 DEF SortedIn
  <2>1. mem[r[m]].next < mem[r[n]].next \/ mem[r[m]].next = mem[r[n]].next
    BY <1>0, <1>2, <1>4
  <2>2. mem[r[m]].next \in Nat /\ mem[r[n]].next \in Nat
    <3>1. r[m] \in Slots /\ r[n] \in Slots
      BY <1>0, <1>3, <1>4
    <3> QED
      BY <3>1, TimesAre
  <2> QED
    BY <2>1, <2>2
<1>7. \A x \in Slots : In(x, r) <=> x \in S
  <2> TAKE x \in Slots
  <2>1. ASSUME NEW n \in 1 .. Len(r), r[n] = x PROVE In(x, q)
    <3>1. n \in 1 .. Len(q) /\ place[n] \in 1 .. Len(q)
      BY <1>3, <1>4
    <3>2. q[place[n]] = x
      BY <3>1, <2>1, <1>4
    <3> QED
      BY <3>1, <3>2 DEF In
  <2>2. ASSUME NEW i \in 1 .. Len(q), q[i] = x PROVE In(x, r)
    <3>1. PICK n \in 1 .. Len(q) : place[n] = i
      BY <1>3
    <3>2. n \in 1 .. Len(r) /\ r[n] = x
      BY <3>1, <2>2, <1>4
    <3> QED
      BY <3>2 DEF In
  <2>3. In(x, r) <=> In(x, q)
    BY <2>1, <2>2 DEF In
  <2> QED
    BY <2>3 DEF Keeps
<1> QED
  BY <1>4, <1>5, <1>6, <1>7 DEF Keeps

\* The end of the vector is cut off.
LEMMA EndCutIs ==
  ASSUME NEW mem, NEW q, NEW S, Keeps(mem, q, S), NEW k \in 0 .. Len(q)
  PROVE  Keeps(mem, SubSeq(q, 1, k), S \ {q[n] : n \in k + 1 .. Len(q)})
<1> DEFINE t == SubSeq(q, 1, k)
           gone == {q[n] : n \in k + 1 .. Len(q)}
<1>0. q \in Seq(Slots) /\ Len(q) \in Nat /\ Distinct(q) /\ SortedIn(mem, q)
  BY LenProperties DEF Keeps
<1>1. t \in Seq(Slots) /\ Len(t) = k /\ \A i \in 1 .. k : t[i] = q[i]
  BY <1>0, CutIs
<1> HIDE DEF t
<1>2. \A i \in 1 .. k : i \in 1 .. Len(q)
  BY <1>0
<1>3. Distinct(t)
  BY <1>0, <1>1, <1>2 DEF Distinct
<1>4. SortedIn(mem, t)
  BY <1>0, <1>1, <1>2 DEF SortedIn
<1>5. \A x \in Slots : In(x, t) <=> x \in S \ gone
  <2> TAKE x \in Slots
  <2>1. In(x, t) => In(x, q) /\ x \notin gone
    <3> SUFFICES ASSUME NEW i \in 1 .. k, t[i] = x PROVE In(x, q) /\ x \notin gone
      BY <1>1 DEF In
    <3>1. i \in 1 .. Len(q) /\ q[i] = x
      BY <1>1, <1>2
    <3>2. ASSUME NEW n \in k + 1 .. Len(q) PROVE q[n] # x
      <4>1. n \in 1 .. Len(q) /\ n # i
        BY <1>0
      <4> QED
        BY <4>1, <3>1, <1>0 DEF Distinct
    <3> QED
      BY <3>1, <3>2 DEF In
  <2>2. In(x, q) /\ x \notin gone => In(x, t)
    <3> SUFFICES ASSUME NEW i \in 1 .. Len(q), q[i] = x, x \notin gone PROVE In(x, t)
      BY DEF In
    <3>1. i \notin k + 1 .. Len(q)
      OBVIOUS
    <3>2. i \in 1 .. k
      BY <3>1, <1>0
    <3> QED
      BY <3>2, <1>1 DEF In
  <2>3. In(x, q) <=> x \in S
    BY DEF Keeps
  <2> HIDE DEF gone
  <2> QED
    BY <2>1, <2>2, <2>3
<1> QED
  BY <1>1, <1>3, <1>4, <1>5 DEF Keeps, t

\* The kept places counted from the front:
Rank(kept, i) == Cardinality({j \in kept : j <= i})

\* each has a number of its own, and there is one of each number.
LEMMA RanksAre ==
  ASSUME NEW n \in Nat, NEW kept \in SUBSET (1 .. n)
  PROVE  /\ Cardinality(kept) \in Nat
         /\ \A i \in kept : Rank(kept, i) \in 1 .. Cardinality(kept)
         /\ \A i, j \in kept : i < j => Rank(kept, i) < Rank(kept, j)
         /\ \A k \in 1 .. Cardinality(kept) : \E i \in kept : Rank(kept, i) = k
<1> DEFINE upTo(i) == {j \in kept : j <= i}
           c == Cardinality(kept)
<1>1. IsFiniteSet(kept) /\ c \in Nat
  <2>1. IsFiniteSet(1 .. n)
    BY FS_Interval
  <2>2. IsFiniteSet(kept)
    BY <2>1, FS_Subset
  <2> QED
    BY <2>2, FS_CardinalityType
<1>2. \A i : IsFiniteSet(upTo(i)) /\ Cardinality(upTo(i)) \in Nat /\ Cardinality(upTo(i)) <= c
  <2> TAKE i
  <2>1. upTo(i) \in SUBSET kept
    OBVIOUS
  <2> HIDE DEF upTo
  <2>2. IsFiniteSet(upTo(i)) /\ Cardinality(upTo(i)) <= Cardinality(kept)
    BY <1>1, <2>1, FS_Subset
  <2> QED
    BY <2>2, FS_CardinalityType
<1>3. \A i : Rank(kept, i) = Cardinality(upTo(i))
  BY DEF Rank
<1>4. ASSUME NEW i \in kept PROVE Rank(kept, i) \in 1 .. c
  <2>1. i \in upTo(i)
    OBVIOUS
  <2> HIDE DEF upTo
  <2>2. Cardinality(upTo(i)) # 0
    BY <1>2, <2>1, FS_EmptySet
  <2> HIDE DEF c
  <2> QED
    BY <1>1, <1>2, <1>3, <2>2
<1>5. ASSUME NEW i \in kept, NEW j \in kept, i < j PROVE Rank(kept, i) < Rank(kept, j)
  <2>1. upTo(i) \in SUBSET upTo(j) /\ j \in upTo(j) /\ j \notin upTo(i)
    <3>1. i \in Int /\ j \in Int /\ \A y \in kept : y \in Int
      OBVIOUS
    <3>2. \A y \in kept : y <= i => y <= j
      BY <3>1, <1>5
    <3>3. j <= j /\ ~(j <= i)
      BY <3>1, <1>5
    <3> QED
      BY <3>2, <3>3
  <2> HIDE DEF upTo
  <2>2. Cardinality(upTo(i)) <= Cardinality(upTo(j))
    BY <1>2, <2>1, FS_Subset
  <2>3. Cardinality(upTo(i)) # Cardinality(upTo(j))
    BY <1>2, <2>1, FS_Subset
  <2> QED
    BY <1>2, <1>3, <2>2, <2>3
<1> DEFINE f == [i \in kept |-> Rank(kept, i)]
<1>6. f \in Injection(kept, 1 .. c)
  <2>1. f \in [kept -> 1 .. c]
    BY <1>4
  <2>2. ASSUME NEW i \in kept, NEW j \in kept, f[i] = f[j] PROVE i = j
    <3>1. ~(i < j) /\ ~(j < i)
      <4>1. Rank(kept, i) = Rank(kept, j) /\ Rank(kept, i) \in Int
        BY <2>2, <1>4
      <4> QED
        BY <4>1, <1>5
    <3> QED
      BY <3>1
  <2> HIDE DEF f
  <2> QED
    BY <2>1, <2>2 DEF Injection, IsInjective
<1>7. IsFiniteSet(1 .. c) /\ Cardinality(1 .. c) = c
  <2> HIDE DEF c
  <2>1. IsFiniteSet(1 .. c) /\ Cardinality(1 .. c) = IF 1 > c THEN 0 ELSE c - 1 + 1
    BY <1>1, FS_Interval
  <2> QED
    BY <2>1, <1>1
<1>8. f \in Surjection(kept, 1 .. c)
  <2> HIDE DEF f
  <2>1. Cardinality(kept) = Cardinality(1 .. c)
    BY <1>7
  <2> HIDE DEF c
  <2> QED
    BY <1>6, <1>7, <2>1, FS_Injection
<1>9. ASSUME NEW k \in 1 .. c PROVE \E i \in kept : Rank(kept, i) = k
  <2>1. \E i \in kept : f[i] = k
    BY <1>8 DEF Surjection
  <2> QED
    BY <2>1
<1> QED
  BY <1>1, <1>4, <1>5, <1>9

\* What is left of a vector without some of its places
LEMMA WithoutIs ==
  ASSUME NEW mem, NEW q, NEW S, Keeps(mem, q, S), NEW places \in SUBSET (1 .. Len(q))
  PROVE  Keeps(mem, Without(q, places), S \ {q[n] : n \in places})
<1> DEFINE kept == (1 .. Len(q)) \ places
           c == Cardinality(kept)
           at(k) == CHOOSE i \in kept : Rank(kept, i) = k
           t == [k \in 1 .. c |-> q[at(k)]]
           gone == {q[n] : n \in places}
<1>0. /\ q \in Seq(Slots) /\ Len(q) \in Nat /\ DOMAIN q = 1 .. Len(q) /\ Distinct(q) /\ SortedIn(mem, q)
      /\ \A i \in 1 .. Len(q) : q[i] \in Slots
  BY LenProperties, ElementOfSeq DEF Keeps
<1>1. /\ c \in Nat
      /\ \A i \in kept : Rank(kept, i) \in 1 .. c
      /\ \A i, j \in kept : i < j => Rank(kept, i) < Rank(kept, j)
      /\ \A k \in 1 .. c : \E i \in kept : Rank(kept, i) = k
  <2>1. kept \in SUBSET (1 .. Len(q)) /\ Len(q) \in Nat
    BY <1>0
  <2> HIDE DEF kept
  <2> QED
    BY <2>1, RanksAre
<1>2. Without(q, places) = t
  BY <1>0 DEF Without, Rank
<1>3. kept \in SUBSET (1 .. Len(q)) /\ \A i \in 1 .. Len(q) : i \in kept <=> i \notin places
  OBVIOUS
<1> HIDE DEF kept, c
<1>4. \A k \in 1 .. c : at(k) \in kept /\ at(k) \in 1 .. Len(q) /\ Rank(kept, at(k)) = k
  BY <1>1, <1>3
<1> HIDE DEF at
<1>5. t \in Seq(Slots) /\ Len(t) = c /\ \A k \in 1 .. c : t[k] = q[at(k)]
  <2>1. t \in [1 .. c -> Slots]
    BY <1>0, <1>4
  <2> QED
    BY <2>1, <1>1
<1> HIDE DEF t
<1>6. \A k, m \in 1 .. c : k < m => at(k) < at(m)
  <2> SUFFICES ASSUME NEW k \in 1 .. c, NEW m \in 1 .. c, k < m PROVE at(k) < at(m)
    OBVIOUS
  <2>1. at(k) \in kept /\ at(m) \in kept /\ at(k) \in Int /\ at(m) \in Int
    BY <1>4
  <2>2. Rank(kept, at(k)) = k /\ Rank(kept, at(m)) = m
    BY <1>4
  <2>3. at(k) # at(m)
    BY <2>2
  <2>4. ~(at(m) < at(k))
    <3>1. at(m) < at(k) => m < k
      BY <1>1, <2>1, <2>2
    <3> QED
      BY <3>1
  <2> QED
    BY <2>1, <2>3, <2>4
<1>7. Distinct(t)
  <2> SUFFICES ASSUME NEW k \in 1 .. c, NEW m \in 1 .. c, t[k] = t[m] PROVE k = m
    BY <1>5 DEF Distinct
  <2>1. at(k) \in 1 .. Len(q) /\ at(m) \in 1 .. Len(q) /\ q[at(k)] = q[at(m)]
    BY <1>4, <1>5
  <2>2. at(k) = at(m)
    BY <2>1, <1>0 DEF Distinct
  <2> QED
    BY <2>2, <1>4
<1>8. SortedIn(mem, t)
  <2> SUFFICES ASSUME NEW k \in 1 .. c, NEW m \in 1 .. c, k < m PROVE mem[t[k]].next <= mem[t[m]].next
    BY <1>5 DEF SortedIn
  <2>1. at(k) \in 1 .. Len(q) /\ at(m) \in 1 .. Len(q) /\ at(k) < at(m)
    BY <1>4, <1>6
  <2>2. mem[q[at(k)]].next <= mem[q[at(m)]].next
    BY <2>1, <1>0 DEF SortedIn
  <2> QED
    BY <2>2, <1>5
<1>9. \A x \in Slots : In(x, t) <=> x \in S \ gone
  <2> TAKE x \in Slots
  <2>1. ASSUME NEW k \in 1 .. c, t[k] = x PROVE In(x, q) /\ x \notin gone
    <3>1. at(k) \in 1 .. Len(q) /\ at(k) \notin places /\ q[at(k)] = x
      BY <2>1, <1>3, <1>4, <1>5
    <3>2. \A n \in 1 .. Len(q) : q[n] = x => n = at(k)
      BY <3>1, <1>0 DEF Distinct
    <3>3. x \notin gone
      BY <3>1, <3>2
    <3> QED
      BY <3>1, <3>3 DEF In
  <2>2. ASSUME NEW i \in 1 .. Len(q), q[i] = x, x \notin gone PROVE In(x, t)
    <3>1. i \in kept
      BY <2>2, <1>3
    <3>2. PICK k \in 1 .. c : Rank(kept, i) = k
      BY <3>1, <1>1
    <3>3. at(k) = i
      <4>1. at(k) \in kept /\ Rank(kept, at(k)) = Rank(kept, i) /\ k \in Int
        BY <3>2, <1>4
      <4>2. /\ at(k) < i => Rank(kept, at(k)) < Rank(kept, i)
            /\ i < at(k) => Rank(kept, i) < Rank(kept, at(k))
        BY <4>1, <3>1, <1>1
      <4>3. at(k) \in Int /\ i \in Int
        BY <1>4
      <4>4. Rank(kept, at(k)) = k /\ Rank(kept, i) = k /\ k \in Int
        BY <3>2, <4>1
      <4> QED
        BY <4>2, <4>3, <4>4
    <3> QED
      BY <3>2, <3>3, <2>2, <1>5 DEF In
  <2>3. In(x, q) <=> x \in S
    BY DEF Keeps
  <2>4. In(x, t) => In(x, q) /\ x \notin gone
    BY <2>1, <1>5 DEF In
  <2>5. In(x, q) /\ x \notin gone => In(x, t)
    BY <2>2 DEF In
  <2> HIDE DEF gone
  <2> QED
    BY <2>3, <2>4, <2>5
<1> QED
  BY <1>2, <1>5, <1>7, <1>8, <1>9 DEF Keeps

\* What becomes of memory that no pointer points to makes no difference.
LEMMA KeepsElsewhere ==
  ASSUME NEW old, NEW mem, NEW q, NEW S, Keeps(old, q, S), \A x \in S : mem[x] = old[x]
  PROVE  Keeps(mem, q, S)
<1>1. q \in Seq(Slots) /\ Distinct(q) /\ SortedIn(old, q) /\ \A x \in Slots : In(x, q) <=> x \in S
  BY DEF Keeps
<1>2. \A i \in 1 .. Len(q) : mem[q[i]] = old[q[i]]
  <2> TAKE i \in 1 .. Len(q)
  <2>1. q[i] \in Slots
    BY <1>1, ElementOfSeq
  <2>2. q[i] \in S
    BY <2>1, <1>1 DEF In
  <2> QED
    BY <2>2
<1>3. SortedIn(mem, q)
  BY <1>1, <1>2 DEF SortedIn
<1> QED
  BY <1>1, <1>3 DEF Keeps

-----------------------------------------------------------------------------
(* Every step keeps the invariant *)

\* What the invariant says of the vector, of each timer and of the copy
LEMMA VectorIs ==
  ASSUME IndInv
  PROVE  /\ timers \in Seq(Slots) /\ Len(timers) \in Nat /\ DOMAIN timers = 1 .. Len(timers)
         /\ Distinct(timers) /\ SortedIn(entry, timers)
         /\ \A i \in 1 .. Len(timers) : timers[i] \in Slots /\ timers[i] \in allocated
         /\ \A s \in allocated : \E i \in 1 .. Len(timers) : timers[i] = s
         /\ process \in Seq(Slots) /\ Len(process) \in Nat /\ DOMAIN process = 1 .. Len(process)
         /\ \A i \in 1 .. Len(process) : process[i] \in Slots /\ process[i] \in allocated
<1>1. /\ timers \in Seq(Slots) /\ process \in Seq(Slots) /\ allocated \subseteq Slots
      /\ Distinct(timers) /\ SortedIn(entry, timers)
      /\ \A x \in Slots : In(x, timers) <=> x \in allocated
      /\ \A x \in Slots : In(x, process) => x \in allocated
  BY DEF IndInv, TypeOK, VectorInv, ProcessInv, Keeps
<1>2. Len(timers) \in Nat /\ DOMAIN timers = 1 .. Len(timers) /\ \A i \in 1 .. Len(timers) : timers[i] \in Slots
  BY <1>1, LenProperties, ElementOfSeq
<1>3. Len(process) \in Nat /\ DOMAIN process = 1 .. Len(process) /\ \A i \in 1 .. Len(process) : process[i] \in Slots
  BY <1>1, LenProperties, ElementOfSeq
<1> QED
  BY <1>1, <1>2, <1>3 DEF In

\* and of the clock and the entries
LEMMA TimersAre ==
  ASSUME IndInv
  PROVE  /\ now \in Nat /\ now <= MaxTime /\ MaxTime \in Nat /\ Never \in Nat /\ MaxTime + 1 < Never
         /\ now \in 0 .. MaxTime
         /\ entry \in [Slots -> Entries] /\ allocated \subseteq Slots
         /\ due \in [Keys -> Nat]
         /\ \A s \in allocated : /\ s \in Slots /\ entry[s] \in Entries
                                 /\ entry[s].key \in Keys /\ due[entry[s].key] \in Nat
                                 /\ entry[s].delay \in Delays /\ entry[s].delay \in Nat
                                 /\ entry[s].next \in Nat /\ entry[s].next <= Never
<1>1. /\ now \in 0 .. MaxTime /\ entry \in [Slots -> Entries] /\ allocated \subseteq Slots
      /\ due \in [Keys -> Nat]
      /\ \A s \in allocated : entry[s].key \in Keys /\ entry[s].delay \in Delays
  BY DEF IndInv, TypeOK, VectorInv
<1>2. MaxTime \in Nat /\ Never \in Nat /\ MaxTime + 1 < Never /\ \A delay \in Delays : delay \in Nat
  BY TimesAssumption
<1>3. ASSUME NEW s \in allocated
      PROVE  /\ s \in Slots /\ entry[s] \in Entries
             /\ entry[s].key \in Keys /\ due[entry[s].key] \in Nat
             /\ entry[s].delay \in Delays /\ entry[s].delay \in Nat
             /\ entry[s].next \in Nat /\ entry[s].next <= Never
  <2>1. s \in Slots /\ entry[s].key \in Keys /\ entry[s].delay \in Delays
    BY <1>1
  <2>2. entry[s] \in Entries /\ entry[s].next \in Nat /\ entry[s].next <= Never
    BY <2>1, <1>1, TimesAre
  <2>3. due[entry[s].key] \in Nat
    BY <2>1, <1>1
  <2> QED
    BY <2>1, <2>2, <2>3, <1>2
<1> QED
  BY <1>1, <1>2, <1>3

\* There are no timers at first.
LEMMA InitKeeps == Init => IndInv
<1> SUFFICES ASSUME Init PROVE IndInv
  OBVIOUS
<1>0. MaxTime \in Nat /\ Never \in Nat /\ MaxCalls \in Nat /\ 0 \in Times
  BY TimesAssumption, TimersAssumption DEF Times
<1>1. timers = <<>> /\ process = <<>> /\ allocated = {} /\ armed = {} /\ phase = "idle"
  BY DEF Init
<1>2. <<>> \in Seq(Slots) /\ Len(<<>>) = 0
  OBVIOUS
<1>3. \A n : n \notin 1 .. 0
  OBVIOUS
<1>4. TypeOK
  <2>1. entry \in [Slots -> Entries]
    <3>1. Blank \in Entries
      BY <1>0 DEF Blank, Entries
    <3> QED
      BY <3>1 DEF Init
  <2>2. event \in [key : Keys \cup {<<>>}, duration : Times]
    BY <1>0 DEF Init, NoEvent
  <2> QED
    BY <1>0, <1>1, <1>2, <2>1, <2>2 DEF TypeOK, Init
<1>5. VectorInv
  <2>1. Keeps(entry, <<>>, {})
    BY <1>2, <1>3 DEF Keeps, Distinct, SortedIn, In
  <2> QED
    BY <1>1, <2>1 DEF VectorInv
<1>6. ProcessInv
  BY <1>1, <1>2, <1>3 DEF ProcessInv, Distinct, In
<1>7. ArmedInv
  BY <1>1 DEF ArmedInv
<1> QED
  BY <1>4, <1>5, <1>6, <1>7 DEF IndInv

\* Time goes on: what is due stays due.
LEMMA TickKeeps ==
  ASSUME IndInv, Tick
  PROVE  IndInv'
<1>1. now \in Nat /\ now' = now + 1 /\ now + 1 \in 0 .. MaxTime
  BY TimersAre DEF Tick
<1>2. /\ entry' = entry /\ allocated' = allocated /\ timers' = timers /\ process' = process
      /\ phase' = phase /\ event' = event /\ calls' = calls /\ armed' = armed /\ due' = due
  BY DEF Tick
<1>3. TypeOK'
  BY <1>1, <1>2 DEF IndInv, TypeOK
<1>4. VectorInv' /\ ProcessInv'
  BY <1>2 DEF IndInv, VectorInv, ProcessInv
<1>5. ASSUME NEW s \in allocated PROVE /\ Coming(s) => Coming(s)'
                                       /\ (Waiting(s) => Waiting(s)') /\ (UsedUp(s) => UsedUp(s)')
  <2>1. due[entry[s].key] \in Nat
    BY TimersAre
  <2>2. due[entry[s].key] <= now => due[entry[s].key] <= now'
    BY <2>1, <1>1
  <2> QED
    BY <2>2, <1>2 DEF Coming, Waiting, UsedUp
<1>6. ArmedInv'
  BY <1>2, <1>5 DEF IndInv, ArmedInv
<1> QED
  BY <1>3, <1>4, <1>6 DEF IndInv

\* addTimer(): no timer whose turn is still to come is reset.
LEMMA AddTimerKeeps ==
  ASSUME TouchesPending = FALSE, NoWrap, IndInv,
         NEW key \in Keys, NEW delay \in Delays, NEW repeat \in BOOLEAN, addTimer(key, delay, repeat)
  PROVE  IndInv'
<1> DEFINE new == Entry(key, delay, repeat)
<1>1. /\ new \in Entries /\ new.key = key /\ new.delay = delay /\ new.next = now + delay
      /\ now + delay \in Nat /\ now + delay < Never /\ Wrapped(now + delay) = now + delay
  <2>1. delay \in Nat /\ delay <= Never /\ now \in Nat /\ now + delay < Never /\ now + delay \in Nat
    <3>1. delay \in 0 .. Never - 1 /\ MaxTime + delay < Never
      BY TimesAssumption DEF NoWrap
    <3> QED
      BY <3>1, TimersAre
  <2>2. Wrapped(now + delay) = now + delay /\ now + delay \in Times
    <3> DEFINE t == now + delay
    <3>1. t \in Nat /\ t <= Never
      BY <2>1, TimersAre
    <3> HIDE DEF t
    <3>2. Wrapped(t) = t /\ t \in Times
      BY <3>1, WrappedIs
    <3> QED
      BY <3>2 DEF t
  <2>3. delay \in Times
    BY <2>1, TimersAre DEF Times
  <2>4. new = [key |-> key, delay |-> delay, next |-> now + delay, repeat |-> repeat]
    BY <2>2 DEF Entry
  <2> HIDE DEF new
  <2> QED
    BY <2>1, <2>2, <2>3, <2>4 DEF Entries
<1> HIDE DEF new
<1>2. /\ now' = now /\ process' = process /\ phase' = phase /\ event' = event
      /\ calls' = calls + 1 /\ calls < MaxCalls
      /\ armed' = armed \cup {key} /\ due' = [due EXCEPT ![key] = now + delay]
  BY <1>1 DEF addTimer, Call, Arm
<1>3. \A s \in Slots : entry[s].key = key => ~In(s, process)
  <2>1. key \notin PendingKeys
    BY DEF addTimer, Call
  <2>2. DOMAIN process = 1 .. Len(process)
    BY VectorIs
  <2> QED
    BY <2>1, <2>2 DEF PendingKeys, In
<1>4. ASSUME NEW s \in Slots, ~In(s, process), entry' = [entry EXCEPT ![s] = new],
             allocated' = allocated \cup {s}, \A t \in allocated : t = s <=> entry[t].key = key,
             Keeps(entry', timers', allocated')
      PROVE  IndInv'
  <2>1. /\ entry \in [Slots -> Entries] /\ due \in [Keys -> Nat] /\ allocated \subseteq Slots
        /\ \A t \in allocated : entry[t].key \in Keys
    BY TimersAre
  <2>2. entry' \in [Slots -> Entries] /\ entry'[s] = new /\ \A t \in Slots : t # s => entry'[t] = entry[t]
    BY <2>1, <1>1, <1>4
  <2>3. due' \in [Keys -> Nat] /\ due'[key] = now + delay /\ \A other \in Keys : other # key => due'[other] = due[other]
    BY <2>1, <1>1, <1>2
  <2>4. TypeOK'
    <3>1. timers' \in Seq(Slots)
      BY <1>4 DEF Keeps
    <3>2. calls' \in 0 .. MaxCalls
      BY <1>2, TimersAssumption DEF IndInv, TypeOK
    <3> QED
      BY <1>2, <1>4, <2>1, <2>2, <2>3, <3>1, <3>2 DEF IndInv, TypeOK
  <2>5. VectorInv'
    <3>1. \A t \in allocated' : entry'[t].key \in Keys /\ entry'[t].delay \in Delays
      BY <1>1, <1>4, <2>1, <2>2 DEF IndInv, VectorInv
    <3>2. \A t, u \in allocated' : entry'[t].key = entry'[u].key => t = u
      BY <1>1, <1>4, <2>1, <2>2 DEF IndInv, VectorInv
    <3> QED
      BY <1>4, <3>1, <3>2 DEF VectorInv
  <2>6. ProcessInv'
    BY <1>2, <1>4 DEF IndInv, ProcessInv
  <2>7. \A other \in armed' : \E t \in allocated' : entry'[t].key = other
    <3> SUFFICES ASSUME NEW other \in armed' PROVE \E t \in allocated' : entry'[t].key = other
      OBVIOUS
    <3>1. CASE other = key
      BY <3>1, <1>1, <1>4, <2>2
    <3>2. CASE other # key
      <4>1. PICK t \in allocated : entry[t].key = other
        BY <3>2, <1>2 DEF IndInv, ArmedInv
      <4>2. t \in Slots /\ t \in allocated' /\ (t # s => entry'[t].key = other)
        BY <4>1, <1>4, <2>1, <2>2
      <4>3. t # s
        BY <4>1, <3>2, <1>4
      <4> QED
        BY <4>2, <4>3
    <3> QED
      BY <3>1, <3>2
  <2>8. ASSUME NEW t \in allocated, t # s
        PROVE  /\ Coming(t) => Coming(t)'
               /\ (Waiting(t) => Waiting(t)') /\ (UsedUp(t) => UsedUp(t)')
    <3>1. entry'[t] = entry[t] /\ entry[t].key \in Keys /\ entry[t].key # key
      BY <2>1, <2>2, <2>8, <1>4
    <3>2. due'[entry[t].key] = due[entry[t].key] /\ (entry[t].key \in armed' <=> entry[t].key \in armed)
      BY <3>1, <2>3, <1>2
    <3> QED
      BY <3>1, <3>2, <1>2 DEF Coming, Waiting, UsedUp
  <2>9. Waiting(s)'
    <3>1. now + delay <= now + delay
      BY <1>1
    <3> QED
      BY <3>1, <2>2, <2>3, <1>1, <1>2 DEF Waiting
  <2>10. ASSUME NEW t \in allocated' PROVE IF In(t, process') THEN Coming(t)' ELSE Waiting(t)' \/ UsedUp(t)'
    <3>1. CASE t = s
      BY <3>1, <2>9, <1>2, <1>4
    <3>2. CASE t # s
      <4>1. t \in allocated
        BY <3>2, <1>4
      <4>2. IF In(t, process) THEN Coming(t) ELSE Waiting(t) \/ UsedUp(t)
        BY <4>1 DEF IndInv, ArmedInv
      <4> QED
        BY <4>1, <4>2, <3>2, <2>8, <1>2
    <3> QED
      BY <3>1, <3>2
  <2>11. ArmedInv'
    BY <2>7, <2>10 DEF ArmedInv
  <2> QED
    BY <2>4, <2>5, <2>6, <2>11 DEF IndInv
<1>5. Having({key}) = {n \in 1 .. Len(timers) : entry[timers[n]].key = key}
  BY VectorIs DEF Having
<1>6. ASSUME NEW n \in Having({key}), entry' = [entry EXCEPT ![timers[n]] = new],
             timers' = Reposition(entry', n), allocated' = allocated
      PROVE  IndInv'
  <2> DEFINE s == timers[n]
  <2>1. n \in 1 .. Len(timers) /\ s \in Slots /\ s \in allocated /\ entry[s].key = key
    BY <1>5, VectorIs
  <2>2. entry' \in [Slots -> Entries] /\ \A x \in Slots : x # timers[n] => entry'[x] = entry[x]
    BY <1>1, <1>6, TimersAre
  <2>3. Keeps(entry, timers, allocated) /\ allocated \subseteq Slots
    BY TimersAre DEF IndInv, VectorInv
  <2>4. Keeps(entry', Reposition(entry', n), allocated)
    <3> DEFINE mem == entry'
    <3>1. mem \in [Slots -> Entries] /\ \A x \in Slots : x # timers[n] => mem[x] = entry[x]
      BY <2>2
    <3> HIDE DEF mem
    <3>2. Keeps(mem, Reposition(mem, n), allocated)
      BY <3>1, <2>1, <2>3, RepositionIs
    <3> QED
      BY <3>2 DEF mem
  <2>5. Keeps(entry', timers', allocated')
    BY <2>4, <1>6
  <2>6. \A t \in allocated : t = s <=> entry[t].key = key
    BY <2>1 DEF IndInv, VectorInv
  <2>7. ~In(s, process) /\ entry' = [entry EXCEPT ![s] = new] /\ allocated' = allocated \cup {s}
    BY <2>1, <1>3, <1>6
  <2> HIDE DEF s
  <2> QED
    BY <2>1, <2>5, <2>6, <2>7, <1>4
<1>7. ASSUME Having({key}) = {}, NEW s \in Slots \ allocated, entry' = [entry EXCEPT ![s] = new],
             timers' = InsertBefore(entry', timers, s), allocated' = allocated \cup {s}
      PROVE  IndInv'
  <2>1. entry' \in [Slots -> Entries] /\ \A x \in allocated : entry'[x] = entry[x]
    BY <1>1, <1>7, TimersAre
  <2>2. Keeps(entry, timers, allocated)
    BY DEF IndInv, VectorInv
  <2>3. Keeps(entry', InsertBefore(entry', timers, s), allocated \cup {s})
    <3> DEFINE mem == entry'
    <3>1. mem \in [Slots -> Entries] /\ \A x \in allocated : mem[x] = entry[x]
      BY <2>1
    <3> HIDE DEF mem
    <3>2. Keeps(mem, timers, allocated)
      BY <3>1, <2>2, KeepsElsewhere
    <3>3. s \in Slots /\ s \notin allocated
      BY <1>7
    <3>4. Keeps(mem, InsertBefore(mem, timers, s), allocated \cup {s})
      BY <3>1, <3>2, <3>3, InsertsAre
    <3> QED
      BY <3>4 DEF mem
  <2>4. Keeps(entry', timers', allocated')
    BY <2>3, <1>7
  <2>5. \A t \in allocated : t = s <=> entry[t].key = key
    <3> SUFFICES ASSUME NEW t \in allocated PROVE t # s /\ entry[t].key # key
      OBVIOUS
    <3>1. PICK i \in 1 .. Len(timers) : timers[i] = t
      BY VectorIs
    <3> QED
      BY <3>1, <1>5, <1>7
  <2>6. ~In(s, process)
    BY <1>7 DEF IndInv, ProcessInv
  <2> QED
    BY <2>4, <2>5, <2>6, <1>4, <1>7
<1>8. \/ \E n \in Having({key}) : /\ entry' = [entry EXCEPT ![timers[n]] = new]
                                  /\ timers' = Reposition(entry', n) /\ allocated' = allocated
      \/ /\ Having({key}) = {}
         /\ \E s \in Slots \ allocated : /\ entry' = [entry EXCEPT ![s] = new]
                                         /\ timers' = InsertBefore(entry', timers, s)
                                         /\ allocated' = allocated \cup {s}
  BY DEF addTimer, new
<1> QED
  BY <1>6, <1>7, <1>8

\* removeTimers(): no timer whose turn is still to come is removed.
LEMMA RemoveTimersKeeps ==
  ASSUME TouchesPending = FALSE, IndInv, NEW keys \in SUBSET Keys, removeTimers(keys)
  PROVE  IndInv'
<1> DEFINE gone == {timers[n] : n \in Having(keys)}
<1>1. /\ now' = now /\ process' = process /\ phase' = phase /\ event' = event
      /\ calls' = calls + 1 /\ calls < MaxCalls
      /\ entry' = entry /\ due' = due /\ armed' = armed \ keys
      /\ allocated' = allocated \ gone /\ timers' = Without(timers, Having(keys))
  BY DEF removeTimers, Call
<1>2. Having(keys) = {n \in 1 .. Len(timers) : entry[timers[n]].key \in keys}
  BY VectorIs DEF Having
<1>3. \A s \in allocated : s \in gone <=> entry[s].key \in keys
  <2> TAKE s \in allocated
  <2>1. PICK i \in 1 .. Len(timers) : timers[i] = s
    BY VectorIs
  <2> QED
    BY <2>1, <1>2
<1>4. \A s \in Slots : In(s, process) => s \in allocated /\ s \notin gone
  <2>1. keys \cap PendingKeys = {}
    BY DEF removeTimers, Call
  <2>2. ASSUME NEW i \in 1 .. Len(process) PROVE process[i] \in allocated /\ entry[process[i]].key \notin keys
    <3>1. process[i] \in allocated /\ i \in DOMAIN process
      BY VectorIs
    <3> QED
      BY <2>1, <3>1 DEF PendingKeys
  <2> QED
    BY <2>2, <1>3 DEF In
<1>5. Keeps(entry, Without(timers, Having(keys)), allocated \ gone)
  <2>1. Keeps(entry, timers, allocated)
    BY DEF IndInv, VectorInv
  <2>2. Having(keys) \in SUBSET (1 .. Len(timers))
    BY <1>2
  <2> QED
    BY <2>1, <2>2, WithoutIs
<1> HIDE DEF gone
<1>6. TypeOK'
  <2>1. timers' \in Seq(Slots)
    BY <1>1, <1>5 DEF Keeps
  <2>2. calls' \in 0 .. MaxCalls
    BY <1>1, TimersAssumption DEF IndInv, TypeOK
  <2> QED
    BY <1>1, <2>1, <2>2 DEF IndInv, TypeOK
<1>7. VectorInv' /\ ProcessInv'
  <2>1. VectorInv'
    BY <1>1, <1>5 DEF IndInv, VectorInv
  <2>2. ProcessInv'
    BY <1>1, <1>4 DEF IndInv, ProcessInv
  <2> QED
    BY <2>1, <2>2
<1>8. ASSUME NEW s \in allocated, s \notin gone
      PROVE  /\ Coming(s) => Coming(s)'
             /\ (Waiting(s) => Waiting(s)') /\ (UsedUp(s) => UsedUp(s)')
  <2>1. entry[s].key \notin keys
    BY <1>3, <1>8
  <2> QED
    BY <2>1, <1>1 DEF Coming, Waiting, UsedUp
<1>9. ArmedInv'
  <2>1. ASSUME NEW key \in armed' PROVE \E s \in allocated' : entry'[s].key = key
    <3>1. PICK s \in allocated : entry[s].key = key
      BY <1>1 DEF IndInv, ArmedInv
    <3> QED
      BY <3>1, <1>1, <1>3
  <2>2. ASSUME NEW s \in allocated' PROVE IF In(s, process') THEN Coming(s)' ELSE Waiting(s)' \/ UsedUp(s)'
    <3>1. s \in allocated /\ s \notin gone
      BY <1>1
    <3>2. IF In(s, process) THEN Coming(s) ELSE Waiting(s) \/ UsedUp(s)
      BY <3>1 DEF IndInv, ArmedInv
    <3> QED
      BY <3>1, <3>2, <1>1, <1>8
  <2> QED
    BY <2>1, <2>2 DEF ArmedInv
<1> QED
  BY <1>6, <1>7, <1>9 DEF IndInv

\* The timers that are due get their next times, and the vector is sorted by them.
LEMMA BeginKeeps ==
  ASSUME NoWrap, IndInv, Begin
  PROVE  IndInv'
<1> DEFINE last == NotLater(entry, timers, now)
           dueNow == SubSeq(timers, 1, last)
           mem == [s \in Slots |-> IF Contains(dueNow, s) THEN Advanced(entry[s]) ELSE entry[s]]
<1>1. /\ phase = "idle" /\ phase' = "next" /\ process' = dueNow /\ entry' = mem
      /\ timers' \in Resorts(mem, dueNow, SubSeq(timers, last + 1, Len(timers)))
      /\ now' = now /\ allocated' = allocated /\ event' = event /\ calls' = calls
      /\ armed' = armed /\ due' = due
  BY DEF Begin
<1>2. /\ last \in 0 .. Len(timers)
      /\ \A i \in 1 .. Len(timers) : i <= last <=> entry[timers[i]].next <= now
  <2>1. entry \in [Slots -> Entries] /\ timers \in Seq(Slots) /\ SortedIn(entry, timers) /\ now \in Nat
    BY VectorIs, TimersAre
  <2> QED
    BY <2>1, BoundsAre
<1>3. /\ dueNow \in Seq(Slots) /\ Len(dueNow) = last
      /\ \A i \in 1 .. last : dueNow[i] = timers[i] /\ i \in 1 .. Len(timers)
  <2>1. timers \in Seq(Slots) /\ Len(timers) \in Nat
    BY VectorIs
  <2>2. \A i \in 1 .. last : i \in 1 .. Len(timers)
    BY <2>1, <1>2
  <2> HIDE DEF last
  <2> QED
    BY <2>1, <2>2, <1>2, CutIs
<1>4. \A s \in Slots : Contains(dueNow, s) <=> In(s, dueNow)
  BY DEF Contains, In
<1>5. \A s \in Slots : In(s, dueNow) => s \in allocated /\ entry[s].next <= now
  <2>1. ASSUME NEW i \in 1 .. last PROVE dueNow[i] \in allocated /\ entry[dueNow[i]].next <= now
    <3>1. dueNow[i] = timers[i] /\ i \in 1 .. Len(timers) /\ i <= last
      BY <1>2, <1>3
    <3> QED
      BY <3>1, <1>2, VectorIs
  <2> HIDE DEF dueNow, last
  <2> QED
    BY <2>1, <1>3 DEF In
<1>6. ASSUME NEW s \in Slots, In(s, dueNow)
      PROVE  /\ mem[s] \in Entries
             /\ mem[s].key = entry[s].key /\ mem[s].delay = entry[s].delay /\ mem[s].repeat = entry[s].repeat
             /\ ~mem[s].repeat => mem[s].next = Never
             /\ mem[s].repeat => entry[s].next + entry[s].delay <= mem[s].next /\ mem[s].next < Never
  <2> HIDE DEF last, dueNow
  <2>1. mem[s] = Advanced(entry[s])
    BY <1>4, <1>6
  <2>2. entry[s] \in Entries /\ entry[s].delay \in Delays /\ entry[s].next <= now /\ now \in 0 .. MaxTime
    BY <1>5, <1>6, TimersAre
  <2> DEFINE e == entry[s]
  <2>3. e \in Entries /\ e.delay \in Delays /\ e.next <= now /\ now \in 0 .. MaxTime
    BY <2>2
  <2> HIDE DEF e, mem
  <2>4. /\ Advanced(e) \in Entries
        /\ Advanced(e).key = e.key /\ Advanced(e).delay = e.delay /\ Advanced(e).repeat = e.repeat
        /\ ~e.repeat => Advanced(e).next = Never
        /\ e.repeat => e.next + e.delay <= Advanced(e).next /\ Advanced(e).next < Never
    BY <2>3, AdvancedIs
  <2> QED
    BY <2>1, <2>4 DEF e
<1>7. \A s \in Slots : ~In(s, dueNow) => mem[s] = entry[s]
  <2> HIDE DEF last, dueNow
  <2> QED
    BY <1>4
<1>8. mem \in [Slots -> Entries]
  <2>1. mem = [s \in Slots |-> mem[s]]
    OBVIOUS
  <2>2. \A s \in Slots : mem[s] \in Entries
    <3> HIDE DEF mem
    <3> QED
      BY <1>6, <1>7, TimersAre
  <2> HIDE DEF mem
  <2> QED
    BY <2>1, <2>2
<1>9. Keeps(mem, timers', allocated)
  <2>1. Keeps(entry, timers, allocated)
    BY DEF IndInv, VectorInv
  <2>2. timers' \in Resorts(mem, SubSeq(timers, 1, last), SubSeq(timers, last + 1, Len(timers)))
    BY <1>1
  <2> HIDE DEF mem, last
  <2> QED
    BY <2>1, <2>2, <1>2, <1>8, ResortsAre
<1> HIDE DEF mem, dueNow, last
<1>10. \A s \in Slots : mem[s].key = entry[s].key /\ mem[s].delay = entry[s].delay
  BY <1>6, <1>7
<1>11. TypeOK'
  <2>1. timers' \in Seq(Slots)
    BY <1>9 DEF Keeps
  <2> QED
    BY <1>1, <1>3, <1>8, <2>1 DEF IndInv, TypeOK
<1>12. VectorInv'
  <2>1. \A s \in allocated : s \in Slots
    BY TimersAre
  <2> QED
    BY <2>1, <1>1, <1>9, <1>10 DEF IndInv, VectorInv
<1>13. ProcessInv'
  <2>1. Distinct(dueNow)
    <3>1. Distinct(timers)
      BY VectorIs
    <3> QED
      BY <3>1, <1>3 DEF Distinct
  <2> QED
    BY <2>1, <1>1, <1>5 DEF ProcessInv
<1>14. ASSUME NEW s \in allocated PROVE Waiting(s)
  <2>1. ~In(s, process)
    <3>1. process = <<>> /\ Len(<<>>) = 0
      BY <1>1 DEF IndInv, ProcessInv
    <3> QED
      BY <3>1 DEF In
  <2> QED
    BY <2>1, <1>1 DEF IndInv, ArmedInv, UsedUp
<1>15. ASSUME NEW s \in allocated, In(s, dueNow) PROVE Coming(s)'
  <2> DEFINE t == due[entry[s].key]
  <2>1. s \in Slots /\ t \in Nat /\ entry[s].next \in Nat /\ entry[s].delay \in Nat /\ now \in Nat
    BY TimersAre
  <2>2. entry[s].key \in armed /\ t <= entry[s].next /\ entry[s].next <= now
    BY <2>1, <1>5, <1>14, <1>15 DEF Waiting
  <2>3. mem[s].next \in Nat
    BY <2>1, <1>8, TimesAre
  <2>4. /\ ~mem[s].repeat => mem[s].next = Never
        /\ mem[s].repeat => entry[s].next + entry[s].delay <= mem[s].next /\ mem[s].next < Never
    BY <2>1, <1>6, <1>15
  <2>5. t <= now /\ (mem[s].repeat => t + entry[s].delay <= mem[s].next)
    <3> HIDE DEF t
    <3> QED
      BY <2>1, <2>2, <2>3, <2>4
  <2> QED
    BY <2>1, <2>2, <2>4, <2>5, <1>1, <1>10 DEF Coming
<1>16. ASSUME NEW s \in allocated, ~In(s, dueNow) PROVE Waiting(s)'
  <2>1. mem[s] = entry[s]
    BY <1>7, <1>16, TimersAre
  <2> QED
    BY <2>1, <1>1, <1>14 DEF Waiting
<1>17. ArmedInv'
  <2>1. ASSUME NEW key \in armed PROVE \E s \in allocated : mem[s].key = key
    <3>1. PICK s \in allocated : entry[s].key = key
      BY DEF IndInv, ArmedInv
    <3> QED
      BY <3>1, <1>10, TimersAre
  <2> QED
    BY <2>1, <1>1, <1>15, <1>16 DEF ArmedInv
<1> QED
  BY <1>11, <1>12, <1>13, <1>17 DEF IndInv

\* The timer whose turn it is: it is still in the vector, and is due.
LEMMA FirstIs ==
  ASSUME IndInv, process # <<>>
  PROVE  LET s == Head(process)
         IN  /\ s \in Slots /\ s \in allocated /\ In(s, process) /\ Coming(s)
             /\ Tail(process) \in Seq(Slots) /\ Distinct(Tail(process))
             /\ \A t \in Slots : In(t, process) <=> t = s \/ In(t, Tail(process))
             /\ ~In(s, Tail(process))
<1> DEFINE s == Head(process)
           rest == Tail(process)
<1>0. process \in Seq(Slots) /\ Len(process) \in Nat /\ Distinct(process)
  BY VectorIs DEF IndInv, ProcessInv
<1>1. /\ s = process[1] /\ 1 \in 1 .. Len(process)
      /\ rest \in Seq(Slots) /\ Len(rest) = Len(process) - 1
      /\ \A i \in 1 .. Len(rest) : rest[i] = process[i + 1]
  BY <1>0, HeadTailProperties, EmptySeq
<1>2. s \in Slots /\ s \in allocated
  BY <1>1, VectorIs
<1>3. In(s, process)
  BY <1>1 DEF In
<1>4. Coming(s)
  BY <1>2, <1>3 DEF IndInv, ArmedInv
<1> HIDE DEF s, rest
<1>5. \A i \in 1 .. Len(rest) : i + 1 \in 1 .. Len(process) /\ i + 1 # 1 /\ i \in Int
  BY <1>0, <1>1
<1>6. Distinct(rest)
  <2> SUFFICES ASSUME NEW m \in 1 .. Len(rest), NEW n \in 1 .. Len(rest), rest[m] = rest[n] PROVE m = n
    BY DEF Distinct
  <2>1. m + 1 = n + 1
    BY <1>0, <1>1, <1>5 DEF Distinct
  <2> QED
    BY <2>1, <1>5
<1>7. ~In(s, rest)
  BY <1>0, <1>1, <1>5 DEF In, Distinct
<1>8. ASSUME NEW t \in Slots PROVE In(t, process) <=> t = s \/ In(t, rest)
  <2>1. In(t, rest) => In(t, process)
    BY <1>1, <1>5 DEF In
  <2>2. ASSUME NEW i \in 1 .. Len(process), process[i] = t PROVE t = s \/ In(t, rest)
    <3>1. CASE i = 1
      BY <3>1, <2>2, <1>1
    <3>2. CASE i # 1
      <4>1. i - 1 \in 1 .. Len(rest) /\ (i - 1) + 1 = i
        BY <3>2, <1>0, <1>1
      <4>2. rest[i - 1] = process[(i - 1) + 1]
        BY <4>1, <1>1
      <4> QED
        BY <4>1, <4>2, <2>2 DEF In
    <3> QED
      BY <3>1, <3>2
  <2> QED
    BY <2>1, <2>2, <1>3 DEF In
<1> QED
  BY <1>1, <1>2, <1>3, <1>4, <1>6, <1>7, <1>8 DEF s, rest

\* A timer that repeats is given its next period, and one that does not is used up.
LEMMA CallListenerKeeps ==
  ASSUME IndInv, CallListener
  PROVE  IndInv'
<1>0. PICK s \in Slots : s = Head(process)
  BY FirstIs DEF CallListener
<1> DEFINE rest == Tail(process)
           e == entry[s]
<1>1. /\ phase' = "listener" /\ process # <<>> /\ process' = rest
      /\ event' = [key |-> e.key, duration |-> Wrapped(e.next - e.delay)]
      /\ armed' = IF e.repeat THEN armed ELSE armed \ {e.key}
      /\ due' = IF e.repeat THEN [due EXCEPT ![e.key] = @ + e.delay] ELSE due
      /\ now' = now /\ entry' = entry /\ allocated' = allocated /\ timers' = timers /\ calls' = calls
  BY <1>0 DEF CallListener
<1>2. /\ s \in Slots /\ s \in allocated /\ In(s, process) /\ Coming(s)
      /\ rest \in Seq(Slots) /\ Distinct(rest)
      /\ \A t \in Slots : In(t, process) <=> t = s \/ In(t, rest)
      /\ ~In(s, rest)
  BY <1>0, <1>1, FirstIs
<1> HIDE DEF rest
<1>3. /\ e.key \in Keys /\ e.key \in armed /\ due[e.key] \in Nat /\ due[e.key] <= now
      /\ e.delay \in Nat /\ e.next \in Nat /\ due \in [Keys -> Nat] /\ allocated \subseteq Slots
  BY <1>2, TimersAre DEF Coming
<1>4. \A t \in allocated : t # s => entry[t].key # e.key /\ entry[t].key \in Keys
  BY <1>2, TimersAre DEF IndInv, VectorInv
<1>5. due' \in [Keys -> Nat] /\ \A key \in Keys : key # e.key => due'[key] = due[key]
  <2>1. due[e.key] + e.delay \in Nat
    BY <1>3
  <2> QED
    BY <2>1, <1>1, <1>3
<1>6. TypeOK'
  <2>1. Wrapped(e.next - e.delay) \in Times
    <3>1. e.next - e.delay \in Int /\ Never \in Nat
      BY <1>3, TimersAre
    <3>2. \A n \in Int : n % (Never + 1) \in 0 .. Never
      BY <3>1
    <3> QED
      BY <3>1, <3>2 DEF Wrapped, Times
  <2>2. event' \in [key : Keys \cup {<<>>}, duration : Times]
    BY <2>1, <1>1, <1>3
  <2>3. armed' \subseteq Keys
    BY <1>1 DEF IndInv, TypeOK
  <2> QED
    BY <2>2, <2>3, <1>1, <1>2, <1>5 DEF IndInv, TypeOK
<1>7. VectorInv' /\ ProcessInv'
  <2>1. VectorInv'
    BY <1>1 DEF IndInv, VectorInv
  <2>2. ProcessInv'
    BY <1>1, <1>2 DEF IndInv, ProcessInv
  <2> QED
    BY <2>1, <2>2
<1>8. ASSUME NEW t \in allocated, t # s
      PROVE  /\ Coming(t) => Coming(t)'
             /\ (Waiting(t) => Waiting(t)') /\ (UsedUp(t) => UsedUp(t)')
  <2>1. due'[entry[t].key] = due[entry[t].key] /\ (entry[t].key \in armed' <=> entry[t].key \in armed)
    BY <1>1, <1>4, <1>5, <1>8
  <2>2. phase' # "idle"
    BY <1>1
  <2> QED
    BY <2>1, <2>2, <1>1 DEF Coming, Waiting, UsedUp
<1>9. Waiting(s)' \/ UsedUp(s)'
  <2>1. CASE e.repeat
    <3>1. due'[e.key] = due[e.key] + e.delay /\ armed' = armed
      BY <2>1, <1>1, <1>3
    <3>2. due[e.key] + e.delay <= e.next /\ e.next < Never
      BY <2>1, <1>2 DEF Coming
    <3>3. e.key \in armed' /\ due'[e.key] <= e.next /\ entry' = entry
      BY <3>1, <3>2, <1>1, <1>3
    <3> QED
      BY <3>2, <3>3 DEF Waiting
  <2>2. CASE ~e.repeat
    <3>1. e.next = Never /\ e.key \notin armed' /\ phase' # "idle" /\ entry' = entry
      BY <2>2, <1>1, <1>2 DEF Coming
    <3> QED
      BY <3>1 DEF UsedUp
  <2> QED
    BY <2>1, <2>2
<1>10. ArmedInv'
  <2>1. \A key \in armed' : \E t \in allocated : entry[t].key = key
    BY <1>1 DEF IndInv, ArmedInv
  <2>2. ASSUME NEW t \in allocated PROVE IF In(t, rest) THEN Coming(t)' ELSE Waiting(t)' \/ UsedUp(t)'
    <3>1. CASE t = s
      <4>1. ~In(t, rest)
        BY <3>1, <1>2
      <4>2. Waiting(t)' \/ UsedUp(t)'
        BY <3>1, <1>9 DEF Waiting, UsedUp
      <4> QED
        BY <4>1, <4>2
    <3>2. CASE t # s
      <4>1. In(t, process) <=> In(t, rest)
        BY <3>2, <1>2, <1>3
      <4>2. IF In(t, process) THEN Coming(t) ELSE Waiting(t) \/ UsedUp(t)
        BY DEF IndInv, ArmedInv
      <4> QED
        BY <4>1, <4>2, <3>2, <1>8
    <3> QED
      BY <3>1, <3>2
  <2> QED
    BY <2>1, <2>2, <1>1 DEF ArmedInv
<1> QED
  BY <1>6, <1>7, <1>10 DEF IndInv

\* The event goes on to those who listen to every timer.
LEMMA BroadcastKeeps ==
  ASSUME IndInv, Broadcast \/ Broadcasted
  PROVE  IndInv'
<1>1. /\ phase # "idle" /\ phase' \in {"next", "broadcast"} /\ phase' # "idle"
      /\ event' = event \/ event' = NoEvent
      /\ now' = now /\ entry' = entry /\ allocated' = allocated /\ timers' = timers
      /\ process' = process /\ calls' = calls /\ armed' = armed /\ due' = due
  BY DEF Broadcast, Broadcasted
<1>2. TypeOK'
  <2>1. NoEvent \in [key : Keys \cup {<<>>}, duration : Times]
    BY TimesAssumption DEF NoEvent, Times
  <2> QED
    BY <2>1, <1>1 DEF IndInv, TypeOK
<1>3. VectorInv' /\ ProcessInv'
  BY <1>1 DEF IndInv, VectorInv, ProcessInv
<1>4. ASSUME NEW s \in allocated
      PROVE  /\ Coming(s)' <=> Coming(s)
             /\ (Waiting(s)' <=> Waiting(s)) /\ (UsedUp(s)' <=> UsedUp(s))
  BY <1>1 DEF Coming, Waiting, UsedUp
<1>5. ArmedInv'
  BY <1>1, <1>4 DEF IndInv, ArmedInv
<1> QED
  BY <1>2, <1>3, <1>5 DEF IndInv

\* The clean-up at the end of a round deletes the timers that are used up and no other.
LEMMA EndKeeps ==
  ASSUME IndInv, End
  PROVE  IndInv'
<1> DEFINE alive == Earlier(entry, timers, Never)
           gone == {timers[n] : n \in alive + 1 .. Len(timers)}
<1>1. /\ process = <<>> /\ phase = "next" /\ phase' = "idle"
      /\ timers' = SubSeq(timers, 1, alive) /\ allocated' = allocated \ gone
      /\ now' = now /\ entry' = entry /\ process' = process /\ event' = event /\ calls' = calls
      /\ armed' = armed /\ due' = due
  BY DEF End
<1>2. /\ alive \in 0 .. Len(timers)
      /\ \A i \in 1 .. Len(timers) : i <= alive <=> entry[timers[i]].next < Never
  <2>1. entry \in [Slots -> Entries] /\ timers \in Seq(Slots) /\ SortedIn(entry, timers) /\ Never \in Nat
    BY VectorIs, TimersAre
  <2> QED
    BY <2>1, BoundsAre
<1>3. Keeps(entry, SubSeq(timers, 1, alive), allocated \ gone)
  <2>1. Keeps(entry, timers, allocated)
    BY DEF IndInv, VectorInv
  <2> HIDE DEF alive
  <2> QED
    BY <2>1, <1>2, EndCutIs
<1>4. \A s \in allocated : s \in gone <=> ~(entry[s].next < Never)
  <2> HIDE DEF alive
  <2> TAKE s \in allocated
  <2>1. PICK i \in 1 .. Len(timers) : timers[i] = s
    BY VectorIs
  <2>2. Len(timers) \in Nat /\ Distinct(timers) /\ alive \in Nat /\ alive <= Len(timers)
    BY VectorIs, <1>2
  <2>3. ASSUME NEW n \in alive + 1 .. Len(timers), timers[n] = s PROVE n = i
    <3>1. n \in 1 .. Len(timers)
      BY <2>2
    <3> QED
      BY <3>1, <2>1, <2>2, <2>3 DEF Distinct
  <2>4. s \in gone <=> i \in alive + 1 .. Len(timers)
    BY <2>1, <2>3
  <2>5. i \in alive + 1 .. Len(timers) <=> ~(i <= alive)
    BY <2>1, <2>2
  <2> QED
    BY <2>1, <2>4, <2>5, <1>2
<1> HIDE DEF gone, alive
<1>5. Len(<<>>) = 0 /\ \A n : n \notin 1 .. 0
  OBVIOUS
<1>6. \A s : ~In(s, process)
  BY <1>1, <1>5 DEF In
<1>7. TypeOK'
  <2>1. timers' \in Seq(Slots)
    BY <1>1, <1>3 DEF Keeps
  <2> QED
    BY <2>1, <1>1 DEF IndInv, TypeOK
<1>8. VectorInv' /\ ProcessInv'
  <2>1. VectorInv'
    BY <1>1, <1>3 DEF IndInv, VectorInv
  <2>2. ProcessInv'
    BY <1>1, <1>6 DEF IndInv, ProcessInv
  <2> QED
    BY <2>1, <2>2
<1>9. ASSUME NEW s \in allocated PROVE Waiting(s) \/ (entry[s].key \notin armed /\ s \in gone)
  <2>1. Waiting(s) \/ UsedUp(s)
    BY <1>6 DEF IndInv, ArmedInv
  <2>2. entry[s].next = Never => ~(entry[s].next < Never)
    BY TimersAre
  <2> QED
    BY <2>1, <2>2, <1>4 DEF UsedUp
<1>10. \A s \in allocated : Waiting(s)' <=> Waiting(s)
  BY <1>1 DEF Waiting
<1>11. ArmedInv'
  <2>1. ASSUME NEW key \in armed PROVE \E s \in allocated' : entry[s].key = key
    <3>1. PICK s \in allocated : entry[s].key = key
      BY DEF IndInv, ArmedInv
    <3>2. entry[s].next < Never
      BY <3>1, <1>9 DEF Waiting
    <3> QED
      BY <3>1, <3>2, <1>1, <1>4
  <2>2. ASSUME NEW s \in allocated' PROVE ~In(s, process') /\ Waiting(s)'
    BY <1>1, <1>6, <1>9, <1>10
  <2> QED
    BY <2>1, <2>2, <1>1 DEF ArmedInv
<1> QED
  BY <1>7, <1>8, <1>11 DEF IndInv

\* Each step of the clock, of processTimers() and of the program
LEMMA NextKeeps ==
  ASSUME TouchesPending = FALSE, NoWrap, IndInv, [Next]_vars
  PROVE  IndInv'
<1>1. CASE Tick
  BY <1>1, TickKeeps
<1>2. CASE processTimers
  BY <1>2, BeginKeeps, CallListenerKeeps, BroadcastKeeps, EndKeeps DEF processTimers
<1>3. CASE Program
  <2>1. ASSUME NEW key \in Keys, NEW delay \in Delays, NEW repeat \in BOOLEAN, addTimer(key, delay, repeat)
        PROVE  IndInv'
    BY <2>1, AddTimerKeeps
  <2>2. ASSUME NEW keys \in SUBSET Keys, removeTimers(keys) PROVE IndInv'
    BY <2>2, RemoveTimersKeeps
  <2>3. ASSUME NEW key \in Keys, removeTimer(key) PROVE IndInv'
    BY <2>2, <2>3 DEF removeTimer
  <2>4. ASSUME NEW el \in Listeners, removeTimersOf(el) PROVE IndInv'
    <3>1. ({el} \X SourceIDs) \in SUBSET Keys
      BY DEF Keys
    <3> QED
      BY <2>2, <2>4, <3>1 DEF removeTimersOf
  <2>5. CASE removeAllTimers
    BY <2>2, <2>5 DEF removeAllTimers
  <2> QED
    BY <1>3, <2>1, <2>3, <2>4, <2>5 DEF Program
<1>4. CASE UNCHANGED vars
  BY <1>4 DEF vars, IndInv, TypeOK, VectorInv, ProcessInv, ArmedInv, Coming, Waiting, UsedUp
<1> QED
  BY <1>1, <1>2, <1>3, <1>4 DEF Next

\* The invariant behind the two theorems
LEMMA IndInvAlways ==
  ASSUME TouchesPending = FALSE, NoWrap
  PROVE  Spec => []IndInv
<1>1. IndInv /\ [Next]_vars => IndInv'
  BY NextKeeps
<1> QED
  BY <1>1, InitKeeps, PTL DEF Spec

-----------------------------------------------------------------------------
(* The theorems *)

\* In the middle of a round too, the vector is sorted, owns each TimerEntry that is
\* allocated, and no key has two; the copy of processTimers() points to none that was
\* deleted; and between rounds it has just the timers that the program still expects.
THEOREM VectorStaysSound ==
  ASSUME TouchesPending = FALSE, NoWrap
  PROVE  Spec => []VectorIsSound
<1>1. IndInv => VectorIsSound
  <2> SUFFICES ASSUME IndInv PROVE VectorIsSound
    OBVIOUS
  <2>1. TypeOK
    BY DEF IndInv
  <2>2. TimersSorted
    BY VectorIs DEF TimersSorted, SortedIn
  <2>3. ToSet(timers) = allocated
    BY VectorIs DEF ToSet
  <2>4. OneEntryPerTimer
    <3>1. ASSUME NEW m \in DOMAIN timers, NEW n \in DOMAIN timers, entry[timers[m]].key = entry[timers[n]].key
          PROVE  m = n
      <4>1. m \in 1 .. Len(timers) /\ n \in 1 .. Len(timers) /\ timers[m] \in allocated /\ timers[n] \in allocated
        BY VectorIs
      <4>2. timers[m] = timers[n]
        BY <3>1, <4>1 DEF IndInv, VectorInv
      <4> QED
        BY <4>1, <4>2, VectorIs DEF Distinct
    <3>2. ToSet(process) \subseteq allocated
      BY VectorIs DEF ToSet
    <3> QED
      BY <3>1, <3>2, <2>3 DEF OneEntryPerTimer
  <2>5. RightTimersPending
    <3>1. \A key \in armed : \E s \in allocated : entry[s].key = key
      BY DEF IndInv, ArmedInv
    <3>2. ASSUME phase = "idle", NEW s \in allocated PROVE entry[s].key \in armed
      <4>1. Coming(s) \/ Waiting(s)
        BY <3>2 DEF IndInv, ArmedInv, UsedUp
      <4> QED
        BY <4>1 DEF Coming, Waiting
    <3> QED
      BY <3>1, <3>2, <2>3 DEF RightTimersPending
  <2> QED
    BY <2>1, <2>2, <2>4, <2>5 DEF VectorIsSound
<1> QED
  BY <1>1, IndInvAlways, PTL

\* A listener is called only for a timer that is armed, and whose time has come.
THEOREM TimersFireOnlyWhenDue ==
  ASSUME TouchesPending = FALSE, NoWrap
  PROVE  Spec => FiresOnlyWhenDue
<1>1. IndInv /\ [Next]_vars => [Fires => event'.key \in armed /\ due[event'.key] <= now]_vars
  <2> SUFFICES ASSUME IndInv, Next, Fires PROVE event'.key \in armed /\ due[event'.key] <= now
    OBVIOUS
  <2>1. CallListener
    BY DEF Fires, Next, Tick, processTimers, Program, Begin, Broadcast, Broadcasted, End,
           addTimer, removeTimer, removeTimersOf, removeAllTimers, removeTimers, Call
  <2>2. Coming(Head(process)) /\ event'.key = entry[Head(process)].key
    BY <2>1, FirstIs DEF CallListener
  <2> QED
    BY <2>2 DEF Coming
<1> QED
  BY <1>1, IndInvAlways, PTL DEF Spec, FiresOnlyWhenDue
=============================================================================
