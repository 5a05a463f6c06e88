-------------------------- MODULE MutexLock_proofs --------------------------
(***************************************************************************)
(* For every number of doors, every recursion depth and every mix of       *)
(* lock() and try_lock() calls: the types, mutual exclusion, the truth of  *)
(* owner(), the balance of the lock levels, and first come, first served.  *)
(***************************************************************************)
EXTENDS MutexLock, TLAPS

InBurnsLamport == {"low", "back", "high"} \cup Holding

Ready == {"leave", "inUse", "isReady", "sameTurn", "giveUp", "claim", "retry",
          "unready"} \cup InBurnsLamport

Waiting == {"inUse", "isReady", "sameTurn"}

\* A flag of a door is raised exactly while its process is in the lines between
\* the write that raises it and the write that lowers it.
FlagsInv ==
  \A i \in Doors :
    /\ FCFS_in_use[i] <=> pc[i] \in {"copy", "flip", "ready", "leave"}
    /\ BL_ready[i] <=> pc[i] \in Ready
    /\ BL_in_use[i] <=> pc[i] \in InBurnsLamport

\* Where the loop counter can be at each label.
CounterInv ==
  \A i \in Doors :
    /\ pc[i] \in {"copy"} \cup Waiting => k[i] < num_doors
    /\ pc[i] \in {"low", "back", "retry"} => k[i] < i
    /\ pc[i] = "high" => k[i] > i
    /\ pc[i] \in {"unclaim", "unready"} => k[i] = i

\* The doors this process has found not in use since it raised its own flag.
PassedLow(i, d) == pc[i] \in {"high"} \cup Holding \/ (pc[i] = "low" /\ k[i] > d)
PassedHigh(i, d) == pc[i] \in Holding \/ (pc[i] = "high" /\ k[i] > d)

\* The heart of the Burns-Lamport lock: of two processes one sees the other.
OneSeesTheOther ==
  \A i, j \in Doors : i < j => ~(PassedHigh(i, j) /\ PassedLow(j, i))

\* The count is nonzero only inside a critical section, where it is the holder's.
CountInv ==
  /\ \A i \in Doors : pc[i] = "cs" => lockcount = depth[i] /\ lockcount > 0
  /\ lockcount > 0 => \E i \in Doors : pc[i] = "cs"

\* Only a process between its doorway and the Burns-Lamport lock has others ahead.
NobodyAhead ==
  \A i \in Doors :
    pc[i] \notin {"copy", "flip", "ready", "leave", "giveUp"} \cup Waiting
      => before[i] = {}

\* A process that is ahead is ready and its turn has not changed since it was
\* copied, so the one behind has not passed its door.
Ahead(d, i) ==
  /\ d # i
  /\ pc[d] \in PastDoorway \cup {"giveUp", "own"}
  /\ (pc[i] = "copy" /\ k[i] > d) \/ pc[i] \in {"flip", "ready", "leave"} \cup Waiting
       => S[i][d] = turn[d]
  /\ pc[i] \in Waiting => k[i] <= d

AheadInv == \A i, d \in Doors : d \in before[i] => Ahead(d, i)

IndInv ==
  /\ TypeOK
  /\ FlagsInv
  /\ CounterInv
  /\ OneSeesTheOther
  /\ OwnerIsHolder
  /\ CountInv
  /\ NobodyAhead
  /\ AheadInv

\* Flipping one of the two bits of a turn gives a two-bit turn again.
LEMMA FlipInBits ==
  ASSUME NEW value \in Bits, NEW bit \in {0, 1}
  PROVE  Flip(value, bit) \in Bits
<1>1. value \in {0, 1, 2, 3}
  BY DEF Bits
<1>2. CASE bit = 0
  BY <1>1, <1>2 DEF Flip, Bits
<1>3. CASE bit = 1
  BY <1>1, <1>3 DEF Flip, Bits
<1> QED BY <1>2, <1>3

\* The blank copy of the turns has the type of every other copy.
LEMMA NoTurnsType == NoTurns \in [Doors -> Bits]
BY DEF NoTurns, Bits

\* Every step of lock(), try_lock(), unlock() and releaseAll(), one case per
\* action, keeps the inductive invariant.
LEMMA Stepping == IndInv /\ MutualExclusion /\ [Next]_vars => IndInv'
<1> SUFFICES ASSUME IndInv, MutualExclusion, [Next]_vars PROVE IndInv'
  OBVIOUS
<1> USE NumDoorsAssumption, MaxLevelAssumption
    DEF Doors, Labels, Bits, Holding, InBurnsLamport, Ready, Waiting, PastDoorway
\* The parts of the invariant, by name: F(lags), C(ounter), O(ne sees the other),
\* (o)W(ner), L(evels), N(obody ahead), A(head), and the types.
<1>pc. pc \in [Doors -> Labels]
  BY DEF IndInv, TypeOK
<1>k. k \in [Doors -> 0 .. num_doors]
  BY DEF IndInv, TypeOK
<1>S. S \in [Doors -> [Doors -> Bits]]
  BY DEF IndInv, TypeOK
<1>turn. turn \in [Doors -> Bits]
  BY DEF IndInv, TypeOK
<1>bit. next_turn_bit \in [Doors -> {0, 1}]
  BY DEF IndInv, TypeOK
<1>owner. owner_index \in Doors \cup {NO_OWNER}
  BY DEF IndInv, TypeOK
<1>count. lockcount \in 0 .. MaxLevel
  BY DEF IndInv, TypeOK
<1>depth. depth \in [Doors -> 0 .. MaxLevel]
  BY DEF IndInv, TypeOK
<1>before. before \in [Doors -> SUBSET Doors]
  BY DEF IndInv, TypeOK
<1>block. block \in [Doors -> BOOLEAN]
  BY DEF IndInv, TypeOK
<1>flags. /\ FCFS_in_use \in [Doors -> BOOLEAN]
         /\ BL_ready \in [Doors -> BOOLEAN]
         /\ BL_in_use \in [Doors -> BOOLEAN]
  BY DEF IndInv, TypeOK
<1>F. FlagsInv
  BY DEF IndInv
<1>C. CounterInv
  BY DEF IndInv
<1>O. OneSeesTheOther
  BY DEF IndInv
<1>W. OwnerIsHolder
  BY DEF IndInv
<1>L. CountInv
  BY DEF IndInv
<1>N. NobodyAhead
  BY DEF IndInv
<1>A. AheadInv
  BY DEF IndInv
<1>1. ASSUME NEW i \in Doors, Relock(i) PROVE IndInv'
  <2>a. pc[i] = "cs"
    BY <1>1, <1>W, <1>pc, <1>owner DEF Relock, OwnerIsHolder, NO_OWNER
  <2>0. /\ pc[i] = "cs"
       /\ owner_index = i
       /\ lockcount < MaxLevel
       /\ depth[i] + 1 \in 0 .. MaxLevel
       /\ lockcount' = lockcount + 1
       /\ depth' = [depth EXCEPT ![i] = depth[i] + 1]
       /\ UNCHANGED <<FCFS_in_use, BL_ready, BL_in_use, turn, next_turn_bit,
          owner_index, pc, block, S, k, before>>
    BY <1>1, <2>a, <1>L, <1>pc, <1>count, <1>depth DEF Relock, At, Goto, shared, CountInv
  <2>1. TypeOK'
    <3>1. lockcount' \in 0 .. MaxLevel
      BY <2>0, <1>count
    <3>2. depth' \in [Doors -> 0 .. MaxLevel]
      BY <2>0, <1>depth
    <3> QED BY <2>0, <3>1, <3>2 DEF IndInv, TypeOK
  <2>2. FlagsInv'
    BY <2>0, <1>F, <1>pc, <1>flags DEF FlagsInv
  <2>3. CounterInv'
    BY <2>0, <1>C, <1>pc, <1>k DEF CounterInv
  <2>4. OneSeesTheOther'
    BY <2>0, <1>F, <1>C, <1>O, <1>pc, <1>k, <1>flags
      DEF OneSeesTheOther, PassedLow, PassedHigh, FlagsInv, CounterInv
  <2>5. (OwnerIsHolder /\ CountInv)'
    BY <2>0, <1>W, <1>L, <1>pc, <1>owner, <1>count, <1>depth
      DEF OwnerIsHolder, NO_OWNER, CountInv, MutualExclusion
  <2>6. NobodyAhead'
    BY <2>0, <1>N, <1>pc, <1>before DEF NobodyAhead
  <2>7. AheadInv'
    BY <2>0, <1>F, <1>C, <1>N, <1>A, <1>pc, <1>k, <1>S, <1>turn, <1>before, <1>flags
      DEF AheadInv, Ahead, NobodyAhead, FlagsInv, CounterInv
  <2> QED BY <2>1, <2>2, <2>3, <2>4, <2>5, <2>6, <2>7 DEF IndInv
<1>2. ASSUME NEW i \in Doors, NEW b \in BOOLEAN, Request(i, b) PROVE IndInv'
  <2>0. /\ pc[i] = "idle"
       /\ pc' = [pc EXCEPT ![i] = "doorway"]
       /\ block' = [block EXCEPT ![i] = b]
       /\ UNCHANGED <<FCFS_in_use, BL_ready, BL_in_use, turn, next_turn_bit,
          owner_index, lockcount, S, k, before, depth>>
    BY <1>2, <1>W, <1>pc, <1>owner DEF Request, At, Goto, shared, OwnerIsHolder
  <2>1. TypeOK'
    <3>1. pc' \in [Doors -> Labels]
      BY <2>0, <1>pc
    <3>2. block' \in [Doors -> BOOLEAN]
      BY <2>0, <1>block
    <3> QED BY <2>0, <3>1, <3>2 DEF IndInv, TypeOK
  <2>2. FlagsInv'
    BY <2>0, <1>F, <1>pc, <1>flags DEF FlagsInv
  <2>3. CounterInv'
    BY <2>0, <1>C, <1>pc, <1>k DEF CounterInv
  <2>4. OneSeesTheOther'
    BY <2>0, <1>F, <1>C, <1>O, <1>pc, <1>k, <1>flags
      DEF OneSeesTheOther, PassedLow, PassedHigh, FlagsInv, CounterInv
  <2>5. (OwnerIsHolder /\ CountInv)'
    BY <2>0, <1>W, <1>L, <1>pc, <1>owner, <1>count, <1>depth
      DEF OwnerIsHolder, NO_OWNER, CountInv, MutualExclusion
  <2>6. NobodyAhead'
    BY <2>0, <1>N, <1>pc, <1>before DEF NobodyAhead
  <2>7. AheadInv'
    BY <2>0, <1>F, <1>C, <1>N, <1>A, <1>pc, <1>k, <1>S, <1>turn, <1>before, <1>flags
      DEF AheadInv, Ahead, NobodyAhead, FlagsInv, CounterInv
  <2> QED BY <2>1, <2>2, <2>3, <2>4, <2>5, <2>6, <2>7 DEF IndInv
<1>3. ASSUME NEW i \in Doors, EnterDoorway(i) PROVE IndInv'
  <2>0. /\ pc[i] = "doorway"
       /\ pc' = [pc EXCEPT ![i] = "copy"]
       /\ FCFS_in_use' = [FCFS_in_use EXCEPT ![i] = TRUE]
       /\ before' = [before EXCEPT ![i] = {d \in Doors : pc[d] \in PastDoorway}]
       /\ k' = [k EXCEPT ![i] = 0]
       /\ UNCHANGED <<BL_ready, BL_in_use, turn, next_turn_bit, owner_index, lockcount,
          block, S, depth>>
    BY <1>3 DEF EnterDoorway, At, Goto, shared
  <2>1. TypeOK'
    <3>1. pc' \in [Doors -> Labels]
      BY <2>0, <1>pc
    <3>2. FCFS_in_use' \in [Doors -> BOOLEAN]
      BY <2>0, <1>flags
    <3>3. before' \in [Doors -> SUBSET Doors]
      BY <2>0, <1>before
    <3>4. k' \in [Doors -> 0 .. num_doors]
      BY <2>0, <1>k
    <3> QED BY <2>0, <3>1, <3>2, <3>3, <3>4 DEF IndInv, TypeOK
  <2>2. FlagsInv'
    BY <2>0, <1>F, <1>pc, <1>flags DEF FlagsInv
  <2>3. CounterInv'
    BY <2>0, <1>C, <1>pc, <1>k DEF CounterInv
  <2>4. OneSeesTheOther'
    BY <2>0, <1>F, <1>C, <1>O, <1>pc, <1>k, <1>flags
      DEF OneSeesTheOther, PassedLow, PassedHigh, FlagsInv, CounterInv
  <2>5. (OwnerIsHolder /\ CountInv)'
    BY <2>0, <1>W, <1>L, <1>pc, <1>owner, <1>count, <1>depth
      DEF OwnerIsHolder, NO_OWNER, CountInv, MutualExclusion
  <2>6. NobodyAhead'
    BY <2>0, <1>N, <1>pc, <1>before DEF NobodyAhead
  <2>7. AheadInv'
    BY <2>0, <1>F, <1>C, <1>N, <1>A, <1>pc, <1>k, <1>S, <1>turn, <1>before, <1>flags
      DEF AheadInv, Ahead, NobodyAhead, FlagsInv, CounterInv
  <2> QED BY <2>1, <2>2, <2>3, <2>4, <2>5, <2>6, <2>7 DEF IndInv
<1>4. ASSUME NEW i \in Doors, CopyTurn(i) PROVE IndInv'
  <2>1. CASE k[i] + 1 = num_doors
    <3>0. /\ pc[i] = "copy"
         /\ k[i] \in Doors
         /\ k[i] \in Nat /\ k[i] + 1 \in 0 .. num_doors
         /\ S[i] \in [Doors -> Bits] /\ turn[k[i]] \in Bits
         /\ pc' = [pc EXCEPT ![i] = "flip"]
         /\ S' = [S EXCEPT ![i] = [S[i] EXCEPT ![k[i]] = turn[k[i]]]]
         /\ k' = [k EXCEPT ![i] = k[i] + 1]
         /\ UNCHANGED <<FCFS_in_use, BL_ready, BL_in_use, turn, next_turn_bit,
            owner_index, lockcount, block, before, depth>>
      BY <1>4, <2>1, <1>C, <1>pc, <1>k, <1>S, <1>turn
       DEF CopyTurn, At, Goto, shared, CounterInv
    <3>1. TypeOK'
      <4>1. pc' \in [Doors -> Labels]
        BY <3>0, <1>pc
      <4>2. S' \in [Doors -> [Doors -> Bits]]
        BY <3>0, <1>S
      <4>3. k' \in [Doors -> 0 .. num_doors]
        BY <3>0, <1>k
      <4> QED BY <3>0, <4>1, <4>2, <4>3 DEF IndInv, TypeOK
    <3>2. FlagsInv'
      BY <3>0, <1>F, <1>pc, <1>flags DEF FlagsInv
    <3>3. CounterInv'
      BY <3>0, <1>C, <1>pc, <1>k DEF CounterInv
    <3>4. OneSeesTheOther'
      BY <3>0, <1>F, <1>C, <1>O, <1>pc, <1>k, <1>flags
        DEF OneSeesTheOther, PassedLow, PassedHigh, FlagsInv, CounterInv
    <3>5. (OwnerIsHolder /\ CountInv)'
      BY <3>0, <1>W, <1>L, <1>pc, <1>owner, <1>count, <1>depth
        DEF OwnerIsHolder, NO_OWNER, CountInv, MutualExclusion
    <3>6. NobodyAhead'
      BY <3>0, <1>N, <1>pc, <1>before DEF NobodyAhead
    <3>7. AheadInv'
      <4> SUFFICES ASSUME NEW p \in Doors, NEW d \in Doors, d \in before'[p]
                   PROVE  Ahead(d, p)'
        BY DEF AheadInv
      <4>1. Ahead(d, p)
        BY <3>0, <1>A, <1>before DEF AheadInv
      <4>2. CASE p = i
        BY <3>0, <2>1, <4>1, <4>2, <1>F, <1>C, <1>N, <1>pc, <1>k, <1>S, <1>turn,
           <1>before, <1>flags DEF Ahead, NobodyAhead, FlagsInv, CounterInv
      <4>3. CASE p # i
        BY <3>0, <2>1, <4>1, <4>3, <1>pc, <1>k, <1>S, <1>turn DEF Ahead
      <4> QED BY <4>2, <4>3
    <3> QED BY <3>1, <3>2, <3>3, <3>4, <3>5, <3>6, <3>7 DEF IndInv
  <2>2. CASE k[i] + 1 # num_doors
    <3>0. /\ pc[i] = "copy"
         /\ k[i] \in Doors
         /\ k[i] + 1 < num_doors
         /\ k[i] \in Nat /\ k[i] + 1 \in 0 .. num_doors
         /\ S[i] \in [Doors -> Bits] /\ turn[k[i]] \in Bits
         /\ S' = [S EXCEPT ![i] = [S[i] EXCEPT ![k[i]] = turn[k[i]]]]
         /\ k' = [k EXCEPT ![i] = k[i] + 1]
         /\ UNCHANGED <<FCFS_in_use, BL_ready, BL_in_use, turn, next_turn_bit,
            owner_index, lockcount, pc, block, before, depth>>
      BY <1>4, <2>2, <1>C, <1>pc, <1>k, <1>S, <1>turn
       DEF CopyTurn, At, Goto, shared, CounterInv
    <3>1. TypeOK'
      <4>1. S' \in [Doors -> [Doors -> Bits]]
        BY <3>0, <1>S
      <4>2. k' \in [Doors -> 0 .. num_doors]
        BY <3>0, <1>k
      <4> QED BY <3>0, <4>1, <4>2 DEF IndInv, TypeOK
    <3>2. FlagsInv'
      BY <3>0, <1>F, <1>pc, <1>flags DEF FlagsInv
    <3>3. CounterInv'
      BY <3>0, <1>C, <1>pc, <1>k DEF CounterInv
    <3>4. OneSeesTheOther'
      <4> SUFFICES ASSUME NEW p \in Doors, NEW d \in Doors, p < d,
                          PassedHigh(p, d)', PassedLow(d, p)'
                   PROVE  FALSE
        BY DEF OneSeesTheOther
      <4>1. ~(PassedHigh(p, d) /\ PassedLow(d, p))
        BY <1>O DEF OneSeesTheOther
      <4>2. CASE p = i
        BY <3>0, <4>1, <4>2, <1>F, <1>C, <1>pc, <1>k, <1>flags
          DEF PassedLow, PassedHigh, FlagsInv, CounterInv
      <4>3. CASE d = i
        BY <3>0, <4>1, <4>3, <1>F, <1>C, <1>pc, <1>k, <1>flags
          DEF PassedLow, PassedHigh, FlagsInv, CounterInv
      <4>4. CASE p # i /\ d # i
        BY <3>0, <4>1, <4>4, <1>F, <1>C, <1>pc, <1>k, <1>flags
          DEF PassedLow, PassedHigh, FlagsInv, CounterInv
      <4> QED BY <4>2, <4>3, <4>4
    <3>5. (OwnerIsHolder /\ CountInv)'
      BY <3>0, <1>W, <1>L, <1>pc, <1>owner, <1>count, <1>depth
        DEF OwnerIsHolder, NO_OWNER, CountInv, MutualExclusion
    <3>6. NobodyAhead'
      BY <3>0, <1>N, <1>pc, <1>before DEF NobodyAhead
    <3>7. AheadInv'
      <4> SUFFICES ASSUME NEW p \in Doors, NEW d \in Doors, d \in before'[p]
                   PROVE  Ahead(d, p)'
        BY DEF AheadInv
      <4>1. Ahead(d, p)
        BY <3>0, <1>A, <1>before DEF AheadInv
      <4>2. CASE p = i
        BY <3>0, <2>2, <4>1, <4>2, <1>F, <1>C, <1>N, <1>pc, <1>k, <1>S, <1>turn,
           <1>before, <1>flags DEF Ahead, NobodyAhead, FlagsInv, CounterInv
      <4>3. CASE p # i
        BY <3>0, <2>2, <4>1, <4>3, <1>pc, <1>k, <1>S, <1>turn DEF Ahead
      <4> QED BY <4>2, <4>3
    <3> QED BY <3>1, <3>2, <3>3, <3>4, <3>5, <3>6, <3>7 DEF IndInv
  <2> QED BY <2>1, <2>2
<1>5. ASSUME NEW i \in Doors, FlipTurn(i) PROVE IndInv'
  <2>a. next_turn_bit[i] \in {0, 1} /\ turn[i] \in Bits
    BY <1>bit, <1>turn
  <2>b. 1 - next_turn_bit[i] \in {0, 1}
    BY <2>a
  <2>0. /\ pc[i] = "flip"
       /\ Flip(turn[i], 1 - next_turn_bit[i]) \in Bits /\ 1 - next_turn_bit[i] \in {0, 1}
       /\ pc' = [pc EXCEPT ![i] = "ready"]
       /\ next_turn_bit' = [next_turn_bit EXCEPT ![i] = 1 - next_turn_bit[i]]
       /\ turn' = [turn EXCEPT ![i] = Flip(turn[i], 1 - next_turn_bit[i])]
       /\ UNCHANGED <<FCFS_in_use, BL_ready, BL_in_use, owner_index, lockcount, block,
          S, k, before, depth>>
    BY <1>5, <2>a, <2>b, FlipInBits DEF FlipTurn, At, Goto, shared
  <2>1. TypeOK'
    <3>1. pc' \in [Doors -> Labels]
      BY <2>0, <1>pc
    <3>2. next_turn_bit' \in [Doors -> {0, 1}]
      BY <2>0, <1>bit
    <3>3. turn' \in [Doors -> Bits]
      BY <2>0, <1>turn
    <3> QED BY <2>0, <3>1, <3>2, <3>3 DEF IndInv, TypeOK
  <2>2. FlagsInv'
    BY <2>0, <1>F, <1>pc, <1>flags DEF FlagsInv
  <2>3. CounterInv'
    BY <2>0, <1>C, <1>pc, <1>k DEF CounterInv
  <2>4. OneSeesTheOther'
    BY <2>0, <1>F, <1>C, <1>O, <1>pc, <1>k, <1>flags
      DEF OneSeesTheOther, PassedLow, PassedHigh, FlagsInv, CounterInv
  <2>5. (OwnerIsHolder /\ CountInv)'
    BY <2>0, <1>W, <1>L, <1>pc, <1>owner, <1>count, <1>depth
      DEF OwnerIsHolder, NO_OWNER, CountInv, MutualExclusion
  <2>6. NobodyAhead'
    BY <2>0, <1>N, <1>pc, <1>before DEF NobodyAhead
  <2>7. AheadInv'
    <3> SUFFICES ASSUME NEW p \in Doors, NEW d \in Doors, d \in before'[p]
                 PROVE  Ahead(d, p)'
      BY DEF AheadInv
    <3>1. Ahead(d, p)
      BY <2>0, <1>A, <1>before DEF AheadInv
    <3>2. CASE p = i
      BY <2>0, <3>1, <3>2, <1>F, <1>C, <1>N, <1>pc, <1>k, <1>S, <1>turn, <1>before,
         <1>flags DEF Ahead, NobodyAhead, FlagsInv, CounterInv
    <3>3. CASE p # i
      BY <2>0, <3>1, <3>3, <1>pc, <1>k, <1>S, <1>turn DEF Ahead
    <3> QED BY <3>2, <3>3
  <2> QED BY <2>1, <2>2, <2>3, <2>4, <2>5, <2>6, <2>7 DEF IndInv
<1>6. ASSUME NEW i \in Doors, SetReady(i) PROVE IndInv'
  <2>0. /\ pc[i] = "ready"
       /\ pc' = [pc EXCEPT ![i] = "leave"]
       /\ BL_ready' = [BL_ready EXCEPT ![i] = TRUE]
       /\ UNCHANGED <<FCFS_in_use, BL_in_use, turn, next_turn_bit, owner_index,
          lockcount, block, S, k, before, depth>>
    BY <1>6 DEF SetReady, At, Goto, shared
  <2>1. TypeOK'
    <3>1. pc' \in [Doors -> Labels]
      BY <2>0, <1>pc
    <3>2. BL_ready' \in [Doors -> BOOLEAN]
      BY <2>0, <1>flags
    <3> QED BY <2>0, <3>1, <3>2 DEF IndInv, TypeOK
  <2>2. FlagsInv'
    BY <2>0, <1>F, <1>pc, <1>flags DEF FlagsInv
  <2>3. CounterInv'
    BY <2>0, <1>C, <1>pc, <1>k DEF CounterInv
  <2>4. OneSeesTheOther'
    BY <2>0, <1>F, <1>C, <1>O, <1>pc, <1>k, <1>flags
      DEF OneSeesTheOther, PassedLow, PassedHigh, FlagsInv, CounterInv
  <2>5. (OwnerIsHolder /\ CountInv)'
    BY <2>0, <1>W, <1>L, <1>pc, <1>owner, <1>count, <1>depth
      DEF OwnerIsHolder, NO_OWNER, CountInv, MutualExclusion
  <2>6. NobodyAhead'
    BY <2>0, <1>N, <1>pc, <1>before DEF NobodyAhead
  <2>7. AheadInv'
    BY <2>0, <1>F, <1>C, <1>N, <1>A, <1>pc, <1>k, <1>S, <1>turn, <1>before, <1>flags
      DEF AheadInv, Ahead, NobodyAhead, FlagsInv, CounterInv
  <2> QED BY <2>1, <2>2, <2>3, <2>4, <2>5, <2>6, <2>7 DEF IndInv
<1>7. ASSUME NEW i \in Doors, LeaveDoorway(i) PROVE IndInv'
  <2>0. /\ pc[i] = "leave"
       /\ pc' = [pc EXCEPT ![i] = "inUse"]
       /\ FCFS_in_use' = [FCFS_in_use EXCEPT ![i] = FALSE]
       /\ k' = [k EXCEPT ![i] = 0]
       /\ UNCHANGED <<BL_ready, BL_in_use, turn, next_turn_bit, owner_index, lockcount,
          block, S, before, depth>>
    BY <1>7 DEF LeaveDoorway, At, Goto, shared
  <2>1. TypeOK'
    <3>1. pc' \in [Doors -> Labels]
      BY <2>0, <1>pc
    <3>2. FCFS_in_use' \in [Doors -> BOOLEAN]
      BY <2>0, <1>flags
    <3>3. k' \in [Doors -> 0 .. num_doors]
      BY <2>0, <1>k
    <3> QED BY <2>0, <3>1, <3>2, <3>3 DEF IndInv, TypeOK
  <2>2. FlagsInv'
    BY <2>0, <1>F, <1>pc, <1>flags DEF FlagsInv
  <2>3. CounterInv'
    BY <2>0, <1>C, <1>pc, <1>k DEF CounterInv
  <2>4. OneSeesTheOther'
    BY <2>0, <1>F, <1>C, <1>O, <1>pc, <1>k, <1>flags
      DEF OneSeesTheOther, PassedLow, PassedHigh, FlagsInv, CounterInv
  <2>5. (OwnerIsHolder /\ CountInv)'
    BY <2>0, <1>W, <1>L, <1>pc, <1>owner, <1>count, <1>depth
      DEF OwnerIsHolder, NO_OWNER, CountInv, MutualExclusion
  <2>6. NobodyAhead'
    BY <2>0, <1>N, <1>pc, <1>before DEF NobodyAhead
  <2>7. AheadInv'
    BY <2>0, <1>F, <1>C, <1>N, <1>A, <1>pc, <1>k, <1>S, <1>turn, <1>before, <1>flags
      DEF AheadInv, Ahead, NobodyAhead, FlagsInv, CounterInv
  <2> QED BY <2>1, <2>2, <2>3, <2>4, <2>5, <2>6, <2>7 DEF IndInv
<1>8. ASSUME NEW i \in Doors, ReadInUse(i) PROVE IndInv'
  <2>1. CASE FCFS_in_use[k[i]] /\ block[i]
    <3>0. /\ pc[i] = "inUse"
         /\ pc' = [pc EXCEPT ![i] = "inUse"]
         /\ UNCHANGED <<FCFS_in_use, BL_ready, BL_in_use, turn, next_turn_bit,
            owner_index, lockcount, block, S, k, before, depth>>
      BY <1>8, <2>1 DEF ReadInUse, At, Goto, shared, WaitOrGiveUp
    <3>1. TypeOK'
      BY <3>0 DEF IndInv, TypeOK
    <3>2. FlagsInv'
      BY <3>0, <1>F, <1>pc, <1>flags DEF FlagsInv
    <3>3. CounterInv'
      BY <3>0, <1>C, <1>pc, <1>k DEF CounterInv
    <3>4. OneSeesTheOther'
      BY <3>0, <1>F, <1>C, <1>O, <1>pc, <1>k, <1>flags
        DEF OneSeesTheOther, PassedLow, PassedHigh, FlagsInv, CounterInv
    <3>5. (OwnerIsHolder /\ CountInv)'
      BY <3>0, <1>W, <1>L, <1>pc, <1>owner, <1>count, <1>depth
        DEF OwnerIsHolder, NO_OWNER, CountInv, MutualExclusion
    <3>6. NobodyAhead'
      BY <3>0, <1>N, <1>pc, <1>before DEF NobodyAhead
    <3>7. AheadInv'
      BY <3>0, <2>1, <1>F, <1>C, <1>N, <1>A, <1>pc, <1>k, <1>S, <1>turn, <1>before,
         <1>flags DEF AheadInv, Ahead, NobodyAhead, FlagsInv, CounterInv
    <3> QED BY <3>1, <3>2, <3>3, <3>4, <3>5, <3>6, <3>7 DEF IndInv
  <2>2. CASE FCFS_in_use[k[i]] /\ ~block[i]
    <3>0. /\ pc[i] = "inUse"
         /\ pc' = [pc EXCEPT ![i] = "giveUp"]
         /\ UNCHANGED <<FCFS_in_use, BL_ready, BL_in_use, turn, next_turn_bit,
            owner_index, lockcount, block, S, k, before, depth>>
      BY <1>8, <2>2 DEF ReadInUse, At, Goto, shared, WaitOrGiveUp
    <3>1. TypeOK'
      BY <3>0 DEF IndInv, TypeOK
    <3>2. FlagsInv'
      BY <3>0, <1>F, <1>pc, <1>flags DEF FlagsInv
    <3>3. CounterInv'
      BY <3>0, <1>C, <1>pc, <1>k DEF CounterInv
    <3>4. OneSeesTheOther'
      BY <3>0, <1>F, <1>C, <1>O, <1>pc, <1>k, <1>flags
        DEF OneSeesTheOther, PassedLow, PassedHigh, FlagsInv, CounterInv
    <3>5. (OwnerIsHolder /\ CountInv)'
      BY <3>0, <1>W, <1>L, <1>pc, <1>owner, <1>count, <1>depth
        DEF OwnerIsHolder, NO_OWNER, CountInv, MutualExclusion
    <3>6. NobodyAhead'
      BY <3>0, <1>N, <1>pc, <1>before DEF NobodyAhead
    <3>7. AheadInv'
      BY <3>0, <2>2, <1>F, <1>C, <1>N, <1>A, <1>pc, <1>k, <1>S, <1>turn, <1>before,
         <1>flags DEF AheadInv, Ahead, NobodyAhead, FlagsInv, CounterInv
    <3> QED BY <3>1, <3>2, <3>3, <3>4, <3>5, <3>6, <3>7 DEF IndInv
  <2>3. CASE ~FCFS_in_use[k[i]]
    <3>0. /\ pc[i] = "inUse"
         /\ pc' = [pc EXCEPT ![i] = "isReady"]
         /\ UNCHANGED <<FCFS_in_use, BL_ready, BL_in_use, turn, next_turn_bit,
            owner_index, lockcount, block, S, k, before, depth>>
      BY <1>8, <2>3 DEF ReadInUse, At, Goto, shared
    <3>1. TypeOK'
      BY <3>0 DEF IndInv, TypeOK
    <3>2. FlagsInv'
      BY <3>0, <1>F, <1>pc, <1>flags DEF FlagsInv
    <3>3. CounterInv'
      BY <3>0, <1>C, <1>pc, <1>k DEF CounterInv
    <3>4. OneSeesTheOther'
      BY <3>0, <1>F, <1>C, <1>O, <1>pc, <1>k, <1>flags
        DEF OneSeesTheOther, PassedLow, PassedHigh, FlagsInv, CounterInv
    <3>5. (OwnerIsHolder /\ CountInv)'
      BY <3>0, <1>W, <1>L, <1>pc, <1>owner, <1>count, <1>depth
        DEF OwnerIsHolder, NO_OWNER, CountInv, MutualExclusion
    <3>6. NobodyAhead'
      BY <3>0, <1>N, <1>pc, <1>before DEF NobodyAhead
    <3>7. AheadInv'
      BY <3>0, <2>3, <1>F, <1>C, <1>N, <1>A, <1>pc, <1>k, <1>S, <1>turn, <1>before,
         <1>flags DEF AheadInv, Ahead, NobodyAhead, FlagsInv, CounterInv
    <3> QED BY <3>1, <3>2, <3>3, <3>4, <3>5, <3>6, <3>7 DEF IndInv
  <2> QED BY <2>1, <2>2, <2>3
<1>9. ASSUME NEW i \in Doors, ReadReady(i) PROVE IndInv'
  <2>1. CASE BL_ready[k[i]]
    <3>0. /\ pc[i] = "isReady"
         /\ pc' = [pc EXCEPT ![i] = "sameTurn"]
         /\ UNCHANGED <<FCFS_in_use, BL_ready, BL_in_use, turn, next_turn_bit,
            owner_index, lockcount, block, S, k, before, depth>>
      BY <1>9, <2>1 DEF ReadReady, At, Goto, shared
    <3>1. TypeOK'
      BY <3>0 DEF IndInv, TypeOK
    <3>2. FlagsInv'
      BY <3>0, <1>F, <1>pc, <1>flags DEF FlagsInv
    <3>3. CounterInv'
      BY <3>0, <1>C, <1>pc, <1>k DEF CounterInv
    <3>4. OneSeesTheOther'
      BY <3>0, <1>F, <1>C, <1>O, <1>pc, <1>k, <1>flags
        DEF OneSeesTheOther, PassedLow, PassedHigh, FlagsInv, CounterInv
    <3>5. (OwnerIsHolder /\ CountInv)'
      BY <3>0, <1>W, <1>L, <1>pc, <1>owner, <1>count, <1>depth
        DEF OwnerIsHolder, NO_OWNER, CountInv, MutualExclusion
    <3>6. NobodyAhead'
      BY <3>0, <1>N, <1>pc, <1>before DEF NobodyAhead
    <3>7. AheadInv'
      BY <3>0, <2>1, <1>F, <1>C, <1>N, <1>A, <1>pc, <1>k, <1>S, <1>turn, <1>before,
         <1>flags DEF AheadInv, Ahead, NobodyAhead, FlagsInv, CounterInv
    <3> QED BY <3>1, <3>2, <3>3, <3>4, <3>5, <3>6, <3>7 DEF IndInv
  <2>2. CASE ~BL_ready[k[i]] /\ k[i] + 1 < num_doors
    <3>0. /\ pc[i] = "isReady"
         /\ ~BL_ready[k[i]]
         /\ k[i] + 1 < num_doors
         /\ k[i] \in Nat /\ k[i] + 1 \in 0 .. num_doors
         /\ pc' = [pc EXCEPT ![i] = "inUse"]
         /\ k' = [k EXCEPT ![i] = k[i] + 1]
         /\ UNCHANGED <<FCFS_in_use, BL_ready, BL_in_use, turn, next_turn_bit,
            owner_index, lockcount, block, S, before, depth>>
      BY <1>9, <2>2, <1>C, <1>pc, <1>k
        DEF ReadReady, At, Goto, shared, PassDoor, CounterInv
    <3>1. TypeOK'
      <4>1. pc' \in [Doors -> Labels]
        BY <3>0, <1>pc
      <4>2. k' \in [Doors -> 0 .. num_doors]
        BY <3>0, <1>k
      <4> QED BY <3>0, <4>1, <4>2 DEF IndInv, TypeOK
    <3>2. FlagsInv'
      BY <3>0, <1>F, <1>pc, <1>flags DEF FlagsInv
    <3>3. CounterInv'
      BY <3>0, <1>C, <1>pc, <1>k DEF CounterInv
    <3>4. OneSeesTheOther'
      BY <3>0, <1>F, <1>C, <1>O, <1>pc, <1>k, <1>flags
        DEF OneSeesTheOther, PassedLow, PassedHigh, FlagsInv, CounterInv
    <3>5. (OwnerIsHolder /\ CountInv)'
      BY <3>0, <1>W, <1>L, <1>pc, <1>owner, <1>count, <1>depth
        DEF OwnerIsHolder, NO_OWNER, CountInv, MutualExclusion
    <3>6. NobodyAhead'
      BY <3>0, <1>N, <1>pc, <1>before DEF NobodyAhead
    <3>7. AheadInv'
      <4> SUFFICES ASSUME NEW p \in Doors, NEW d \in Doors, d \in before'[p]
                   PROVE  Ahead(d, p)'
        BY DEF AheadInv
      <4>1. Ahead(d, p)
        BY <3>0, <1>A, <1>before DEF AheadInv
      <4>2. CASE p = i
        BY <3>0, <2>2, <4>1, <4>2, <1>F, <1>C, <1>N, <1>pc, <1>k, <1>S, <1>turn,
           <1>before, <1>flags DEF Ahead, NobodyAhead, FlagsInv, CounterInv
      <4>3. CASE p # i
        BY <3>0, <2>2, <4>1, <4>3, <1>pc, <1>k, <1>S, <1>turn DEF Ahead
      <4> QED BY <4>2, <4>3
    <3> QED BY <3>1, <3>2, <3>3, <3>4, <3>5, <3>6, <3>7 DEF IndInv
  <2>3. CASE ~BL_ready[k[i]] /\ ~(k[i] + 1 < num_doors)
    <3>0. /\ pc[i] = "isReady"
         /\ ~BL_ready[k[i]]
         /\ k[i] + 1 = num_doors
         /\ pc' = [pc EXCEPT ![i] = "claim"]
         /\ k' = [k EXCEPT ![i] = 0]
         /\ S' = [S EXCEPT ![i] = NoTurns]
         /\ UNCHANGED <<FCFS_in_use, BL_ready, BL_in_use, turn, next_turn_bit,
            owner_index, lockcount, block, before, depth>>
      BY <1>9, <2>3 DEF ReadReady, At, Goto, shared, PassDoor
    <3>1. TypeOK'
      <4>1. pc' \in [Doors -> Labels]
        BY <3>0, <1>pc
      <4>2. k' \in [Doors -> 0 .. num_doors]
        BY <3>0, <1>k
      <4>3. S' \in [Doors -> [Doors -> Bits]]
        BY <3>0, <1>S, NoTurnsType
      <4> QED BY <3>0, <4>1, <4>2, <4>3 DEF IndInv, TypeOK
    <3>2. FlagsInv'
      <4> SUFFICES ASSUME NEW p \in Doors
                   PROVE  /\ FCFS_in_use'[p] <=> pc'[p] \in {"copy", "flip", "ready", "leave"}
                          /\ BL_ready'[p] <=> pc'[p] \in Ready
                          /\ BL_in_use'[p] <=> pc'[p] \in InBurnsLamport
        BY DEF FlagsInv
      <4>1. CASE p = i
        <5>1. pc[p] = "isReady" /\ pc'[p] = "claim"
          BY <3>0, <4>1, <1>pc
        <5> QED BY <3>0, <5>1, <1>F DEF FlagsInv
      <4>2. CASE p # i
        BY <3>0, <4>2, <1>F, <1>pc, <1>flags DEF FlagsInv
      <4> QED BY <4>1, <4>2
    <3>3. CounterInv'
      BY <3>0, <1>C, <1>pc, <1>k DEF CounterInv
    <3>4. OneSeesTheOther'
      BY <3>0, <1>F, <1>C, <1>O, <1>pc, <1>k, <1>flags
        DEF OneSeesTheOther, PassedLow, PassedHigh, FlagsInv, CounterInv
    <3>5. (OwnerIsHolder /\ CountInv)'
      BY <3>0, <1>W, <1>L, <1>pc, <1>owner, <1>count, <1>depth
        DEF OwnerIsHolder, NO_OWNER, CountInv, MutualExclusion
    <3>6. NobodyAhead'
      BY <3>0, <2>3, <1>F, <1>N, <1>A, <1>pc, <1>k, <1>S, <1>turn, <1>before, <1>flags
        DEF NobodyAhead, AheadInv, Ahead, FlagsInv
    <3>7. AheadInv'
      BY <3>0, <2>3, <1>F, <1>C, <1>N, <1>A, <1>pc, <1>k, <1>S, <1>turn, <1>before,
         <1>flags DEF AheadInv, Ahead, NobodyAhead, FlagsInv, CounterInv
    <3> QED BY <3>1, <3>2, <3>3, <3>4, <3>5, <3>6, <3>7 DEF IndInv
  <2> QED BY <2>1, <2>2, <2>3
<1>10. ASSUME NEW i \in Doors, ReadTurn(i) PROVE IndInv'
  <2>1. CASE S[i][k[i]] = turn[k[i]] /\ block[i]
    <3>0. /\ pc[i] = "sameTurn"
         /\ pc' = [pc EXCEPT ![i] = "inUse"]
         /\ UNCHANGED <<FCFS_in_use, BL_ready, BL_in_use, turn, next_turn_bit,
            owner_index, lockcount, block, S, k, before, depth>>
      BY <1>10, <2>1 DEF ReadTurn, At, Goto, shared, WaitOrGiveUp
    <3>1. TypeOK'
      BY <3>0 DEF IndInv, TypeOK
    <3>2. FlagsInv'
      BY <3>0, <1>F, <1>pc, <1>flags DEF FlagsInv
    <3>3. CounterInv'
      BY <3>0, <1>C, <1>pc, <1>k DEF CounterInv
    <3>4. OneSeesTheOther'
      BY <3>0, <1>F, <1>C, <1>O, <1>pc, <1>k, <1>flags
        DEF OneSeesTheOther, PassedLow, PassedHigh, FlagsInv, CounterInv
    <3>5. (OwnerIsHolder /\ CountInv)'
      BY <3>0, <1>W, <1>L, <1>pc, <1>owner, <1>count, <1>depth
        DEF OwnerIsHolder, NO_OWNER, CountInv, MutualExclusion
    <3>6. NobodyAhead'
      BY <3>0, <1>N, <1>pc, <1>before DEF NobodyAhead
    <3>7. AheadInv'
      BY <3>0, <2>1, <1>F, <1>C, <1>N, <1>A, <1>pc, <1>k, <1>S, <1>turn, <1>before,
         <1>flags DEF AheadInv, Ahead, NobodyAhead, FlagsInv, CounterInv
    <3> QED BY <3>1, <3>2, <3>3, <3>4, <3>5, <3>6, <3>7 DEF IndInv
  <2>2. CASE S[i][k[i]] = turn[k[i]] /\ ~block[i]
    <3>0. /\ pc[i] = "sameTurn"
         /\ pc' = [pc EXCEPT ![i] = "giveUp"]
         /\ UNCHANGED <<FCFS_in_use, BL_ready, BL_in_use, turn, next_turn_bit,
            owner_index, lockcount, block, S, k, before, depth>>
      BY <1>10, <2>2 DEF ReadTurn, At, Goto, shared, WaitOrGiveUp
    <3>1. TypeOK'
      BY <3>0 DEF IndInv, TypeOK
    <3>2. FlagsInv'
      BY <3>0, <1>F, <1>pc, <1>flags DEF FlagsInv
    <3>3. CounterInv'
      BY <3>0, <1>C, <1>pc, <1>k DEF CounterInv
    <3>4. OneSeesTheOther'
      BY <3>0, <1>F, <1>C, <1>O, <1>pc, <1>k, <1>flags
        DEF OneSeesTheOther, PassedLow, PassedHigh, FlagsInv, CounterInv
    <3>5. (OwnerIsHolder /\ CountInv)'
      BY <3>0, <1>W, <1>L, <1>pc, <1>owner, <1>count, <1>depth
        DEF OwnerIsHolder, NO_OWNER, CountInv, MutualExclusion
    <3>6. NobodyAhead'
      BY <3>0, <1>N, <1>pc, <1>before DEF NobodyAhead
    <3>7. AheadInv'
      BY <3>0, <2>2, <1>F, <1>C, <1>N, <1>A, <1>pc, <1>k, <1>S, <1>turn, <1>before,
         <1>flags DEF AheadInv, Ahead, NobodyAhead, FlagsInv, CounterInv
    <3> QED BY <3>1, <3>2, <3>3, <3>4, <3>5, <3>6, <3>7 DEF IndInv
  <2>3. CASE S[i][k[i]] # turn[k[i]] /\ k[i] + 1 < num_doors
    <3>0. /\ pc[i] = "sameTurn"
         /\ S[i][k[i]] # turn[k[i]]
         /\ k[i] + 1 < num_doors
         /\ k[i] \in Nat /\ k[i] + 1 \in 0 .. num_doors
         /\ pc' = [pc EXCEPT ![i] = "inUse"]
         /\ k' = [k EXCEPT ![i] = k[i] + 1]
         /\ UNCHANGED <<FCFS_in_use, BL_ready, BL_in_use, turn, next_turn_bit,
            owner_index, lockcount, block, S, before, depth>>
      BY <1>10, <2>3, <1>C, <1>pc, <1>k
        DEF ReadTurn, At, Goto, shared, PassDoor, CounterInv
    <3>1. TypeOK'
      <4>1. pc' \in [Doors -> Labels]
        BY <3>0, <1>pc
      <4>2. k' \in [Doors -> 0 .. num_doors]
        BY <3>0, <1>k
      <4> QED BY <3>0, <4>1, <4>2 DEF IndInv, TypeOK
    <3>2. FlagsInv'
      BY <3>0, <1>F, <1>pc, <1>flags DEF FlagsInv
    <3>3. CounterInv'
      BY <3>0, <1>C, <1>pc, <1>k DEF CounterInv
    <3>4. OneSeesTheOther'
      BY <3>0, <1>F, <1>C, <1>O, <1>pc, <1>k, <1>flags
        DEF OneSeesTheOther, PassedLow, PassedHigh, FlagsInv, CounterInv
    <3>5. (OwnerIsHolder /\ CountInv)'
      BY <3>0, <1>W, <1>L, <1>pc, <1>owner, <1>count, <1>depth
        DEF OwnerIsHolder, NO_OWNER, CountInv, MutualExclusion
    <3>6. NobodyAhead'
      BY <3>0, <1>N, <1>pc, <1>before DEF NobodyAhead
    <3>7. AheadInv'
      <4> SUFFICES ASSUME NEW p \in Doors, NEW d \in Doors, d \in before'[p]
                   PROVE  Ahead(d, p)'
        BY DEF AheadInv
      <4>1. Ahead(d, p)
        BY <3>0, <1>A, <1>before DEF AheadInv
      <4>2. CASE p = i
        BY <3>0, <2>3, <4>1, <4>2, <1>F, <1>C, <1>N, <1>pc, <1>k, <1>S, <1>turn,
           <1>before, <1>flags DEF Ahead, NobodyAhead, FlagsInv, CounterInv
      <4>3. CASE p # i
        BY <3>0, <2>3, <4>1, <4>3, <1>pc, <1>k, <1>S, <1>turn DEF Ahead
      <4> QED BY <4>2, <4>3
    <3> QED BY <3>1, <3>2, <3>3, <3>4, <3>5, <3>6, <3>7 DEF IndInv
  <2>4. CASE S[i][k[i]] # turn[k[i]] /\ ~(k[i] + 1 < num_doors)
    <3>0. /\ pc[i] = "sameTurn"
         /\ S[i][k[i]] # turn[k[i]]
         /\ k[i] + 1 = num_doors
         /\ pc' = [pc EXCEPT ![i] = "claim"]
         /\ k' = [k EXCEPT ![i] = 0]
         /\ S' = [S EXCEPT ![i] = NoTurns]
         /\ UNCHANGED <<FCFS_in_use, BL_ready, BL_in_use, turn, next_turn_bit,
            owner_index, lockcount, block, before, depth>>
      BY <1>10, <2>4 DEF ReadTurn, At, Goto, shared, PassDoor
    <3>1. TypeOK'
      <4>1. pc' \in [Doors -> Labels]
        BY <3>0, <1>pc
      <4>2. k' \in [Doors -> 0 .. num_doors]
        BY <3>0, <1>k
      <4>3. S' \in [Doors -> [Doors -> Bits]]
        BY <3>0, <1>S, NoTurnsType
      <4> QED BY <3>0, <4>1, <4>2, <4>3 DEF IndInv, TypeOK
    <3>2. FlagsInv'
      <4> SUFFICES ASSUME NEW p \in Doors
                   PROVE  /\ FCFS_in_use'[p] <=> pc'[p] \in {"copy", "flip", "ready", "leave"}
                          /\ BL_ready'[p] <=> pc'[p] \in Ready
                          /\ BL_in_use'[p] <=> pc'[p] \in InBurnsLamport
        BY DEF FlagsInv
      <4>1. CASE p = i
        <5>1. pc[p] = "sameTurn" /\ pc'[p] = "claim"
          BY <3>0, <4>1, <1>pc
        <5> QED BY <3>0, <5>1, <1>F DEF FlagsInv
      <4>2. CASE p # i
        BY <3>0, <4>2, <1>F, <1>pc, <1>flags DEF FlagsInv
      <4> QED BY <4>1, <4>2
    <3>3. CounterInv'
      BY <3>0, <1>C, <1>pc, <1>k DEF CounterInv
    <3>4. OneSeesTheOther'
      BY <3>0, <1>F, <1>C, <1>O, <1>pc, <1>k, <1>flags
        DEF OneSeesTheOther, PassedLow, PassedHigh, FlagsInv, CounterInv
    <3>5. (OwnerIsHolder /\ CountInv)'
      BY <3>0, <1>W, <1>L, <1>pc, <1>owner, <1>count, <1>depth
        DEF OwnerIsHolder, NO_OWNER, CountInv, MutualExclusion
    <3>6. NobodyAhead'
      BY <3>0, <2>4, <1>F, <1>N, <1>A, <1>pc, <1>k, <1>S, <1>turn, <1>before, <1>flags
        DEF NobodyAhead, AheadInv, Ahead, FlagsInv
    <3>7. AheadInv'
      BY <3>0, <2>4, <1>F, <1>C, <1>N, <1>A, <1>pc, <1>k, <1>S, <1>turn, <1>before,
         <1>flags DEF AheadInv, Ahead, NobodyAhead, FlagsInv, CounterInv
    <3> QED BY <3>1, <3>2, <3>3, <3>4, <3>5, <3>6, <3>7 DEF IndInv
  <2> QED BY <2>1, <2>2, <2>3, <2>4
<1>11. ASSUME NEW i \in Doors, GiveUp(i) PROVE IndInv'
  <2>0. /\ pc[i] = "giveUp"
       /\ pc' = [pc EXCEPT ![i] = "idle"]
       /\ BL_ready' = [BL_ready EXCEPT ![i] = FALSE]
       /\ S' = [S EXCEPT ![i] = NoTurns]
       /\ k' = [k EXCEPT ![i] = 0]
       /\ before' = [d \in Doors |-> IF d = i THEN {} ELSE before[d] \ {i}]
       /\ UNCHANGED <<FCFS_in_use, BL_in_use, turn, next_turn_bit, owner_index,
          lockcount, block, depth>>
    BY <1>11 DEF GiveUp, At, Goto, shared
  <2>1. TypeOK'
    <3>1. pc' \in [Doors -> Labels]
      BY <2>0, <1>pc
    <3>2. BL_ready' \in [Doors -> BOOLEAN]
      BY <2>0, <1>flags
    <3>3. S' \in [Doors -> [Doors -> Bits]]
      BY <2>0, <1>S, NoTurnsType
    <3>4. k' \in [Doors -> 0 .. num_doors]
      BY <2>0, <1>k
    <3>5. before' \in [Doors -> SUBSET Doors]
      BY <2>0, <1>before
    <3> QED BY <2>0, <3>1, <3>2, <3>3, <3>4, <3>5 DEF IndInv, TypeOK
  <2>2. FlagsInv'
    BY <2>0, <1>F, <1>pc, <1>flags DEF FlagsInv
  <2>3. CounterInv'
    BY <2>0, <1>C, <1>pc, <1>k DEF CounterInv
  <2>4. OneSeesTheOther'
    BY <2>0, <1>F, <1>C, <1>O, <1>pc, <1>k, <1>flags
      DEF OneSeesTheOther, PassedLow, PassedHigh, FlagsInv, CounterInv
  <2>5. (OwnerIsHolder /\ CountInv)'
    BY <2>0, <1>W, <1>L, <1>pc, <1>owner, <1>count, <1>depth
      DEF OwnerIsHolder, NO_OWNER, CountInv, MutualExclusion
  <2>6. NobodyAhead'
    BY <2>0, <1>N, <1>pc, <1>before DEF NobodyAhead
  <2>7. AheadInv'
    BY <2>0, <1>F, <1>C, <1>N, <1>A, <1>pc, <1>k, <1>S, <1>turn, <1>before, <1>flags
      DEF AheadInv, Ahead, NobodyAhead, FlagsInv, CounterInv
  <2> QED BY <2>1, <2>2, <2>3, <2>4, <2>5, <2>6, <2>7 DEF IndInv
<1>12. ASSUME NEW i \in Doors, Claim(i) PROVE IndInv'
  <2>1. CASE i = 0
    <3>0. /\ pc[i] = "claim"
         /\ i = 0
         /\ pc' = [pc EXCEPT ![i] = "high"]
         /\ BL_in_use' = [BL_in_use EXCEPT ![i] = TRUE]
         /\ k' = [k EXCEPT ![i] = 1]
         /\ UNCHANGED <<FCFS_in_use, BL_ready, turn, next_turn_bit, owner_index,
            lockcount, block, S, before, depth>>
      BY <1>12, <2>1 DEF Claim, At, Goto, shared
    <3>1. TypeOK'
      <4>1. pc' \in [Doors -> Labels]
        BY <3>0, <1>pc
      <4>2. BL_in_use' \in [Doors -> BOOLEAN]
        BY <3>0, <1>flags
      <4>3. k' \in [Doors -> 0 .. num_doors]
        BY <3>0, <1>k
      <4> QED BY <3>0, <4>1, <4>2, <4>3 DEF IndInv, TypeOK
    <3>2. FlagsInv'
      BY <3>0, <1>F, <1>pc, <1>flags DEF FlagsInv
    <3>3. CounterInv'
      BY <3>0, <1>C, <1>pc, <1>k DEF CounterInv
    <3>4. OneSeesTheOther'
      BY <3>0, <1>F, <1>C, <1>O, <1>pc, <1>k, <1>flags
        DEF OneSeesTheOther, PassedLow, PassedHigh, FlagsInv, CounterInv
    <3>5. (OwnerIsHolder /\ CountInv)'
      BY <3>0, <1>W, <1>L, <1>pc, <1>owner, <1>count, <1>depth
        DEF OwnerIsHolder, NO_OWNER, CountInv, MutualExclusion
    <3>6. NobodyAhead'
      BY <3>0, <1>N, <1>pc, <1>before DEF NobodyAhead
    <3>7. AheadInv'
      BY <3>0, <2>1, <1>F, <1>C, <1>N, <1>A, <1>pc, <1>k, <1>S, <1>turn, <1>before,
         <1>flags DEF AheadInv, Ahead, NobodyAhead, FlagsInv, CounterInv
    <3> QED BY <3>1, <3>2, <3>3, <3>4, <3>5, <3>6, <3>7 DEF IndInv
  <2>2. CASE i # 0
    <3>0. /\ pc[i] = "claim"
         /\ i # 0
         /\ pc' = [pc EXCEPT ![i] = "low"]
         /\ BL_in_use' = [BL_in_use EXCEPT ![i] = TRUE]
         /\ k' = [k EXCEPT ![i] = 0]
         /\ UNCHANGED <<FCFS_in_use, BL_ready, turn, next_turn_bit, owner_index,
            lockcount, block, S, before, depth>>
      BY <1>12, <2>2 DEF Claim, At, Goto, shared
    <3>1. TypeOK'
      <4>1. pc' \in [Doors -> Labels]
        BY <3>0, <1>pc
      <4>2. BL_in_use' \in [Doors -> BOOLEAN]
        BY <3>0, <1>flags
      <4>3. k' \in [Doors -> 0 .. num_doors]
        BY <3>0, <1>k
      <4> QED BY <3>0, <4>1, <4>2, <4>3 DEF IndInv, TypeOK
    <3>2. FlagsInv'
      BY <3>0, <1>F, <1>pc, <1>flags DEF FlagsInv
    <3>3. CounterInv'
      BY <3>0, <1>C, <1>pc, <1>k DEF CounterInv
    <3>4. OneSeesTheOther'
      BY <3>0, <1>F, <1>C, <1>O, <1>pc, <1>k, <1>flags
        DEF OneSeesTheOther, PassedLow, PassedHigh, FlagsInv, CounterInv
    <3>5. (OwnerIsHolder /\ CountInv)'
      BY <3>0, <1>W, <1>L, <1>pc, <1>owner, <1>count, <1>depth
        DEF OwnerIsHolder, NO_OWNER, CountInv, MutualExclusion
    <3>6. NobodyAhead'
      BY <3>0, <1>N, <1>pc, <1>before DEF NobodyAhead
    <3>7. AheadInv'
      BY <3>0, <2>2, <1>F, <1>C, <1>N, <1>A, <1>pc, <1>k, <1>S, <1>turn, <1>before,
         <1>flags DEF AheadInv, Ahead, NobodyAhead, FlagsInv, CounterInv
    <3> QED BY <3>1, <3>2, <3>3, <3>4, <3>5, <3>6, <3>7 DEF IndInv
  <2> QED BY <2>1, <2>2
<1>13. ASSUME NEW i \in Doors, CheckLow(i) PROVE IndInv'
  <2>1. CASE BL_in_use[k[i]]
    <3>0. /\ pc[i] = "low"
         /\ pc' = [pc EXCEPT ![i] = "back"]
         /\ UNCHANGED <<FCFS_in_use, BL_ready, BL_in_use, turn, next_turn_bit,
            owner_index, lockcount, block, S, k, before, depth>>
      BY <1>13, <2>1 DEF CheckLow, At, Goto, shared
    <3>1. TypeOK'
      BY <3>0 DEF IndInv, TypeOK
    <3>2. FlagsInv'
      BY <3>0, <1>F, <1>pc, <1>flags DEF FlagsInv
    <3>3. CounterInv'
      BY <3>0, <1>C, <1>pc, <1>k DEF CounterInv
    <3>4. OneSeesTheOther'
      BY <3>0, <1>F, <1>C, <1>O, <1>pc, <1>k, <1>flags
        DEF OneSeesTheOther, PassedLow, PassedHigh, FlagsInv, CounterInv
    <3>5. (OwnerIsHolder /\ CountInv)'
      BY <3>0, <1>W, <1>L, <1>pc, <1>owner, <1>count, <1>depth
        DEF OwnerIsHolder, NO_OWNER, CountInv, MutualExclusion
    <3>6. NobodyAhead'
      BY <3>0, <1>N, <1>pc, <1>before DEF NobodyAhead
    <3>7. AheadInv'
      BY <3>0, <2>1, <1>F, <1>C, <1>N, <1>A, <1>pc, <1>k, <1>S, <1>turn, <1>before,
         <1>flags DEF AheadInv, Ahead, NobodyAhead, FlagsInv, CounterInv
    <3> QED BY <3>1, <3>2, <3>3, <3>4, <3>5, <3>6, <3>7 DEF IndInv
  <2>2. CASE ~BL_in_use[k[i]] /\ k[i] + 1 < i
    <3>0. /\ pc[i] = "low"
         /\ ~BL_in_use[k[i]]
         /\ k[i] + 1 < i
         /\ k[i] \in Nat /\ k[i] + 1 \in 0 .. num_doors
         /\ k' = [k EXCEPT ![i] = k[i] + 1]
         /\ UNCHANGED <<FCFS_in_use, BL_ready, BL_in_use, turn, next_turn_bit,
            owner_index, lockcount, pc, block, S, before, depth>>
      BY <1>13, <2>2, <1>C, <1>pc, <1>k DEF CheckLow, At, Goto, shared, CounterInv
    <3>1. TypeOK'
      BY <3>0 DEF IndInv, TypeOK
    <3>2. FlagsInv'
      BY <3>0, <1>F, <1>pc, <1>flags DEF FlagsInv
    <3>3. CounterInv'
      BY <3>0, <1>C, <1>pc, <1>k DEF CounterInv
    <3>4. OneSeesTheOther'
      <4> SUFFICES ASSUME NEW p \in Doors, NEW d \in Doors, p < d,
                          PassedHigh(p, d)', PassedLow(d, p)'
                   PROVE  FALSE
        BY DEF OneSeesTheOther
      <4>1. ~(PassedHigh(p, d) /\ PassedLow(d, p))
        BY <1>O DEF OneSeesTheOther
      <4>2. CASE p = i
        BY <3>0, <4>1, <4>2, <1>F, <1>C, <1>pc, <1>k, <1>flags
          DEF PassedLow, PassedHigh, FlagsInv, CounterInv
      <4>3. CASE d = i
        <5>1. k[i] # p
          BY <3>0, <4>3, <1>F, <1>pc, <1>k, <1>flags DEF PassedHigh, FlagsInv
        <5>2. k[i] + 1 > p
          BY <3>0, <4>3, <1>pc, <1>k DEF PassedLow
        <5>3. k[i] > p
          BY <5>1, <5>2, <3>0
        <5> QED BY <3>0, <4>1, <4>3, <5>3 DEF PassedLow, PassedHigh
      <4>4. CASE p # i /\ d # i
        BY <3>0, <4>1, <4>4, <1>F, <1>C, <1>pc, <1>k, <1>flags
          DEF PassedLow, PassedHigh, FlagsInv, CounterInv
      <4> QED BY <4>2, <4>3, <4>4
    <3>5. (OwnerIsHolder /\ CountInv)'
      BY <3>0, <1>W, <1>L, <1>pc, <1>owner, <1>count, <1>depth
        DEF OwnerIsHolder, NO_OWNER, CountInv, MutualExclusion
    <3>6. NobodyAhead'
      BY <3>0, <1>N, <1>pc, <1>before DEF NobodyAhead
    <3>7. AheadInv'
      <4> SUFFICES ASSUME NEW p \in Doors, NEW d \in Doors, d \in before'[p]
                   PROVE  Ahead(d, p)'
        BY DEF AheadInv
      <4>1. Ahead(d, p)
        BY <3>0, <1>A, <1>before DEF AheadInv
      <4>2. CASE p = i
        BY <3>0, <2>2, <4>1, <4>2, <1>F, <1>C, <1>N, <1>pc, <1>k, <1>S, <1>turn,
           <1>before, <1>flags DEF Ahead, NobodyAhead, FlagsInv, CounterInv
      <4>3. CASE p # i
        BY <3>0, <2>2, <4>1, <4>3, <1>pc, <1>k, <1>S, <1>turn DEF Ahead
      <4> QED BY <4>2, <4>3
    <3> QED BY <3>1, <3>2, <3>3, <3>4, <3>5, <3>6, <3>7 DEF IndInv
  <2>3. CASE ~BL_in_use[k[i]] /\ ~(k[i] + 1 < i)
    <3>0. /\ pc[i] = "low"
         /\ ~BL_in_use[k[i]]
         /\ k[i] + 1 = i
         /\ i + 1 \in 0 .. num_doors
         /\ pc' = [pc EXCEPT ![i] = "high"]
         /\ k' = [k EXCEPT ![i] = i + 1]
         /\ UNCHANGED <<FCFS_in_use, BL_ready, BL_in_use, turn, next_turn_bit,
            owner_index, lockcount, block, S, before, depth>>
      BY <1>13, <2>3 DEF CheckLow, At, Goto, shared
    <3>1. TypeOK'
      <4>1. pc' \in [Doors -> Labels]
        BY <3>0, <1>pc
      <4>2. k' \in [Doors -> 0 .. num_doors]
        BY <3>0, <1>k
      <4> QED BY <3>0, <4>1, <4>2 DEF IndInv, TypeOK
    <3>2. FlagsInv'
      BY <3>0, <1>F, <1>pc, <1>flags DEF FlagsInv
    <3>3. CounterInv'
      BY <3>0, <1>C, <1>pc, <1>k DEF CounterInv
    <3>4. OneSeesTheOther'
      <4> SUFFICES ASSUME NEW p \in Doors, NEW d \in Doors, p < d,
                          PassedHigh(p, d)', PassedLow(d, p)'
                   PROVE  FALSE
        BY DEF OneSeesTheOther
      <4>1. ~(PassedHigh(p, d) /\ PassedLow(d, p))
        BY <1>O DEF OneSeesTheOther
      <4>2. CASE p = i
        BY <3>0, <4>1, <4>2, <1>F, <1>C, <1>pc, <1>k, <1>flags
          DEF PassedLow, PassedHigh, FlagsInv, CounterInv
      <4>3. CASE d = i
        BY <3>0, <4>1, <4>3, <1>F, <1>C, <1>pc, <1>k, <1>flags
          DEF PassedLow, PassedHigh, FlagsInv, CounterInv
      <4>4. CASE p # i /\ d # i
        BY <3>0, <4>1, <4>4, <1>F, <1>C, <1>pc, <1>k, <1>flags
          DEF PassedLow, PassedHigh, FlagsInv, CounterInv
      <4> QED BY <4>2, <4>3, <4>4
    <3>5. (OwnerIsHolder /\ CountInv)'
      BY <3>0, <1>W, <1>L, <1>pc, <1>owner, <1>count, <1>depth
        DEF OwnerIsHolder, NO_OWNER, CountInv, MutualExclusion
    <3>6. NobodyAhead'
      BY <3>0, <1>N, <1>pc, <1>before DEF NobodyAhead
    <3>7. AheadInv'
      <4> SUFFICES ASSUME NEW p \in Doors, NEW d \in Doors, d \in before'[p]
                   PROVE  Ahead(d, p)'
        BY DEF AheadInv
      <4>1. Ahead(d, p)
        BY <3>0, <1>A, <1>before DEF AheadInv
      <4>2. CASE p = i
        BY <3>0, <2>3, <4>1, <4>2, <1>F, <1>C, <1>N, <1>pc, <1>k, <1>S, <1>turn,
           <1>before, <1>flags DEF Ahead, NobodyAhead, FlagsInv, CounterInv
      <4>3. CASE p # i
        BY <3>0, <2>3, <4>1, <4>3, <1>pc, <1>k, <1>S, <1>turn DEF Ahead
      <4> QED BY <4>2, <4>3
    <3> QED BY <3>1, <3>2, <3>3, <3>4, <3>5, <3>6, <3>7 DEF IndInv
  <2> QED BY <2>1, <2>2, <2>3
<1>14. ASSUME NEW i \in Doors, BackOff(i) PROVE IndInv'
  <2>1. CASE block[i]
    <3>0. /\ pc[i] = "back"
         /\ pc' = [pc EXCEPT ![i] = "retry"]
         /\ BL_in_use' = [BL_in_use EXCEPT ![i] = FALSE]
         /\ UNCHANGED <<FCFS_in_use, BL_ready, turn, next_turn_bit, owner_index,
            lockcount, block, S, k, before, depth>>
      BY <1>14, <2>1 DEF BackOff, At, Goto, shared
    <3>1. TypeOK'
      <4>1. pc' \in [Doors -> Labels]
        BY <3>0, <1>pc
      <4>2. BL_in_use' \in [Doors -> BOOLEAN]
        BY <3>0, <1>flags
      <4> QED BY <3>0, <4>1, <4>2 DEF IndInv, TypeOK
    <3>2. FlagsInv'
      BY <3>0, <1>F, <1>pc, <1>flags DEF FlagsInv
    <3>3. CounterInv'
      BY <3>0, <1>C, <1>pc, <1>k DEF CounterInv
    <3>4. OneSeesTheOther'
      BY <3>0, <1>F, <1>C, <1>O, <1>pc, <1>k, <1>flags
        DEF OneSeesTheOther, PassedLow, PassedHigh, FlagsInv, CounterInv
    <3>5. (OwnerIsHolder /\ CountInv)'
      BY <3>0, <1>W, <1>L, <1>pc, <1>owner, <1>count, <1>depth
        DEF OwnerIsHolder, NO_OWNER, CountInv, MutualExclusion
    <3>6. NobodyAhead'
      BY <3>0, <1>N, <1>pc, <1>before DEF NobodyAhead
    <3>7. AheadInv'
      BY <3>0, <2>1, <1>F, <1>C, <1>N, <1>A, <1>pc, <1>k, <1>S, <1>turn, <1>before,
         <1>flags DEF AheadInv, Ahead, NobodyAhead, FlagsInv, CounterInv
    <3> QED BY <3>1, <3>2, <3>3, <3>4, <3>5, <3>6, <3>7 DEF IndInv
  <2>2. CASE ~block[i]
    <3>0. /\ pc[i] = "back"
         /\ pc' = [pc EXCEPT ![i] = "giveUp"]
         /\ BL_in_use' = [BL_in_use EXCEPT ![i] = FALSE]
         /\ UNCHANGED <<FCFS_in_use, BL_ready, turn, next_turn_bit, owner_index,
            lockcount, block, S, k, before, depth>>
      BY <1>14, <2>2 DEF BackOff, At, Goto, shared
    <3>1. TypeOK'
      <4>1. pc' \in [Doors -> Labels]
        BY <3>0, <1>pc
      <4>2. BL_in_use' \in [Doors -> BOOLEAN]
        BY <3>0, <1>flags
      <4> QED BY <3>0, <4>1, <4>2 DEF IndInv, TypeOK
    <3>2. FlagsInv'
      BY <3>0, <1>F, <1>pc, <1>flags DEF FlagsInv
    <3>3. CounterInv'
      BY <3>0, <1>C, <1>pc, <1>k DEF CounterInv
    <3>4. OneSeesTheOther'
      BY <3>0, <1>F, <1>C, <1>O, <1>pc, <1>k, <1>flags
        DEF OneSeesTheOther, PassedLow, PassedHigh, FlagsInv, CounterInv
    <3>5. (OwnerIsHolder /\ CountInv)'
      BY <3>0, <1>W, <1>L, <1>pc, <1>owner, <1>count, <1>depth
        DEF OwnerIsHolder, NO_OWNER, CountInv, MutualExclusion
    <3>6. NobodyAhead'
      BY <3>0, <1>N, <1>pc, <1>before DEF NobodyAhead
    <3>7. AheadInv'
      BY <3>0, <2>2, <1>F, <1>C, <1>N, <1>A, <1>pc, <1>k, <1>S, <1>turn, <1>before,
         <1>flags DEF AheadInv, Ahead, NobodyAhead, FlagsInv, CounterInv
    <3> QED BY <3>1, <3>2, <3>3, <3>4, <3>5, <3>6, <3>7 DEF IndInv
  <2> QED BY <2>1, <2>2
<1>15. ASSUME NEW i \in Doors, Retry(i) PROVE IndInv'
  <2>0. /\ pc[i] = "retry"
       /\ pc' = [pc EXCEPT ![i] = "claim"]
       /\ UNCHANGED <<FCFS_in_use, BL_ready, BL_in_use, turn, next_turn_bit,
          owner_index, lockcount, block, S, k, before, depth>>
    BY <1>15 DEF Retry, At, Goto, shared
  <2>1. TypeOK'
    BY <2>0 DEF IndInv, TypeOK
  <2>2. FlagsInv'
    BY <2>0, <1>F, <1>pc, <1>flags DEF FlagsInv
  <2>3. CounterInv'
    BY <2>0, <1>C, <1>pc, <1>k DEF CounterInv
  <2>4. OneSeesTheOther'
    BY <2>0, <1>F, <1>C, <1>O, <1>pc, <1>k, <1>flags
      DEF OneSeesTheOther, PassedLow, PassedHigh, FlagsInv, CounterInv
  <2>5. (OwnerIsHolder /\ CountInv)'
    BY <2>0, <1>W, <1>L, <1>pc, <1>owner, <1>count, <1>depth
      DEF OwnerIsHolder, NO_OWNER, CountInv, MutualExclusion
  <2>6. NobodyAhead'
    BY <2>0, <1>N, <1>pc, <1>before DEF NobodyAhead
  <2>7. AheadInv'
    BY <2>0, <1>F, <1>C, <1>N, <1>A, <1>pc, <1>k, <1>S, <1>turn, <1>before, <1>flags
      DEF AheadInv, Ahead, NobodyAhead, FlagsInv, CounterInv
  <2> QED BY <2>1, <2>2, <2>3, <2>4, <2>5, <2>6, <2>7 DEF IndInv
<1>16. ASSUME NEW i \in Doors, WaitHigh(i) PROVE IndInv'
  <2>1. CASE k[i] = num_doors
    <3>0. /\ pc[i] = "high"
         /\ k[i] = num_doors
         /\ pc' = [pc EXCEPT ![i] = "own"]
         /\ k' = [k EXCEPT ![i] = 0]
         /\ UNCHANGED <<FCFS_in_use, BL_ready, BL_in_use, turn, next_turn_bit,
            owner_index, lockcount, block, S, before, depth>>
      BY <1>16, <2>1 DEF WaitHigh, At, Goto, shared
    <3>1. TypeOK'
      <4>1. pc' \in [Doors -> Labels]
        BY <3>0, <1>pc
      <4>2. k' \in [Doors -> 0 .. num_doors]
        BY <3>0, <1>k
      <4> QED BY <3>0, <4>1, <4>2 DEF IndInv, TypeOK
    <3>2. FlagsInv'
      BY <3>0, <1>F, <1>pc, <1>flags DEF FlagsInv
    <3>3. CounterInv'
      BY <3>0, <1>C, <1>pc, <1>k DEF CounterInv
    <3>4. OneSeesTheOther'
      BY <3>0, <1>F, <1>C, <1>O, <1>pc, <1>k, <1>flags
        DEF OneSeesTheOther, PassedLow, PassedHigh, FlagsInv, CounterInv
    <3>5. (OwnerIsHolder /\ CountInv)'
      BY <3>0, <1>W, <1>L, <1>pc, <1>owner, <1>count, <1>depth
        DEF OwnerIsHolder, NO_OWNER, CountInv, MutualExclusion
    <3>6. NobodyAhead'
      BY <3>0, <1>N, <1>pc, <1>before DEF NobodyAhead
    <3>7. AheadInv'
      BY <3>0, <2>1, <1>F, <1>C, <1>N, <1>A, <1>pc, <1>k, <1>S, <1>turn, <1>before,
         <1>flags DEF AheadInv, Ahead, NobodyAhead, FlagsInv, CounterInv
    <3> QED BY <3>1, <3>2, <3>3, <3>4, <3>5, <3>6, <3>7 DEF IndInv
  <2>2. CASE k[i] # num_doors
    <3>0. /\ pc[i] = "high"
         /\ k[i] < num_doors
         /\ ~BL_in_use[k[i]]
         /\ k[i] \in Nat /\ k[i] + 1 \in 0 .. num_doors
         /\ k' = [k EXCEPT ![i] = k[i] + 1]
         /\ UNCHANGED <<FCFS_in_use, BL_ready, BL_in_use, turn, next_turn_bit,
            owner_index, lockcount, pc, block, S, before, depth>>
      BY <1>16, <2>2, <1>C, <1>pc, <1>k DEF WaitHigh, At, Goto, shared, CounterInv
    <3>1. TypeOK'
      BY <3>0 DEF IndInv, TypeOK
    <3>2. FlagsInv'
      BY <3>0, <1>F, <1>pc, <1>flags DEF FlagsInv
    <3>3. CounterInv'
      BY SMTT(30), <3>0, <1>C, <1>pc, <1>k DEF CounterInv
    <3>4. OneSeesTheOther'
      <4> SUFFICES ASSUME NEW p \in Doors, NEW d \in Doors, p < d,
                          PassedHigh(p, d)', PassedLow(d, p)'
                   PROVE  FALSE
        BY DEF OneSeesTheOther
      <4>1. ~(PassedHigh(p, d) /\ PassedLow(d, p))
        BY <1>O DEF OneSeesTheOther
      <4>2. CASE p = i
        BY <3>0, <4>1, <4>2, <1>F, <1>C, <1>pc, <1>k, <1>flags
          DEF PassedLow, PassedHigh, FlagsInv, CounterInv
      <4>3. CASE d = i
        BY <3>0, <4>1, <4>3, <1>F, <1>C, <1>pc, <1>k, <1>flags
          DEF PassedLow, PassedHigh, FlagsInv, CounterInv
      <4>4. CASE p # i /\ d # i
        BY <3>0, <4>1, <4>4, <1>F, <1>C, <1>pc, <1>k, <1>flags
          DEF PassedLow, PassedHigh, FlagsInv, CounterInv
      <4> QED BY <4>2, <4>3, <4>4
    <3>5. (OwnerIsHolder /\ CountInv)'
      BY <3>0, <1>W, <1>L, <1>pc, <1>owner, <1>count, <1>depth
        DEF OwnerIsHolder, NO_OWNER, CountInv, MutualExclusion
    <3>6. NobodyAhead'
      BY <3>0, <1>N, <1>pc, <1>before DEF NobodyAhead
    <3>7. AheadInv'
      <4> SUFFICES ASSUME NEW p \in Doors, NEW d \in Doors, d \in before'[p]
                   PROVE  Ahead(d, p)'
        BY DEF AheadInv
      <4>1. Ahead(d, p)
        BY <3>0, <1>A, <1>before DEF AheadInv
      <4>2. CASE p = i
        BY <3>0, <2>2, <4>1, <4>2, <1>F, <1>C, <1>N, <1>pc, <1>k, <1>S, <1>turn,
           <1>before, <1>flags DEF Ahead, NobodyAhead, FlagsInv, CounterInv
      <4>3. CASE p # i
        BY <3>0, <2>2, <4>1, <4>3, <1>pc, <1>k, <1>S, <1>turn DEF Ahead
      <4> QED BY <4>2, <4>3
    <3> QED BY <3>1, <3>2, <3>3, <3>4, <3>5, <3>6, <3>7 DEF IndInv
  <2> QED BY <2>1, <2>2
<1>17. ASSUME NEW i \in Doors, Own(i) PROVE IndInv'
  <2>0. /\ pc[i] = "own"
       /\ pc' = [pc EXCEPT ![i] = "count"]
       /\ owner_index' = i
       /\ before' = [d \in Doors |-> IF d = i THEN {} ELSE before[d] \ {i}]
       /\ UNCHANGED <<FCFS_in_use, BL_ready, BL_in_use, turn, next_turn_bit, lockcount,
          block, S, k, depth>>
    BY <1>17 DEF Own, At, Goto, shared
  <2>1. TypeOK'
    <3>1. pc' \in [Doors -> Labels]
      BY <2>0, <1>pc
    <3>2. owner_index' \in Doors \cup {NO_OWNER}
      BY <2>0, <1>owner
    <3>3. before' \in [Doors -> SUBSET Doors]
      BY <2>0, <1>before
    <3> QED BY <2>0, <3>1, <3>2, <3>3 DEF IndInv, TypeOK
  <2>2. FlagsInv'
    BY <2>0, <1>F, <1>pc, <1>flags DEF FlagsInv
  <2>3. CounterInv'
    BY <2>0, <1>C, <1>pc, <1>k DEF CounterInv
  <2>4. OneSeesTheOther'
    BY <2>0, <1>F, <1>C, <1>O, <1>pc, <1>k, <1>flags
      DEF OneSeesTheOther, PassedLow, PassedHigh, FlagsInv, CounterInv
  <2>5. (OwnerIsHolder /\ CountInv)'
    BY <2>0, <1>W, <1>L, <1>pc, <1>owner, <1>count, <1>depth
      DEF OwnerIsHolder, NO_OWNER, CountInv, MutualExclusion
  <2>6. NobodyAhead'
    BY <2>0, <1>N, <1>pc, <1>before DEF NobodyAhead
  <2>7. AheadInv'
    BY <2>0, <1>F, <1>C, <1>N, <1>A, <1>pc, <1>k, <1>S, <1>turn, <1>before, <1>flags
      DEF AheadInv, Ahead, NobodyAhead, FlagsInv, CounterInv
  <2> QED BY <2>1, <2>2, <2>3, <2>4, <2>5, <2>6, <2>7 DEF IndInv
<1>18. ASSUME NEW i \in Doors, CountLevel(i) PROVE IndInv'
  <2>0. /\ pc[i] = "count"
       /\ lockcount = 0
       /\ pc' = [pc EXCEPT ![i] = "cs"]
       /\ lockcount' = 1
       /\ depth' = [depth EXCEPT ![i] = 1]
       /\ UNCHANGED <<FCFS_in_use, BL_ready, BL_in_use, turn, next_turn_bit,
          owner_index, block, S, k, before>>
    BY <1>18, <1>L, <1>pc, <1>count, <1>depth
      DEF CountLevel, At, Goto, shared, CountInv, MutualExclusion
  <2>1. TypeOK'
    <3>1. pc' \in [Doors -> Labels]
      BY <2>0, <1>pc
    <3>2. lockcount' \in 0 .. MaxLevel
      BY <2>0, <1>count
    <3>3. depth' \in [Doors -> 0 .. MaxLevel]
      BY <2>0, <1>depth
    <3> QED BY <2>0, <3>1, <3>2, <3>3 DEF IndInv, TypeOK
  <2>2. FlagsInv'
    BY <2>0, <1>F, <1>pc, <1>flags DEF FlagsInv
  <2>3. CounterInv'
    BY <2>0, <1>C, <1>pc, <1>k DEF CounterInv
  <2>4. OneSeesTheOther'
    BY <2>0, <1>F, <1>C, <1>O, <1>pc, <1>k, <1>flags
      DEF OneSeesTheOther, PassedLow, PassedHigh, FlagsInv, CounterInv
  <2>5. (OwnerIsHolder /\ CountInv)'
    BY <2>0, <1>W, <1>L, <1>pc, <1>owner, <1>count, <1>depth
      DEF OwnerIsHolder, NO_OWNER, CountInv, MutualExclusion
  <2>6. NobodyAhead'
    BY <2>0, <1>N, <1>pc, <1>before DEF NobodyAhead
  <2>7. AheadInv'
    <3> SUFFICES ASSUME NEW p \in Doors, NEW d \in Doors, d \in before'[p]
                 PROVE  Ahead(d, p)'
      BY DEF AheadInv
    <3>1. Ahead(d, p)
      BY <2>0, <1>A, <1>before DEF AheadInv
    <3>2. CASE p = i
      BY <2>0, <3>1, <3>2, <1>F, <1>C, <1>N, <1>pc, <1>k, <1>S, <1>turn, <1>before,
         <1>flags DEF Ahead, NobodyAhead, FlagsInv, CounterInv
    <3>3. CASE p # i
      BY <2>0, <3>1, <3>3, <1>pc, <1>k, <1>S, <1>turn DEF Ahead
    <3> QED BY <3>2, <3>3
  <2> QED BY <2>1, <2>2, <2>3, <2>4, <2>5, <2>6, <2>7 DEF IndInv
<1>19. ASSUME NEW i \in Doors, Unlock(i) PROVE IndInv'
  <2>1. CASE lockcount = 1
    <3>0. /\ pc[i] = "cs"
         /\ lockcount = 1
         /\ depth[i] - 1 \in 0 .. MaxLevel /\ lockcount - 1 \in 0 .. MaxLevel
         /\ pc' = [pc EXCEPT ![i] = "disown"]
         /\ lockcount' = 0
         /\ depth' = [depth EXCEPT ![i] = depth[i] - 1]
         /\ UNCHANGED <<FCFS_in_use, BL_ready, BL_in_use, turn, next_turn_bit,
            owner_index, block, S, k, before>>
      BY <1>19, <2>1, <1>L, <1>pc, <1>count, <1>depth
        DEF Unlock, At, Goto, shared, CountInv
    <3>1. TypeOK'
      <4>1. pc' \in [Doors -> Labels]
        BY <3>0, <1>pc
      <4>2. lockcount' \in 0 .. MaxLevel
        BY <3>0, <1>count
      <4>3. depth' \in [Doors -> 0 .. MaxLevel]
        BY <3>0, <1>depth
      <4> QED BY <3>0, <4>1, <4>2, <4>3 DEF IndInv, TypeOK
    <3>2. FlagsInv'
      BY <3>0, <1>F, <1>pc, <1>flags DEF FlagsInv
    <3>3. CounterInv'
      BY <3>0, <1>C, <1>pc, <1>k DEF CounterInv
    <3>4. OneSeesTheOther'
      BY <3>0, <1>F, <1>C, <1>O, <1>pc, <1>k, <1>flags
        DEF OneSeesTheOther, PassedLow, PassedHigh, FlagsInv, CounterInv
    <3>5. (OwnerIsHolder /\ CountInv)'
      BY <3>0, <1>W, <1>L, <1>pc, <1>owner, <1>count, <1>depth
        DEF OwnerIsHolder, NO_OWNER, CountInv, MutualExclusion
    <3>6. NobodyAhead'
      BY <3>0, <1>N, <1>pc, <1>before DEF NobodyAhead
    <3>7. AheadInv'
      BY <3>0, <2>1, <1>F, <1>C, <1>N, <1>A, <1>pc, <1>k, <1>S, <1>turn, <1>before,
         <1>flags DEF AheadInv, Ahead, NobodyAhead, FlagsInv, CounterInv
    <3> QED BY <3>1, <3>2, <3>3, <3>4, <3>5, <3>6, <3>7 DEF IndInv
  <2>2. CASE lockcount # 1
    <3>0. /\ pc[i] = "cs"
         /\ lockcount > 1
         /\ depth[i] - 1 \in 0 .. MaxLevel /\ lockcount - 1 \in 0 .. MaxLevel
         /\ lockcount' = lockcount - 1
         /\ depth' = [depth EXCEPT ![i] = depth[i] - 1]
         /\ UNCHANGED <<FCFS_in_use, BL_ready, BL_in_use, turn, next_turn_bit,
            owner_index, pc, block, S, k, before>>
      BY <1>19, <2>2, <1>L, <1>pc, <1>count, <1>depth
        DEF Unlock, At, Goto, shared, CountInv
    <3>1. TypeOK'
      <4>1. lockcount' \in 0 .. MaxLevel
        BY <3>0, <1>count
      <4>2. depth' \in [Doors -> 0 .. MaxLevel]
        BY <3>0, <1>depth
      <4> QED BY <3>0, <4>1, <4>2 DEF IndInv, TypeOK
    <3>2. FlagsInv'
      BY <3>0, <1>F, <1>pc, <1>flags DEF FlagsInv
    <3>3. CounterInv'
      BY <3>0, <1>C, <1>pc, <1>k DEF CounterInv
    <3>4. OneSeesTheOther'
      BY <3>0, <1>F, <1>C, <1>O, <1>pc, <1>k, <1>flags
        DEF OneSeesTheOther, PassedLow, PassedHigh, FlagsInv, CounterInv
    <3>5. (OwnerIsHolder /\ CountInv)'
      BY <3>0, <1>W, <1>L, <1>pc, <1>owner, <1>count, <1>depth
        DEF OwnerIsHolder, NO_OWNER, CountInv, MutualExclusion
    <3>6. NobodyAhead'
      BY <3>0, <1>N, <1>pc, <1>before DEF NobodyAhead
    <3>7. AheadInv'
      BY <3>0, <2>2, <1>F, <1>C, <1>N, <1>A, <1>pc, <1>k, <1>S, <1>turn, <1>before,
         <1>flags DEF AheadInv, Ahead, NobodyAhead, FlagsInv, CounterInv
    <3> QED BY <3>1, <3>2, <3>3, <3>4, <3>5, <3>6, <3>7 DEF IndInv
  <2> QED BY <2>1, <2>2
<1>20. ASSUME NEW i \in Doors, ReleaseAll(i) PROVE IndInv'
  <2>0. /\ pc[i] = "cs"
       /\ pc' = [pc EXCEPT ![i] = "disown"]
       /\ lockcount' = 0
       /\ depth' = [depth EXCEPT ![i] = 0]
       /\ UNCHANGED <<FCFS_in_use, BL_ready, BL_in_use, turn, next_turn_bit,
          owner_index, block, S, k, before>>
    BY <1>20 DEF ReleaseAll, At, Goto, shared
  <2>1. TypeOK'
    <3>1. pc' \in [Doors -> Labels]
      BY <2>0, <1>pc, SMTT(30)
    <3>2. lockcount' \in 0 .. MaxLevel
      BY <2>0, <1>count, SMTT(30)
    <3>3. depth' \in [Doors -> 0 .. MaxLevel]
      BY <2>0, <1>depth, SMTT(30)
    <3> QED BY <2>0, <3>1, <3>2, <3>3 DEF IndInv, TypeOK
  <2>2. FlagsInv'
    BY <2>0, <1>F, <1>pc, <1>flags DEF FlagsInv
  <2>3. CounterInv'
    BY <2>0, <1>C, <1>pc, <1>k DEF CounterInv
  <2>4. OneSeesTheOther'
    BY <2>0, <1>F, <1>C, <1>O, <1>pc, <1>k, <1>flags
      DEF OneSeesTheOther, PassedLow, PassedHigh, FlagsInv, CounterInv
  <2>5. (OwnerIsHolder /\ CountInv)'
    BY <2>0, <1>W, <1>L, <1>pc, <1>owner, <1>count, <1>depth
      DEF OwnerIsHolder, NO_OWNER, CountInv, MutualExclusion
  <2>6. NobodyAhead'
    BY <2>0, <1>N, <1>pc, <1>before DEF NobodyAhead
  <2>7. AheadInv'
    BY <2>0, <1>F, <1>C, <1>N, <1>A, <1>pc, <1>k, <1>S, <1>turn, <1>before, <1>flags
      DEF AheadInv, Ahead, NobodyAhead, FlagsInv, CounterInv
  <2> QED BY <2>1, <2>2, <2>3, <2>4, <2>5, <2>6, <2>7 DEF IndInv
<1>21. ASSUME NEW i \in Doors, Disown(i) PROVE IndInv'
  <2>0. /\ pc[i] = "disown"
       /\ owner_index = i
       /\ pc' = [pc EXCEPT ![i] = "unclaim"]
       /\ k' = [k EXCEPT ![i] = i]
       /\ owner_index' = NO_OWNER
       /\ UNCHANGED <<FCFS_in_use, BL_ready, BL_in_use, turn, next_turn_bit, lockcount,
          block, S, before, depth>>
    BY <1>21, <1>W, <1>pc, <1>owner DEF Disown, At, Goto, shared, OwnerIsHolder, NO_OWNER
  <2>1. TypeOK'
    <3>1. pc' \in [Doors -> Labels]
      BY <2>0, <1>pc
    <3>2. k' \in [Doors -> 0 .. num_doors]
      BY <2>0, <1>k
    <3>3. owner_index' \in Doors \cup {NO_OWNER}
      BY <2>0, <1>owner
    <3> QED BY <2>0, <3>1, <3>2, <3>3 DEF IndInv, TypeOK
  <2>2. FlagsInv'
    <3> SUFFICES ASSUME NEW d \in Doors
                 PROVE  /\ FCFS_in_use[d] <=> pc'[d] \in {"copy", "flip", "ready", "leave"}
                        /\ BL_ready[d] <=> pc'[d] \in Ready
                        /\ BL_in_use[d] <=> pc'[d] \in InBurnsLamport
      BY <2>0 DEF FlagsInv
    <3>1. CASE d = i
      BY <2>0, <3>1, <1>F, <1>pc, <1>flags DEF FlagsInv
    <3>2. CASE d # i
      BY <2>0, <3>2, <1>F, <1>pc, <1>flags DEF FlagsInv
    <3> QED BY <3>1, <3>2
  <2>3. CounterInv'
    BY <2>0, <1>C, <1>pc, <1>k DEF CounterInv
  <2>4. OneSeesTheOther'
    BY <2>0, <1>F, <1>C, <1>O, <1>pc, <1>k, <1>flags
      DEF OneSeesTheOther, PassedLow, PassedHigh, FlagsInv, CounterInv
  <2>5. (OwnerIsHolder /\ CountInv)'
    BY <2>0, <1>W, <1>L, <1>pc, <1>owner, <1>count, <1>depth
      DEF OwnerIsHolder, NO_OWNER, CountInv, MutualExclusion
  <2>6. NobodyAhead'
    BY <2>0, <1>N, <1>pc, <1>before DEF NobodyAhead
  <2>7. AheadInv'
    BY <2>0, <1>F, <1>C, <1>N, <1>A, <1>pc, <1>k, <1>S, <1>turn, <1>before, <1>flags
      DEF AheadInv, Ahead, NobodyAhead, FlagsInv, CounterInv
  <2> QED BY <2>1, <2>2, <2>3, <2>4, <2>5, <2>6, <2>7 DEF IndInv
<1>22. ASSUME NEW i \in Doors, Unclaim(i) PROVE IndInv'
  <2>0. /\ pc[i] = "unclaim"
       /\ k[i] = i
       /\ pc' = [pc EXCEPT ![i] = "unready"]
       /\ BL_in_use' = [BL_in_use EXCEPT ![i] = FALSE]
       /\ UNCHANGED <<FCFS_in_use, BL_ready, turn, next_turn_bit, owner_index,
          lockcount, block, S, k, before, depth>>
    BY <1>22, <1>C, <1>pc, <1>k DEF Unclaim, At, Goto, shared, CounterInv
  <2>1. TypeOK'
    <3>1. pc' \in [Doors -> Labels]
      BY <2>0, <1>pc
    <3>2. BL_in_use' \in [Doors -> BOOLEAN]
      BY <2>0, <1>flags
    <3> QED BY <2>0, <3>1, <3>2 DEF IndInv, TypeOK
  <2>2. FlagsInv'
    BY <2>0, <1>F, <1>pc, <1>flags DEF FlagsInv
  <2>3. CounterInv'
    BY <2>0, <1>C, <1>pc, <1>k DEF CounterInv
  <2>4. OneSeesTheOther'
    BY <2>0, <1>F, <1>C, <1>O, <1>pc, <1>k, <1>flags
      DEF OneSeesTheOther, PassedLow, PassedHigh, FlagsInv, CounterInv
  <2>5. (OwnerIsHolder /\ CountInv)'
    BY <2>0, <1>W, <1>L, <1>pc, <1>owner, <1>count, <1>depth
      DEF OwnerIsHolder, NO_OWNER, CountInv, MutualExclusion
  <2>6. NobodyAhead'
    BY <2>0, <1>N, <1>pc, <1>before DEF NobodyAhead
  <2>7. AheadInv'
    BY <2>0, <1>F, <1>C, <1>N, <1>A, <1>pc, <1>k, <1>S, <1>turn, <1>before, <1>flags
      DEF AheadInv, Ahead, NobodyAhead, FlagsInv, CounterInv
  <2> QED BY <2>1, <2>2, <2>3, <2>4, <2>5, <2>6, <2>7 DEF IndInv
<1>23. ASSUME NEW i \in Doors, Unready(i) PROVE IndInv'
  <2>0. /\ pc[i] = "unready"
       /\ k[i] = i
       /\ pc' = [pc EXCEPT ![i] = "idle"]
       /\ BL_ready' = [BL_ready EXCEPT ![i] = FALSE]
       /\ k' = [k EXCEPT ![i] = 0]
       /\ UNCHANGED <<FCFS_in_use, BL_in_use, turn, next_turn_bit, owner_index,
          lockcount, block, S, before, depth>>
    BY <1>23, <1>C, <1>pc, <1>k DEF Unready, At, Goto, shared, CounterInv
  <2>1. TypeOK'
    <3>1. pc' \in [Doors -> Labels]
      BY <2>0, <1>pc
    <3>2. BL_ready' \in [Doors -> BOOLEAN]
      BY <2>0, <1>flags
    <3>3. k' \in [Doors -> 0 .. num_doors]
      BY <2>0, <1>k
    <3> QED BY <2>0, <3>1, <3>2, <3>3 DEF IndInv, TypeOK
  <2>2. FlagsInv'
    BY <2>0, <1>F, <1>pc, <1>flags DEF FlagsInv
  <2>3. CounterInv'
    BY <2>0, <1>C, <1>pc, <1>k DEF CounterInv
  <2>4. OneSeesTheOther'
    BY <2>0, <1>F, <1>C, <1>O, <1>pc, <1>k, <1>flags
      DEF OneSeesTheOther, PassedLow, PassedHigh, FlagsInv, CounterInv
  <2>5. (OwnerIsHolder /\ CountInv)'
    BY <2>0, <1>W, <1>L, <1>pc, <1>owner, <1>count, <1>depth
      DEF OwnerIsHolder, NO_OWNER, CountInv, MutualExclusion
  <2>6. NobodyAhead'
    BY <2>0, <1>N, <1>pc, <1>before DEF NobodyAhead
  <2>7. AheadInv'
    BY <2>0, <1>F, <1>C, <1>N, <1>A, <1>pc, <1>k, <1>S, <1>turn, <1>before, <1>flags
      DEF AheadInv, Ahead, NobodyAhead, FlagsInv, CounterInv
  <2> QED BY <2>1, <2>2, <2>3, <2>4, <2>5, <2>6, <2>7 DEF IndInv
<1>24. CASE UNCHANGED vars
  BY <1>24 DEF IndInv, TypeOK, vars, shared, FlagsInv, CounterInv, OneSeesTheOther,
    PassedLow, PassedHigh,
    OwnerIsHolder, CountInv, NobodyAhead, AheadInv, Ahead
<1> QED
  BY <1>1, <1>2, <1>3, <1>4, <1>5, <1>6, <1>7, <1>8, <1>9, <1>10, <1>11, <1>12, <1>13,
     <1>14, <1>15, <1>16, <1>17, <1>18, <1>19, <1>20, <1>21, <1>22, <1>23, <1>24 DEF
     Next, Acquiring, Releasing

\* Two holders would each have read the other's BL_in_use as false after
\* raising their own.
LEMMA Exclusion == IndInv => MutualExclusion
<1> SUFFICES ASSUME IndInv, NEW p \in Doors, NEW q \in Doors,
                    pc[p] \in Holding, pc[q] \in Holding, p # q
             PROVE  FALSE
  BY DEF MutualExclusion
<1>1. CASE p < q
  BY <1>1 DEF IndInv, OneSeesTheOther, PassedLow, PassedHigh
<1>2. CASE q < p
  BY <1>2 DEF IndInv, OneSeesTheOther, PassedLow, PassedHigh
<1> QED BY <1>1, <1>2 DEF Doors

\* A newly constructed lock satisfies the inductive invariant.
THEOREM Starting == Init => IndInv
<1> SUFFICES ASSUME Init PROVE IndInv
  OBVIOUS
<1> USE NumDoorsAssumption, MaxLevelAssumption DEF Init, Doors
<1>1. TypeOK
  BY NoTurnsType DEF TypeOK, Labels, Bits, NO_OWNER
<1>2. FlagsInv /\ CounterInv /\ CountInv
  BY DEF FlagsInv, CounterInv, CountInv, Ready, InBurnsLamport, Holding, Waiting
<1>3. OneSeesTheOther /\ OwnerIsHolder
  BY DEF OneSeesTheOther, PassedLow, PassedHigh, Holding, OwnerIsHolder, NO_OWNER
<1>4. NobodyAhead /\ AheadInv
  BY DEF NobodyAhead, AheadInv
<1> QED BY <1>1, <1>2, <1>3, <1>4 DEF IndInv

\* The inductive invariant holds in every reachable state, for every num_doors
\* and MaxLevel.
THEOREM Invariance == Spec => []IndInv
<1>1. IndInv /\ [Next]_vars => IndInv'
  BY Stepping, Exclusion
<1> QED BY Starting, <1>1, PTL DEF Spec

\* Every field of the lock stays in its type; the loop counters stay in range,
\* so no door is read beyond num_doors (MutexLock.h:593, 600, 616, 632).
THEOREM TypeCorrectness == Spec => []TypeOK
<1>1. IndInv => TypeOK
  BY DEF IndInv
<1> QED BY Invariance, <1>1, PTL

\* do_try_lock() never gives the lock to two processes at once
\* (MutexLock.h:581-643).
THEOREM MutualExclusionHolds == Spec => []MutualExclusion
BY Invariance, Exclusion, PTL

\* owner() names exactly the process that has the lock, so lock() takes a call
\* for a recursive one exactly when it is one (MutexLock.h:504).
THEOREM OwnerTruthful == Spec => []OwnerIsHolder
<1>1. IndInv => OwnerIsHolder
  BY DEF IndInv
<1> QED BY Invariance, <1>1, PTL

\* The lock is given in the order in which processes left the doorway
\* (MutexLock.h:392), in spite of the turns being two bits wide.
THEOREM FCFSHolds == Spec => []FirstComeFirstServed
<1>1. IndInv => FirstComeFirstServed
  BY DEF IndInv, NobodyAhead, FirstComeFirstServed, Waiting
<1> QED BY Invariance, <1>1, PTL

\* The lock level is the holder's own count of its calls and is zero whenever
\* nobody owns the lock (MutexLock.h:515, 549-572).
THEOREM LevelsHold == Spec => []LevelsBalanced
<1>1. IndInv => LevelsBalanced
  BY DEF IndInv, TypeOK, CountInv, OwnerIsHolder, LevelsBalanced, NO_OWNER, Doors
<1> QED BY Invariance, <1>1, PTL

\* A process outside every call has none of its flags raised, whichever way
\* the call ended (MutexLock.h:562-563, 605, 618-620).
THEOREM FlagsHold == Spec => []NoFlagLeftBehind
<1>1. IndInv => NoFlagLeftBehind
  BY DEF IndInv, FlagsInv, NoFlagLeftBehind, Ready, InBurnsLamport, Holding
<1> QED BY Invariance, <1>1, PTL

\* All that the lock keeps about itself stays true together: types, the owner's
\* name, the recursion count and the flags (MutexLock.h:500-572).
THEOREM BookkeepingHolds == Spec => []Bookkeeping
<1>1. TypeOK /\ OwnerIsHolder /\ LevelsBalanced /\ NoFlagLeftBehind => Bookkeeping
  BY DEF Bookkeeping
<1> QED BY TypeCorrectness, OwnerTruthful, LevelsHold, FlagsHold, <1>1, PTL

=============================================================================
