--------------------------- MODULE SemLock_proofs ---------------------------
(***************************************************************************)
(* Proofs about SemLock, for any number of processes of one thread each    *)
(* (OneThreadEach) and any depth of recursion.                             *)
(***************************************************************************)
EXTENDS SemLock, TLAPS

\* Threads for which the semaphore is not zero.
In(t) == pc[t] \in {"index", "thread", "lower", "zero"} \/ levels[t] > 0

OneIn == \A t, u \in Threads : In(t) /\ In(u) => t = u

SomebodyIn == sem > 0 => \E t \in Threads : In(t)

\* What the semaphore is for a thread at each place.
Counted(t) ==
  /\ pc[t] \in {"lock", "try"} => levels[t] = 0
  /\ pc[t] \in {"lockOwner", "tryOwner"} => levels[t] > 0
  /\ pc[t] \in {"index", "thread"} => levels[t] = 0 /\ sem = 1
  /\ pc[t] = "lower" => sem = levels[t] + 1
  /\ pc[t] = "zero" => levels[t] = 0 /\ sem > 0
  /\ pc[t] \in {"idle", "lockOwner", "tryOwner"} /\ levels[t] > 0 => sem = levels[t]

\* Whose name is in owner_index and owner_thread.
Named(t) ==
  /\ levels[t] > 0 => owner_index = process[t]
  /\ levels[t] > 0 \/ pc[t] \in {"lower", "zero"} => owner_thread = t
  /\ pc[t] = "thread" => owner_index = process[t]
  /\ owner_index = process[t] => levels[t] > 0 \/ pc[t] = "thread"

IndInv ==
  /\ TypeOK
  /\ OneIn
  /\ SomebodyIn
  /\ \A t \in Threads : Counted(t) /\ Named(t)

-----------------------------------------------------------------------------
\* The invariant holds before the first call.
LEMMA Starting == Init => IndInv
<1> SUFFICES ASSUME Init PROVE IndInv
  OBVIOUS
<1>1. TypeOK
  BY SemLockAssumption DEF Init, TypeOK, Labels
<1>2. \A t \in Threads : pc[t] = "idle" /\ levels[t] = 0
  BY DEF Init
<1>3. ~(0 > 0)
  OBVIOUS
<1>0. \A t \in Threads : ~In(t)
  BY <1>2, <1>3 DEF In
<1>5. OneIn /\ SomebodyIn
  BY <1>0, <1>3 DEF OneIn, SomebodyIn, Init
<1>4. \A t \in Threads : Counted(t) /\ Named(t)
  BY <1>2, <1>3, SemLockAssumption DEF Init, Counted, Named
<1> QED
  BY <1>1, <1>5, <1>4 DEF IndInv

\* The inductive step: whatever thread t does, at most t is in the lock where the
\* step changes the semaphore or a name, so what holds of the others stays true.
LEMMA Stepping ==
  ASSUME OneThreadEach, IndInv, [Next]_vars
  PROVE  IndInv'
<1>1. CASE UNCHANGED vars
  BY <1>1 DEF IndInv, TypeOK, OneIn, SomebodyIn, Counted, Named, In, vars
<1>2. ASSUME NEW t \in Threads, Step(t) PROVE IndInv'
  <2> USE <1>2
  <2>type. TypeOK
    BY DEF IndInv
  <2>one. \A u, v \in Threads : In(u) /\ In(v) => u = v
    BY DEF IndInv, OneIn
  <2>some. sem > 0 => \E u \in Threads : In(u)
    BY DEF IndInv, SomebodyIn
  <2>all. \A u \in Threads : Counted(u) /\ Named(u)
    BY DEF IndInv
  <2>own. \A u \in Threads : u # t => process[u] # process[t]
    BY DEF OneThreadEach
  <2>name. process[t] # NO_OWNER
    BY SemLockAssumption
  <2>names. \A u \in Threads : process[u] # NO_OWNER
    BY SemLockAssumption
  <2>pc. \A u \in Threads : pc[u] \in Labels
    BY <2>type DEF TypeOK
  <2>sem. sem \in Nat /\ \A u \in Threads : levels[u] \in Nat
    BY <2>type, SemLockAssumption DEF TypeOK
  \* Another thread changes neither its place nor its count.
  <2>others. \A u \in Threads : u # t => pc'[u] = pc[u] /\ levels'[u] = levels[u]
    BY <2>type DEF Step, Lock, TryLock, IsOwnerThread, Take, TryFails, SetIndex, SetThread,
                   Unlock, Lower, ReleaseAll, SetZero, Goto, TypeOK
  <2>same. \A u \in Threads : u # t => (In(u)' <=> In(u))
    BY <2>others DEF In
  <2>zero. \A u \in Threads : In(u) => sem > 0
    BY <2>all, <2>sem, <2>pc DEF In, Counted, Labels
  <2>1. CASE Lock(t) \/ TryLock(t)
    <3>1. TypeOK'
      BY <2>1, <2>type DEF TypeOK, Labels, Lock, TryLock, Goto
    <3>2. pc[t] = "idle" /\ UNCHANGED <<sem, owner_index, owner_thread, levels>>
          /\ \/ pc'[t] \in {"lockOwner", "tryOwner"} /\ owner_index = process[t]
             \/ pc'[t] \in {"lock", "try"} /\ owner_index # process[t]
      BY <2>1, <2>type DEF TypeOK, Lock, TryLock, Goto
    <3>3. \A u \in Threads : (In(u)' <=> In(u))
      BY <3>2, <2>same DEF In
    <3>4. Counted(t)' /\ Named(t)'
      BY <3>2, <2>all, <2>sem DEF Counted, Named
    <3>5. \A u \in Threads : u # t => Counted(u)' /\ Named(u)'
      BY <3>2, <2>all, <2>others DEF Counted, Named
    <3> QED
      BY <3>1, <3>2, <3>3, <3>4, <3>5, <2>one, <2>some DEF IndInv, OneIn, SomebodyIn
  <2>2. CASE IsOwnerThread(t)
    <3>1. levels[t] > 0 /\ owner_thread = t /\ sem = levels[t]
      BY <2>2, <2>all DEF IsOwnerThread, Counted, Named
    <3>2. /\ sem' = sem + 1 /\ levels'[t] = levels[t] + 1 /\ pc'[t] = "idle"
          /\ UNCHANGED <<owner_index, owner_thread>>
      BY <2>2, <3>1, <2>type DEF IsOwnerThread, Goto, TypeOK
    <3>3. TypeOK'
      <4>1. pc' \in [Threads -> Labels] /\ sem' \in Nat
        BY <2>2, <3>2, <2>type DEF TypeOK, Labels, IsOwnerThread, Goto
      <4>2. levels' = [levels EXCEPT ![t] = @ + 1]
        BY <2>2, <3>1 DEF IsOwnerThread
      <4>3. levels' \in [Threads -> Nat]
        BY <4>2, <2>type DEF TypeOK
      <4> QED
        BY <3>2, <4>1, <4>3, <2>type DEF TypeOK
    <3>4. In(t) /\ In(t)'
      BY <3>1, <3>2, <2>sem DEF In
    <3>5. \A u \in Threads : (In(u)' <=> In(u))
      BY <3>4, <2>same
    <3>6. Counted(t)' /\ Named(t)'
      BY <3>1, <3>2, <2>all, <2>sem DEF Counted, Named
    <3>7. \A u \in Threads : u # t => Counted(u)' /\ Named(u)'
      BY <3>2, <3>4, <2>all, <2>others, <2>one DEF Counted, Named, In
    <3> QED
      BY <3>3, <3>4, <3>5, <3>6, <3>7, <2>one DEF IndInv, OneIn, SomebodyIn
  <2>3. CASE Take(t)
    <3>1. \A u \in Threads : ~In(u)
      <4> SUFFICES ASSUME NEW u \in Threads, In(u) PROVE FALSE
        OBVIOUS
      <4> QED
        BY <2>3, <2>zero DEF Take
    <3>2. /\ pc[t] \in {"lock", "try"} /\ pc'[t] = "index" /\ sem' = 1
          /\ UNCHANGED <<owner_index, owner_thread, levels>>
      BY <2>3, <2>type DEF Take, Goto, TypeOK
    <3>3. TypeOK'
      BY <2>3, <3>2, <2>type DEF TypeOK, Labels, Take, Goto
    <3>4. \A u \in Threads : In(u)' => u = t
      BY <3>1, <2>same
    <3>5. In(t)'
      BY <3>2 DEF In
    <3>6. Counted(t)' /\ Named(t)'
      BY <3>2, <2>all, <2>sem DEF Counted, Named
    <3>7. \A u \in Threads : u # t => Counted(u)' /\ Named(u)'
      BY <3>1, <3>2, <2>all, <2>others DEF Counted, Named, In
    <3> QED
      BY <3>3, <3>4, <3>5, <3>6, <3>7 DEF IndInv, OneIn, SomebodyIn
  <2>4. CASE TryFails(t)
    <3>1. /\ pc[t] = "try" /\ pc'[t] = "idle"
          /\ UNCHANGED <<sem, owner_index, owner_thread, levels>>
      BY <2>4, <2>type DEF TryFails, Goto, TypeOK
    <3>2. TypeOK'
      BY <2>4, <3>1, <2>type DEF TypeOK, Labels, TryFails, Goto
    <3>3. \A u \in Threads : (In(u)' <=> In(u))
      BY <3>1, <2>same DEF In
    <3>4. Counted(t)' /\ Named(t)'
      BY <3>1, <2>all, <2>sem DEF Counted, Named
    <3>5. \A u \in Threads : u # t => Counted(u)' /\ Named(u)'
      BY <3>1, <2>all, <2>others DEF Counted, Named
    <3> QED
      BY <3>1, <3>2, <3>3, <3>4, <3>5, <2>one, <2>some DEF IndInv, OneIn, SomebodyIn
  <2>5. CASE SetIndex(t)
    <3>1. /\ pc[t] = "index" /\ pc'[t] = "thread" /\ owner_index' = process[t]
          /\ UNCHANGED <<sem, owner_thread, levels>>
      BY <2>5, <2>type DEF SetIndex, Goto, TypeOK
    <3>2. TypeOK'
      BY <2>5, <3>1, <2>type DEF TypeOK, Labels, SetIndex, Goto
    <3>3. In(t) /\ In(t)'
      BY <3>1 DEF In
    <3>4. \A u \in Threads : (In(u)' <=> In(u))
      BY <3>3, <2>same
    <3>5. Counted(t)' /\ Named(t)'
      BY <3>1, <2>all, <2>sem DEF Counted, Named
    <3>6. \A u \in Threads : u # t => Counted(u)' /\ Named(u)'
      BY <3>1, <3>3, <2>all, <2>others, <2>one, <2>own DEF Counted, Named, In
    <3> QED
      BY <3>1, <3>2, <3>4, <3>5, <3>6, <2>one, <2>some DEF IndInv, OneIn, SomebodyIn
  <2>6. CASE SetThread(t)
    <3>1. /\ pc[t] = "thread" /\ pc'[t] = "idle" /\ owner_thread' = t
          /\ levels'[t] = levels[t] + 1 /\ UNCHANGED <<sem, owner_index>>
      BY <2>6, <2>type DEF SetThread, Goto, TypeOK
    <3>2. TypeOK'
      BY <2>6, <3>1, <2>type DEF TypeOK, Labels, SetThread, Goto
    <3>3. levels[t] = 0 /\ sem = 1
      BY <3>1, <2>all DEF Counted
    <3>4. In(t) /\ In(t)'
      BY <3>1, <3>3 DEF In
    <3>5. \A u \in Threads : (In(u)' <=> In(u))
      BY <3>4, <2>same
    <3>6. Counted(t)' /\ Named(t)'
      BY <3>1, <3>3, <2>all DEF Counted, Named
    <3>7. \A u \in Threads : u # t => Counted(u)' /\ Named(u)'
      BY <3>1, <3>4, <2>all, <2>others, <2>one DEF Counted, Named, In
    <3> QED
      BY <3>1, <3>2, <3>5, <3>6, <3>7, <2>one, <2>some DEF IndInv, OneIn, SomebodyIn
  <2>7. CASE Unlock(t)
    <3>1. pc[t] = "idle" /\ levels[t] > 0 /\ sem = levels[t] /\ In(t)
      BY <2>7, <2>all DEF Unlock, Counted, In
    <3>2. /\ pc'[t] = "lower" /\ levels'[t] = levels[t] - 1
          /\ owner_index' = (IF sem <= 1 THEN NO_OWNER ELSE owner_index)
          /\ UNCHANGED <<sem, owner_thread>>
      BY <2>7, <3>1, <2>type, <2>sem DEF Unlock, Goto, TypeOK
    <3>3. TypeOK'
      <4>1. pc' \in [Threads -> Labels]
        BY <2>7, <2>type DEF TypeOK, Labels, Unlock, Goto
      <4>2. levels' \in [Threads -> Nat]
        BY <2>7, <2>type DEF TypeOK, Unlock
      <4> QED
        BY <3>2, <4>1, <4>2, <2>type DEF TypeOK
    <3>4. In(t)'
      BY <3>2 DEF In
    <3>5. \A u \in Threads : (In(u)' <=> In(u))
      BY <3>1, <3>4, <2>same
    <3>6. Counted(t)'
      BY <3>1, <3>2, <2>sem DEF Counted
    <3>7. Named(t)'
      BY <3>1, <3>2, <2>all, <2>sem, <2>name DEF Named
    <3>8. \A u \in Threads : u # t => Counted(u)' /\ Named(u)'
      BY <3>1, <3>2, <2>all, <2>others, <2>one, <2>names DEF Counted, Named, In
    <3> QED
      BY <3>2, <3>3, <3>5, <3>6, <3>7, <3>8, <2>one, <2>some DEF IndInv, OneIn, SomebodyIn
  <2>8. CASE Lower(t)
    <3>1. pc[t] = "lower" /\ sem = levels[t] + 1 /\ In(t)
      BY <2>8, <2>all DEF Lower, Counted, In
    <3>2. /\ pc'[t] = "idle" /\ sem' = levels[t] /\ levels' = levels
          /\ UNCHANGED <<owner_index, owner_thread>>
      BY <2>8, <3>1, <2>type, <2>sem DEF Lower, Goto, TypeOK
    <3>3. TypeOK'
      BY <2>8, <3>2, <2>type, <2>sem DEF TypeOK, Labels, Lower, Goto
    <3>4. \A u \in Threads : In(u)' => u = t
      BY <3>1, <2>same, <2>one
    <3>5. SomebodyIn'
      BY <3>2 DEF SomebodyIn, In
    <3>6. Counted(t)' /\ Named(t)'
      BY <3>1, <3>2, <2>all, <2>sem DEF Counted, Named
    <3>7. \A u \in Threads : u # t => Counted(u)' /\ Named(u)'
      BY <3>1, <3>2, <2>all, <2>others, <2>one DEF Counted, Named, In
    <3> QED
      BY <3>3, <3>4, <3>5, <3>6, <3>7 DEF IndInv, OneIn
  <2>9. CASE ReleaseAll(t)
    <3>1. pc[t] = "idle" /\ levels[t] > 0 /\ sem = levels[t] /\ In(t)
      BY <2>9, <2>all DEF ReleaseAll, Counted, In
    <3>2. /\ pc'[t] = "zero" /\ levels'[t] = 0 /\ owner_index' = NO_OWNER
          /\ UNCHANGED <<sem, owner_thread>>
      BY <2>9, <2>type DEF ReleaseAll, Goto, TypeOK
    <3>3. TypeOK'
      BY <2>9, <2>type DEF TypeOK, Labels, ReleaseAll, Goto
    <3>4. In(t)'
      BY <3>2 DEF In
    <3>5. \A u \in Threads : (In(u)' <=> In(u))
      BY <3>1, <3>4, <2>same
    <3>6. Counted(t)'
      BY <3>1, <3>2, <2>sem DEF Counted
    <3>7. Named(t)'
      BY <3>1, <3>2, <2>all, <2>name DEF Named
    <3>8. \A u \in Threads : u # t => Counted(u)' /\ Named(u)'
      BY <3>1, <3>2, <2>all, <2>others, <2>one, <2>names DEF Counted, Named, In
    <3> QED
      BY <3>2, <3>3, <3>5, <3>6, <3>7, <3>8, <2>one, <2>some DEF IndInv, OneIn, SomebodyIn
  <2>10. CASE SetZero(t)
    <3>1. pc[t] = "zero" /\ levels[t] = 0 /\ In(t)
      BY <2>10, <2>all DEF SetZero, Counted, In
    <3>2. /\ pc'[t] = "idle" /\ sem' = 0 /\ levels' = levels
          /\ UNCHANGED <<owner_index, owner_thread>>
      BY <2>10, <2>type DEF SetZero, Goto, TypeOK
    <3>3. TypeOK'
      BY <2>10, <2>type DEF TypeOK, Labels, SetZero, Goto
    <3>4. \A u \in Threads : In(u)' => u = t
      BY <3>1, <2>same, <2>one
    <3>5. SomebodyIn'
      BY <3>2 DEF SomebodyIn
    <3>6. Counted(t)' /\ Named(t)'
      BY <3>1, <3>2, <2>all DEF Counted, Named
    <3>7. \A u \in Threads : u # t => Counted(u)' /\ Named(u)'
      BY <3>1, <3>2, <2>all, <2>others, <2>one DEF Counted, Named, In
    <3> QED
      BY <3>3, <3>4, <3>5, <3>6, <3>7 DEF IndInv, OneIn
  <2> QED
    BY <2>1, <2>2, <2>3, <2>4, <2>5, <2>6, <2>7, <2>8, <2>9, <2>10 DEF Step
<1> QED
  BY <1>1, <1>2 DEF Next

-----------------------------------------------------------------------------
\* IndInv is an invariant of the lock, whatever the threads do.
THEOREM Invariance ==
  ASSUME OneThreadEach
  PROVE  Spec => []IndInv
<1>1. IndInv /\ [Next]_vars => IndInv'
  BY Stepping
<1> QED
  BY <1>1, Starting, PTL DEF Spec

\* Two threads never have the lock at once.
THEOREM MutualExclusionHolds ==
  ASSUME OneThreadEach
  PROVE  Spec => []MutualExclusion
<1>1. IndInv => MutualExclusion
  BY DEF IndInv, OneIn, In, MutualExclusion
<1> QED
  BY <1>1, Invariance, PTL

\* A thread that has the lock does not wait for it.
THEOREM OwnerNeverWaitsHolds ==
  ASSUME OneThreadEach
  PROVE  Spec => []OwnerNeverWaits
<1>1. IndInv => OwnerNeverWaits
  BY DEF IndInv, Counted, OwnerNeverWaits
<1> QED
  BY <1>1, Invariance, PTL

\* Holder is the thread that is in the lock.
HolderRight ==
  /\ sem = 0 => Holder = Nobody
  /\ \A t \in Threads : In(t) => Holder = t

\* The thread that is in the lock is the one that the semaphore is held for.
LEMMA HolderIsIn == IndInv => HolderRight
<1> SUFFICES ASSUME IndInv PROVE HolderRight
  OBVIOUS
<1>1. sem = 0 => Holder = Nobody
  BY DEF Holder
<1>2. ASSUME NEW t \in Threads, In(t) PROVE Holder = t
  <2>1. sem > 0 /\ sem # 0
    BY <1>2 DEF IndInv, TypeOK, Counted, In, Labels
  <2>2. \A u \in Threads : In(u) => u = t
    BY <1>2 DEF IndInv, OneIn
  <2>3. CASE pc[t] \in {"index", "thread"}
    <3>1. Entering = {t}
      BY <2>2, <2>3 DEF Entering, In
    <3> QED
      BY <2>1, <3>1 DEF Holder
  <2>4. CASE pc[t] \notin {"index", "thread"}
    <3>1. Entering = {}
      BY <2>2, <2>4 DEF Entering, In
    <3>2. owner_thread = t
      BY <1>2, <2>4 DEF IndInv, Named, In
    <3> QED
      BY <2>1, <3>1, <3>2 DEF Holder
  <2> QED
    BY <2>3, <2>4
<1> QED
  BY <1>1, <1>2 DEF HolderRight

\* The threads' own counts agree with the semaphore.
THEOREM LevelsAgreeHolds ==
  ASSUME OneThreadEach
  PROVE  Spec => []LevelsAgree
<1>1. ASSUME IndInv PROVE LevelsAgree
  <2> SUFFICES ASSUME NEW t \in Threads, pc[t] = "idle"
               PROVE  levels[t] = IF Holder = t THEN sem ELSE 0
    BY DEF LevelsAgree
  <2>1. levels[t] \in Nat /\ sem \in Nat
    BY <1>1 DEF IndInv, TypeOK
  <2>2. CASE levels[t] > 0
    <3>1. sem = levels[t]
      BY <1>1, <2>2 DEF IndInv, Counted
    <3>2. Holder = t
      BY <1>1, <2>2, HolderIsIn DEF In, HolderRight
    <3> QED
      BY <3>1, <3>2
  <2>3. CASE ~(levels[t] > 0)
    <3>1. levels[t] = 0 /\ ~In(t)
      BY <2>1, <2>3 DEF In
    <3>2. CASE sem = 0
      BY <3>1, <3>2
    <3>3. CASE sem # 0
      <4>1. PICK u \in Threads : In(u)
        BY <1>1, <2>1, <3>3 DEF IndInv, SomebodyIn
      <4>2. Holder = u
        BY <1>1, <4>1, HolderIsIn DEF HolderRight
      <4> QED
        BY <3>1, <4>1, <4>2
    <3> QED
      BY <3>2, <3>3
  <2> QED
    BY <2>2, <2>3
<1> QED
  BY <1>1, Invariance, PTL

-----------------------------------------------------------------------------
\* The lock is a recursive lock: Take acquires, a recursive lock() reenters,
\* Lower releases one level and SetZero all; every other step stutters.
THEOREM Refinement ==
  ASSUME OneThreadEach
  PROVE  Spec => ImplementsLock
<1>1. Init => Abstract!Free
  BY DEF Init, Abstract!Free, Holder
<1>2. ASSUME IndInv, IndInv', [Next]_vars
      PROVE  [Abstract!Next]_<<Holder, sem>>
  <2>1. CASE UNCHANGED vars
    BY <2>1 DEF vars, Holder, Entering
  <2>2. ASSUME NEW t \in Threads, Step(t)
        PROVE  [Abstract!Next]_<<Holder, sem>>
    <3> USE <2>2
    <3>type. TypeOK
      BY <1>2 DEF IndInv
    <3>all. \A u \in Threads : Counted(u) /\ Named(u)
      BY <1>2 DEF IndInv
    <3>now. HolderRight
      BY <1>2, HolderIsIn
    <3>then. HolderRight'
      <4>1. IndInv' => HolderRight'
        BY HolderIsIn, PTL
      <4> QED
        BY <1>2, <4>1
    <3>1. CASE Take(t)
      <4>1. sem = 0 /\ sem' = 1 /\ pc'[t] = "index"
        BY <3>1, <3>type DEF Take, Goto, TypeOK
      <4>2. In(t)'
        BY <4>1 DEF In
      <4>3. Abstract!Acquire(t)
        BY <4>1, <4>2, <3>now, <3>then DEF HolderRight, Abstract!Acquire, Abstract!Free
      <4> QED
        BY <4>3 DEF Abstract!Next
    <3>2. CASE IsOwnerThread(t)
      <4>1. levels[t] > 0 /\ owner_thread = t
        BY <3>2, <3>all DEF IsOwnerThread, Counted, Named
      <4>2. sem' = sem + 1 /\ levels'[t] = levels[t] + 1 /\ levels[t] \in Nat
        BY <3>2, <4>1, <3>type DEF IsOwnerThread, TypeOK
      <4>3. levels'[t] > 0
        BY <4>1, <4>2
      <4>4. In(t) /\ In(t)'
        BY <4>1, <4>3 DEF In
      <4>5. Abstract!Reenter(t)
        BY <4>2, <4>4, <3>now, <3>then DEF HolderRight, Abstract!Reenter
      <4> QED
        BY <4>5 DEF Abstract!Next
    <3>3. CASE Lower(t)
      <4>1. pc[t] = "lower" /\ sem = levels[t] + 1 /\ levels[t] \in Nat /\ In(t)
        BY <3>3, <3>all, <3>type DEF Lower, Counted, In, TypeOK
      <4>2. sem' = sem - 1 /\ levels' = levels
        BY <3>3, <4>1 DEF Lower
      <4>3. Holder = t
        BY <4>1, <3>now DEF HolderRight
      <4>4. CASE levels[t] = 0
        BY <4>1, <4>2, <4>3, <4>4, <3>then DEF HolderRight, Abstract!Release, Abstract!Next
      <4>5. CASE levels[t] > 0
        <5>1. In(t)'
          BY <4>2, <4>5 DEF In
        <5>2. Holder' = t
          BY <5>1, <3>then DEF HolderRight
        <5> QED
          BY <4>1, <4>2, <4>3, <4>5, <5>2 DEF Abstract!Release, Abstract!Next
      <4> QED
        BY <4>1, <4>4, <4>5
    <3>4. CASE SetZero(t)
      <4>1. pc[t] = "zero" /\ sem' = 0 /\ In(t)
        BY <3>4 DEF SetZero, In
      <4>2. Abstract!ReleaseAll(t)
        BY <4>1, <3>now, <3>then DEF HolderRight, Abstract!ReleaseAll
      <4> QED
        BY <4>2 DEF Abstract!Next
    <3>5. CASE SetThread(t)
      <4>1. pc[t] = "thread" /\ sem' = sem /\ In(t)
        BY <3>5 DEF SetThread, In
      <4>2. levels[t] = 0 /\ levels'[t] = levels[t] + 1
        BY <3>5, <4>1, <3>all, <3>type DEF SetThread, TypeOK, Counted
      <4>3. In(t)'
        BY <4>2 DEF In
      <4> QED
        BY <4>1, <4>3, <3>now, <3>then DEF HolderRight
    <3>6. CASE SetIndex(t)
      <4>1. In(t) /\ In(t)' /\ sem' = sem
        BY <3>6, <3>type DEF SetIndex, Goto, In, TypeOK
      <4> QED
        BY <4>1, <3>now, <3>then DEF HolderRight
    <3>7. CASE Lock(t) \/ TryLock(t) \/ TryFails(t) \/ Unlock(t) \/ ReleaseAll(t)
      <4>1. UNCHANGED <<sem, owner_thread>>
        BY <3>7 DEF Lock, TryLock, TryFails, Unlock, ReleaseAll
      <4>2. Entering' = Entering
        BY <3>7, <3>type DEF Entering, TypeOK, Lock, TryLock, TryFails, Unlock, ReleaseAll, Goto
      <4> QED
        BY <4>1, <4>2 DEF Holder
    <3> QED
      BY <3>1, <3>2, <3>3, <3>4, <3>5, <3>6, <3>7 DEF Step
  <2> QED
    BY <1>2, <2>1, <2>2 DEF Next
<1> QED
  BY <1>1, <1>2, Invariance, PTL DEF Spec, ImplementsLock, Abstract!Spec
=============================================================================
