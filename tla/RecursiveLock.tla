---------------------------- MODULE RecursiveLock ----------------------------
(***************************************************************************)
(* What a MutexLock promises its callers: at most one thread holds it, the *)
(* holder may take it again, unlock() undoes one level and releaseAll()    *)
(* all of them.                                                            *)
(***************************************************************************)
EXTENDS Integers

CONSTANTS Threads, Nobody

VARIABLES holder, level

Free == holder = Nobody /\ level = 0

Acquire(t) == Free /\ holder' = t /\ level' = 1

Reenter(t) == holder = t /\ level' = level + 1 /\ UNCHANGED holder

Release(t) ==
  /\ holder = t
  /\ level' = level - 1
  /\ holder' = IF level = 1 THEN Nobody ELSE holder

ReleaseAll(t) == holder = t /\ holder' = Nobody /\ level' = 0

Next == \E t \in Threads : Acquire(t) \/ Reenter(t) \/ Release(t) \/ ReleaseAll(t)

Spec == Free /\ [][Next]_<<holder, level>>
=============================================================================
