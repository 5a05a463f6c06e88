------------------------------ MODULE MCSemLock ------------------------------
(* Instances of SemLock for TLC: threads a, b and c, processes named by one
   of their threads. *)
EXTENDS SemLock
CONSTANTS a, b, c

ThreeThreads == {a, b, c}
ByThread == [t \in ThreeThreads |-> t]

TwoOfOne == {a, b}
SameProcess == [t \in TwoOfOne |-> a]
=============================================================================
