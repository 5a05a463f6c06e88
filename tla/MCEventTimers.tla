---------------------------- MODULE MCEventTimers ----------------------------
(* Instances of EventTimers for TLC: two listeners with one or two sources   *)
(* each, a heap of two cells, and a clock that is far from wrapping round.   *)
EXTENDS EventTimers

CONSTANTS L1, L2, S1, S2, A, B

TwoListeners == {L1, L2}
TwoSources == {A, B}
OneSource == {A}
TwoSlots == {S1, S2}

\* At once, and after a tick
ShortDelays == {0, 1}
=============================================================================
