\* Every sequence of three calls, between rounds and in the middle of one.
CONSTANTS
  A = A
  B = B
  L1 = L1
  L2 = L2
  S1 = S1
  S2 = S2
  Listeners <- TwoListeners
  SourceIDs <- TwoSources
  Delays <- ShortDelays
  Slots <- TwoSlots
  Never = 15
  MaxTime = 2
  MaxCalls = 3
  TouchesPending = FALSE
SPECIFICATION FairSpec
INVARIANTS
  VectorIsSound
PROPERTIES
  FiresOnlyWhenDue
  TimerGoesOff
\* The clock and the program stop at their bounds.
CHECK_DEADLOCK FALSE
