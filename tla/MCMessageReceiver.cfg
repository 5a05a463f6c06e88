\* WAIT: two senders fill a queue of two entries; one receiver is subscribed, the
\* other comes later; both may finish, and the queue may be closed.
SPECIFICATION Spec
CONSTANTS
  r1 = r1
  r2 = r2
  s1 = s1
  s2 = s2
  Receivers <- TwoReceivers
  Senders <- TwoSenders
  Subscribed <- OneReceiver
  MAX_ENTRIES = 2
  MaxMessages = 3
  InitialPolicy = "WAIT"
  LaterPolicies <- None
  MayClose = TRUE
SYMMETRY SendersAlike
INVARIANTS
  LeavesWhenReadByAll
  MarkedIsProcessed
  EachOnceInOrder
  NoMissedWakeup
CHECK_DEADLOCK FALSE
