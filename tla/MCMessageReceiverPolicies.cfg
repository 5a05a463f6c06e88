\* One receiver that subscribed, two senders, two entries, and a policy that changes
\* while a sender waits: what must happen in the end.
SPECIFICATION FairSpec
CONSTANTS
  r1 = r1
  r2 = r2
  s1 = s1
  s2 = s2
  Receivers <- OneReceiver
  Senders <- TwoSenders
  Subscribed <- OneReceiver
  MAX_ENTRIES = 2
  MaxMessages = 5
  InitialPolicy = "WAIT"
  LaterPolicies <- Dropping
  MayClose = FALSE
INVARIANTS
  ScanEnds
PROPERTIES
  SenderGetsThrough
  FinishEndsIfSubscribed
CHECK_DEADLOCK FALSE
