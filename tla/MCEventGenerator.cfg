\* Two generators in a chain, started and stopped while listeners come and go
\* in the middle of dispatches.
CONSTANTS
  numEGIDs = 4
  numSIDs = 4
  erouterEGID = 1
  L = L
  M = M
  G1 = G1
  G2 = G2
  Clients <- AllListeners
  Trappers <- NoTrappers
  Listeners <- AllListeners
  Monitor = M
  Posts <- NoPosts
  Subscriptions <- EndPatterns
  InitialSubscriptions <- Unsubscribed
  ReentrantTrappers = FALSE
  MaxCalls = 5
  EventGenerators <- Chain
  myGenID <- ChainGenID
  mySourceID <- ChainSourceID
  source <- ChainSource
  Overlapping = FALSE
SPECIFICATION GeneratorSpec
INVARIANTS
  SubscriptionsAgree
  StoppedIsUnsubscribed
\* The program makes MaxCalls calls and stops.
CHECK_DEADLOCK FALSE
