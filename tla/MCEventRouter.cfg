\* From a state with a trapper and two listeners subscribed; all of them call the
\* router.
CONSTANTS
  numEGIDs = 2
  numSIDs = 2
  erouterEGID = 0
  L = L
  M = M
  T1 = T1
  Clients <- AllClients
  Trappers <- OneTrapper
  Listeners <- AllListeners
  Monitor = M
  Posts <- OnePost
  Subscriptions <- ThreePatterns
  InitialSubscriptions <- AllSubscribed
  ReentrantTrappers = TRUE
  MaxCalls = 3
SPECIFICATION FairSpec
INVARIANTS
  QueueIsSound
  DeliveredToAll
  TrappedUnlessReentered
  NewsIsTrue
  QueriesAgree
PROPERTIES
  DeliveredInOrder
  DispatchEnds
\* The program makes MaxCalls calls and stops.
CHECK_DEADLOCK FALSE
