\* Three processes of one thread each, recursion three deep.
CONSTANTS
  a = a
  b = b
  c = c
  Nobody = Nobody
  NO_OWNER = NO_OWNER
  Threads <- ThreeThreads
  process <- ByThread
  MaxLevel = 3
SPECIFICATION Spec
INVARIANTS
  MutualExclusion
  OwnerNeverWaits
  LevelsAgree
PROPERTY ImplementsLock
