SPECIFICATION FairSpec
CONSTANTS
  None = None
  NumStates = 3
  FeedbackGenerated = TRUE
  MaxFrame = 3
  Corrupted = {1}
INVARIANTS
  PoolIsSound
  BuffersAreRight
PROPERTIES
  ReadersUndisturbed
  CallsEnd
