SPECIFICATION FairSpec
CONSTANTS
  m1 = m1
  m2 = m2
  None = None
  Motions = {m1}
  MaxMotions = 2
  QueueLen = 8
  MaxCalls = 3
  Habits <- Modest
PROPERTY
  SlotsComeBack
