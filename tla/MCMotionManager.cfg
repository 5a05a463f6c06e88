SPECIFICATION Spec
CONSTANTS
  m1 = m1
  m2 = m2
  None = None
  Motions = {m1, m2}
  MaxMotions = 4
  QueueLen = 8
  MaxCalls = 2
  Habits <- Modest
SYMMETRY MotionsAlike
INVARIANTS
  TableIsSound
  NothingForgotten
PROPERTIES
  GoneIsToldOnce
