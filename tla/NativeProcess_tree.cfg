SPECIFICATION FairSpec
CONSTANTS
  Descendants = {d1}
  MaxLogBytes = 0
  MaxOutputBytes = 1
  ChunkBytes = 1
  PipeBytes = 1
  WriteBound = 1
  OutputBound = 2
  GroupKill = TRUE
INVARIANTS
  NothingLeft
  NoSurvivors
  OkOutputBounded
PROPERTIES
  KillReturns
  ReturnsUnlessHeld
CHECK_DEADLOCK FALSE
