SPECIFICATION Spec
CONSTANTS
  Descendants = {}
  MaxLogBytes = 2
  MaxOutputBytes = 0
  ChunkBytes = 2
  PipeBytes = 2
  WriteBound = 3
  OutputBound = 0
  GroupKill = TRUE
INVARIANTS
  OkComplete
  InOrder
  LogLimit
PROPERTIES
  ImplementsContract
CHECK_DEADLOCK FALSE
