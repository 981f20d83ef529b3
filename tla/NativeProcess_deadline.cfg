SPECIFICATION FairSpec
CONSTANTS
  Descendants = {d1}
  MaxLogBytes = 0
  MaxOutputBytes = 0
  ChunkBytes = 1
  PipeBytes = 1
  WriteBound = 1
  OutputBound = 0
  GroupKill = TRUE
PROPERTIES
  Deadline
CHECK_DEADLOCK FALSE
