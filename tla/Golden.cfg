SPECIFICATION Spec
CONSTANTS
  Tables <- ExactnessTables
  Depth = 3
  MaxChanges = 1
  MaxVersions = 2
INVARIANTS
  ExactCrossLinks
CHECK_DEADLOCK FALSE
