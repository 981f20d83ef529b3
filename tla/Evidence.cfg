SPECIFICATION Spec
CONSTANTS
  Tables <- EvidenceTables
  Depth = 10
  MaxChanges = 1
  MaxVersions = 2
INVARIANTS OneVersion NothingStale NothingLost
CHECK_DEADLOCK FALSE
