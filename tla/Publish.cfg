SPECIFICATION HarnessSpec
CONSTANTS
  Publishers = {a, b, c}
  Nobody = nobody
  TreePublishers = {a, b}
  Files = {f, g}
  Sources = {s, t}
  MaxEdits = 2
  MaxChanges = 2
  MaxMoves = 3
  LastUnit = 3
INVARIANTS
  OkIsForGood
  PublishedIsWhole
  FailedLeavesNothing
  AsAttested
  PicturesAreTrue
  ScanIsTrue
  
PROPERTIES
  ImplementsContract
CHECK_DEADLOCK FALSE
