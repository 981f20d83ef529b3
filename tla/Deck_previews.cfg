SPECIFICATION Spec
CONSTANTS
  N = 2
  Ids = {ole}
  Raws = {a, b}
  Linked = {a}
  None = none
  MaxShapes = 2
INVARIANTS
  ShowsOwnInventory
CHECK_DEADLOCK FALSE
