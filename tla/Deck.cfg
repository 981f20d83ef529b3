SPECIFICATION Spec
CONSTANTS
  N = 3
  Ids = {ole}
  Raws = {a, b}
  Linked = {a}
  None = none
  MaxShapes = 3
INVARIANTS
  NumbersAreUnique
  IdentitiesAreUnique
  InPlaceKeepsInventory
  InPlaceIsReported
  EveryShapeOnce
  NotesFollowSlides
CHECK_DEADLOCK FALSE
