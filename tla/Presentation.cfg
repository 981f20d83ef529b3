SPECIFICATION MCSpec
CONSTANTS
  Children <- Schema
  Many <- Repeatable
  Required <- LastChild
  Barred <- Limits
  MaxDepth = 17
  SlotsN = 4
  SlotsConcurrent = 2
  SlotsIds = {p1}
  PatchN = 3
  PatchConcurrent = 1
  PatchIds = {p1, p2}
  NoId = none
INVARIANTS
  ValuesGoHome
  NoValueLost
  SlotsConserved
  ProviderOutlives
  PatchedInPlace
PROPERTIES
  PiecesOnce
  EndsOfSlots
CHECK_DEADLOCK FALSE
