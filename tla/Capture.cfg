SPECIFICATION BothSpec
CONSTANTS
  Descendants = {d1}
  MaxLogBytes = 1
  ChunkBytes = 2
  HeldBytes = 2
  WriteBound = 2
  MayRefuse = TRUE
  Campaigns = {"first", "second"}
  Workers = 2
  Plans <- AllPlans
INVARIANTS
  LeftIsReported
  InventoryIsTrue
  CacheIsTrue
  PoolOutlivesRuns
PROPERTIES
  ImplementsContract
  RunReturns
  CampaignsEnd
CHECK_DEADLOCK FALSE
