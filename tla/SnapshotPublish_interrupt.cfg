SPECIFICATION Spec
CONSTANTS
  Publishers = {a}
  Nobody = nobody
  Files = {f}
  Interrupts = TRUE
  CleanupFails = FALSE
INVARIANTS
  EndedIsComplete
CHECK_DEADLOCK FALSE
