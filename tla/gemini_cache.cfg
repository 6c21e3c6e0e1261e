SPECIFICATION Spec
CONSTANTS
  Window = 32
  Batches = {1}
  Caching = TRUE
  Planner = FALSE
  SummaryAbove = 10
  MaxTriggers = 2
  MaxAsks = 2
CHECK_DEADLOCK FALSE
INVARIANTS NewTurnsSent
