SPECIFICATION Spec
CONSTANTS
  Window = 32
  Batches = {4}
  Caching = TRUE
  Planner = TRUE
  SummaryAbove = 10
  MaxTriggers = 3
  MaxAsks = 3
CHECK_DEADLOCK FALSE
INVARIANTS ExchangesWhole AsksAboutLatest
