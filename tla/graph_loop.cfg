SPECIFICATION FairSpec
CONSTANTS
  a = a  b = b  c3 = c3  d4 = d4  e5 = e5  f6 = f6  ghost = ghost
  Calls <- LoopCalls  Deps <- LoopDeps  Order <- LoopOrder  Priority <- LoopPriority
  MaxParallel = 4  MaxReady = 2  Attempts = 1
  ByApproval = FALSE  MaxInterruptions = 1
\* The host stops calling advance once the graph is settled.
CHECK_DEADLOCK FALSE
INVARIANTS NothingLeftReady
PROPERTIES PriorityRespected EveryGraphSettles
