SPECIFICATION Spec
CONSTANTS
  a = a  b = b  c3 = c3  d4 = d4  e5 = e5  f6 = f6  ghost = ghost
  Calls <- ForkCalls  Deps <- ForkDeps  Order <- ForkOrder  Priority <- ForkPriority
  MaxParallel = 2  MaxReady = 64  Attempts = 2
  ByApproval = TRUE  MaxInterruptions = 2
\* The host stops calling advance once the graph is settled.
CHECK_DEADLOCK FALSE
INVARIANTS TypeOK SettledOnce DependenciesFirst SkippedForCause RepeatsOnlyInterrupted
  OneResultPerCall ResultsLostOnlyByInterruption
PROPERTIES KeepsPromise
