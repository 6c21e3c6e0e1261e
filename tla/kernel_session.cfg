SPECIFICATION Spec
CONSTANTS
  d1 = d1  k1 = k1  nokey = nokey  NoKey = nokey
  Drivers <- OneDriver  Keys <- OneKey  Acts <- Answering
  MaxSteps = 2  MaxFailures = 1  MaxRequests = 3  MaxInterruptions = 1
\* The host stops calling advance when every trigger is answered.
CHECK_DEADLOCK FALSE
INVARIANTS TypeOK CallRunsOnce ApprovalGate OneOutcomePerKey
  OutcomeClosesItsTrigger ResultsTruthful
PROPERTIES KeepsPromise
