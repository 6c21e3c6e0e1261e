SPECIFICATION Spec
CONSTANTS
  d1 = d1  k1 = k1  nokey = nokey  NoKey = nokey
  Drivers <- OneDriver  Keys <- OneKey  Acts <- Answering
  MaxSteps = 3  MaxFailures = 1  MaxRequests = 2  MaxInterruptions = 0
\* The host stops calling advance when every trigger is answered.
CHECK_DEADLOCK FALSE
INVARIANTS CallsMaterialized
