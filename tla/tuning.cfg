SPECIFICATION Spec
CONSTANTS
  d1 = d1  d2 = d2
  Drivers <- TwoDrivers  Requests <- TwoRequests
  MaxAdvances = 4
\* The hosts stop calling advance.
CHECK_DEADLOCK FALSE
SYMMETRY DriverSymmetry
INVARIANTS LoweredOnlyToEarlier
PROPERTIES RollbackUndoes
