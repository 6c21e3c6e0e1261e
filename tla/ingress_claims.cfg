SPECIFICATION FairSpec
CONSTANTS
  w1 = w1  w2 = w2  w3 = w3  e1 = e1  e2 = e2  e3 = e3  e4 = e4
  k1 = k1  k2 = k2  s1 = s1
  Workers <- ThreeWorkers  Entries <- FourEntries  Key <- Repeated  Session <- OneSession
  Earlier <- InOrder
  MaxFaults = 1  MaxExpiries = 1
\* Every entry has been taken in the end.
CHECK_DEADLOCK FALSE
INVARIANTS OverlapNeedsLapse NotForgotten RunAgainOnlyForCause
PROPERTIES EveryEntryTaken
