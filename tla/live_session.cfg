\* Advances, stores, the cache and watching clients.
SPECIFICATION FairSpec
CONSTANTS
  Drivers <- MCDrivers
  Deployments <- MCDeployments
  PlanActions <- MCPlanActions
  Answers <- MCAnswers
  PageLimit = 2
  MaxSteps = 2
  MaxTriggers = 2
INVARIANTS
  TypeOK
  ObserversMissOnlyLate
  TaskNumbersClashOnlyByOverlap
  PlanNeverLeft
  ViewsReconstructable
PROPERTIES
  StreamCatchesUp
  AdvancesEnd
CHECK_DEADLOCK FALSE
