SPECIFICATION FairSpec
CONSTANTS
  v1 = v1
  v2 = v2
  Names = {"web_reader", "echo"}
  Natives = {"web_reader"}
  Calls = {"c1", "c2"}
  Installers = {v1, v2}
  Capabilities = {"log", "http"}
  Grants <- MCGrants
  Named <- MCNamed
  Asked <- MCAsked
  Attempts <- MCAttempts
  MaxCrashes = 1
CHECK_DEADLOCK FALSE
INVARIANTS StoredIsServed CutOffOnlyByTimeout
PROPERTIES LateGuestsEnd EveryCallReturns
