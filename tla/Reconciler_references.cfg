CONSTANTS
  Declared <- Interpolated
  Servers <- OneServer
  Env <- EnvE
  Runs <- OneRun
  Seeds <- InE
  MaxObjects = 5
  MaxTries = 1
  MaxDashboard = 0
  HonoursKey = FALSE
  Faults = {}
  Scripts <- DestroyApp
  Overlap = FALSE
SPECIFICATION FairSpec
PROPERTIES GoneOnSuccess
CHECK_DEADLOCK FALSE
