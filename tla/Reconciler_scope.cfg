CONSTANTS
  Declared <- SameName
  Servers <- TwoServers
  Env <- NoEnv
  Runs <- OneRun
  Seeds <- OnlyInF
  MaxObjects = 6
  MaxTries = 1
  MaxDashboard = 0
  HonoursKey = FALSE
  Faults = {}
  Scripts <- DestroyInE
  Overlap = FALSE
SPECIFICATION FairSpec
PROPERTIES ChangesStayInScope
CHECK_DEADLOCK FALSE
