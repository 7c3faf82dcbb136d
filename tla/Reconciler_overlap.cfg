CONSTANTS
  Declared <- Small
  Servers <- OneServer
  Env <- NoEnv
  Runs <- TwoRuns
  Seeds <- AnySmall
  MaxObjects = 5
  MaxTries = 2
  MaxDashboard = 1
  HonoursKey = TRUE
  Faults = {"timeout"}
  Scripts <- ApplyOrDestroy
  Overlap = TRUE
SPECIFICATION Spec
INVARIANTS AuditSound DependencyOrder NoDuplicates
CHECK_DEADLOCK FALSE
