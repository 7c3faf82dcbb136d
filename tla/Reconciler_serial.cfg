CONSTANTS
  Declared <- Stores
  Servers <- TwoServers
  Env <- NoEnv
  Runs <- TwoRuns
  Seeds <- AnyStore
  MaxObjects = 7
  MaxTries = 2
  MaxDashboard = 1
  HonoursKey = FALSE
  Faults = {"crash", "refuse", "audit"}
  Scripts <- ApplyOrDestroy
  Overlap = FALSE
SPECIFICATION Spec
INVARIANTS SecondApplyIsNoOp
PROPERTIES ConvergedOnSuccess GoneOnSuccess
CHECK_DEADLOCK FALSE
