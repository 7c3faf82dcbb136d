CONSTANTS
  Declared <- Small
  Servers <- OneServer
  Env <- NoEnv
  Runs <- OneRun
  Seeds <- Empty
  MaxObjects = 5
  MaxTries = 1
  MaxDashboard = 0
  HonoursKey = FALSE
  Faults = {"audit"}
  Scripts <- OneApply
  Overlap = FALSE
SPECIFICATION Spec
INVARIANTS PartialIsTwo
CHECK_DEADLOCK FALSE
