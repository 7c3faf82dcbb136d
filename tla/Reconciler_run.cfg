CONSTANTS
  Declared <- Stack
  Servers <- OneServer
  Env <- NoEnv
  Runs <- OneRun
  Seeds <- AnySeed
  MaxObjects = 7
  MaxTries = 2
  MaxDashboard = 0
  HonoursKey = FALSE
  Faults = {"timeout", "crash", "unreachable", "refuse", "audit"}
  Scripts <- OneOfAll
  Overlap = FALSE
SPECIFICATION FairSpec
INVARIANTS TypeOK UnauditedAtMostOne AuditSound ChangesAreApproved ExitCodeBounds
PROPERTIES RunsEnd RunsAreOrdered ChangesStayInScope
CHECK_DEADLOCK FALSE
