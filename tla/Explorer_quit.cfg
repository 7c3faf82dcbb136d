CONSTANTS
  a = a
  v = v
  Absent = Absent
  None = None
  Apps <- OneApp
  Others <- NoOther
  Vars <- OneVar
  Values <- TwoValues
  Typed <- TwoValues
  Imported <- AllZero
  Stored <- Zeros
  Starts <- InBrowser
  InFlight = 2
SPECIFICATION HistorySpec
INVARIANTS QuitAsksFirst
CHECK_DEADLOCK FALSE
