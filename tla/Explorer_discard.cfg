CONSTANTS
  a = a
  v = v
  Absent = Absent
  None = None
  Apps <- OneApp
  Others <- NoOther
  Vars <- OneVar
  Values <- TwoValues
  Typed <- OnlyOne
  Imported <- AllZero
  Stored <- Zeros
  Starts <- InBrowser
  InFlight = 2
SPECIFICATION FairSpec
PROPERTIES DiscardRestoresDisk
CHECK_DEADLOCK FALSE
