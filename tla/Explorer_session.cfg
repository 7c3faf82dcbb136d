CONSTANTS
  a = a
  v = v
  Absent = Absent
  None = None
  Apps <- OneApp
  Others <- NoOther
  Vars <- OneVar
  Values <- TwoValues
  Typed <- OnlyOne
  Imported <- AllZero
  Stored <- Zeros
  Starts <- AnyStart
  InFlight = 2
SPECIFICATION FairSpec
INVARIANTS TypeOK
PROPERTIES SavesWhatIsShown EditsLeaveWhenSaved OverwriteNeedsConsent LoadingEnds SyncEnds
CHECK_DEADLOCK FALSE
