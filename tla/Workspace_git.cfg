CONSTANTS
  Resources <- AllResources
  Text <- AllText
  Refs <- AllRefs
  EnvValue <- EnvOf
  Urls <- AllUrls
  FirstPort <- Ports
  PasswordRef <- PasswordRefs
  Defaults <- CoolifyDefaults
  DefaultNetwork = "coolify"
  Procs <- Two
  NoFile = NoFile
  Garbage = Garbage
  Torn = Torn
  NoObject = NoObject
  Scenarios <- GitTwice
  Drafts <- AllDrafts
  Knobs <- SomeKnobs
  Faults = {}
SPECIFICATION Spec
INVARIANTS SecondApplyDoesNothing
CHECK_DEADLOCK FALSE
