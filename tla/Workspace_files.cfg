CONSTANTS
  Resources <- AllResources
  Text <- AllText
  Refs <- AllRefs
  EnvValue <- EnvOf
  Urls <- AllUrls
  FirstPort <- Ports
  PasswordRef <- PasswordRefs
  Defaults <- CoolifyDefaults
  DefaultNetwork = "coolify"
  Procs <- Two
  NoFile = NoFile
  Garbage = Garbage
  Torn = Torn
  NoObject = NoObject
  Scenarios <- AllScenarios
  Drafts <- AllDrafts
  Knobs <- SomeKnobs
  Faults = {"crash", "io", "api"}
SPECIFICATION FairSpec
INVARIANTS TypeOK ManifestsAreWhole ReportedIsOnDisk EveryManifestCounts PasswordsStayReferences ApplySettles PlanForetells NoReferenceIsSent ImportedPlansClean
PROPERTIES ImportKeepsFiles OthersEditsSurvive CommandsEnd
CHECK_DEADLOCK FALSE
