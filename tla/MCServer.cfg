SPECIFICATION Spec
CONSTANTS
  Loads <- OneLoad
  ApiLoads <- OneLoad
  RequestTTL = 1
  ObsAgeCap = 0
  UPS <- TwoUPS
  UPSOrder <- TwoUPSOrder
  LoadOrder <- OneLoadOrder
  LoadType <- ServerType
  GovernedBy <- ByBoth
  UPSConfigs <- TwoConfigs
  Vars <- FewVars
  StartupGrace = 1
  DryRun = FALSE
INVARIANTS
  TypeOK
  WakeInterlock
  ShedJustified
  ShedFollowsCritical
  RequestHonoured
PROPERTY
  WakeAfterRelease
