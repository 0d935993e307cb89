SPECIFICATION Spec
CONSTANTS
  Loads <- OneLoad
  ApiLoads <- OneLoad
  RequestTTL = 1
  ObsAgeCap = 0
  UPS <- OneUPS
  UPSOrder <- OneUPSOrder
  LoadOrder <- OneLoadOrder
  LoadType <- ServerType
  GovernedBy <- ServerByOne
  UPSConfigs <- OneConfig
  Vars <- FewVars
  StartupGrace = 1
  DryRun = FALSE
PROPERTY
  HoldPins
