SPECIFICATION LiveSpec
CONSTANTS
  Loads <- OneLoad
  ApiLoads <- OneLoad
  RequestTTL = 0
  ObsAgeCap = 0
  UPS <- OneUPS
  UPSOrder <- OneUPSOrder
  LoadOrder <- OneLoadOrder
  LoadType <- ServerType
  GovernedBy <- ServerByOne
  UPSConfigs <- OneConfig
  Vars <- FewVars
  StartupGrace = 1
  DryRun = FALSE
PROPERTY
  Converges
