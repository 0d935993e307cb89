SPECIFICATION Spec
CONSTANTS
  Loads <- TwoLoads
  ApiLoads = {}
  RequestTTL = 1
  ObsAgeCap = 0
  UPS <- OneUPS
  UPSOrder <- OneUPSOrder
  LoadOrder <- TwoLoadsOrder
  LoadType <- MixedTypes
  GovernedBy <- ByOne
  UPSConfigs <- OneConfig
  Vars <- HoldVars
  StartupGrace = 1
  DryRun = TRUE
PROPERTY
  DryRunInert
