SPECIFICATION LiveSpec
CONSTANTS
  Loads <- OneChassis
  ApiLoads <- OneChassis
  RequestTTL = 1
  ObsAgeCap = 0
  UPS <- OneUPS
  UPSOrder <- OneUPSOrder
  LoadOrder <- OneChassisOrder
  LoadType <- ChassisType
  GovernedBy <- ChassisByOne
  UPSConfigs <- OneConfig
  Vars <- FewVars
  StartupGrace = 1
  DryRun = FALSE
PROPERTY
  Converges
