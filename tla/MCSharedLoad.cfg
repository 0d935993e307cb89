SPECIFICATION SharedSpec
CONSTANTS
  Loads <- TheServer
  ApiLoads <- TheServer
  RequestTTL = 2
  ObsAgeCap = 0
  UPS <- TheUPS
  UPSOrder <- TheUPSOrder
  LoadOrder <- TheOrder
  LoadType <- ServerType
  GovernedBy <- ByUPS
  UPSConfigs <- Config
  Vars <- TwoReadings
  StartupGrace = 3
  DryRun = FALSE
  Gap = 1
  Slack = 1
INVARIANT CallerIsHeeded
