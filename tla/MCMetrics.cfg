SPECIFICATION Spec
CONSTANTS
  UPSOrder <- TheUPSes
  LoadOrder <- TheChassis
  LoadType <- TheTypes
  GovernedBy <- ByTheUPS
  Flags <- TheFlags
  Specs <- TheSpecs
  Names <- TheNames
  Readings <- TheReadings
  Requests = {"none", "off"}
  Scraped <- ChassisSeries
  Grace = TRUE
  DryRun = FALSE
  MaxTicks = 2
INVARIANTS
  TypeOK
  OneHotAtRest
  TelemetryIsLastGood
  HeartbeatIsHonest
  DecisionShown
  GraceShown
  ScrapeTruthful
CHECK_DEADLOCK FALSE
