SPECIFICATION Spec
CONSTANTS
  UPSOrder <- TheUPSes
  LoadOrder <- TheServer
  LoadType <- TheTypes
  GovernedBy <- ByTheUPS
  Flags <- TheFlags
  Specs <- TheSpecs
  Names <- TheNames
  Readings <- TheReadings
  Requests = {"none", "off"}
  Scraped <- NoSeries
  Grace = TRUE
  DryRun = FALSE
  MaxTicks = 2
INVARIANTS
  TypeOK
  OneHotAtRest
  TelemetryIsLastGood
  HeartbeatIsHonest
  DecisionShown
  GraceShown
CHECK_DEADLOCK FALSE
