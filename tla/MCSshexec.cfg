SPECIFICATION FairSpec
CONSTANTS
  c1 = c1
  c2 = c2
  s = s
  Loads <- AllLoads
  Chassis <- TheChassis
  Plan <- ThePlan
INVARIANT ReportTruthful
PROPERTY OnlySilenceStalls
CHECK_DEADLOCK FALSE
