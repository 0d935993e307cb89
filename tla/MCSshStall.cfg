SPECIFICATION FairSpec
CONSTANTS
  c1 = c1
  c2 = c2
  s = s
  Loads <- AllLoads
  Chassis <- TheChassis
  Plan <- ThePlan
PROPERTY EveryActionCounted
CHECK_DEADLOCK FALSE
