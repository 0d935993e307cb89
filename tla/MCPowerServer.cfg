SPECIFICATION FairSpec
CONSTANTS
  p1 = p1
  p2 = p2
  h1 = h1
  h2 = h2
  Loads <- TwoLoads
  ApiLoads <- OneLoad
  Handlers <- TwoHandlers
  Requests <- OffAndHold
  Probed <- OnlyUnknown
  RequestTTL = 1
  ObsAgeCap = 1
  MaxNow = 2
INVARIANTS
  MapsGuarded
  DesiredIsSnapshot
PROPERTIES
  Implements
  CallsReturn
