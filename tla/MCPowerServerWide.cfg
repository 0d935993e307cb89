SPECIFICATION Spec
CONSTANTS
  p1 = p1
  p2 = p2
  h1 = h1
  h2 = h2
  Loads <- TwoLoads
  ApiLoads <- TwoLoads
  Handlers <- TwoHandlers
  Requests <- OffAndHold
  Probed <- UpOrUnknown
  RequestTTL = 1
  ObsAgeCap = 1
  MaxNow = 2
SYMMETRY Symmetry
INVARIANTS
  TypeOK
  MapsGuarded
  DesiredIsSnapshot
PROPERTY
  Implements
