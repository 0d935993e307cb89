SPECIFICATION FairSpec
CONSTANTS
  Thresholds <- Careful
  Full = 100
  Unit = 1
  RuntimeOn = 10
  RuntimeOff = 20
  LowAt = 10
  Decimal = FALSE
  Deadband = 60
INVARIANT SeparatedIsApart
PROPERTY FollowsMains
