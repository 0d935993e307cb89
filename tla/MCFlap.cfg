SPECIFICATION Spec
CONSTANTS
  Thresholds <- Example
  Full = 100
  Unit = 5
  RuntimeOn = 10
  RuntimeOff = 20
  LowAt = 10
  Decimal = FALSE
  Deadband = 1
INVARIANT Apart
