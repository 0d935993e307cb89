SPECIFICATION Spec
CONSTANTS
  Thresholds <- Rising
  Full = 100
  Unit = 5
  RuntimeOn = 10
  RuntimeOff = 20
  LowAt = 10
  Decimal = TRUE
  Deadband = 1
INVARIANT HealthyIsRecharged
