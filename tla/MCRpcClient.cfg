CONSTANTS
  Callers = {c1, c2, c3, c4}
  MaxConcurrent = 2
  Budget = 4
  MaxRetries = 1
  Rate = 2
  TicksPerSecond = 3
  WindowLength = 2
SPECIFICATION RateSpec
INVARIANTS TypeOK Accounting NoLostWakeup RateBound
PROPERTY CallsReturn
