SPECIFICATION Spec
CONSTANTS
  Timers = {t1}
  RunIds = {1, 2, 3}
  SpecOf <- AllowTimer
  MaxAttempts = 3
  Backoff <- Doubling
  Closers = {}
  Reregistered = {}
  MaxTime = 3
  MaxReopens = 0
  MaxFaults = 0
PROPERTY RetryNeverDropped
CHECK_DEADLOCK FALSE
