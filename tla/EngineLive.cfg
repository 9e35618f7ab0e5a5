SPECIFICATION FairSpec
CONSTANTS
  Timers = {t1}
  RunIds = {1, 2, 3, 4, 5}
  SpecOf <- EachPolicy
  MaxAttempts = 2
  Backoff <- Immediate
  Closers = {c1}
  Reregistered = {}
  MaxTime = 2
  MaxReopens = 0
  MaxFaults = 1
INVARIANTS ActiveRunsCounted ShutdownWaits SkipNeverOverlaps DelayNeverOverlaps RetryIsQueued AttemptTracked
PROPERTIES DueRunBegins ShutdownReturns
CHECK_DEADLOCK FALSE
