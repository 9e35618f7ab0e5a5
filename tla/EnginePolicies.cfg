SPECIFICATION Spec
CONSTANTS
  Timers = {t1}
  RunIds = {1, 2, 3}
  SpecOf <- AnyPolicy
  MaxAttempts = 2
  Backoff <- Growing
  Closers = {}
  Reregistered = {t1}
  MaxTime = 2
  MaxReopens = 1
  MaxFaults = 1
INVARIANTS TypeOK RunsHaveFunction RecurringNeverStalls NeverOversleeps NextRunIsQueued
CHECK_DEADLOCK FALSE
