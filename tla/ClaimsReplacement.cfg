SPECIFICATION Spec
CONSTANTS
  Timers = {t1}
  Workers = {w1, w2}
  OneShot = {}
  Period = 1
  Lease = 1
  MaxAttempts = 2
  MaxRuns = 3
  MaxCreates = 1
  MaxLosses = 0
  MaxTime = 3
PROPERTY ReplacementIsReclaimed
CHECK_DEADLOCK FALSE
