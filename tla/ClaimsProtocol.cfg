SPECIFICATION FairSpec
CONSTANTS
  Timers = {t1}
  Workers = {w1, w2}
  OneShot = {}
  Period = 1
  Lease = 1
  MaxAttempts = 2
  MaxRuns = 3
  MaxCreates = 2
  MaxLosses = 1
  MaxTime = 2
PROPERTIES RunEndsOnce LeaseIsReclaimed
INVARIANTS TypeOK OneActiveRunPerTimer OneLiveHolder StaleHolderFenced
CHECK_DEADLOCK FALSE
