SPECIFICATION Spec
CONSTANTS
  MaxIndex = 3
  MaxTerm = 2
  SegmentMax = 2
  MaxCrashes = 2
INVARIANT CommittedIsKept
CHECK_DEADLOCK FALSE
