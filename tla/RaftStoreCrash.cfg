SPECIFICATION Spec
CONSTANTS
  MaxIndex = 3
  MaxTerm = 2
  SegmentMax = 2
  MaxCrashes = 2
INVARIANTS TypeOK LogIsContiguous AppliedOnce PurgedIsApplied
PROPERTIES RaftStateKept NothingResurrected
CHECK_DEADLOCK FALSE
