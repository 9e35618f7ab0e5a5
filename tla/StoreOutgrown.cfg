SPECIFICATION Spec
CONSTANTS
  Size <- Similar
  MaxCrashes = 1
  MaxTorn = 0
  MaxErrors = 0
  MaxFails = 0
  FailSteps = {}
  Cuts = {}
INVARIANT AckedIsDurable
CHECK_DEADLOCK FALSE
