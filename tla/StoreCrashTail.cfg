SPECIFICATION Spec
CONSTANTS
  Size <- Similar
  MaxCrashes = 2
  MaxTorn = 1
  MaxErrors = 0
  MaxFails = 0
  FailSteps = {}
  Cuts = {"fragment"}
INVARIANT NeverRefuses
CHECK_DEADLOCK FALSE
