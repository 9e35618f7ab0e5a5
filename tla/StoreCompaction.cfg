SPECIFICATION Spec
CONSTANTS
  Size <- Varied
  MaxCrashes = 3
  MaxTorn = 1
  MaxErrors = 1
  MaxFails = 1
  FailSteps = {"unlink", "rename", "create", "reset", "reopen"}
  Cuts = {"bare", "fragment", "garbled"}
INVARIANTS TypeOK AckedRecoverable
PROPERTY IsAppendOnlyHistory
CHECK_DEADLOCK FALSE
