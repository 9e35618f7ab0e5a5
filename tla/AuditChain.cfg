SPECIFICATION Spec
CONSTANTS
  Requests = {q1, q2, q3, q4}
  Outcomes = {"ok", "error", "forbidden"}
  NoRequest = none
  MaxCrashes = 2
  MaxErrors = 1
SYMMETRY Symmetry
INVARIANTS TypeOK ChainVerifies AnsweredIsRecorded ChangeIsDetected
CHECK_DEADLOCK FALSE
