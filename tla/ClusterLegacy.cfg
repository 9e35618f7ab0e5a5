SPECIFICATION Spec
CONSTANTS
  Nodes = {"n1", "n2"}
  Leader = "n1"
  Timers = {"t1"}
  Workers = {"w1"}
  Moments = {m1, m2}
  Callers = {c1, c2}
  Requests <- AnyRequest
  Logs <- TwoNodes
  MaxAttempts = 2
  MaxRuns = 2
  MaxRequests = 2
  MaxFaults = 1
  MaxEvents = 3
SYMMETRY Alike
INVARIANTS TypeOK OneRunPerTimer ReplayKeepsClaims ReplayKeepsTimers EndedStaysEnded AnsweredIsOnMajority
PROPERTIES TokensGrow
CHECK_DEADLOCK FALSE
