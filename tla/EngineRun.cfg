SPECIFICATION LiveSpec
CONSTANTS
  h1 = h1
  c1 = c1
  Hosts = {h1}
  Commanders = {c1}
  MaxRuns = 2
  MaxAttempts = 2
  MaxFailures = 2
  MaxRedirects = 1
  Candidates = 2
  Assigned <- MCAssigned
  Paths <- MCPaths
  None = None
INVARIANTS RunsExclusive AttemptsSound
PROPERTIES RunsSettle
CHECK_DEADLOCK FALSE
