CONSTANTS
  Starters = {s1, s2}
  Closers = {c1, c2}
  Operations = {o1}
  UserspaceNetwork = TRUE
  None = None
  Network = Network
SPECIFICATION LiveSpec
INVARIANTS TypeOK LeasePinned ClosedIsFinal CloseReleasesAll
PROPERTIES GateSpec CloseTerminates
