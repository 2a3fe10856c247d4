\* A window of two numbers out of three stands for 64 out of 2^32 - 1.
CONSTANTS
  WindowSize = 2
  Word = 2
  Family = 6
  MaxSets = 2
  MaxBlocks = 4
  Senders = {s1, s2}
  Scenarios <- MCScenarios
  MaxSeq = 3
  Mtu = 2
  QueueSize = 1
SPECIFICATION LiveSpec
INVARIANTS SendsProtected FragmentsWhole
PROPERTIES ReceivesOnce CloseTerminates
CHECK_DEADLOCK FALSE
