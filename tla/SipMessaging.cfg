\* The limits of the codec are a small fraction of the code's.
CONSTANTS
  None = None
  LocalFamily = 4
  Gsm7 <- MCGsm7
  MaxSeptets = 16
  SegmentSeptets = 9
  MaxUnits = 7
  SegmentUnits = 4
  MaxOctets = 14
  MaxParts = 3
  Senders = {a, b}
  Ackers = {k1, k2}
  Refresher = r
  Scenarios <- MCScenarios
  Grants <- MCGrants
  Requested = 4
  QueueCap = 1
  BufferSize = 2
  MaxCSeq = 4
SPECIFICATION LiveSpec
INVARIANTS SMSSentWhole SMSStored RefreshSound
PROPERTIES CallersReturn
CHECK_DEADLOCK FALSE
