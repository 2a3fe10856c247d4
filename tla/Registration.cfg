\* Three rounds and three variants stand for the code's six and five.
CONSTANTS
  LocalFamily = 6
  None = None
  Configs <- MCConfigs
  Servers <- MCServers
  Grants <- MCGrants
  Statuses = {100, 403, 408, 500}
  Requested = 4
  MaxRounds = 3
  MaxVariants = 3
  MaxInbox = 2
SPECIFICATION LiveSpec
INVARIANTS SessionConsistent SecurityAgreed
PROPERTIES RequestsNumbered RegistrationEnds
CHECK_DEADLOCK FALSE
