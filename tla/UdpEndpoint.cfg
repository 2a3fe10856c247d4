SPECIFICATION LiveSpec
CONSTANTS
  c1 = c1
  c2 = c2
  k1 = k1
  k2 = k2
  Clients = {c1, c2}
  Requests = {k1, k2}
  Invites = {c1, k1}
  QueueLen = 1
  MaxClients = 1
  MaxServers = 1
  Workloads <- MCWorkloads
  None = None
INVARIANTS DeliveredOnce
PROPERTIES ClosesCleanly LossRecovered
CHECK_DEADLOCK FALSE
