CONSTANTS
  a1 = a1
  a2 = a2
  c1 = c1
  c2 = c2
  None = None
  Addrs <- MCAddrs
  Callers <- MCCallers
  Down <- MCDown
  MaxServers = 2
  InitIndexBound = 0
  RRBound = 1
  MaxClients = 3
  FailAddrs = {}
  CanDie = TRUE
  CanUpdate = TRUE
  CanBroadcast = TRUE
  CanClose = TRUE

SPECIFICATION Spec
INVARIANT TypeOK
INVARIANT NoClientLeak
INVARIANT BroadcastResult
CHECK_DEADLOCK FALSE
