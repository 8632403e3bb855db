CONSTANTS
  a1 = a1
  a2 = a2
  None = None
  Addrs <- MCAddrs
  MaxServers = 2
  InitIndexBound = 1
  RRBound = 2
  TTL = 2
  Interval = 1
  MaxDelay = 1
  MaxCrashes = 1
  Timeout = 1

SPECIFICATION Spec
INVARIANT RoundRobinBalanced
INVARIANT LiveServerListed
PROPERTY RunningServerDiscovered
INVARIANT DeadServerDropped
