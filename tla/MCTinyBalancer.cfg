CONSTANTS
  h1 = h1  h2 = h2  r1 = r1  r2 = r2
  None = None
  Hosts <- MCHosts
  HostList <- MCHostList
  Algorithms <- MCAlgorithms
  IdxPeriod = 2
  Keys <- MCKeys
  Crc <- MCCrc
  CrcSalt <- MCCrcSalt
  Reqs <- MCReqs
  LoadBits = 2
  MaxFlips = 3
SPECIFICATION Spec
INVARIANT LoadNotOvercounted RoundRobinCoversMembers
PROPERTY HealthConverges
