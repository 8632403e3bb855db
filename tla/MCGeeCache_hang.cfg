CONSTANTS
  n1 = n1  n2 = n2  k1 = k1  k2 = k2  v1 = v1  v2 = v2
  None = None
  Nodes <- MCNodes
  Keys <- MCKeys
  Vals <- MCVals
  KeyLen <- MCKeyLen
  ValLen <- MCValLenVaried
  CacheBytes = 2
  Source <- MCSourceVaried
  Peers <- MCPeers
  Replicas = 2
  VHash <- MCVHash
  KHash <- MCKHash
  PeerCanFail = FALSE
  MaxClientGets = 2
  MaxReqs = 4
SPECIFICATION Spec
INVARIANT AddReturns
CHECK_DEADLOCK FALSE
