CONSTANTS
  n1 = n1  n2 = n2  k1 = k1  k2 = k2  v1 = v1  v2 = v2
  None = None
  Nodes <- MCNodes
  Keys <- MCKeys
  Vals <- MCVals
  KeyLen <- MCKeyLen
  ValLen <- MCValLen
  CacheBytes = 2
  Source <- MCSource
  Peers <- MCPeers
  Replicas = 2
  VHash <- MCVHash
  KHash <- MCKHash
  PeerCanFail = TRUE
  MaxClientGets = 2
  MaxReqs = 4
SPECIFICATION Spec
INVARIANT OneLoadPerKey
INVARIANT CachesConsistent
INVARIANT PeerIsSuccessor
PROPERTY GetReturns
CHECK_DEADLOCK FALSE
