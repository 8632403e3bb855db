CONSTANTS
  a1 = a1  a2 = a2  bad = bad
  Addrs <- MCAddrs
  BadAddrs <- MCBadAddrs
  Datas = {"d"}
  GenesisData = "genesis"
  Amounts = {10, 30}
  Reward = 25
  MaxBlocks = 3
SPECIFICATION Spec
INVARIANT SendAddsBlock
