CONSTANTS
  Modes <- MCModes
  ClientCodecs <- MCClientCodecs
  ConnectTimeouts = {FALSE}
  DialCanFail = FALSE
  AcceptCanFail = FALSE
  RawPeer = FALSE
  MaxReqs = 2
  None = None
SPECIFICATION Spec
INVARIANT NoRequestSwallowed
CHECK_DEADLOCK FALSE
