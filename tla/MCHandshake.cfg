CONSTANTS
  Modes <- MCModes
  ClientCodecs <- MCClientCodecs
  ConnectTimeouts = {TRUE, FALSE}
  DialCanFail = TRUE
  AcceptCanFail = TRUE
  RawPeer = TRUE
  MaxReqs = 3
  None = None
SPECIFICATION Spec
PROPERTY DialReturns
CHECK_DEADLOCK FALSE
