CONSTANTS
  c1 = c1
  c2 = c2
  None = None
  Callers <- MCCallers
  DeadlineCallers = {c1}
  Methods <- MCMethodsUnresolved
  ArgKinds = {"good", "bad"}
  CanClose = TRUE
  Registered <- MCRegistered
  Failing <- MCFailing
  HandleTimeout = TRUE
  CanReset = TRUE

SPECIFICATION Spec
INVARIANT TypeOK
INVARIANT DoneAtMostOnce
INVARIANT ReturnMatchesResponse
INVARIANT AtMostOneResponse
PROPERTY CallFutureRefined
CHECK_DEADLOCK FALSE
