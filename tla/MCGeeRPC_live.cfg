CONSTANTS
  c1 = c1
  c2 = c2
  None = None
  Callers <- MCCallers
  DeadlineCallers = {c1}
  Methods <- MCMethodsSum
  ArgKinds = {"good"}
  CanClose = TRUE
  Registered <- MCRegistered
  Failing <- MCFailing
  HandleTimeout = TRUE
  CanReset = TRUE

SPECIFICATION Spec
PROPERTY AllCallsReturn
PROPERTY ServerEventuallyCloses
CHECK_DEADLOCK FALSE
