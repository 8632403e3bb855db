CONSTANTS
  c1 = c1
  c2 = c2
  None = None
  Callers <- MCCallers
  DeadlineCallers = {}
  Methods <- MCMethodsSum
  ArgKinds = {"good"}
  CanClose = TRUE
  Registered <- MCRegistered
  Failing <- MCFailing
  HandleTimeout = TRUE
  CanReset = FALSE

SPECIFICATION Spec
INVARIANT ClosedAfterDispatches
CHECK_DEADLOCK FALSE
