CONSTANTS
  c1 = c1
  c2 = c2
  None = None
  Callers <- MCCallers
  DeadlineCallers = {c1, c2}
  Methods <- MCMethodsSum
  ArgKinds = {"good"}
  CanClose = FALSE
  Registered <- MCRegistered
  Failing <- MCFailing
  HandleTimeout = FALSE
  CanReset = FALSE

SPECIFICATION Spec
PROPERTY NoReplyWriteAfterReturn
CHECK_DEADLOCK FALSE
