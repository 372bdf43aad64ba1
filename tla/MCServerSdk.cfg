SPECIFICATION Spec
CONSTANTS
  MaxSockets = 1
  MaxFrames = 2
  MaxCalls = 0
INVARIANT ForgottenWasHandled
CHECK_DEADLOCK FALSE
