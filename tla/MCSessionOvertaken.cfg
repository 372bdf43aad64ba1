SPECIFICATION Spec
CONSTANTS
  Turns = {t1, t2, t3}
  None = None
  Observes = FALSE
  MaxControls = 2
INVARIANT RunningIsReported
CHECK_DEADLOCK FALSE
