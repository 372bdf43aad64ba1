SPECIFICATION Spec
CONSTANTS
  Tenants = {t1, t2}
  MaxAttempts = 3
  None = None
INVARIANT NoParallelRuntime
CHECK_DEADLOCK FALSE
