SPECIFICATION Spec
CONSTANTS
  Engines = {e1, e2}
  Nodes = {n1, n2, n3}
  Lead = n1
  e1 = e1
  e2 = e2
  n1 = n1
  n2 = n2
  n3 = n3
  Deps <- MCDeps
  Plans <- MCPlans
  Decisions <- MCDecisions
  Home = e1
  Named = {n2}
  MaxRuns = 3
  MaxCalls = 2
  None = None
  Gone = Gone
INVARIANTS OneExecutor LeaseIsWork
PROPERTIES NothingRepeated TerminalHolds FencedSends NothingStranded
CHECK_DEADLOCK FALSE
