SPECIFICATION Spec
CONSTANTS
  Engines = {e1, e2}
  Home = e1
  Nodes = {n1, n2, n3}
  Lead = n1
  e1 = e1
  e2 = e2
  n1 = n1
  n2 = n2
  n3 = n3
  Deps <- MCDeps
  Plans <- MCGraph
  Decisions <- MCDecisions
  Named = {n2}
  MaxRuns = 3
  MaxCalls = 2
  None = None
  Gone = Gone
PROPERTY CompletedStays
CHECK_DEADLOCK FALSE
