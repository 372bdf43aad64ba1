SPECIFICATION Spec
CONSTANTS
  e1 = e1
  e2 = e2
  Engines = {e1, e2}
  Schedules <- MCSilent
  Endings = {"completed", "failed"}
  Overlaps = {"skip", "queue"}
  MaxRuns = 2
  Cap = 2
  None = None
  Gone = Gone
INVARIANT ClockNeverStops
CHECK_DEADLOCK FALSE
