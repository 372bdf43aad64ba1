SPECIFICATION FairSpec
CONSTANTS
  Turns = {t1, t2, t3}
  None = None
  Observes = TRUE
  MaxControls = 3
INVARIANTS
  TurnInv
  FinalOnce
  LiveTurnIsCurrent
  CheckpointSound
  CompressionExclusive
  SuccessorWaits
  TerminatedIsFenced
  KeptWhileObeyed
PROPERTY QueueDrains
CHECK_DEADLOCK FALSE
