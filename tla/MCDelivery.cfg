SPECIFICATION FairSpec
CONSTANTS
  Sessions = {s1}
  Upstream = {}
  Ordinary = Ordinary
  NoEvent = NoEvent
  MaxSeq = 2
  MaxFaults = 2
  MaxDrops = 2
  PageLimit = 1
INVARIANTS
  ForgetsOnlyConsumed
  SentIsCommitted
PROPERTIES
  EventuallyDrained
  ImplementsReliableStream
CHECK_DEADLOCK FALSE
