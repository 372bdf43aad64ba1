SPECIFICATION OutSpec
CONSTANTS
  Sessions = {s1, s2}
  Upstream = {u1, u2}
  Ordinary = Ordinary
  NoEvent = NoEvent
  MaxSeq = 3
  MaxFaults = 2
INVARIANTS
  OutInv
  WatermarkBehindStream
  NothingEvicted
  ReplayIsDurable
  NextNumberUnused
  NoUnexplainedGap
  ObservedOnce
PROPERTY WatermarkMonotone
CHECK_DEADLOCK FALSE
