SPECIFICATION DeviceSpec
CONSTANTS
  Sessions = {s1}
  Upstream = {u1}
  Ordinary = Ordinary
  NoEvent = NoEvent
  MaxSeq = 3
  MaxFaults = 1
  MaxDrops = 1
  PageLimit = 1
  MaxReplays = 1
  m1 = m1
  m2 = m2
  one = one
  None = None
SYMMETRY Twins
INVARIANTS
  DeliverySound
  ConnectionSound
  CallsSound
  ProvisionSound
  SkillsSound
  StopSound
  AdaptersSound
CHECK_DEADLOCK FALSE
