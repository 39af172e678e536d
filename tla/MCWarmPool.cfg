SPECIFICATION PoolSpec
CONSTANTS
  None = None
  Proc = {p1, p2, p3, p4}
  Key = {k1, k2}
  Session = {s1, s2, s3}
  WarmEnabled = TRUE
  Capacity = 2
SYMMETRY Symmetry
INVARIANTS
  OneParkedPerConversation
  SlotTellsTheTruth
  TimersMatchIdle
  WithinCapacity
PROPERTIES
  EvictsOldestOnly
