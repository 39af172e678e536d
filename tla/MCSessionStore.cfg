SPECIFICATION StoreSpec
CONSTANTS
  None = None
  Corrupt = Corrupt
  Undecodable = Undecodable
  Torn = Torn
  Missing = Missing
  Worker = {w1, w2}
  Channel = {c1, c2}
  Session = {s1, s2}
  ReadErrors = FALSE
  TTL = 1
  MaxClock = 2
SYMMETRY Symmetry
INVARIANTS
  StoreTypeOK
  CacheMatchesDisk
PROPERTIES
  ReportedClearIsReal
  MapSpec
