SPECIFICATION Spec
CONSTANTS
  None = None
  Shutdown = Shutdown
  Proc = {p1, p2}
  Key = {k1}
  Session = {s1, s2}
  Job = {j1, j2}
  WarmEnabled = TRUE
  Capacity = 1
  Unkillable = {}
SYMMETRY Symmetry
INVARIANTS
  TimeoutSparesOthers
