SPECIFICATION DispatchSpec
CONSTANTS
  None = None
  Msg = {m1, m2, m3, m4}
  Channel = {c1}
  Session = {s1}
  Limit = 2
SYMMETRY Symmetry
INVARIANTS
  DispatchTypeOK
  GateExact
  PendingExact
