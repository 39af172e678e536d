SPECIFICATION ForgetSpec
CONSTANTS
  None = None
  Msg = {m1, m2, m3}
  Channel = {c1}
  Session = {s1, s2}
  Limit = 2
SYMMETRY Symmetry
INVARIANTS
  EndedStaysEnded
