CONSTANTS
  c1 = c1
  c2 = c2
  Conn = {c1, c2}
  Impatient = {c1, c2}
  NSteps = 3
  BufSize = 1
SYMMETRY ConnSymmetry
SPECIFICATION Spec
INVARIANT NeverPanics
CHECK_DEADLOCK FALSE
