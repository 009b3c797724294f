CONSTANTS
  c1 = c1
  c2 = c2
  Conn = {c1, c2}
  Impatient = {c1, c2}
  NSteps = 3
  BufSize = 1
SPECIFICATION FairSpec
INVARIANT StreamIsHistory
PROPERTIES PublishReturns StreamsEnd
CHECK_DEADLOCK FALSE
