SPECIFICATION FairSpec
CONSTANTS
  p1 = p1
  p2 = p2
  k1 = k1
  k2 = k2
  nosite = nosite
  NoChild = NoChild
  None = None
  Partial = Partial
  Absent = Absent
  Unsent = nosite
  Child = {k1, k2}
  Content <- SiteSets
  Port <- TwoPorts
  Slot = {1, 2}
  Desired <- Flips
  RetryCap = 1
  MaxDelay = 1
  MaxFaults = 0
  MaxDeaths = 2
  MaxWrites = 1
INVARIANTS TypeOK NoLostWakeup AppliesState
PROPERTY DeadIsReplaced
CHECK_DEADLOCK FALSE
