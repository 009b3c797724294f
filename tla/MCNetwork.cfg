SPECIFICATION Spec
CONSTANTS
  p1 = p1
  p2 = p2
  k1 = k1
  k2 = k2
  nosite = nosite
  NoChild = NoChild
  None = None
  Partial = Partial
  Absent = Absent
  Unsent = nosite
  Child = {k1, k2}
  Content <- SiteSets
  Port <- TwoPorts
  Slot = {1, 2}
  Desired <- Moves
  RetryCap = 1
  MaxDelay = 1
  MaxFaults = 1
  MaxDeaths = 1
  MaxWrites = 2
INVARIANTS NoOrphans FollowsFile OneChild
CHECK_DEADLOCK FALSE
