SPECIFICATION FairSpec
CONSTANTS
  Steps = 2
  MaxBoots = 2
  MaxMounts = 1
  Calls = {1, 2}
  Checks = {1}
  maxEnvelope = 2
  baseBackoff = 1
  maxBackoff = 2
INVARIANTS DoneMeansSuccessor StepperFollows
PROPERTIES NotEvicted WatchEnds
CHECK_DEADLOCK FALSE
