SPECIFICATION FairSpec
CONSTANTS
  web = web
  blog = blog
  r1 = r1
  r2 = r2
  NoReq = NoReq
  Pkg <- OnePkg
  Instances <- None
  MaxVer = 1
  Req <- TwoReqs
  Ops <- Updates
  Overlap <- None
  MaxWrites = 0
  MaxFaults = 1
  MaxCrash = 2
  MaxUpdates = 1
INVARIANT StaleHasMarker
PROPERTIES RequestsFinish MarkerHandled
