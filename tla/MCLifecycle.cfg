SPECIFICATION Spec
CONSTANTS
  web = web
  blog = blog
  r1 = r1
  r2 = r2
  NoReq = NoReq
  Pkg <- OnePkg
  Instances <- None
  MaxVer = 2
  Req <- TwoReqs
  Ops <- Operations
  Overlap <- PrefixOf
  MaxWrites = 1
  MaxFaults = 1
  MaxCrash = 0
  MaxUpdates = 0
SYMMETRY Symmetric
INVARIANTS Serialised UnitHasRecord NothingLost OneVersionRuns
