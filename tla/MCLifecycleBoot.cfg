SPECIFICATION Spec
CONSTANTS
  web = web
  blog = blog
  r1 = r1
  r2 = r2
  NoReq = NoReq
  Pkg <- OnePkg
  Instances <- None
  MaxVer = 2
  Req <- OneReq
  Ops <- Recoveries
  Overlap <- PrefixOf
  MaxWrites = 1
  MaxFaults = 1
  MaxCrash = 2
  MaxUpdates = 0
INVARIANTS HandlerKnows RunningHasUnit  
PROPERTIES BootRestores PlainBootLeavesDisabledDown
