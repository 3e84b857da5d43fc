SPECIFICATION FairFanSpec
CONSTANTS
  r = r
  a = a
  b = b
  a1 = a1
  Session <- MCNested
  Root = r
  Parent <- MCNestedParent
  Ceiling = 2
  Floor = 2
  IncreaseEvery = 2
  MaxSpans = 3
  MaxDepth = 2
  MaxParallel = 1
  MaxDetached = 1
  Timeouts = TRUE
  AbandonsTools = TRUE
INVARIANTS FanTypeOK GateAccounting NoOrphan
PROPERTIES ImplementsLimiter EveryChildSettles
