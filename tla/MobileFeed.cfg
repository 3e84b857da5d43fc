SPECIFICATION FairMobileSpec
CONSTANTS
  Ring = 2
  Buffer = 2
  MaxEvents = 6
  MaxHosts = 2
  MaxFaults = 3
CHECK_DEADLOCK FALSE
INVARIANTS MobileTypeOK
PROPERTIES  CatchesUp
