SPECIFICATION FairLinkSpec
CONSTANTS
  MaxSockets = 3
  MaxFaults = 3
  MaxActs = 2
CHECK_DEADLOCK FALSE
INVARIANTS LinkTypeOK NoDeafController WaiterIsOwn
PROPERTIES Reattaches
