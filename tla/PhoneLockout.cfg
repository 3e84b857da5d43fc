SPECIFICATION FairLinkSpec
CONSTANTS
  MaxSockets = 4
  MaxFaults = 1
  MaxActs = 2
CHECK_DEADLOCK FALSE
PROPERTIES AlwaysReattaches
