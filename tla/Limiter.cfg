SPECIFICATION FairSpec
CONSTANTS
  s1 = s1
  s2 = s2
  s3 = s3
  Session <- MCSession
  Ceiling = 3
  Floor = 1
  IncreaseEvery = 2
  MaxSpans = 2
  AbandonsTools = TRUE
INVARIANTS TypeOK Conservation NoIdleCapacity
PROPERTIES AbortedIsNotAdmitted NoOvertaking QueuedIsServed
