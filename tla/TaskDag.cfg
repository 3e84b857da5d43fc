SPECIFICATION FairDagSpec
CONSTANTS
  a = a
  b = b
  c = c
  d = d
  e = e
  Task <- MCTask
  Deps <- MCDeps
  Lossy = TRUE
  MaxSubmits = 2
  MaxRuns = 2
CHECK_DEADLOCK FALSE
INVARIANTS DagTypeOK SkippedForCause NoStaleInput 
PROPERTIES ImplementsPlan PlanReturns
