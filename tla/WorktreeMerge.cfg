SPECIFICATION FairMergeSpec
CONSTANTS
  a = a
  b = b
  c = c
  f = f
  g = g
  x = x
  x2 = x2
  y = y
  head = head
  Task <- MCTask
  Deps <- MCDeps
  File <- MCFile
  Blob <- MCBlob
  Base <- head
  Wrote <- MCWrote
  Isolated = {a, b}
  Checked = {a, c}
  Reviewed = {a}
  Attempts <- MCAttempts
  MayDegrade = TRUE
  Interrupts = TRUE
  MaxCrashes = 1
CHECK_DEADLOCK FALSE
INVARIANTS MergeTypeOK StagedIsAccounted 
PROPERTIES GateSeesOneTree ImplementsLedger EveryTaskSettles
