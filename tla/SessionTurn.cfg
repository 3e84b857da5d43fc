SPECIFICATION SessionSpec
CONSTANTS
  Keep = 6
  MaxTurns = 3
  MaxSteps = 1
  MaxRewinds = 3
  MaxShrinks = 1
  MaxGoalSaves = 1
  MaxCrashes = 1
CHECK_DEADLOCK FALSE
INVARIANTS SessionTypeOK RequestIsValid ContextMatchesTree
PROPERTIES RedoIsExact
