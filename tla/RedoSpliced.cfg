SPECIFICATION SessionSpec
CONSTANTS
  Keep = 6
  MaxTurns = 3
  MaxSteps = 1
  MaxRewinds = 4
  MaxShrinks = 0
  MaxGoalSaves = 0
  MaxCrashes = 0
CHECK_DEADLOCK FALSE
PROPERTIES RedoDetectsMutation
