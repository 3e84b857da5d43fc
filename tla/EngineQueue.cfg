SPECIFICATION EngineSpec
CONSTANTS
  g = g
  h = h
  NoGoal = NoGoal
  Goal = {g}
  MaxRounds = 1
  MaxGate = 1
  MaxReview = 0
  MaxIdle = 0
  MaxNudges = 0
  MaxTicks = 1
  PlanFirst = TRUE
  IdleHook = TRUE
  Denies = TRUE
  Stalls = FALSE
  MaxInputs = 4
CHECK_DEADLOCK FALSE
INVARIANTS EngineTypeOK IdleIsEmpty StoppedRunIsSwept
PROPERTIES GoalTurnLeavesDriver
