SPECIFICATION FairEngineSpec
CONSTANTS
  g = g
  h = h
  NoGoal = NoGoal
  Goal = {g}
  MaxRounds = 1
  MaxGate = 1
  MaxReview = 1
  MaxIdle = 1
  MaxNudges = 1
  MaxTicks = 2
  PlanFirst = FALSE
  IdleHook = TRUE
  Denies = TRUE
  Stalls = TRUE
  MaxInputs = 2
CHECK_DEADLOCK FALSE
 
PROPERTIES EngineSettles
