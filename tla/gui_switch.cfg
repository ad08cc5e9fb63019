SPECIFICATION Spec
CONSTANTS
  Positions <- FanPositions
  Default = 3800
  Step = 50
  MaxWorkers = 2
  Overtaking = TRUE
  Disturbed = TRUE
INVARIANTS
  TypeOK
  TimerIsShown
  LastRequestIsShown
