SPECIFICATION Spec
CONSTANTS
  Positions <- FanPositions
  Default = 3800
  Step = 50
  MaxWorkers = 2
  Overtaking = FALSE
  Disturbed = FALSE
INVARIANTS
  RestMeansShown
