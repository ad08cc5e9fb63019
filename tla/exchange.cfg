SPECIFICATION LiveSpec
CONSTANTS
  MinRpm = 2000
  MaxRpm = 5400
  SupportsBho = TRUE
  SupportsBoost = TRUE
  SupportsLogo = TRUE
  Colors = {red}
  Jobs <- MCJobs
  InitialEcs <- MCInitialEcs
  KeepsOldReply = FALSE
  Noise <- OneEach
INVARIANTS
  TypeOK
  AcknowledgedMeansExecuted
  TransientsSurvive
PROPERTIES
  ImplementsLink
  OperationEnds
