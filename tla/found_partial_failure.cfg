SPECIFICATION Spec
CONSTANTS
  MinRpm = 2000
  MaxRpm = 5400
  SupportsBho = TRUE
  SupportsBoost = TRUE
  SupportsLogo = TRUE
  Colors = {red}
  Requests <- FanRequests
  InitialFiles <- NoFile
  InitialEcs <- MCInitialEcs
  ExperimentalModes = {TRUE}
  FaultyLink = TRUE
  FlakySupply = FALSE
  SaveFails = FALSE
  LoadFails = FALSE
  Supplies = {"ac"}
  Crashes = FALSE
  AcceptFails = FALSE
  SingleRequestClients = FALSE
INVARIANTS
  StoppedMeansAutomatic
