SPECIFICATION LiveSpec
CONSTANTS
  MinRpm = 2000
  MaxRpm = 5400
  SupportsBho = TRUE
  SupportsBoost = TRUE
  SupportsLogo = TRUE
  Colors = {red}
  Requests <- LightRequests
  InitialFiles <- LightFiles
  InitialEcs <- MCInitialEcs
  ExperimentalModes = {TRUE, FALSE}
  FaultyLink = TRUE
  FlakySupply = FALSE
  SaveFails = TRUE
  LoadFails = FALSE
  Supplies = {"ac"}
  Crashes = FALSE
  AcceptFails = FALSE
  SingleRequestClients = FALSE
INVARIANTS
  BeliefMatchesEc
PROPERTIES
  WritesWithinPolicy
  SignalStops
