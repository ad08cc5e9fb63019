SPECIFICATION PoliteSpec
CONSTANTS
  MinRpm = 2000
  MaxRpm = 5400
  SupportsBho = TRUE
  SupportsBoost = TRUE
  SupportsLogo = TRUE
  Colors = {red}
  Requests <- FanRequests
  InitialFiles <- FanFiles
  InitialEcs <- MCInitialEcs
  ExperimentalModes = {TRUE}
  FaultyLink = FALSE
  FlakySupply = TRUE
  SaveFails = FALSE
  LoadFails = FALSE
  Supplies = {"ac", "battery"}
  Crashes = FALSE
  AcceptFails = TRUE
  SingleRequestClients = TRUE
INVARIANTS
  TypeOK
  BeliefMatchesEc
  StoppedMeansAutomatic
PROPERTIES
  NeitherResetsTheOther
  AutomationFollows
  SettingsReachFile
