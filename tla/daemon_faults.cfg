SPECIFICATION Spec
CONSTANTS
  MinRpm = 2000
  MaxRpm = 5400
  SupportsBho = TRUE
  SupportsBoost = TRUE
  SupportsLogo = TRUE
  Colors = {red}
  Requests <- FaultRequests
  InitialFiles <- HandEditedFiles
  InitialEcs <- SettledEcs
  ExperimentalModes = {TRUE}
  FaultyLink = TRUE
  FlakySupply = FALSE
  SaveFails = TRUE
  LoadFails = TRUE
  Supplies = {"ac"}
  Crashes = TRUE
  AcceptFails = FALSE
  SingleRequestClients = FALSE
INVARIANTS
  IInv
  FailsafeHolds
  FileInSync
PROPERTIES
  WritesWithinPolicy
  TargetOnlyWhenManual
  UsesLink
