SPECIFICATION Spec
CONSTANTS
  MinRpm = 2000
  MaxRpm = 5400
  SupportsBho = TRUE
  SupportsBoost = TRUE
  SupportsLogo = TRUE
  Colors = {}
  Machines <- MCMachines
  CpuTimes <- MCCpuTimes
  Daemons <- MCDaemons
INVARIANTS
  TypeOK
  DashboardTells
