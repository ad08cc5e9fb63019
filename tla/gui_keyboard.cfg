SPECIFICATION LiveSpec
CONSTANTS
  Levels <- MCLevels
  Shipped <- MCShipped
  Fallback = 60
  MaxTicks = 1
  Faults = {"refused", "lost", "unreachable", "closed", "change"}
CONSTRAINT UntilAMishap
INVARIANTS
  TypeOK
  DarkIsRemembered
  LitAsRuled
  RowIsKept
PROPERTIES
  LightsReturn
