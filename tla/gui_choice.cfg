SPECIFICATION Spec
CONSTANTS
  Controls <- AllControls
  MaxWorkers = 2
INVARIANTS
  TypeOK
  LastRequestIsShown
  RestShowsSetting
  AppliedIsActive
