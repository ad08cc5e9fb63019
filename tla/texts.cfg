SPECIFICATION Spec
CONSTANTS
  MinRpm = 2000
  MaxRpm = 5400
  SupportsBho = TRUE
  SupportsBoost = TRUE
  SupportsLogo = TRUE
  Colors <- MCColors
  Numerals <- MCNumerals
  Hexes <- MCHexes
  CommandLines <- MCCommandLines
  Enumerations <- MCEnumerations
  Laptop = "1532:029d"
  HidrawBuild = TRUE
  FirstFiles <- MCFirstFiles
  Lines <- MCLines
  MaxChanges = 1
INVARIANTS
  TypeOK
  FileTellsSettings
PROPERTIES
  AcceptedIsShown
