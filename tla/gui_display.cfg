SPECIFICATION LiveSpec
CONSTANTS
  Listings <- MCListings
  Adapters <- MCAdapters
  MaxWorkers = 1
INVARIANTS
  TypeOK
  RestRate
PROPERTIES
  RuleFollows
