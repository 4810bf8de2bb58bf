SPECIFICATION FairSpec
CONSTANTS
  Generations = {g1, g2, g3}
  NoGeneration = none
  MaxFailures = 5
  Tries = 3
INVARIANTS
  TypeOK
  OneManager
  ManagerServesItsEntry
PROPERTIES
  CancelledManagersEnd
  LoadedEntryListens
  FlappingEndsInReload
CHECK_DEADLOCK FALSE
