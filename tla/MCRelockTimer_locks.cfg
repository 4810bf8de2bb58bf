SPECIFICATION FairSpec
CONSTANTS
  Doors = {door}
  Lights = {light}
  Calls = {c1, c2, c3, c4}
  NoCall = noCall
INVARIANTS
  TypeOK
  DoorsKnowTheirTimer
PROPERTIES
  PollsAreHeardAgain
CHECK_DEADLOCK FALSE
