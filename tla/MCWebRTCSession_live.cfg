SPECIFICATION FairSpec
CONSTANTS
  Cameras = {a}
  Streams = {h1, h2, h3}
  Sessions = {s1, s2}
  Calls = {}
  NoStream = noStream
  NoSession = noSession
  MaxCandidates = 0
  Remembered = 1
INVARIANTS
  TypeOK
  PeersAreAccountedFor
PROPERTIES
  SlotsAreFreed
CHECK_DEADLOCK FALSE
