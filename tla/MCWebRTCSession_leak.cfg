SPECIFICATION Spec
CONSTANTS
  Cameras = {a}
  Streams = {h1, h2}
  Sessions = {s1}
  Calls = {k1}
  NoStream = noStream
  NoSession = noSession
  MaxCandidates = 0
  Remembered = 2
INVARIANT PeersAreAccountedFor
CHECK_DEADLOCK FALSE
