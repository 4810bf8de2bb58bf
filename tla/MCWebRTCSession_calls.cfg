SPECIFICATION Spec
CONSTANTS
  Cameras = {a, b}
  Streams = {h1, h2}
  Sessions = {s1, s2}
  Calls = {k1}
  NoStream = noStream
  NoSession = noSession
  MaxCandidates = 2
  Remembered = 2
SYMMETRY Symmetry
VIEW WithoutLost
INVARIANT CandidatesAreOfTheStream
PROPERTIES
  EndedStaysEnded
  WatchdogSparesAnswers
CHECK_DEADLOCK FALSE
