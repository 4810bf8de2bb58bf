SPECIFICATION MCSpec
CONSTANTS
  Bridge = bridge
  NoModule = noModule
  NoId = noId
  NoCall = NoCall
  RetransmitWindow = 2
  MaxDuration = 3
  ClosedWindow = 3
  StatusWindow = 4
  SensorTimeout = 4
  MaxAwait = 2
  Units = {u1, u2}
  Sessions = {s1, s2}
  Tasks = {listener}
  MaxPushes = 3
INVARIANTS
  ActiveCallIsInProgress
CHECK_DEADLOCK TRUE
