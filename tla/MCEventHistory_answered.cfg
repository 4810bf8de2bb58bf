SPECIFICATION MCSpec
CONSTANTS
  Ids = {c1}
  PushTasks = {listener}
  Poller = poller
  NoOp = noOp
  ImageKinds = {"snapshot", "vignette"}
  Retention = 1
  MaxEvents = 1
  MaxTime = 1
  MaxOps = 3
  MaxFaults = 0
PROPERTY AnsweredStaysAnswered
CHECK_DEADLOCK FALSE
