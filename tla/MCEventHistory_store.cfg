SPECIFICATION MCFairSpec
CONSTANTS
  Ids = {c1, c2}
  PushTasks = {listener}
  Poller = poller
  NoOp = noOp
  ImageKinds = {"snapshot"}
  Retention = 1
  MaxEvents = 1
  MaxTime = 2
  MaxOps = 3
  MaxFaults = 2
INVARIANTS
  TypeOK
  UniqueIds
  NewestFirst
  ImagesExist
PROPERTIES
  NoCallIsLost
  EveryHandlerFinishes
CHECK_DEADLOCK FALSE
