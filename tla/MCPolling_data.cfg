SPECIFICATION FairSpec
CONSTANTS
  Modules = {bridge, light, door}
  Bridges = {bridge}
  Lights = {light}
  Commands = {c1, c2}
  Events = {ring}
  NoEvent = noEvent
  NoModule = noModule
  MaxErrors = 3
INVARIANTS
  TypeOK
PROPERTIES
  ModulesAreKept
  DeadCloudIsNoticed
  LightsConverge
CHECK_DEADLOCK TRUE
