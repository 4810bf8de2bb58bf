SPECIFICATION Spec
VIEW WhatMatters
CONSTANTS
  unit = unit
  LastCall = 2
  UnitOf <- SameUnit
  Bridge = bridge
  NoName = noName
  Listener = listener
  Poller = poller
  CacheSeconds = 2
  MaxRead = 1
  MaxReads = 2
INVARIANTS
  TypeOK
  AnnouncedPicturesAreServed
  StaleImagesExpire
