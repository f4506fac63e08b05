SPECIFICATION Spec
CONSTANTS
  Scenes <- MCPaddedScenes
  r1 = r1
  b1 = b1
  b2 = b2
  b3 = b3
  b4 = b4
  Nothing = Nothing
  Blank = Blank
  RamSlots = 1
  Alignment = 4
  KnownAt = 2
  TTL = 0
  QueueSize = 1
CHECK_DEADLOCK FALSE
INVARIANT RegionMapPersists
