SPECIFICATION Spec
CONSTANTS
  Scenes <- MCScenes
  r1 = r1
  b1 = b1
  b2 = b2
  b3 = b3
  b4 = b4
  Nothing = Nothing
  Blank = Blank
  RamSlots = 2
  Alignment = 4
  KnownAt = 1
  TTL = 0
  QueueSize = 3
SYMMETRY Exchanges
CHECK_DEADLOCK FALSE
INVARIANT Consistent NeverTwice DamagedOnlyByOverlap
PROPERTY LosesOnlyForRoom
