SPECIFICATION FairSpec
CONSTANTS
  Nodes = {1, 2, 3}
  Hears <- Line3
  Scenes <- AdvertScenes
  NoHash = 0
  SnrBytes = {40}
  NoPacket = NoPacket
  CacheSize = 4
  MaxPath = 4
  IdPath = 8
  QueueSize = 4
CHECK_DEADLOCK FALSE
PROPERTY AdvertsReach
