SPECIFICATION FairSpec
CONSTANTS
  Nodes = {1, 2, 3}
  Hears <- Line3
  Scenes <- MCScenes
  NoHash = 0
  SnrBytes = {40}
  NoPacket = NoPacket
  CacheSize = 1
  MaxPath = 4
  IdPath = 8
  QueueSize = 4
CHECK_DEADLOCK FALSE
PROPERTY FloodsEnd
PROPERTY TrafficArrives
INVARIANT Bounded RouteFollowed
