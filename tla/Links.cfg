SPECIFICATION Spec
CONSTANTS
  Nodes = {"a", "b", "c"}
  HashOf <- MCHashOf
  Hashes = {1, 2, 3}
  Scenes <- MCScenes
  None = None
  SeenSlots = 2
  NeighbourSlots = 2
  AlertAt = 2
  Offline = 1
  NodeTimeout = 2
  CircuitTimeout = 1
  Period = 0
  WeakLink <- MCWeakLink
  HighSnr = 40
  LowSnr <- MCLowSnr
  PowerStep = 2
  MinPower = 5
  MaxPower = 8
  Wrap = 4
  MaxAnswers = 2
  AnswerWindow = 2
  AclSlots = 2
  NoEntry = NoEntry
  ForwardMax = 4
  QuietMax = 2
  HourLength = 1
  DayHours = 4
  Epoch = 50
  Earliest = 47
  Latest = 122
  CloseBy = 2
  ConsensusWindow = 2
  TimeRange = 128
INVARIANT TablesConsistent ToldOnce WithheldForAReason NeverWeakerThanBelieved
INVARIANT DiscoveryLimited
PROPERTY ForgetsLongestSilent ClockMovesByConsensus LimitFitsHour
