SPECIFICATION Spec
CONSTANTS
  Blank = Blank
  Free = Free
  NoSecret = NoSecret
  Fields <- MCFields
  Values = {0, 1, 3, 6}
  DefaultOf <- MCDefaultOf
  Keys = {"k1", "k2", "k3", "k4"}
  OwnKeys = {"o1", "o2"}
  NoKey = "zeros"
  Names = {"node", "Rome", "Oslo", "Oslo north"}
  DefaultName = "node"
  NoName = ""
  Degrees <- MCDegrees
  Times = {16, 20, 30}
  SaveInterval = 3
  Second = 2
  Wrap = 8
  Scenes <- MCNameScenes
  Slots = 2
  KeyHash <- MCKeyHash
  NameLength <- MCNameLength
  NameHas <- MCNameHas
  Base <- MCBase
  NameMax = 16
  TextOf <- MCTextOf
  RebootDelay = 1
  Day = 8
  Window = 1
CHECK_DEADLOCK FALSE
INVARIANT FoundBearsName
