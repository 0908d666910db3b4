SPECIFICATION Spec
CONSTANTS
  a = a
  b = b
  w1 = w1
  x1 = x1
  x2 = x2
  Kind <- TwoKinds
  Custom = "custom"
  Paper <- OnePaper
  Seconds = {0, 1, 9, 17}
  IntHalf = 16
  MsPerSec = 4
  Elapsed <- Times
  Space = {a}
  Malformed = {}
  Workspace = {1}
  WorkspaceOf <- OnOne
  Word <- AllWords
  NoSpace = NoSpace
  NoLoop = NoLoop
  NotJson = NotJson
  NoPaper = NoPaper
  MaxPosted = 2
INVARIANTS
  TypeOK
  TimerFollowsFlag
  UntouchedRunsSetting
  LoopsFollowType
