SPECIFICATION Spec
CONSTANTS
  a = a
  b = b
  w1 = w1
  x1 = x1
  x2 = x2
  Kind = {"custom"}
  Custom = "custom"
  Paper <- OneCustom
  Seconds = {0, 1}
  IntHalf = 16
  MsPerSec = 4
  Elapsed = {0}
  Space = {a, b}
  Malformed = {}
  Workspace = {1}
  WorkspaceOf <- OnOne
  Word = {}
  NoSpace = NoSpace
  NoLoop = NoLoop
  NotJson = NotJson
  NoPaper = NoPaper
  MaxPosted = 1
PROPERTIES
  SetLeavesOthers
