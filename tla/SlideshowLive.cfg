SPECIFICATION FairSpec
CONSTANTS
  a = a
  b = b
  w1 = w1
  x1 = x1
  x2 = x2
  Kind <- TwoKinds
  Custom = "custom"
  Paper <- MixedPapers
  Seconds = {0, 1}
  IntHalf = 16
  MsPerSec = 4
  Elapsed <- Times
  Space = {a}
  Malformed = {}
  Workspace = {1, 2}
  WorkspaceOf <- OnOne
  Word = {}
  NoSpace = NoSpace
  NoLoop = NoLoop
  NotJson = NotJson
  NoPaper = NoPaper
  MaxPosted = 1
INVARIANTS
  NoEarlyRepeat
PROPERTIES
  ChangesGoOn
