SPECIFICATION Spec
CONSTANTS
  Zone = {"nome"}
  Listed = {"nome"}
  Nowhere = nowhere
  nowhere = nowhere
  SunAt <- SunOf
  Offset <- OffsetOf
  Hour = {1, 13}
  MaxTimers = 1
  MaxZoneNews = 1
  MaxSetNews = 1
INVARIANTS
  ThemeIsRight
