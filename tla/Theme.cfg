SPECIFICATION FairSpec
CONSTANTS
  Zone = {"auckland", "tromso", "other"}
  Listed = {"auckland", "tromso"}
  Nowhere = nowhere
  nowhere = nowhere
  SunAt <- SunOf
  Offset <- OffsetOf
  Hour = {13, 22}
  MaxTimers = 2
  MaxZoneNews = 1
  MaxSetNews = 2
INVARIANTS
  TypeOK
  RemembersShown
  ThemeIsRight
  
PROPERTIES
  ManualIsLeftAlone
  FollowsTheSun
  ClockNewsIsHeeded
