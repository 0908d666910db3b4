------------------------------ MODULE ThemeManager ------------------------------
(***************************************************************************)
(* The theme manager: it shows the light theme by day and the dark one by  *)
(* night while the user's setting is an automatic theme.  Around it are    *)
(* the user, who changes the setting, timedated, which changes the zone,   *)
(* the clock, and the control center, which is asked for a theme and may   *)
(* not answer.  Everything runs in one thread; signals come later than     *)
(* what they tell of.                                                      *)
(***************************************************************************)
EXTENDS SunriseSunset, Sequences, FiniteSets

CONSTANTS
  Zone,       \* time zones
  Listed,     \* those that the table of zones has coordinates for
  Nowhere,    \* the coordinates NAN_ANGLE
  SunAt,      \* the sun at the coordinates of a listed zone, and Nowhere
  Offset,     \* the offset of a zone from UTC
  Hour,       \* bound: the hours (UTC) at which something happens
  MaxTimers,   \* bound: timers of two seconds at one time
  MaxZoneNews, \* bound: signals TimezoneChanged under way
  MaxSetNews   \* bound: signals valueChanged under way

Place == Listed \cup {Nowhere}
Timer == 1 .. MaxTimers
Theme == {"light", "dark"}

ASSUME ThemeAssumption ==
  /\ Listed \subseteq Zone
  /\ Nowhere \notin Zone
  /\ SunAt \in [Place -> Sun]
  /\ Offset \in [Zone -> UtcOffset]
  /\ Hour \subseteq 0 .. 23
  /\ MaxTimers \in Nat
  /\ MaxZoneNews \in Nat
  /\ MaxSetNews \in Nat

VARIABLES
  utc,      \* the hour of the clock
  zone,     \* the Timezone of timedated
  setting,  \* Global_Theme: a fixed theme (.light, .dark) or an automatic one
  shown,    \* what the desktop shows
  zoneNews, \* signals TimezoneChanged under way
  setNews,  \* how many valueChanged are under way
  manager,  \* the manager is there
  coord,    \* m_latitude, m_longitude
  auto,     \* m_autoTheme
  curType,  \* m_curThemeType
  minute,   \* m_themeAutoTimer is active
  live,     \* timers of two seconds that run
  timeId,   \* m_timeUpdateTimeId
  ntpId,    \* m_ntpTimeId
  failed,   \* history: the last call to set a theme failed and left another
  crossed,  \* history: the user had fixed another theme than the one remembered,
            \* and went back before the manager heard of it
  checked,  \* history: the theme has been judged since anything changed
  due       \* history: the clock was announced to be new, not judged since

worldVars == <<utc, zone, setting>>
timerVars == <<minute, live, timeId, ntpId>>
vars == <<worldVars, shown, zoneNews, setNews, manager, coord, auto, curType,
          timerVars, failed, crossed, checked, due>>

Unset == "unset"

Init ==
  /\ utc \in Hour
  /\ zone \in Zone
  /\ setting \in {"auto", "fixed"}
  /\ shown \in Theme
  /\ zoneNews = <<>>
  /\ setNews = 0
  /\ manager = FALSE
  /\ coord = Nowhere
  /\ auto = FALSE
  /\ curType = Unset
  /\ minute = FALSE
  /\ live = {}
  /\ timeId = 0
  /\ ntpId = 0
  /\ failed = FALSE
  /\ crossed = FALSE
  /\ checked = FALSE
  /\ due = FALSE

-----------------------------------------------------------------------------
(* The theme *)

\* The hour of the local day.
Local == (utc + Offset[zone]) % 24

TypeFor(c) == IF TakenForDay(SunAt[c], Offset[zone], Local) THEN "light" ELSE "dark"

\* The theme for the sun there.
SkyAt(z) == IF SunIsUp(SunAt[z], Offset[zone], Local) THEN "light" ELSE "dark"

\* doSetGlobalTheme; nobody looks at what it returns.
DoSetGlobalTheme(type) ==
  /\ crossed' = FALSE
  /\ \/ shown' = type /\ failed' = FALSE
     \/ UNCHANGED shown /\ failed' = (shown # type)

\* Variant: the type is not compared with the one that was set.
AutoSetThemeStuck(c, known) ==
  /\ checked' = TRUE
  /\ due' = FALSE
  /\ IF known = Unset
       THEN curType' = TypeFor(c) /\ DoSetGlobalTheme(TypeFor(c))
       ELSE curType' = known /\ UNCHANGED <<shown, failed, crossed>>

\* autoSetTheme, where m_curThemeType is "known".
AutoSetTheme(c, known) ==
  /\ checked' = TRUE
  /\ due' = FALSE
  /\ curType' = TypeFor(c)
  /\ IF known = TypeFor(c)
       THEN UNCHANGED <<shown, failed, crossed>>
       ELSE DoSetGlobalTheme(TypeFor(c))

NoTheme == UNCHANGED <<shown, curType, failed, crossed, checked, due>>

\* Handlers that judge the theme only in automatic mode.
ThemeIfAuto == IF auto THEN AutoSetTheme(coord, curType) ELSE NoTheme

\* Variant: the type that was set is remembered in manual mode.
FollowSettingKeeps(c, known) ==
  /\ auto' = (setting = "auto")
  /\ minute' = (setting = "auto")
  /\ IF setting = "auto" THEN AutoSetTheme(c, known)
     ELSE /\ curType' = known
          /\ failed' = FALSE /\ crossed' = FALSE /\ checked' = FALSE /\ due' = FALSE
          /\ UNCHANGED shown

\* Variant: the timer of the minute is not stopped.
FollowSettingTicks(c, known) ==
  /\ auto' = (setting = "auto")
  /\ minute' = (minute \/ setting = "auto")
  /\ IF setting = "auto" THEN AutoSetTheme(c, known)
     ELSE /\ curType' = Unset
          /\ failed' = FALSE /\ crossed' = FALSE /\ checked' = FALSE /\ due' = FALSE
          /\ UNCHANGED shown

\* enableThemeAuto, as the setting is when it is looked at, and what follows.
FollowSetting(c, known) ==
  /\ auto' = (setting = "auto")
  /\ minute' = (setting = "auto")
  /\ IF setting = "auto" THEN AutoSetTheme(c, known)
     ELSE /\ curType' = Unset
          /\ failed' = FALSE /\ crossed' = FALSE /\ checked' = FALSE /\ due' = FALSE
          /\ UNCHANGED shown

-----------------------------------------------------------------------------
(* Life *)

\* DSMRegister, the constructor and init.
DSMRegister ==
  /\ ~manager
  /\ manager' = TRUE
  /\ coord' = IF zone \in Listed THEN zone ELSE Nowhere
  /\ FollowSetting(coord', Unset)
  /\ UNCHANGED <<worldVars, zoneNews, setNews, live, timeId, ntpId>>

\* DSMUnRegister: the object goes, with its timers and connections.  deleteLater
\* lets it handle what has come, which it might as well have done before.
DSMUnRegister ==
  /\ manager
  /\ manager' = FALSE
  /\ coord' = Nowhere
  /\ auto' = FALSE
  /\ curType' = Unset
  /\ minute' = FALSE
  /\ live' = {}
  /\ timeId' = 0
  /\ ntpId' = 0
  /\ zoneNews' = <<>>
  /\ setNews' = 0
  /\ failed' = FALSE
  /\ crossed' = FALSE
  /\ checked' = FALSE
  /\ due' = FALSE
  /\ UNCHANGED <<worldVars, shown>>

managerVars == <<manager, coord, auto, curType, timerVars>>

-----------------------------------------------------------------------------
(* The world *)

\* Time passes, or the clock is set.
ClockMoves ==
  /\ utc' \in Hour \ {utc}
  /\ checked' = FALSE
  /\ UNCHANGED <<zone, setting, shown, zoneNews, setNews, managerVars, failed, crossed, due>>

ZoneChanges ==
  /\ zone' \in Zone \ {zone}
  /\ \/ manager /\ Len(zoneNews) < MaxZoneNews /\ zoneNews' = Append(zoneNews, zone')
     \/ ~manager /\ UNCHANGED zoneNews
  /\ checked' = FALSE
  /\ UNCHANGED <<utc, setting, shown, setNews, managerVars, failed, crossed, due>>

SettingNews ==
  \/ manager /\ setNews < MaxSetNews /\ setNews' = setNews + 1
  \/ ~manager /\ UNCHANGED setNews

\* The user picks a theme that is light or dark, or an automatic one.  The
\* second leaves the desktop as it is until it is asked for another theme.
ChooseFixed(t) ==
  /\ setting' = "fixed"
  /\ shown' = t
  /\ SettingNews
  /\ UNCHANGED <<utc, zone, zoneNews, managerVars, failed, crossed, checked, due>>

ChooseAuto ==
  /\ setting' = "auto"
  /\ SettingNews
  /\ crossed' = (crossed \/ (setting = "fixed" /\ curType \notin {Unset, shown}))
  /\ UNCHANGED <<utc, zone, shown, zoneNews, managerVars, failed, checked, due>>

-----------------------------------------------------------------------------
(* Handlers *)

\* Variant: only the first coordinates are taken.
CoordOfOnce(z) == IF z \in Listed /\ coord = Nowhere THEN z ELSE coord

\* Coordinates are replaced only by those of a listed zone.
CoordOf(z) == IF z \in Listed THEN z ELSE coord

HandleTimezoneChanged ==
  /\ zoneNews # <<>>
  /\ zoneNews' = Tail(zoneNews)
  /\ coord' = CoordOf(Head(zoneNews))
  /\ IF auto THEN AutoSetTheme(coord', curType) ELSE NoTheme
  /\ UNCHANGED <<worldVars, setNews, manager, auto, timerVars>>

\* The value is read when the signal is handled.
HandleSettingDConfigChange ==
  /\ setNews > 0
  /\ setNews' = setNews - 1
  /\ FollowSetting(coord, curType)
  /\ UNCHANGED <<worldVars, zoneNews, manager, coord, live, timeId, ntpId>>

\* m_themeAutoTimer, once a minute: without coordinates there is no theme.
HandleGlobalThemeChangeTimeOut ==
  /\ minute
  /\ coord # Nowhere
  /\ ThemeIfAuto
  /\ UNCHANGED <<worldVars, zoneNews, setNews, manager, coord, auto, timerVars>>

\* startTimer(2000); a timer that has not fired is forgotten.
HandleTimeUpdate(i) ==
  /\ manager
  /\ i \in Timer \ live
  /\ live' = live \cup {i}
  /\ timeId' = i
  /\ due' = auto
  /\ UNCHANGED <<worldVars, shown, zoneNews, setNews, manager, coord, auto, curType,
                 minute, ntpId, failed, crossed, checked>>

HandleNTPChanged(i) ==
  /\ manager
  /\ i \in Timer \ live
  /\ live' = live \cup {i}
  /\ ntpId' = i
  /\ due' = auto
  /\ UNCHANGED <<worldVars, shown, zoneNews, setNews, manager, coord, auto, curType,
                 minute, timeId, failed, crossed, checked>>

\* Variant: the timer of TimeUpdate is not recognised.
IsMineNtp(i) == i = ntpId

\* A timer that is still known; a forgotten one fires again and again for nothing.
IsMine(i) == i \in {timeId, ntpId}

\* Variant: the mode is not looked at.
TimerEventAlways(i) ==
  /\ i \in live
  /\ IsMine(i)
  /\ AutoSetTheme(coord, curType)
  /\ live' = live \ {i}
  /\ UNCHANGED <<worldVars, zoneNews, setNews, manager, coord, auto, minute, timeId, ntpId>>

TimerEvent(i) ==
  /\ i \in live
  /\ IsMine(i)
  /\ ThemeIfAuto
  /\ live' = live \ {i}
  /\ UNCHANGED <<worldVars, zoneNews, setNews, manager, coord, auto, minute, timeId, ntpId>>

Next ==
  \/ DSMRegister \/ DSMUnRegister
  \/ ClockMoves \/ ZoneChanges
  \/ \E t \in Theme : ChooseFixed(t)
  \/ ChooseAuto
  \/ HandleTimezoneChanged
  \/ HandleSettingDConfigChange
  \/ HandleGlobalThemeChangeTimeOut
  \/ \E i \in Timer : HandleTimeUpdate(i) \/ HandleNTPChanged(i) \/ TimerEvent(i)

Spec == Init /\ [][Next]_vars

\* The event loop handles what has come, and every timer fires.
Fairness ==
  /\ WF_vars(HandleTimezoneChanged)
  /\ WF_vars(HandleSettingDConfigChange)
  /\ WF_vars(HandleGlobalThemeChangeTimeOut)
  /\ \A i \in Timer : WF_vars(TimerEvent(i))

FairSpec == Spec /\ Fairness

-----------------------------------------------------------------------------
(* Properties *)

\* What is stored is of its type, and the timer of the minute runs just in
\* automatic mode.
TypeOK ==
  /\ utc \in Hour
  /\ zone \in Zone
  /\ setting \in {"auto", "fixed"}
  /\ shown \in Theme
  /\ zoneNews \in Seq(Zone)
  /\ setNews \in Nat
  /\ manager \in BOOLEAN
  /\ coord \in Place
  /\ auto \in BOOLEAN
  /\ minute \in BOOLEAN
  /\ minute = auto
  /\ curType \in Theme \cup {Unset}
  /\ live \subseteq Timer
  /\ timeId \in 0 .. MaxTimers
  /\ ntpId \in 0 .. MaxTimers
  /\ failed \in BOOLEAN
  /\ crossed \in BOOLEAN
  /\ checked \in BOOLEAN
  /\ due \in BOOLEAN

\* When every change of the setting has been handled, the type that the manager
\* remembers is the theme that is shown, except after a call that failed, and
\* except if the user fixed another theme and went back to an automatic one
\* before the manager handled the signal of the first.
RemembersShown ==
  (setNews = 0 /\ ~failed /\ ~crossed /\ curType # Unset) => shown = curType

\* Once the theme has been judged with the coordinates of the zone, it is light
\* just when the sun is up there, whatever the date the sun rose on; with the
\* same two exceptions.
ThemeIsRight ==
  (checked /\ auto /\ setNews = 0 /\ ~failed /\ ~crossed /\ coord = zone)
    => shown = SkyAt(zone)

\* A theme that the user has fixed is left alone once the manager knows it, by
\* timers that were started before, too.
ManualIsLeftAlone ==
  [][(manager /\ ~auto /\ ~auto' /\ setNews' <= setNews) => shown' = shown]_vars

\* When all that was announced of the zone has been handled, the coordinates are
\* those of the zone, if the table lists it: none of several announcements is
\* lost or overtaken by an older one or by the zone that init asked for.
CoordinatesSettle ==
  (manager /\ zoneNews = <<>> /\ zone \in Listed) => coord = zone

\* While the clock, a listed zone and the automatic setting stay, the theme
\* becomes and stays the one for the sun, unless the last call to set it failed,
\* which nobody repeats, or the setting came back unheard.
FollowsTheSun ==
  /\ <>[](manager /\ setting = "auto" /\ zone \in Listed /\ ~failed /\ ~crossed)
  /\ <>[][utc' = utc /\ zone' = zone]_vars
  => <>[](zone \in Listed => shown = SkyAt(zone))

\* A clock that was announced to be new is judged, also without coordinates.
ClockNewsIsHeeded == due ~> ~due
=============================================================================
