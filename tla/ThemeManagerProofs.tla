--------------------------- MODULE ThemeManagerProofs ---------------------------
(***************************************************************************)
(* What ThemeManager promises, for any zones, suns and hours.  The heart   *)
(* is Remembered: while the setting is automatic, what the manager         *)
(* believes to be shown is shown, or the history says why not.  It needs   *)
(* Settled, which relates the mode to the setting and to the signals on    *)
(* their way.                                                              *)
(***************************************************************************)
EXTENDS ThemeManager, TLAPS

-----------------------------------------------------------------------------
(* The sun *)

\* fmod and step 9 together give the hour of the day, where the offset is not
\* more than a day behind.
LEMMA HourOfDay ==
  ASSUME NEW x \in Int, NEW off \in UtcOffset, FmodDay(x) + off >= -24
  PROVE  IntoDay(FmodDay(x) + off) = (x + off) % 24
<1>. DEFINE y == FmodDay(x)
<1>1. off \in -12 .. 14
  BY DEF UtcOffset
<1>2. y \in -23 .. 23
  BY DEF FmodDay
<1>3. (x + off) % 24 = (y + off) % 24
  <2>1. CASE x >= 0
    <3>1. y = x % 24
      BY <2>1 DEF FmodDay
    <3>. HIDE DEF y
    <3>. QED  BY <3>1, <1>1
  <2>2. CASE x < 0
    <3>1. y = -((-x) % 24)
      BY <2>2 DEF FmodDay
    <3>. HIDE DEF y
    <3>. QED  BY <3>1, <1>1
  <2>. QED  BY <2>1, <2>2
<1>4. y + off >= -24
  OBVIOUS
<1>. HIDE DEF y
<1>5. IntoDay(y + off) = (y + off) % 24
  BY <1>1, <1>2, <1>4 DEF IntoDay
<1>. QED  BY <1>3, <1>5 DEF y

\* An hour of the day lies between two others just when it comes no later after
\* the first than the second does.
LEMMA BetweenHours ==
  ASSUME NEW a \in Int, NEW b \in Int, NEW h \in 0 .. 23, a % 24 <= b % 24
  PROVE  ((h - a) % 24 <= (b - a) % 24) <=> (a % 24 <= h /\ h <= b % 24)
<1>1. (b - a) % 24 = (b % 24) - (a % 24)
  OBVIOUS
<1>2. (h - a) % 24 = IF a % 24 <= h THEN h - (a % 24) ELSE (h - (a % 24)) + 24
  OBVIOUS
<1>3. a % 24 \in 0 .. 23 /\ b % 24 \in 0 .. 23
  OBVIOUS
<1>. QED  BY <1>1, <1>2, <1>3

\* The hour of an event is the hour of the local day.
LEMMA EventHour ==
  ASSUME NEW event \in Event, NEW off \in UtcOffset,
         event.kind = "hour", NotFarBehind(event, off)
  PROVE  /\ SunChanged(event, off) = (event.hour + off) % 24
         /\ (event.hour + off) % 24 \in 0 .. 23
<1>1. event.hour \in Int /\ off \in Int
  BY DEF Event, UtcOffset
<1>2. SunChanged(event, off) = (event.hour + off) % 24
  BY <1>1, HourOfDay DEF SunChanged, NotFarBehind
<1>. QED  BY <1>1, <1>2

\* The interval of getSunriseSunset begins and ends with the events that have an
\* hour, and is open where they have none.
LEMMA IntervalFact ==
  ASSUME NEW sun \in Sun, NEW off \in UtcOffset,
         NotFarBehind(sun.rise, off), NotFarBehind(sun.set, off)
  PROVE  /\ sun.rise.kind \in {"hour", "never", "always"}
         /\ sun.set.kind \in {"hour", "never", "always"}
         /\ sun.rise.hour \in Int /\ sun.set.hour \in Int /\ off \in Int
         /\ Sunrise(sun, off) = CASE sun.rise.kind = "hour"   -> (sun.rise.hour + off) % 24
                                  [] sun.rise.kind = "never"  -> 100
                                  [] sun.rise.kind = "always" -> -100
         /\ Sunset(sun, off) = IF sun.set.kind = "hour" THEN (sun.set.hour + off) % 24 ELSE 100
<1>1. /\ sun.rise \in Event /\ sun.set \in Event
      /\ sun.rise.kind \in {"hour", "never", "always"}
      /\ sun.set.kind \in {"hour", "never", "always"}
      /\ sun.rise.hour \in Int /\ sun.set.hour \in Int /\ off \in Int
  BY DEF Sun, Event, UtcOffset
<1>2. Sunrise(sun, off) = CASE sun.rise.kind = "hour"   -> (sun.rise.hour + off) % 24
                           [] sun.rise.kind = "never"  -> 100
                           [] sun.rise.kind = "always" -> -100
  <2>1. CASE sun.rise.kind = "hour"
    BY <1>1, <2>1, EventHour DEF Sunrise
  <2>2. CASE sun.rise.kind # "hour"
    BY <1>1, <2>2 DEF Sunrise, SunChanged, Never, Always
  <2>. QED  BY <2>1, <2>2
<1>3. Sunset(sun, off) = IF sun.set.kind = "hour" THEN (sun.set.hour + off) % 24 ELSE 100
  <2>1. CASE sun.set.kind = "hour"
    <3>1. /\ SunChanged(sun.set, off) = (sun.set.hour + off) % 24
          /\ (sun.set.hour + off) % 24 \in 0 .. 23
      BY <1>1, <2>1, EventHour
    <3>. QED  BY <2>1, <3>1 DEF Sunset, Always
  <2>2. CASE sun.set.kind = "never"
    <3>1. SunChanged(sun.set, off) = 100
      BY <2>2 DEF SunChanged, Never
    <3>. QED  BY <2>2, <3>1 DEF Sunset, Always
  <2>3. CASE sun.set.kind = "always"
    <3>1. SunChanged(sun.set, off) = -100
      BY <2>3 DEF SunChanged, Always
    <3>2. SunChanged(sun.set, off) <= Always
      BY <3>1 DEF Always
    <3>3. Sunset(sun, off) = -Always
      BY <3>2 DEF Sunset
    <3>4. -Always = 100
      <4>1. Always \in Int /\ Always + 100 = 0
        BY DEF Always
      <4>2. \A x \in Int : x + 100 = 0 => -x = 100
        OBVIOUS
      <4>. QED  BY <4>1, <4>2
    <3>5. sun.set.kind # "hour"
      BY <2>3
    <3>. QED  BY <3>3, <3>4, <3>5
  <2>. QED  BY <1>1, <2>1, <2>2, <2>3
<1>. QED  BY <1>1, <1>2, <1>3

\* Where the sun is regular, the interval of getSunriseSunset tells day from
\* night at every hour, polar day and polar night and the days on which they
\* begin and end included.
THEOREM DayIsDay ==
  ASSUME NEW sun \in Sun, NEW off \in UtcOffset, NEW h \in 0 .. 23, Regular(sun, off)
  PROVE  TakenForDay(sun, off, h) <=> SunIsUp(sun, off, h)
<1>. DEFINE r == (sun.rise.hour + off) % 24
            s == (sun.set.hour + off) % 24
<1>i. /\ sun.rise.kind \in {"hour", "never", "always"}
      /\ sun.set.kind \in {"hour", "never", "always"}
      /\ sun.rise.hour \in Int /\ sun.set.hour \in Int /\ off \in Int
      /\ Sunrise(sun, off) = CASE sun.rise.kind = "hour"   -> r
                               [] sun.rise.kind = "never"  -> 100
                               [] sun.rise.kind = "always" -> -100
      /\ Sunset(sun, off) = IF sun.set.kind = "hour" THEN s ELSE 100
  BY IntervalFact DEF Regular
<1>r. r \in 0 .. 23 /\ s \in 0 .. 23
  <2>1. \A n \in Int : n % 24 \in 0 .. 23
    OBVIOUS
  <2>2. sun.rise.hour + off \in Int /\ sun.set.hour + off \in Int
    BY <1>i
  <2>. QED  BY <2>1, <2>2
<1>o. sun.set.kind = "never" => sun.rise.kind = "never"
  BY DEF Regular, InOrder
<1>1. CASE sun.rise.kind = "hour" /\ sun.set.kind = "hour"
  <2>1. r <= s
    BY <1>1 DEF Regular, InOrder
  <2>2. (h - off - sun.rise.hour) % 24 <= (sun.set.hour - sun.rise.hour) % 24
        <=> (r <= h /\ h <= s)
    <3>. DEFINE a == sun.rise.hour + off
                b == sun.set.hour + off
    <3>1. /\ a \in Int /\ b \in Int
          /\ h - a = h - off - sun.rise.hour
          /\ b - a = sun.set.hour - sun.rise.hour
      BY <1>i
    <3>2. a % 24 <= b % 24
      BY <2>1
    <3>3. ((h - a) % 24 <= (b - a) % 24) <=> (a % 24 <= h /\ h <= b % 24)
      <4>. HIDE DEF a, b
      <4>. QED  BY <3>1, <3>2, BetweenHours
    <3>4. h - off - sun.rise.hour = h - a /\ sun.set.hour - sun.rise.hour = b - a
      BY <3>1
    <3>. QED  BY <3>3, <3>4
  <2>3. SunIsUp(sun, off, h)
        <=> (h - off - sun.rise.hour) % 24 <= (sun.set.hour - sun.rise.hour) % 24
    BY <1>1 DEF SunIsUp
  <2>4. Sunrise(sun, off) = r /\ Sunset(sun, off) = s
    BY <1>1, <1>i
  <2>. QED  BY <2>2, <2>3, <2>4 DEF TakenForDay
<1>2. CASE sun.rise.kind = "hour" /\ sun.set.kind = "always"
  <2>1. Sunrise(sun, off) = r /\ Sunset(sun, off) = 100
    BY <1>2, <1>i
  <2>2. SunIsUp(sun, off, h) <=> r <= h
    BY <1>2 DEF SunIsUp
  <2>. QED  BY <2>1, <2>2 DEF TakenForDay
<1>3. CASE sun.rise.kind = "always" /\ sun.set.kind = "hour"
  <2>1. Sunrise(sun, off) = -100 /\ Sunset(sun, off) = s
    BY <1>3, <1>i
  <2>2. SunIsUp(sun, off, h) <=> h <= s
    BY <1>3 DEF SunIsUp
  <2>. QED  BY <2>1, <2>2 DEF TakenForDay
<1>4. CASE sun.rise.kind = "always" /\ sun.set.kind = "always"
  <2>1. Sunrise(sun, off) = -100 /\ Sunset(sun, off) = 100
    BY <1>4, <1>i
  <2>2. SunIsUp(sun, off, h)
    BY <1>4 DEF SunIsUp
  <2>. QED  BY <2>1, <2>2 DEF TakenForDay
<1>5. CASE sun.rise.kind = "never"
  <2>1. Sunrise(sun, off) = 100
    BY <1>5, <1>i
  <2>2. ~SunIsUp(sun, off, h)
    BY <1>5 DEF SunIsUp
  <2>. QED  BY <2>1, <2>2 DEF TakenForDay
<1>. QED  BY <1>1, <1>2, <1>3, <1>4, <1>5, <1>i, <1>o

\* Where the sun sets after midnight of the local day (or its rise falls on the
\* day before), getSunriseSunset finds daylight at no hour at all.
THEOREM LateSunsetIsDark ==
  ASSUME NEW sun \in Sun, NEW off \in UtcOffset, NEW h \in 0 .. 23,
         NotFarBehind(sun.rise, off), NotFarBehind(sun.set, off),
         sun.rise.kind = "hour", sun.set.kind = "hour",
         (sun.set.hour + off) % 24 < (sun.rise.hour + off) % 24
  PROVE  ~TakenForDay(sun, off, h)
<1>1. /\ Sunrise(sun, off) = (sun.rise.hour + off) % 24
      /\ Sunset(sun, off) = (sun.set.hour + off) % 24
      /\ sun.rise.hour \in Int /\ sun.set.hour \in Int /\ off \in Int
  BY IntervalFact
<1>. QED  BY <1>1 DEF TakenForDay

\* InOrder is exactly what getSunriseSunset needs: where no event is more than
\* a day behind, it tells day from night at every hour just when the sun rises
\* and sets in this order on the local day.  Otherwise it takes the hour of the
\* rise for night, or, where the sun comes up by the reckoning of the morning
\* and not by that of the evening, all from the rise to midnight for day.
THEOREM RegularIsNeeded ==
  ASSUME NEW sun \in Sun, NEW off \in UtcOffset,
         NotFarBehind(sun.rise, off), NotFarBehind(sun.set, off)
  PROVE  (\A h \in 0 .. 23 : TakenForDay(sun, off, h) <=> SunIsUp(sun, off, h))
           <=> Regular(sun, off)
<1>. DEFINE r == (sun.rise.hour + off) % 24
            s == (sun.set.hour + off) % 24
<1>i. /\ sun.rise.kind \in {"hour", "never", "always"}
      /\ sun.rise.hour \in Int /\ sun.set.hour \in Int /\ off \in Int
      /\ Sunrise(sun, off) = CASE sun.rise.kind = "hour"   -> r
                               [] sun.rise.kind = "never"  -> 100
                               [] sun.rise.kind = "always" -> -100
      /\ Sunset(sun, off) = IF sun.set.kind = "hour" THEN s ELSE 100
  BY IntervalFact
<1>r. r \in 0 .. 23 /\ s \in 0 .. 23
  <2>1. \A n \in Int : n % 24 \in 0 .. 23
    OBVIOUS
  <2>2. sun.rise.hour + off \in Int /\ sun.set.hour + off \in Int
    BY <1>i
  <2>. QED  BY <2>1, <2>2
<1>1. CASE Regular(sun, off)
  BY <1>1, DayIsDay
<1>2. CASE sun.rise.kind = "hour" /\ sun.set.kind = "hour" /\ ~(r <= s)
  <2>1. ~TakenForDay(sun, off, r)
    BY <1>2, <1>r, LateSunsetIsDark
  <2>2. SunIsUp(sun, off, r)
    <3>1. (r - off - sun.rise.hour) % 24 = 0
      <4>. DEFINE x == sun.rise.hour + off
      <4>1. r - off - sun.rise.hour = (x % 24) - x /\ x \in Int
        BY <1>i
      <4>. HIDE DEF x
      <4>2. ((x % 24) - x) % 24 = 0
        BY <4>1
      <4>. QED  BY <4>1, <4>2
    <3>2. (sun.set.hour - sun.rise.hour) % 24 >= 0
      BY <1>i
    <3>. QED  BY <1>2, <3>1, <3>2 DEF SunIsUp
  <2>3. ~Regular(sun, off)
    BY <1>2 DEF Regular, InOrder
  <2>. QED  BY <1>r, <2>1, <2>2, <2>3
<1>3. CASE sun.set.kind = "never" /\ sun.rise.kind # "never"
  <2>. DEFINE h == IF sun.rise.kind = "hour" THEN r ELSE 0
  <2>1. h \in 0 .. 23
    BY <1>r
  <2>2. Sunrise(sun, off) <= h /\ Sunset(sun, off) = 100
    BY <1>3, <1>i, <1>r
  <2>3. TakenForDay(sun, off, h)
    BY <2>1, <2>2 DEF TakenForDay
  <2>4. ~SunIsUp(sun, off, h)
    BY <1>3 DEF SunIsUp
  <2>5. ~Regular(sun, off)
    BY <1>3 DEF Regular, InOrder
  <2>. QED  BY <2>1, <2>3, <2>4, <2>5
<1>. QED  BY <1>1, <1>2, <1>3 DEF Regular, InOrder

-----------------------------------------------------------------------------
(* Types *)

\* Every judgement of the theme yields a type and what is shown.
LEMMA TypeForIsTheme == ASSUME NEW c PROVE TypeFor(c) \in Theme
  BY DEF TypeFor, Theme

\* What enableThemeAuto and autoSetTheme write is of its type.
LEMMA AutoSetTyped ==
  ASSUME NEW c, NEW known, TypeOK, AutoSetTheme(c, known)
  PROVE  shown' \in Theme /\ curType' \in Theme /\ failed' \in BOOLEAN /\ crossed' \in BOOLEAN
         /\ checked' \in BOOLEAN /\ due' \in BOOLEAN
  BY TypeForIsTheme DEF AutoSetTheme, DoSetGlobalTheme, TypeOK

\* What enableThemeAuto and what follows it write is of its type, and the timer
\* of the minute follows the mode.
LEMMA FollowTyped ==
  ASSUME NEW c, NEW known, TypeOK, FollowSetting(c, known)
  PROVE  /\ auto' \in BOOLEAN /\ minute' = auto'
         /\ shown' \in Theme /\ curType' \in Theme \cup {Unset}
         /\ failed' \in BOOLEAN /\ crossed' \in BOOLEAN /\ checked' \in BOOLEAN /\ due' \in BOOLEAN
<1>1. CASE setting = "auto"
  BY <1>1, AutoSetTyped DEF FollowSetting
<1>2. CASE setting # "auto"
  BY <1>2 DEF FollowSetting, TypeOK
<1>. QED  BY <1>1, <1>2

\* Coordinates are those of a listed zone, or none.
LEMMA PlaceOfZone ==
  ASSUME TypeOK, NEW z
  PROVE  CoordOf(z) \in Place
  BY DEF CoordOf, Place, TypeOK

\* A handler that judges the theme only in automatic mode keeps types.
LEMMA IfAutoTyped ==
  ASSUME TypeOK, ThemeIfAuto
  PROVE  /\ shown' \in Theme /\ curType' \in Theme \cup {Unset}
         /\ failed' \in BOOLEAN /\ crossed' \in BOOLEAN /\ checked' \in BOOLEAN /\ due' \in BOOLEAN
<1>1. CASE auto
  BY <1>1, AutoSetTyped DEF ThemeIfAuto
<1>2. CASE ~auto
  BY <1>2 DEF ThemeIfAuto, NoTheme, TypeOK
<1>. QED  BY <1>1, <1>2

\* Every step keeps every variable of its type.
LEMMA TypeStep == TypeOK /\ [Next]_vars => TypeOK'
<1> SUFFICES ASSUME TypeOK, [Next]_vars PROVE TypeOK'
  OBVIOUS
<1>. USE ThemeAssumption
<1>1. CASE DSMRegister
  <2>1. coord' \in Place
    BY <1>1 DEF DSMRegister, Place
  <2>2. FollowSetting(coord', Unset)
    BY <1>1 DEF DSMRegister
  <2>. QED  BY <1>1, <2>1, <2>2, FollowTyped DEF DSMRegister, TypeOK, worldVars
<1>2. CASE DSMUnRegister
  <2>1. zoneNews' \in Seq(Zone)
    BY <1>2 DEF DSMUnRegister
  <2>2. /\ coord' \in Place /\ live' \subseteq Timer
        /\ timeId' \in 0 .. MaxTimers /\ ntpId' \in 0 .. MaxTimers
    BY <1>2 DEF DSMUnRegister, Place
  <2>. QED  BY <1>2, <2>1, <2>2 DEF DSMUnRegister, TypeOK, worldVars
<1>3. CASE ClockMoves
  BY <1>3 DEF ClockMoves, TypeOK, managerVars, timerVars
<1>4. CASE ZoneChanges
  <2>1. zone' \in Zone
    BY <1>4 DEF ZoneChanges
  <2>2. zoneNews' \in Seq(Zone)
    BY <1>4, <2>1 DEF ZoneChanges, TypeOK
  <2>. QED  BY <1>4, <2>1, <2>2 DEF ZoneChanges, TypeOK, managerVars, timerVars
<1>5. ASSUME NEW t \in Theme, ChooseFixed(t) PROVE TypeOK'
  BY <1>5 DEF ChooseFixed, SettingNews, TypeOK, managerVars, timerVars
<1>6. CASE ChooseAuto
  BY <1>6 DEF ChooseAuto, SettingNews, TypeOK, managerVars, timerVars
<1>7. CASE HandleTimezoneChanged
  <2>1. zoneNews' \in Seq(Zone)
    BY <1>7 DEF HandleTimezoneChanged, TypeOK
  <2>2. coord' \in Place
    BY <1>7, PlaceOfZone DEF HandleTimezoneChanged
  <2>3. /\ shown' \in Theme /\ curType' \in Theme \cup {Unset}
        /\ failed' \in BOOLEAN /\ crossed' \in BOOLEAN /\ checked' \in BOOLEAN /\ due' \in BOOLEAN
    <3>1. CASE auto
      BY <1>7, <3>1, AutoSetTyped DEF HandleTimezoneChanged
    <3>2. CASE ~auto
      BY <1>7, <3>2 DEF HandleTimezoneChanged, NoTheme, TypeOK
    <3>. QED  BY <3>1, <3>2
  <2>. QED  BY <1>7, <2>1, <2>2, <2>3 DEF HandleTimezoneChanged, TypeOK, worldVars, timerVars
<1>8. CASE HandleSettingDConfigChange
  <2>1. FollowSetting(coord, curType)
    BY <1>8 DEF HandleSettingDConfigChange
  <2>. QED  BY <1>8, <2>1, FollowTyped DEF HandleSettingDConfigChange, TypeOK, worldVars
<1>9. CASE HandleGlobalThemeChangeTimeOut
  <2>1. ThemeIfAuto
    BY <1>9 DEF HandleGlobalThemeChangeTimeOut
  <2>. QED  BY <1>9, <2>1, IfAutoTyped
            DEF HandleGlobalThemeChangeTimeOut, TypeOK, worldVars, timerVars
<1>10. ASSUME NEW i \in Timer, HandleTimeUpdate(i) PROVE TypeOK'
  BY <1>10 DEF HandleTimeUpdate, TypeOK, worldVars, Timer
<1>11. ASSUME NEW i \in Timer, HandleNTPChanged(i) PROVE TypeOK'
  BY <1>11 DEF HandleNTPChanged, TypeOK, worldVars, Timer
<1>12. ASSUME NEW i \in Timer, TimerEvent(i) PROVE TypeOK'
  <2>1. ThemeIfAuto
    BY <1>12 DEF TimerEvent
  <2>. QED  BY <1>12, <2>1, IfAutoTyped DEF TimerEvent, TypeOK, worldVars
<1>13. CASE UNCHANGED vars
  BY <1>13 DEF vars, worldVars, timerVars, TypeOK
<1>. QED  BY <1>1, <1>2, <1>3, <1>4, <1>5, <1>6, <1>7, <1>8, <1>9, <1>10, <1>11,
             <1>12, <1>13 DEF Next

\* The manager starts well typed.
LEMMA TypeInit == Init => TypeOK
<1> SUFFICES ASSUME Init PROVE TypeOK
  OBVIOUS
<1>1. zoneNews \in Seq(Zone)
  BY DEF Init
<1>2. /\ coord \in Place /\ live \subseteq Timer
      /\ timeId \in 0 .. MaxTimers /\ ntpId \in 0 .. MaxTimers
  BY ThemeAssumption DEF Init, Place
<1>. QED  BY <1>1, <1>2 DEF Init, TypeOK

\* The manager, its timers and what is on its way are always well typed, and the
\* timer of the minute runs just in automatic mode.
THEOREM TypeCorrect == Spec => []TypeOK
  BY TypeInit, TypeStep, PTL DEF Spec

-----------------------------------------------------------------------------
(* The invariants *)

\* Without a manager nothing is remembered and nothing is on its way; the mode
\* is that of the setting once every signal has been handled.
Settled ==
  /\ ~manager => (~auto /\ setNews = 0 /\ coord = Nowhere /\ zoneNews = <<>>)
  /\ ~auto => curType = Unset
  /\ (manager /\ setNews = 0) => (auto <=> setting = "auto")

\* While the setting is automatic, also before the manager has heard of it,
\* what it remembers is shown.
Remembered ==
  (setting = "auto" /\ ~failed /\ ~crossed /\ curType # Unset) => shown = curType

\* A theme that was judged is the one for where the manager thinks it is.
Judged == (checked /\ auto) => curType = TypeFor(coord)

IInv == TypeOK /\ Settled /\ Remembered /\ Judged

\* After autoSetTheme the type is that of the place, and it is remembered of
\* what is shown whatever the call did.
LEMMA AutoSetRemembers ==
  ASSUME NEW c, AutoSetTheme(c, curType), Remembered, setting' = setting
  PROVE  Remembered' /\ curType' = TypeFor(c)
<1>1. CASE curType = TypeFor(c)
  BY <1>1 DEF AutoSetTheme, Remembered
<1>2. CASE curType # TypeFor(c)
  BY <1>2 DEF AutoSetTheme, DoSetGlobalTheme, Remembered
<1>. QED  BY <1>1, <1>2

\* The same where nothing was remembered.
LEMMA FirstSetRemembers ==
  ASSUME NEW c, AutoSetTheme(c, Unset)
  PROVE  Remembered' /\ curType' = TypeFor(c)
<1>1. Unset # TypeFor(c)
  BY DEF Unset, TypeFor
<1>. QED  BY <1>1 DEF AutoSetTheme, DoSetGlobalTheme, Remembered

\* Handlers that judge the theme in automatic mode keep what is remembered.
LEMMA IfAutoKeeps ==
  ASSUME IInv, ThemeIfAuto, UNCHANGED <<worldVars, manager, setNews, zoneNews, coord, auto>>
  PROVE  Settled' /\ Remembered' /\ Judged'
<1>0. UNCHANGED <<utc, zone, setting>>
  BY DEF worldVars
<1>1. CASE auto
  <2>1. Remembered' /\ curType' = TypeFor(coord)
    BY <1>0, <1>1, AutoSetRemembers DEF ThemeIfAuto, IInv
  <2>2. (TypeFor(coord))' = TypeFor(coord)
    BY <1>0 DEF TypeFor, Local
  <2>. QED  BY <1>0, <1>1, <2>1, <2>2 DEF Settled, Judged, IInv, TypeFor, Local
<1>2. CASE ~auto
  BY <1>0, <1>2 DEF ThemeIfAuto, NoTheme, IInv, Settled, Remembered, Judged
<1>. QED  BY <1>1, <1>2

\* Every step keeps the mode settled, the theme remembered and judged.
LEMMA InvStep == IInv /\ [Next]_vars => IInv'
<1> SUFFICES ASSUME IInv, [Next]_vars PROVE Settled' /\ Remembered' /\ Judged'
  BY TypeStep DEF IInv
<1>. USE ThemeAssumption
<1>1. CASE DSMRegister
  <2>1. FollowSetting(coord', Unset) /\ UNCHANGED <<utc, zone, setting, zoneNews, setNews>>
    BY <1>1 DEF DSMRegister, worldVars
  <2>2. manager' = TRUE /\ manager = FALSE
    BY <1>1 DEF DSMRegister, IInv, TypeOK
  <2>3. CASE setting = "auto"
    <3>1. Remembered' /\ curType' = TypeFor(coord')
      BY <2>1, <2>3, FirstSetRemembers DEF FollowSetting
    <3>2. Judged'
      BY <2>1, <3>1 DEF Judged, TypeFor, Local
    <3>. QED  BY <2>1, <2>2, <2>3, <3>1, <3>2 DEF FollowSetting, Settled
  <2>4. CASE setting # "auto"
    BY <2>1, <2>2, <2>4 DEF FollowSetting, Settled, Remembered, Judged
  <2>. QED  BY <2>3, <2>4
<1>2. CASE DSMUnRegister
  BY <1>2 DEF DSMUnRegister, Settled, Remembered, Judged, worldVars
<1>3. CASE ClockMoves
  BY <1>3 DEF ClockMoves, IInv, Settled, Remembered, Judged, managerVars
<1>4. CASE ZoneChanges
  BY <1>4 DEF ZoneChanges, IInv, Settled, Remembered, Judged, managerVars
<1>5. ASSUME NEW t \in Theme, ChooseFixed(t) PROVE Settled' /\ Remembered' /\ Judged'
  <2>1. Settled'
    BY <1>5 DEF ChooseFixed, SettingNews, IInv, TypeOK, Settled, managerVars
  <2>2. Remembered'
    BY <1>5 DEF ChooseFixed, Remembered
  <2>3. Judged'
    BY <1>5 DEF ChooseFixed, IInv, Judged, managerVars, TypeFor, Local
  <2>. QED  BY <2>1, <2>2, <2>3
<1>6. CASE ChooseAuto
  <2>1. Settled'
    BY <1>6 DEF ChooseAuto, SettingNews, IInv, TypeOK, Settled, managerVars
  <2>2. Remembered'
    BY <1>6 DEF ChooseAuto, IInv, TypeOK, Settled, Remembered, managerVars
  <2>3. Judged'
    BY <1>6 DEF ChooseAuto, IInv, Judged, managerVars, TypeFor, Local
  <2>. QED  BY <2>1, <2>2, <2>3
<1>7. CASE HandleTimezoneChanged
  <2>1. UNCHANGED <<utc, zone, setting, setNews, manager, auto>>
    BY <1>7 DEF HandleTimezoneChanged, worldVars
  <2>2. manager
    BY <1>7 DEF HandleTimezoneChanged, IInv, Settled
  <2>3. CASE auto
    <3>1. AutoSetTheme(coord', curType)
      BY <1>7, <2>3 DEF HandleTimezoneChanged
    <3>2. Remembered' /\ curType' = TypeFor(coord')
      BY <2>1, <3>1, AutoSetRemembers DEF IInv
    <3>3. Judged'
      BY <2>1, <3>2 DEF Judged, TypeFor, Local
    <3>. QED  BY <2>1, <2>2, <2>3, <3>2, <3>3 DEF Settled, IInv
  <2>4. CASE ~auto
    <3>1. NoTheme
      BY <1>7, <2>4 DEF HandleTimezoneChanged
    <3>. QED  BY <2>1, <2>2, <2>4, <3>1 DEF NoTheme, Settled, Remembered, Judged, IInv
  <2>. QED  BY <2>3, <2>4
<1>8. CASE HandleSettingDConfigChange
  <2>1. FollowSetting(coord, curType) /\ UNCHANGED <<utc, zone, setting, manager, coord, zoneNews>>
    BY <1>8 DEF HandleSettingDConfigChange, worldVars
  <2>2. manager
    BY <1>8 DEF HandleSettingDConfigChange, IInv, TypeOK, Settled
  <2>3. CASE setting = "auto"
    <3>1. Remembered' /\ curType' = TypeFor(coord)
      BY <2>1, <2>3, AutoSetRemembers DEF FollowSetting, IInv
    <3>2. Judged'
      BY <2>1, <3>1 DEF Judged, TypeFor, Local
    <3>. QED  BY <2>1, <2>2, <2>3, <3>1, <3>2 DEF FollowSetting, Settled
  <2>4. CASE setting # "auto"
    BY <2>1, <2>2, <2>4 DEF FollowSetting, Settled, Remembered, Judged
  <2>. QED  BY <2>3, <2>4
<1>9. CASE HandleGlobalThemeChangeTimeOut
  BY <1>9, IfAutoKeeps DEF HandleGlobalThemeChangeTimeOut
<1>10. ASSUME NEW i \in Timer, HandleTimeUpdate(i) PROVE Settled' /\ Remembered' /\ Judged'
  BY <1>10 DEF HandleTimeUpdate, IInv, Settled, Remembered, Judged, worldVars, TypeFor, Local
<1>11. ASSUME NEW i \in Timer, HandleNTPChanged(i) PROVE Settled' /\ Remembered' /\ Judged'
  BY <1>11 DEF HandleNTPChanged, IInv, Settled, Remembered, Judged, worldVars, TypeFor, Local
<1>12. ASSUME NEW i \in Timer, TimerEvent(i) PROVE Settled' /\ Remembered' /\ Judged'
  BY <1>12, IfAutoKeeps DEF TimerEvent
<1>13. CASE UNCHANGED vars
  BY <1>13 DEF vars, worldVars, IInv, Settled, Remembered, Judged, TypeFor, Local
<1>. QED  BY <1>1, <1>2, <1>3, <1>4, <1>5, <1>6, <1>7, <1>8, <1>9, <1>10, <1>11,
             <1>12, <1>13 DEF Next

\* The invariant holds at every time.
LEMMA InvHolds == Spec => []IInv
<1>1. Init => IInv
  <2> SUFFICES ASSUME Init PROVE Settled /\ Remembered /\ Judged
    BY TypeInit DEF IInv
  <2>. QED  BY DEF Init, Settled, Remembered, Judged
<1>. QED  BY <1>1, InvStep, PTL DEF Spec

-----------------------------------------------------------------------------
(* The properties *)

\* The type that the manager remembers is the one that is shown, however late
\* the signals come, with two exceptions: the last call failed, or the user fixed
\* another theme and went back to an automatic one before the manager heard of
\* it (m_curThemeType is forgotten in enableThemeAuto only).
THEOREM MemoryRight == Spec => []RemembersShown
<1>1. IInv => RemembersShown
  BY DEF IInv, TypeOK, Settled, Remembered, RemembersShown
<1>. QED  BY <1>1, InvHolds, PTL

\* Where the sun of every listed zone is regular, the theme that was judged is
\* light just when the sun is up there, with the two exceptions of
\* RemembersShown (autoSetTheme and getSunriseSunset).
THEOREM ThemeFollowsSky ==
  (\A z \in Listed : Regular(SunAt[z], Offset[z])) => (Spec => []ThemeIsRight)
<1> SUFFICES ASSUME \A z \in Listed : Regular(SunAt[z], Offset[z])
             PROVE  Spec => []ThemeIsRight
  OBVIOUS
<1>1. IInv => ThemeIsRight
  <2> SUFFICES ASSUME IInv, checked, auto, setNews = 0, ~failed, ~crossed, coord = zone
               PROVE  shown = SkyAt(zone)
    BY DEF ThemeIsRight
  <2>1. zone \in Listed
    BY ThemeAssumption DEF IInv, TypeOK, Place
  <2>2. curType = TypeFor(zone)
    BY DEF IInv, Judged
  <2>3. shown = curType
    <3>1. manager /\ setting = "auto"
      BY DEF IInv, TypeOK, Settled
    <3>2. curType # Unset
      BY <2>2 DEF TypeFor, Unset
    <3>. QED  BY <3>1, <3>2 DEF IInv, Remembered
  <2>4. SunAt[zone] \in Sun /\ Offset[zone] \in UtcOffset
    BY <2>1, ThemeAssumption DEF Place
  <2>5. Local \in 0 .. 23
    <3>1. utc \in Int
      BY ThemeAssumption DEF IInv, TypeOK
    <3>2. Offset[zone] \in Int
      BY <2>4 DEF UtcOffset
    <3>. QED  BY <3>1, <3>2 DEF Local
  <2>6. TakenForDay(SunAt[zone], Offset[zone], Local)
        <=> SunIsUp(SunAt[zone], Offset[zone], Local)
    BY <2>1, <2>4, <2>5, DayIsDay, ThemeAssumption
  <2>. QED  BY <2>2, <2>3, <2>6 DEF TypeFor, SkyAt
<1>. QED  BY <1>1, InvHolds, PTL

\* Once the manager knows that the user has fixed a theme, nothing but the user
\* changes what is shown, whatever timers and signals are left over.
THEOREM ManualKept == Spec => ManualIsLeftAlone
<1>1. IInv /\ [Next]_vars
      => [(manager /\ ~auto /\ ~auto' /\ setNews' <= setNews) => shown' = shown]_vars
  <2> SUFFICES ASSUME IInv, Next, manager, ~auto, ~auto', setNews' <= setNews
               PROVE  shown' = shown
    BY DEF vars
  <2>1. setNews \in Nat
    BY DEF IInv, TypeOK
  <2>2. CASE DSMRegister
    BY <2>2 DEF DSMRegister
  <2>3. CASE DSMUnRegister \/ ClockMoves \/ ZoneChanges \/ ChooseAuto
    BY <2>3 DEF DSMUnRegister, ClockMoves, ZoneChanges, ChooseAuto
  <2>4. ASSUME NEW t \in Theme, ChooseFixed(t) PROVE shown' = shown
    BY <2>1, <2>4 DEF ChooseFixed, SettingNews
  <2>5. CASE HandleTimezoneChanged
    BY <2>5 DEF HandleTimezoneChanged, NoTheme
  <2>6. CASE HandleSettingDConfigChange
    BY <2>6 DEF HandleSettingDConfigChange, FollowSetting
  <2>7. CASE HandleGlobalThemeChangeTimeOut
    BY <2>7 DEF HandleGlobalThemeChangeTimeOut, ThemeIfAuto, NoTheme
  <2>8. ASSUME NEW i \in Timer, HandleTimeUpdate(i) \/ HandleNTPChanged(i) PROVE shown' = shown
    BY <2>8 DEF HandleTimeUpdate, HandleNTPChanged
  <2>9. ASSUME NEW i \in Timer, TimerEvent(i) PROVE shown' = shown
    BY <2>9 DEF TimerEvent, ThemeIfAuto, NoTheme
  <2>. QED  BY <2>2, <2>3, <2>4, <2>5, <2>6, <2>7, <2>8, <2>9 DEF Next
<1>. QED  BY <1>1, InvHolds, PTL DEF Spec, ManualIsLeftAlone

\* The announcement that is under way last is that of the zone; when there is
\* none, the coordinates are those of the zone if it is listed.
Announced ==
  /\ zoneNews # <<>> => zoneNews[Len(zoneNews)] = zone
  /\ CoordinatesSettle

\* Every step keeps the announcements in step with the zone.
LEMMA AnnouncedStep == IInv /\ Announced /\ [Next]_vars => Announced'
<1> SUFFICES ASSUME IInv, Announced, [Next]_vars PROVE Announced'
  OBVIOUS
<1>. USE DEF Announced, CoordinatesSettle
<1>t. zoneNews \in Seq(Zone) /\ zone \in Zone
  BY DEF IInv, TypeOK
<1>u. ASSUME UNCHANGED <<zone, zoneNews, manager, coord>> PROVE Announced'
  BY <1>u
<1>1. CASE DSMRegister
  BY <1>1 DEF DSMRegister, IInv, TypeOK, Settled, worldVars
<1>2. CASE DSMUnRegister
  BY <1>2 DEF DSMUnRegister
<1>3. CASE ClockMoves \/ ChooseAuto \/ \E t \in Theme : ChooseFixed(t)
  BY <1>3, <1>u DEF ClockMoves, ChooseAuto, ChooseFixed, managerVars
<1>4. CASE ZoneChanges
  <2>1. zone' \in Zone /\ manager' = manager
    BY <1>4 DEF ZoneChanges, managerVars
  <2>2. CASE manager /\ zoneNews' = Append(zoneNews, zone')
    <3>1. zoneNews' # <<>> /\ zoneNews'[Len(zoneNews')] = zone'
      BY <1>t, <2>1, <2>2
    <3>. QED  BY <3>1
  <2>3. CASE ~manager /\ UNCHANGED zoneNews
    BY <2>1, <2>3 DEF IInv, Settled
  <2>. QED  BY <1>4, <2>2, <2>3 DEF ZoneChanges
<1>5. CASE HandleTimezoneChanged
  <2>1. /\ zoneNews # <<>> /\ zoneNews' = Tail(zoneNews)
        /\ coord' = CoordOf(Head(zoneNews)) /\ zone' = zone
    BY <1>5 DEF HandleTimezoneChanged, worldVars
  <2>. DEFINE n == Len(zoneNews)
  <2>2. n \in Nat \ {0} /\ Head(zoneNews) = zoneNews[1]
    BY <1>t, <2>1
  <2>3. /\ zoneNews' \in Seq(Zone) /\ Len(zoneNews') = n - 1
        /\ \A i \in 1 .. n - 1 : zoneNews'[i] = zoneNews[i + 1]
    BY <1>t, <2>1
  <2>4. zoneNews' = <<>> => n = 1
    BY <2>2, <2>3
  <2>5. zoneNews' # <<>> => n - 1 \in 1 .. n - 1 /\ (n - 1) + 1 = n
    BY <2>2, <2>3
  <2>6. zoneNews' # <<>> => zoneNews'[Len(zoneNews')] = zone'
    BY <2>1, <2>3, <2>5
  <2>7. zoneNews' = <<>> /\ zone' \in Listed => coord' = zone'
    BY <2>1, <2>2, <2>4 DEF CoordOf
  <2>. QED  BY <2>6, <2>7
<1>6. CASE HandleSettingDConfigChange \/ HandleGlobalThemeChangeTimeOut
  BY <1>6, <1>u DEF HandleSettingDConfigChange, HandleGlobalThemeChangeTimeOut, worldVars
<1>7. CASE \E i \in Timer : HandleTimeUpdate(i) \/ HandleNTPChanged(i) \/ TimerEvent(i)
  BY <1>7, <1>u DEF HandleTimeUpdate, HandleNTPChanged, TimerEvent, worldVars
<1>8. CASE UNCHANGED vars
  BY <1>8, <1>u DEF vars, worldVars
<1>. QED  BY <1>1, <1>2, <1>3, <1>4, <1>5, <1>6, <1>7, <1>8 DEF Next

\* When all announcements have been handled, however many were under way, the
\* coordinates are those of the zone if it is listed (init and
\* handleTimezoneChanged).
THEOREM CoordinatesFollow == Spec => []CoordinatesSettle
<1>1. Init => Announced
  BY DEF Init, Announced, CoordinatesSettle
<1>2. IInv /\ Announced /\ [Next]_vars => Announced'
  BY AnnouncedStep
<1>3. Announced => CoordinatesSettle
  BY DEF Announced
<1>. QED  BY <1>1, <1>2, <1>3, InvHolds, PTL DEF Spec
=============================================================================
