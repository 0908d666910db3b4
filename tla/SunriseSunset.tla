----------------------------- MODULE SunriseSunset -----------------------------
(***************************************************************************)
(* sunrisesunset.cpp, in whole hours: from where the sun stands to the     *)
(* interval of the local day that the theme manager takes for daylight.    *)
(*                                                                         *)
(* The rise and the set of a day are computed apart, with the declination  *)
(* of the morning and of the evening.  Each either has an hour, T -        *)
(* lngHour of steps 8 and 9, which may lie outside of a day, or is one of  *)
(* a sun that does not come up or does not go down; where a polar day or   *)
(* night begins or ends, the two may differ.  The astronomy before these   *)
(* steps is not modelled.                                                  *)
(***************************************************************************)
EXTENDS Integers

Never  == 100     \* what the algorithm returns where the sun never rises
Always == -100    \* and where it never sets

\* No place is further from Greenwich than this many hours of local time.
UtcOffset == -12 .. 14

Event == [kind : {"hour", "never", "always"}, hour : Int]

Sun == [rise : Event, set : Event]

\* fmod(x, 24): the sign is that of x.
FmodDay(x) == IF x >= 0 THEN x % 24 ELSE -((-x) % 24)

\* Step 9, one day at most in either direction.
IntoDay(x) == IF x < 0 THEN x + 24 ELSE IF x >= 24 THEN x - 24 ELSE x

\* calculateSunChangedAsUTCHour, once for the rise and once for the set
SunChanged(event, localOffset) ==
  CASE event.kind = "never"  -> Never
    [] event.kind = "always" -> Always
    [] event.kind = "hour"   -> IntoDay(FmodDay(event.hour) + localOffset)

Sunrise(sun, off) == SunChanged(sun.rise, off)

\* Variant: a sun that never sets is not told from one that has set.
SunsetNegative(sun, off) == SunChanged(sun.set, off)

\* getSunriseSunset: a day without end ends far beyond the end of the day.
Sunset(sun, off) ==
  LET h == SunChanged(sun.set, off)
  IN  IF h <= Always THEN -Always ELSE h

\* What autoSetTheme makes of it at the hour h of the local day.  The code adds
\* the hours to the start of the day as time that passes; the days on which the
\* clocks change, when that is not the hour of the day, are left out.
TakenForDay(sun, off, h) == Sunrise(sun, off) <= h /\ h <= Sunset(sun, off)

-----------------------------------------------------------------------------
\* Whether the sun is up, whatever the date of its rise: from the rise on, or
\* since ever if it was not down in the morning, and until the set, or without
\* end.  A day that has one of them without the sun is one of polar night.
SunIsUp(sun, off, h) ==
  LET kinds == <<sun.rise.kind, sun.set.kind>>
  IN \/ kinds = <<"always", "always">>
     \/ kinds = <<"hour", "always">> /\ (sun.rise.hour + off) % 24 <= h
     \/ kinds = <<"always", "hour">> /\ h <= (sun.set.hour + off) % 24
     \/ /\ kinds = <<"hour", "hour">>
        /\ (h - off - sun.rise.hour) % 24 <= (sun.set.hour - sun.rise.hour) % 24

\* The hour of an event is no more than a day behind local time.
NotFarBehind(event, off) == event.kind = "hour" => FmodDay(event.hour) + off >= -24

\* The sun rises before it sets on the local day, and if it does not come up by
\* its set it did not by its rise.
InOrder(sun, off) ==
  /\ sun.rise.kind = "hour" /\ sun.set.kind = "hour"
       => (sun.rise.hour + off) % 24 <= (sun.set.hour + off) % 24
  /\ sun.set.kind = "never" => sun.rise.kind = "never"

Regular(sun, off) ==
  /\ NotFarBehind(sun.rise, off)
  /\ NotFarBehind(sun.set, off)
  /\ InOrder(sun, off)
=============================================================================
