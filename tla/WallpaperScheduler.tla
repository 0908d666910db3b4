--------------------------- MODULE WallpaperScheduler ---------------------------
(***************************************************************************)
(* The timer of one slide show.  start and stop are posted to the timer    *)
(* (Qt::QueuedConnection) and reach it when control is back in the event   *)
(* loop; stopScheduler is set at once.                                     *)
(*                                                                         *)
(* An interval is asked for in seconds and kept in milliseconds; what the  *)
(* timer is started with is cast to int.  The time since the last change,  *)
(* which makes the first period shorter, is counted in seconds and taken   *)
(* from the milliseconds as it is.                                         *)
(***************************************************************************)
EXTENDS CInt, Sequences

CONSTANTS
  Seconds,    \* the intervals that can be asked for (uint), 0 among them
  MsPerSec,   \* 1000
  Elapsed     \* the seconds that may have gone since the last change

ASSUME SecondsAssumption ==
  /\ Seconds \subseteq 0 .. 2 * IntHalf - 1
  /\ 0 \in Seconds
  /\ MsPerSec \in Nat \ {0}
  /\ Elapsed \subseteq Int
  /\ 0 \in Elapsed

\* A timer that is off, and a posted stop.
Off == -1

\* gone is history: the seconds the last setInterval took from the interval,
\* 0 from the next time-out on.
Scheduler ==
  [stop : BOOLEAN, interval : {MsPerSec * n : n \in Seconds},
   timer : {Off} \cup 0 .. IntHalf - 1, posted : Seq(IntRange), gone : Elapsed]

NewScheduler ==
  [stop |-> FALSE, interval |-> 0, timer |-> Off, posted |-> <<>>, gone |-> 0]

\* QTimer::start refuses a negative period and leaves the timer off.
Period(m) == IF m < 0 THEN Off ELSE m

\* start, with the cast of its callers.
Start(c, ms) == [c EXCEPT !.posted = Append(@, ToInt(ms))]

Stop(c) == [c EXCEPT !.stop = TRUE, !.posted = Append(@, Off)]

\* Is interval n over when e seconds have gone?  They are compared with its
\* milliseconds.
Over(n, e) == n > 0 /\ e >= MsPerSec * n

\* Variant: the interval is kept in seconds.
SetIntervalSeconds(c, n, e) ==
  LET part == IF Over(n, e) THEN 0 ELSE e
      d    == [c EXCEPT !.stop = FALSE, !.interval = n, !.gone = part]
  IN IF n = 0 THEN Stop(c) ELSE Start(d, MsPerSec * n - part)

\* setInterval, e seconds after the last change; when the interval is over
\* there is a change first, and the timer is started with the whole of it.
SetInterval(c, n, e) ==
  LET part == IF Over(n, e) THEN 0 ELSE e
      d    == [c EXCEPT !.stop = FALSE, !.interval = MsPerSec * n, !.gone = part]
  IN IF n = 0 THEN Stop(c) ELSE Start(d, MsPerSec * n - part)

\* The event loop hands the timer the first of what is posted to it.
Deliver(c) == [c EXCEPT !.timer = Period(Head(c.posted)), !.posted = Tail(@)]

\* Variant: the timer is started again whatever stopScheduler says.
TimeOutRestarts(c) == Start([c EXCEPT !.gone = 0], c.interval)

\* handleChangeTimeOut, after the change.
TimeOut(c) == IF c.stop THEN c ELSE Start([c EXCEPT !.gone = 0], c.interval)

\* What the timer does once all that is posted has reached it.
Outcome(c) == IF c.posted = <<>> THEN c.timer ELSE Period(c.posted[Len(c.posted)])

\* The milliseconds an int can hold.
Fits(ms) == ms \in 0 .. IntHalf - 1
=============================================================================
