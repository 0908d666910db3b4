------------------------------- MODULE Slideshow -------------------------------
(***************************************************************************)
(* The slide shows of the wallpaper plugin: SlideshowManager with a loop   *)
(* and a scheduler for each monitor and workspace, the setting and the     *)
(* file that outlive the process, and the desktop around it.               *)
(*                                                                         *)
(* Every handler runs to its end in the one thread of the plugin.  The     *)
(* process may end after any of them; to end within one is to end after    *)
(* one whose saving failed, because saving comes last.                     *)
(***************************************************************************)
EXTENDS WallpaperLoop, WallpaperScheduler

CONSTANTS
  Space,       \* the keys of the setting: "<monitor>&&<workspace>"
  Malformed,   \* the keys among them that are not of this form
  Workspace,   \* the workspaces the window manager may be on
  WorkspaceOf, \* the workspace a key names
  Word,        \* the policies that are not a number of seconds
  NoSpace,     \* no key: m_curMonitorSpace before the first Set
  NoLoop,      \* a key without a loop
  NotJson,     \* a setting that is not JSON, the empty one among them
  NoPaper,     \* no image
  MaxPosted    \* how many calls may wait for one timer

\* The policies; Empty is the empty text, Unknown any other text.
Absent  == -5
Login   == -1
Wakeup  == -2
Empty   == -3
Unknown == -4

Policy == Seconds \cup Word

ASSUME SlideshowAssumption ==
  /\ Malformed \subseteq Space
  /\ NoSpace \notin Space
  /\ NoLoop \notin Loop
  /\ NoPaper \notin AllPaper
  /\ Word \subseteq {Login, Wakeup, Empty, Unknown}
  /\ NotJson \notin [Space -> Policy \cup {Absent}]
  /\ MaxPosted \in Nat \ {0}

VARIABLES
  setting,   \* m_wallpaperSlideShow, kept in DConfig
  saved,     \* wallpaper-slideshow.json: the images shown, by key
  alive,     \* the plugin is loaded
  kind,      \* m_wallpaperType
  cur,       \* m_curMonitorSpace
  loop,      \* m_wsLoopMap
  sched,     \* m_wsSchedulerMap; a key without one has one never used
  desk,      \* the type of the wallpaper the desktop shows
  space,     \* the current workspace
  locked,    \* the wallpaper_locked file exists
  wall,      \* history: the image last set as the background, by key
  touched,   \* history: the setting has changed since the plugin was loaded
  strayed,   \* history: the last updateWSPolicy did not go through
  drawn,     \* history: the images shown since the rotation of a key began
  carried,   \* history: the rotation of a key has not been lost or mixed up
  early      \* history: a rotation has repeated an image before its end

processVars == <<alive, kind, cur, loop, sched>>
worldVars   == <<desk, space, locked>>
historyVars == <<wall, touched, strayed, drawn, carried, early>>
vars        == <<setting, saved, processVars, worldVars, historyVars>>

Setting == [Space -> Policy \cup {Absent}] \cup {NotJson}

\* An entry of the file: the images listed, if there is one.
NoEntry      == [kept |-> FALSE, showed |-> {}]
Entry(l)     == [kept |-> TRUE, showed |-> l.showed]
EmptyFile    == [s \in Space |-> NoEntry]

\* The object the text of a setting parses to, by its keys.
Member(v) == IF v = NotJson THEN {} ELSE {s \in Space : v[s] # Absent}

Init ==
  /\ setting \in {NotJson, [s \in Space |-> Absent]}
  /\ saved = EmptyFile
  /\ alive = FALSE
  /\ desk \in Kind
  /\ space \in Workspace
  /\ kind = desk
  /\ cur = NoSpace
  /\ loop = [s \in Space |-> NoLoop]
  /\ sched = [s \in Space |-> NewScheduler]
  /\ locked = FALSE
  /\ wall = [s \in Space |-> NoPaper]
  /\ touched = FALSE
  /\ strayed = FALSE
  /\ drawn = [s \in Space |-> {}]
  /\ carried = [s \in Space |-> TRUE]
  /\ early = FALSE

-----------------------------------------------------------------------------
(* The file *)

\* saveWSConfig for each of keys S: the file is read, changed and written.
\* One that cannot be opened stays as it is; one whose writing fails is cut
\* short and reads as one without entries.  Nobody looks at the result.
SaveFor(S, l) ==
  {[s \in Space |-> IF s \in done THEN Entry(l[s]) ELSE base[s]] :
     done \in SUBSET S, base \in {saved}}
  \cup
  {[s \in Space |-> IF s \in done THEN Entry(l[s]) ELSE NoEntry] :
     done \in SUBSET S \ {S}}

\* Variant: only a new loop is given what the file lists.
LoadWSConfigOnce(l) ==
  [s \in Space |->
     IF ~saved[s].kept \/ l[s] # NoLoop THEN l[s]
     ELSE AddToShow(NewLoop(Custom), saved[s].showed)]

\* loadWSConfig on loops l: a loop it has to make is one of custom images.
LoadWSConfig(l) ==
  [s \in Space |->
     IF ~saved[s].kept THEN l[s]
     ELSE AddToShow(IF l[s] = NoLoop THEN NewLoop(Custom) ELSE l[s], saved[s].showed)]

-----------------------------------------------------------------------------
(* autoChangeBg *)

\* Variant: the test of the workspace is the wrong way round.
SetBackgroundElsewhere(S, w) ==
  [s \in Space |-> IF s \in S /\ WorkspaceOf[s] # space THEN w[s] ELSE wall[s]]

\* setMonitorBackground for keys S, with the images w: a call to another
\* service, only made for keys of the current workspace.
SetBackground(S, w) ==
  [s \in Space |-> IF s \in S /\ WorkspaceOf[s] = space THEN w[s] ELSE wall[s]]

\* A change for each of keys S, on loops l, the last thing a handler does.
\* The image counts as shown whether it is set or not.  A key that is
\* malformed uses up an image, sets and saves nothing.
Change(S, l) ==
  LET D == {s \in S : l[s] # NoLoop /\ Paper[l[s].kind] # {}}
      over(s) == IF carried[s] THEN Paper[l[s].kind] \subseteq drawn[s]
                 ELSE NotShowed(l[s]) = {}
  IN \E w \in [D -> AllPaper] :
       LET after == [s \in Space |-> IF s \in D THEN Showing(l[s], w[s]) ELSE l[s]]
       IN /\ \A s \in D : w[s] \in NextShow(l[s])
          /\ loop' = after
          /\ wall' = SetBackground(D \ Malformed, w)
          /\ saved' \in SaveFor(D \ Malformed, after)
          /\ drawn' = [s \in Space |->
                         IF s \notin D THEN drawn[s]
                         ELSE IF over(s) THEN {w[s]} ELSE drawn[s] \cup {w[s]}]
          /\ carried' = [s \in Space |-> carried[s] \/ (s \in D /\ over(s))]
          /\ early' = (early \/ \E s \in D :
                         carried[s] /\ w[s] \in drawn[s] /\ ~over(s))

CanPost(s) == Len(sched[s].posted) < MaxPosted

\* The timer of key s runs out.
TimeOutOf(s) ==
  /\ alive
  /\ sched[s].timer # Off
  /\ CanPost(s)
  /\ sched' = [sched EXCEPT ![s] = TimeOut(@)]
  /\ Change({s}, loop)
  /\ UNCHANGED <<setting, alive, kind, cur, worldVars, touched, strayed>>

\* The event loop gets to what is posted to the timer of key s.
DeliverTo(s) ==
  /\ alive
  /\ sched[s].posted # <<>>
  /\ sched' = [sched EXCEPT ![s] = Deliver(@)]
  /\ UNCHANGED <<setting, saved, alive, kind, cur, loop, worldVars, historyVars>>

\* handlePrepareForSleep(false)
WakeUp ==
  /\ alive
  /\ Change({s \in Member(setting) : setting[s] = Wakeup}, loop)
  /\ UNCHANGED <<setting, alive, kind, cur, sched, worldVars, touched, strayed>>

-----------------------------------------------------------------------------
(* updateWSPolicy *)

\* isValidWSPolicy
Valid(p) == p # Unknown

\* The policy p of a key on its scheduler, e seconds after the last change;
\* updateWSPolicy reads it as an int and has just set that time, init reads it
\* as a uint.
ApplyPolicy(c, p, e) == IF p \in Seconds THEN SetInterval(c, p, e) ELSE Stop(c)

UpdatePolicy(c, p) == IF p \in IntRange THEN ApplyPolicy(c, p, 0) ELSE Stop(c)

\* Variant: the else of the interval test ends up with the test of the key.
SchedulersForElse(v) ==
  [s \in Space |-> IF s \in Member(v) /\ Valid(v[s])
                     THEN IF s = cur THEN UpdatePolicy(sched[s], v[s]) ELSE Stop(sched[s])
                     ELSE sched[s]]

SchedulersFor(v) ==
  [s \in Space |-> IF s = cur /\ s \in Member(v) /\ Valid(v[s])
                     THEN UpdatePolicy(sched[s], v[s]) ELSE sched[s]]

\* Variant: a loop that exists is not given the new type.
LoopsForKeep(v, t) ==
  [s \in Space |-> IF s \notin Member(v) THEN LoadWSConfig(loop)[s]
                   ELSE NewLoop(IF loop[s] = NoLoop THEN t ELSE loop[s].kind)]

LoopsFor(v, t) ==
  [s \in Space |-> IF s \in Member(v) THEN NewLoop(t) ELSE LoadWSConfig(loop)[s]]

\* updateWSPolicy(v) with m_wallpaperType t.  Every loop of v begins anew;
\* only the scheduler of m_curMonitorSpace is looked at, and the loop of that
\* one is saved if it has an interval that is an int.
UpdateWSPolicy(v, t) ==
  \/ /\ locked \/ v = NotJson
     /\ strayed' = TRUE
     /\ UNCHANGED <<saved, loop, sched, drawn, carried>>
  \/ /\ ~locked /\ v # NotJson
     /\ strayed' = FALSE
     /\ cur # NoSpace => CanPost(cur)
     /\ loop' = LoopsFor(v, t)
     /\ sched' = SchedulersFor(v)
     /\ saved' \in SaveFor({s \in Member(v) \cap {cur} : v[s] \in Seconds \cap IntRange}, LoopsFor(v, t))
     /\ drawn' = [s \in Space |-> IF s \in Member(v) THEN {} ELSE drawn[s]]
     /\ carried' = [s \in Space |->
                      \/ s \in Member(v)
                      \/ carried[s] /\ (loop[s] # NoLoop => saved[s].showed \subseteq loop[s].showed)]

\* setWallpaperSlideShow with a new value.
SetTo(v) ==
  /\ setting' = v
  /\ touched' = TRUE
  /\ UpdateWSPolicy(v, kind)
  /\ UNCHANGED <<alive, kind, worldVars, wall, early>>

\* The property WallpaperSlideShow is written: any text but that of the
\* setting, so also another text of the same object.  (DConfig is valid; if it
\* were not, no setting would ever be taken.)
SetProperty(v) ==
  /\ alive
  /\ SetTo(v)
  /\ UNCHANGED cur

\* SetWallpaperSlideShow, for a monitor on the current workspace: the policy
\* itself is parsed where the setting should be, which leaves this key alone in
\* the new setting (a policy that is itself the text of an object is left out).
\* The setting may be that object already, by the same text or by another.
\* m_curMonitorSpace is set when all is done.
SetSlideShow(s, p) ==
  LET v == [x \in Space |-> IF x = s THEN p ELSE Absent]
  IN /\ alive
     /\ WorkspaceOf[s] = space
     /\ cur' = s
     /\ \/ /\ v = setting
           /\ UNCHANGED <<setting, saved, alive, kind, loop, sched, worldVars, historyVars>>
        \/ SetTo(v)

\* The desktop has announced a change; what it shows is asked for now.
OnWallpaperChanged ==
  /\ alive
  /\ kind # desk
  /\ kind' = desk
  /\ UpdateWSPolicy(setting, desk)
  /\ UNCHANGED <<setting, alive, cur, worldVars, wall, touched, early>>

-----------------------------------------------------------------------------
(* The process *)

\* SlideshowManager is made.  m_wallpaperType is compared with the type of the
\* desktop before anything is assigned to it; only if they differ is there an
\* updateWSPolicy, before init makes what is missing.  The time of the last
\* change is the one in the file, written as UTC and read as local time, or
\* now: e is what has gone since.  An interval that is over brings a change at
\* once, and so does a new session under the policy "login", which is up to the
\* file of the session.
Load ==
  /\ ~alive
  /\ alive' = TRUE
  /\ kind' = desk
  /\ \E differs \in BOOLEAN, e \in [Space -> Elapsed] :
       LET applied == differs /\ ~locked
           asked   == [s \in Space |-> IF applied /\ s \in Member(setting)
                                         THEN NewLoop(desk) ELSE NoLoop]
           read    == LoadWSConfig(asked)
           made    == [s \in Space |-> IF s \in Member(setting) /\ read[s] = NoLoop
                                         THEN NewLoop(desk) ELSE read[s]]
           logins  == {s \in Member(setting) : setting[s] = Login}
           over    == {s \in Member(setting) : setting[s] \in Seconds /\ Over(setting[s], e[s])}
       IN /\ \A s \in Space : ~saved[s].kept => e[s] = 0
          /\ strayed' = ~applied
          /\ \E S \in SUBSET logins : Change(over \cup S, made)
          /\ sched' = [s \in Space |->
                         IF s \in Member(setting) /\ Valid(setting[s]) /\ setting[s] # Login
                           THEN ApplyPolicy(NewScheduler, setting[s], e[s]) ELSE NewScheduler]
  /\ UNCHANGED <<setting, cur, worldVars, touched>>

\* The plugin is unloaded, or the process ends.
Unload ==
  /\ alive
  /\ alive' = FALSE
  /\ cur' = NoSpace
  /\ loop' = [s \in Space |-> NoLoop]
  /\ sched' = [s \in Space |-> NewScheduler]
  /\ touched' = FALSE
  /\ strayed' = FALSE
  /\ carried' = [s \in Space |-> carried[s] /\ (loop[s] # NoLoop => saved[s].showed = loop[s].showed)]
  /\ UNCHANGED <<setting, saved, kind, worldVars, wall, drawn, early>>

-----------------------------------------------------------------------------
(* The world around the plugin *)

\* Another wallpaper, by the user or by the slide show.
Desktop(t) ==
  /\ desk' = t
  /\ UNCHANGED <<setting, saved, processVars, space, locked, historyVars>>

\* The user goes to another workspace.
SwitchWorkspace(w) ==
  /\ space' = w
  /\ UNCHANGED <<setting, saved, processVars, desk, locked, historyVars>>

Lock ==
  /\ locked' = ~locked
  /\ UNCHANGED <<setting, saved, processVars, desk, space, historyVars>>

Next ==
  \/ \E s \in Space : TimeOutOf(s) \/ DeliverTo(s)
  \/ WakeUp
  \/ \E v \in Setting : SetProperty(v)
  \/ \E s \in Space, p \in Policy : SetSlideShow(s, p)
  \/ OnWallpaperChanged
  \/ Load
  \/ Unload
  \/ \E t \in Kind : Desktop(t)
  \/ \E w \in Workspace : SwitchWorkspace(w)
  \/ Lock

Spec == Init /\ [][Next]_vars

\* The event loop delivers what is posted, and a timer that is on runs out.
FairSpec ==
  /\ Spec
  /\ \A s \in Space : WF_vars(DeliverTo(s)) /\ WF_vars(TimeOutOf(s))

-----------------------------------------------------------------------------
(* Properties *)

TypeOK ==
  /\ setting \in Setting
  /\ saved \in [Space -> [kept : BOOLEAN, showed : SUBSET AllPaper]]
  /\ alive \in BOOLEAN
  /\ kind \in Kind
  /\ cur \in Space \cup {NoSpace}
  /\ loop \in [Space -> Loop \cup {NoLoop}]
  /\ sched \in [Space -> Scheduler]
  /\ desk \in Kind
  /\ space \in Workspace
  /\ locked \in BOOLEAN
  /\ wall \in [Space -> AllPaper \cup {NoPaper}]
  /\ touched \in BOOLEAN
  /\ strayed \in BOOLEAN
  /\ drawn \in [Space -> SUBSET AllPaper]
  /\ carried \in [Space -> BOOLEAN]
  /\ early \in BOOLEAN

\* What a timer will do once all that is posted to it has arrived is what
\* stopScheduler and interval say now: a slide show that was stopped does not
\* start again by a time-out that was on its way, and one that was started is
\* not stopped by an older stop.  Nothing is said of the period of one whose
\* milliseconds an int cannot hold: it may be any, or the timer may be off.
TimerFollowsFlag ==
  \A s \in Space : LET c == sched[s] IN
    /\ c.stop \/ c.interval = 0 => Outcome(c) = Off
    /\ ~c.stop /\ c.interval # 0 /\ Fits(c.interval - c.gone)
         => Outcome(c) = c.interval - c.gone

\* From the start of the plugin to the first change of the setting, no timer
\* runs that the setting does not ask for, and each that it asks for runs as
\* long as it says, also when the type of the wallpaper changes: in
\* milliseconds, the first period by the seconds gone since the last change
\* shorter, and if an int can hold them.
UntouchedRunsSetting ==
  alive /\ ~touched =>
    \A s \in Space :
      LET asked == s \in Member(setting) /\ setting[s] \in Seconds \ {0}
          ms    == MsPerSec * setting[s]
      IN /\ ~asked => Outcome(sched[s]) = Off
         /\ asked => (Fits(ms) /\ Fits(ms - sched[s].gone)
                         => Outcome(sched[s]) = ms - sched[s].gone)

\* If the last updateWSPolicy went through, every key of the setting has a
\* loop, and it is one of the type of the desktop's wallpaper.
LoopsFollowType ==
  alive /\ ~strayed =>
    \A s \in Member(setting) : loop[s] # NoLoop /\ loop[s].kind = kind

\* No image is shown twice in a rotation before the others of its type have
\* been shown, also if the plugin is restarted in between, as long as the file
\* lists what the loop did when the two meet; nothing is said after a saving
\* that failed, until the rotation is over.
NoEarlyRepeat == ~early

\* Interval n, and what may be left of it at first, are milliseconds an int can
\* hold.
FitsAlways(n) ==
  /\ n > 0 /\ Fits(MsPerSec * n)
  /\ \A e \in Elapsed : Over(n, e) \/ Fits(MsPerSec * n - e)

\* A well formed key with such an interval goes on setting another wallpaper as
\* the background of its monitor, also after restarts and failed savings, if the
\* plugin stays loaded on the workspace of the key, the setting is left alone
\* and the type of the wallpaper does not change any more; for loops of a type
\* that has two images at least.
ChangesGoOn ==
  \A s \in Space \ Malformed :
    <>[](/\ alive /\ ~touched /\ kind = desk /\ space = WorkspaceOf[s]
         /\ s \in Member(setting) /\ setting[s] \in Seconds /\ FitsAlways(setting[s])
         /\ \E x, y \in Paper[loop[s].kind] : x # y)
      => []<><<TimeOutOf(s) /\ wall'[s] # wall[s]>>_vars

-----------------------------------------------------------------------------
(* What the interface says and the code does not do *)

\* org.deepin.dde.WallpaperSlideshow.xml:7-10: SetWallpaperSlideShow sets the
\* slide show of the monitor it names.  It leaves those of the others alone.
SetLeavesOthers ==
  [][\A s \in Space, p \in Policy : SetSlideShow(s, p) =>
       \A x \in Member(setting) \ {s} : x \in Member(setting') /\ setting'[x] = setting[x]]_vars
=============================================================================
