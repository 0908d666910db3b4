--------------------------- MODULE SlideshowProofs ---------------------------
(***************************************************************************)
(* Proofs about the slide shows, for any keys, images and intervals.       *)
(***************************************************************************)
EXTENDS Slideshow, SequenceTheorems, TLAPS

(* The scheduler *)

\* A scheduler that never had an interval has a timer that is off.
Idle(c) ==
  c.interval = 0 =>
    c.timer = Off /\ \A i \in 1 .. Len(c.posted) : c.posted[i] = Off

\* The timer will run with what an int keeps of the period, or be off.
Faithful(c) ==
  /\ c \in Scheduler
  /\ Idle(c)
  /\ Outcome(c) = IF c.stop \/ c.interval = 0 THEN Off
                  ELSE Period(ToInt(c.interval - c.gone))

\* The milliseconds of an interval.
LEMMA MsFact ==
  ASSUME NEW n \in Seconds
  PROVE  /\ n \in Nat /\ MsPerSec * n \in Nat
         /\ MsPerSec * n = 0 <=> n = 0
         /\ n <= MsPerSec * n
<1>1. n \in Nat /\ MsPerSec \in Nat \ {0}
  BY SecondsAssumption, IntAssumption
<1>2. \A a, b \in Nat : a # 0 => a * b \in Nat /\ b <= a * b
  OBVIOUS
<1>3. MsPerSec * 0 = 0
  BY <1>1
<1>4. n <= MsPerSec * n /\ MsPerSec * n \in Nat
  BY <1>1, <1>2
<1> QED
  BY <1>1, <1>3, <1>4

\* Every period is one a timer can have.
LEMMA PeriodFact ==
  ASSUME NEW m \in IntRange
  PROVE  /\ Period(m) \in {Off} \cup 0 .. IntHalf - 1
         /\ m \in 0 .. IntHalf - 1 => Period(m) = m
BY IntAssumption DEF Period, IntRange, Off

\* Off is a number that can be posted, and turns a timer off.
LEMMA OffFact == Off \in IntRange /\ Period(Off) = Off
BY IntAssumption DEF Off, IntRange, Period

\* The parts of a scheduler.
LEMMA PartsFact ==
  ASSUME NEW c \in Scheduler
  PROVE  /\ c.stop \in BOOLEAN
         /\ c.interval \in Int /\ c.interval \in {MsPerSec * n : n \in Seconds}
         /\ c.gone \in Int /\ c.gone \in Elapsed
         /\ c.timer \in {Off} \cup 0 .. IntHalf - 1
         /\ c.posted \in Seq(IntRange)
<1>1. \A n \in Seconds : MsPerSec * n \in Int
  BY MsFact
<1> QED
  BY <1>1, SecondsAssumption DEF Scheduler

\* What is posted last is what the timer will do.
LEMMA AppendFact ==
  ASSUME NEW c \in Scheduler, NEW m \in IntRange, NEW d,
         d = [c EXCEPT !.posted = Append(@, m)]
  PROVE  /\ d \in Scheduler /\ Outcome(d) = Period(m)
         /\ d.stop = c.stop /\ d.interval = c.interval /\ d.gone = c.gone
         /\ Idle(c) /\ (c.interval = 0 => m = Off) => Idle(d)
<1>1. c.posted \in Seq(IntRange)
  BY DEF Scheduler
<1>2. /\ Append(c.posted, m) \in Seq(IntRange) /\ Append(c.posted, m) # <<>>
      /\ Append(c.posted, m)[Len(Append(c.posted, m))] = m
      /\ \A i \in 1 .. Len(Append(c.posted, m)) :
           \/ i \in 1 .. Len(c.posted) /\ Append(c.posted, m)[i] = c.posted[i]
           \/ Append(c.posted, m)[i] = m
  BY <1>1
<1>3. /\ d \in Scheduler
      /\ d.posted = Append(c.posted, m) /\ d.timer = c.timer
      /\ d.stop = c.stop /\ d.interval = c.interval /\ d.gone = c.gone
  BY <1>2 DEF Scheduler
<1>4. Outcome(d) = Period(m)
  BY <1>2, <1>3 DEF Outcome
<1>5. Idle(c) /\ (c.interval = 0 => m = Off) => Idle(d)
  BY <1>2, <1>3 DEF Idle
<1> QED
  BY <1>3, <1>4, <1>5

\* A scheduler that is stopped will have its timer off.
LEMMA StopFact ==
  ASSUME NEW c, Faithful(c)
  PROVE  Faithful(Stop(c)) /\ Stop(c).stop = TRUE
<1> DEFINE d == [c EXCEPT !.stop = TRUE]
<1>1. /\ d \in Scheduler /\ d.stop = TRUE
      /\ d.posted = c.posted /\ d.interval = c.interval /\ d.timer = c.timer
  BY DEF Faithful, Scheduler
<1>2. Stop(c) = [d EXCEPT !.posted = Append(@, Off)]
  BY DEF Stop, Faithful, Scheduler
<1>3. Idle(d)
  BY <1>1 DEF Idle, Faithful
<1> HIDE DEF d
<1>4. /\ Stop(c) \in Scheduler /\ Outcome(Stop(c)) = Off
      /\ Stop(c).stop = TRUE /\ Idle(Stop(c))
  BY <1>1, <1>2, <1>3, AppendFact, OffFact
<1> QED
  BY <1>4 DEF Faithful

\* A scheduler that goes on, with an interval, will run.
LEMMA StartFact ==
  ASSUME NEW c \in Scheduler, c.stop = FALSE, c.interval # 0
  PROVE  LET d == Start(c, c.interval - c.gone)
         IN Faithful(d) /\ d.stop = FALSE /\ d.interval = c.interval /\ d.gone = c.gone
<1> DEFINE ms == c.interval - c.gone
           d == Start(c, ms)
<1>1. ms \in Int
  BY PartsFact
<1>2. ToInt(ms) \in IntRange
  <2> HIDE DEF ms
  <2> QED
    BY <1>1, ToIntFact
<1>3. d = [c EXCEPT !.posted = Append(@, ToInt(ms))]
  BY DEF Start
<1> DEFINE m == ToInt(ms)
<1> HIDE DEF d
<1>4. /\ d \in Scheduler /\ Outcome(d) = Period(m)
      /\ d.stop = FALSE /\ d.interval = c.interval /\ d.gone = c.gone
  <2>1. m \in IntRange /\ d = [c EXCEPT !.posted = Append(@, m)]
    BY <1>2, <1>3
  <2> HIDE DEF m
  <2> QED
    BY <2>1, AppendFact
<1>5. Idle(d)
  BY <1>4 DEF Idle
<1>6. Faithful(d)
  BY <1>4, <1>5 DEF Faithful
<1> QED
  BY <1>4, <1>6 DEF d

\* One with an interval will have its timer on, one with none is stopped.
LEMMA SetIntervalFact ==
  ASSUME NEW c, Faithful(c), NEW n \in Seconds, NEW e \in Elapsed
  PROVE  LET d == SetInterval(c, n, e)
         IN /\ Faithful(d)
            /\ n = 0 => d.stop = TRUE
            /\ n # 0 => d.stop = FALSE /\ d.interval = MsPerSec * n
<1>1. CASE n = 0
  <2>1. SetInterval(c, n, e) = Stop(c)
    BY <1>1 DEF SetInterval
  <2> QED
    BY <1>1, <2>1, StopFact
<1>2. CASE n # 0
  <2> DEFINE part == IF Over(n, e) THEN 0 ELSE e
             d == [c EXCEPT !.stop = FALSE, !.interval = MsPerSec * n, !.gone = part]
  <2>1. part \in Elapsed
    BY SecondsAssumption
  <2>2. /\ d \in Scheduler /\ d.stop = FALSE
        /\ d.interval = MsPerSec * n /\ d.gone = part
    <3> HIDE DEF part
    <3> QED
      BY <2>1 DEF Faithful, Scheduler
  <2>3. SetInterval(c, n, e) = Start(d, MsPerSec * n - part)
    BY <1>2 DEF SetInterval
  <2>4. MsPerSec * n # 0
    BY <1>2, MsFact
  <2> HIDE DEF d, part
  <2>5. SetInterval(c, n, e) = Start(d, d.interval - d.gone) /\ d.interval # 0
    BY <2>2, <2>3, <2>4
  <2>6. LET k == Start(d, d.interval - d.gone)
        IN Faithful(k) /\ k.stop = FALSE /\ k.interval = d.interval
    BY <2>2, <2>5, StartFact
  <2> QED
    BY <1>2, <2>2, <2>5, <2>6
<1> QED
  BY <1>1, <1>2

\* A time-out changes neither the flag nor the interval.
LEMMA TimeOutFact ==
  ASSUME NEW c, Faithful(c), c.timer # Off
  PROVE  Faithful(TimeOut(c)) /\ TimeOut(c).stop = c.stop /\ TimeOut(c).interval = c.interval
<1>1. c \in Scheduler /\ c.interval # 0 /\ c.stop \in BOOLEAN
  BY PartsFact DEF Faithful, Idle
<1>2. CASE c.stop
  BY <1>2 DEF TimeOut
<1>3. CASE ~c.stop
  <2> DEFINE d == [c EXCEPT !.gone = 0]
  <2>1. d \in Scheduler /\ d.stop = FALSE /\ d.interval = c.interval /\ d.gone = 0
    BY <1>1, <1>3, SecondsAssumption DEF Scheduler
  <2>2. TimeOut(c) = Start(d, c.interval)
    BY <1>3 DEF TimeOut
  <2>3. c.interval \in Int
    BY <1>1, PartsFact
  <2> HIDE DEF d
  <2>4. TimeOut(c) = Start(d, d.interval - d.gone) /\ d.interval # 0
    BY <1>1, <2>1, <2>2, <2>3
  <2>5. LET k == Start(d, d.interval - d.gone)
        IN Faithful(k) /\ k.stop = FALSE /\ k.interval = d.interval
    BY <2>1, <2>4, StartFact
  <2> QED
    BY <1>1, <1>3, <2>1, <2>4, <2>5
<1> QED
  BY <1>2, <1>3

\* The last of a sequence is the last of its tail, if there is one.
LEMMA LastOfTail ==
  ASSUME NEW S, NEW q \in Seq(S), q # <<>>
  PROVE  IF Tail(q) = <<>> THEN q[Len(q)] = Head(q)
                           ELSE Tail(q)[Len(Tail(q))] = q[Len(q)]
<1> DEFINE t == Tail(q)
<1>1. Len(<<>>) = 0 /\ \A r \in Seq(S) : r # <<>> => Len(r) \in Nat \ {0}
  BY EmptySeq
<1>2. t \in Seq(S) /\ Len(t) = Len(q) - 1 /\ \A i \in 1..Len(t) : t[i] = q[i + 1]
  BY HeadTailProperties
<1>3. Len(q) \in Nat \ {0} /\ Head(q) = q[1]
  BY <1>1
<1> HIDE DEF t
<1>4. CASE t = <<>>
  <2>1. Len(q) = 1
    BY <1>1, <1>2, <1>3, <1>4
  <2> QED
    BY <1>3, <1>4, <2>1 DEF t
<1>5. CASE t # <<>>
  <2>1. Len(t) \in Nat \ {0}
    BY <1>1, <1>2, <1>5
  <2>2. t[Len(t)] = q[Len(t) + 1] /\ Len(t) + 1 = Len(q)
    BY <1>2, <1>3, <2>1
  <2> QED
    BY <1>5, <2>2 DEF t
<1> QED
  BY <1>4, <1>5

\* Nor does a delivery.
LEMMA DeliverFact ==
  ASSUME NEW c, Faithful(c), c.posted # <<>>
  PROVE  Faithful(Deliver(c)) /\ Deliver(c).stop = c.stop /\ Deliver(c).interval = c.interval
<1> DEFINE q == c.posted
           d == Deliver(c)
<1>1. c \in Scheduler /\ q \in Seq(IntRange) /\ q # <<>>
  BY DEF Faithful, Scheduler
<1>2. Head(q) \in IntRange /\ Tail(q) \in Seq(IntRange)
  BY <1>1
<1>3. Period(Head(q)) \in {Off} \cup 0 .. IntHalf - 1
  BY <1>2, PeriodFact
<1>4. /\ d \in Scheduler
      /\ d.posted = Tail(q) /\ d.timer = Period(Head(q))
      /\ d.stop = c.stop /\ d.interval = c.interval /\ d.gone = c.gone
  BY <1>1, <1>2, <1>3 DEF Deliver, Scheduler
<1>5. Outcome(d) = Outcome(c)
  BY <1>1, <1>4, LastOfTail DEF Outcome
<1>6. Idle(d)
  <2> SUFFICES ASSUME d.interval = 0
               PROVE  d.timer = Off /\ \A i \in 1 .. Len(d.posted) : d.posted[i] = Off
    BY DEF Idle
  <2>1. \A i \in 1 .. Len(q) : q[i] = Off
    BY <1>4 DEF Faithful, Idle
  <2>2. /\ Head(q) = q[1] /\ 1 \in 1 .. Len(q)
        /\ Len(Tail(q)) = Len(q) - 1 /\ Len(q) \in Nat
        /\ \A i \in 1 .. Len(Tail(q)) : Tail(q)[i] = q[i + 1]
    BY <1>1, HeadTailProperties
  <2>3. Period(Head(q)) = Off
    BY <2>1, <2>2, OffFact
  <2>4. ASSUME NEW i \in 1 .. Len(Tail(q))
        PROVE  Tail(q)[i] = Off
    <3>1. i + 1 \in 1 .. Len(q)
      BY <2>2
    <3> QED
      BY <2>1, <2>2, <3>1
  <2> QED
    BY <1>4, <2>3, <2>4
<1> HIDE DEF d
<1>7. Faithful(d)
  BY <1>4, <1>5, <1>6 DEF Faithful
<1> QED
  BY <1>4, <1>7 DEF d

\* A scheduler that was never used is off.
LEMMA NewSchedulerFact ==
  Faithful(NewScheduler) /\ NewScheduler.stop = FALSE /\ NewScheduler.interval = 0
<1>1. 0 \in {MsPerSec * n : n \in Seconds}
  BY MsFact, SecondsAssumption
<1>2. <<>> \in Seq(IntRange) /\ Len(<<>>) = 0
  OBVIOUS
<1>3. NewScheduler \in Scheduler
  BY <1>1, <1>2, SecondsAssumption DEF NewScheduler, Scheduler
<1>4. Idle(NewScheduler)
  BY <1>2 DEF NewScheduler, Idle
<1> QED
  BY <1>3, <1>4 DEF Faithful, Outcome, NewScheduler

-----------------------------------------------------------------------------
(* The timers *)

\* Setting v asks for an interval for key s.
Asks(v, s) == s \in Member(v) /\ v[s] \in Seconds \ {0}

\* A scheduler is on for key s only if setting v asks for it, and with the
\* interval v says if an int can hold its milliseconds.
Serves(c, v, s) ==
  /\ ~Asks(v, s) => c.stop \/ c.interval = 0
  /\ Asks(v, s) /\ Fits(MsPerSec * v[s]) => ~c.stop /\ c.interval = MsPerSec * v[s]

AllFaithful(m) == m \in [Space -> Scheduler] /\ \A s \in Space : Faithful(m[s])

AllServe(m, v) == \A s \in Space : Serves(m[s], v, s)

TimerInv ==
  /\ AllFaithful(sched)
  /\ alive /\ ~touched => AllServe(sched, setting)

\* An interval is a policy that is valid, and is not "login".
LEMMA SecondsValid ==
  ASSUME NEW n \in Seconds
  PROVE  Valid(n) /\ n # Login
BY SecondsAssumption, IntAssumption DEF Valid, Unknown, Login

\* A policy on a scheduler: on for an interval, off for any word.
LEMMA ApplyPolicyFact ==
  ASSUME NEW c, Faithful(c), NEW v, NEW s \in Member(v), NEW e \in Elapsed
  PROVE  Faithful(ApplyPolicy(c, v[s], e)) /\ Serves(ApplyPolicy(c, v[s], e), v, s)
<1> DEFINE p == v[s]
           d == ApplyPolicy(c, p, e)
<1>1. CASE p \in Seconds
  <2>1. d = SetInterval(c, p, e)
    BY <1>1 DEF ApplyPolicy
  <2>2. /\ Faithful(d)
        /\ p = 0 => d.stop = TRUE
        /\ p # 0 => d.stop = FALSE /\ d.interval = MsPerSec * p
    <3> HIDE DEF p
    <3> QED
      BY <1>1, <2>1, SetIntervalFact
  <2> HIDE DEF d
  <2>3. Serves(d, v, s)
    BY <1>1, <2>2 DEF Serves, Asks
  <2> QED
    BY <2>2, <2>3 DEF d
<1>2. CASE p \notin Seconds
  <2>1. d = Stop(c)
    BY <1>2 DEF ApplyPolicy
  <2>2. Faithful(d) /\ d.stop = TRUE
    BY <2>1, StopFact
  <2> HIDE DEF d
  <2>3. Serves(d, v, s)
    BY <1>2, <2>2 DEF Serves, Asks
  <2> QED
    BY <2>2, <2>3 DEF d
<1> QED
  BY <1>1, <1>2

\* The same for updateWSPolicy: an interval it does not read as an int is one
\* whose milliseconds are none either.
LEMMA UpdatePolicyFact ==
  ASSUME NEW c, Faithful(c), NEW v, NEW s \in Member(v)
  PROVE  Faithful(UpdatePolicy(c, v[s])) /\ Serves(UpdatePolicy(c, v[s]), v, s)
<1>1. CASE v[s] \in IntRange
  BY <1>1, ApplyPolicyFact, SecondsAssumption DEF UpdatePolicy
<1>2. CASE v[s] \notin IntRange
  <2>1. UpdatePolicy(c, v[s]) = Stop(c)
    BY <1>2 DEF UpdatePolicy
  <2>2. Faithful(Stop(c)) /\ Stop(c).stop = TRUE
    BY StopFact
  <2>3. ASSUME Asks(v, s) PROVE ~Fits(MsPerSec * v[s])
    <3> DEFINE n == v[s]
               ms == MsPerSec * n
    <3>1. n \in Seconds
      BY <2>3 DEF Asks
    <3>2. n \in Nat /\ ms \in Nat /\ n <= ms
      <4> HIDE DEF n
      <4> QED
        BY <3>1, MsFact
    <3>3. n \notin -IntHalf .. IntHalf - 1
      BY <1>2 DEF IntRange
    <3> HIDE DEF n, ms
    <3>4. ms \notin 0 .. IntHalf - 1
      BY <3>2, <3>3, IntAssumption
    <3> QED
      BY <3>4 DEF Fits, ms, n
  <2> QED
    BY <2>1, <2>2, <2>3 DEF Serves
<1> QED
  BY <1>1, <1>2

\* updateWSPolicy leaves every scheduler faithful, and each as the setting asks
\* if that is what it was.
LEMMA SchedulersFact ==
  ASSUME NEW v, AllFaithful(sched)
  PROVE  /\ AllFaithful(SchedulersFor(v))
         /\ AllServe(sched, v) => AllServe(SchedulersFor(v), v)
<1>1. ASSUME NEW s \in Space
      PROVE  /\ Faithful(SchedulersFor(v)[s])
             /\ Serves(sched[s], v, s) => Serves(SchedulersFor(v)[s], v, s)
  <2>1. Faithful(sched[s])
    BY DEF AllFaithful
  <2>2. CASE s = cur /\ s \in Member(v) /\ Valid(v[s])
    <3>1. SchedulersFor(v)[s] = UpdatePolicy(sched[s], v[s])
      BY <2>2 DEF SchedulersFor
    <3> QED
      BY <2>1, <2>2, <3>1, UpdatePolicyFact
  <2>3. CASE ~(s = cur /\ s \in Member(v) /\ Valid(v[s]))
    BY <2>1, <2>3 DEF SchedulersFor
  <2> QED
    BY <2>2, <2>3
<1>2. SchedulersFor(v) \in [Space -> Scheduler]
  BY <1>1 DEF SchedulersFor, Faithful
<1> QED
  BY <1>1, <1>2 DEF AllFaithful, AllServe

\* The timers that Load starts are those the setting asks for.
LEMMA LoadTimers ==
  ASSUME Load
  PROVE  TimerInv'
<1>0. PICK e \in [Space -> Elapsed] :
        sched' = [s \in Space |->
                    IF s \in Member(setting) /\ Valid(setting[s]) /\ setting[s] # Login
                      THEN ApplyPolicy(NewScheduler, setting[s], e[s]) ELSE NewScheduler]
  BY DEF Load
<1>1. ASSUME NEW s \in Space
      PROVE  Faithful(sched'[s]) /\ Serves(sched'[s], setting, s)
  <2>1. CASE s \in Member(setting) /\ Valid(setting[s]) /\ setting[s] # Login
    <3>1. sched'[s] = ApplyPolicy(NewScheduler, setting[s], e[s]) /\ e[s] \in Elapsed
      BY <1>0, <2>1
    <3> QED
      BY <2>1, <3>1, NewSchedulerFact, ApplyPolicyFact
  <2>2. CASE ~(s \in Member(setting) /\ Valid(setting[s]) /\ setting[s] # Login)
    <3>1. sched'[s] = NewScheduler
      BY <1>0, <2>2
    <3>2. ~Asks(setting, s)
      BY <2>2, SecondsValid DEF Asks
    <3> QED
      BY <3>1, <3>2, NewSchedulerFact DEF Serves
  <2> QED
    BY <2>1, <2>2
<1>2. sched' \in [Space -> Scheduler]
  BY <1>0, <1>1 DEF Faithful
<1>3. setting' = setting
  BY DEF Load
<1> QED
  BY <1>1, <1>2, <1>3 DEF TimerInv, AllFaithful, AllServe

\* updateWSPolicy(v), after which the setting is v.
LEMMA UpdateTimers ==
  ASSUME TimerInv, NEW v, NEW t, UpdateWSPolicy(v, t)
  PROVE  /\ AllFaithful(sched)'
         /\ AllServe(sched, v) => AllServe(sched', v)
<1>1. AllFaithful(sched)
  BY DEF TimerInv
<1>2. CASE sched' = sched
  BY <1>1, <1>2 DEF AllFaithful
<1>3. CASE sched' = SchedulersFor(v)
  BY <1>1, <1>3, SchedulersFact DEF AllFaithful
<1> QED
  BY <1>2, <1>3 DEF UpdateWSPolicy

\* A new setting.
LEMMA SetTimers ==
  ASSUME TimerInv, NEW v, SetTo(v)
  PROVE  TimerInv'
<1>1. touched' = TRUE
  BY DEF SetTo
<1>2. AllFaithful(sched)'
  BY UpdateTimers DEF SetTo
<1> QED
  BY <1>1, <1>2 DEF TimerInv

\* Every step preserves the invariant.
LEMMA TimerStep ==
  ASSUME TimerInv, [Next]_vars
  PROVE  TimerInv'
<1>u. AllFaithful(sched)
  BY DEF TimerInv
<1>s. ASSUME UNCHANGED <<setting, alive, touched, sched>>
      PROVE  TimerInv'
  BY <1>s DEF TimerInv, AllFaithful, AllServe
<1>1. CASE \E s \in Space : TimeOutOf(s) \/ DeliverTo(s)
  <2>1. PICK s \in Space : TimeOutOf(s) \/ DeliverTo(s)
    BY <1>1
  <2>2. sched[s] \in Scheduler /\ Faithful(sched[s]) /\ sched \in [Space -> Scheduler]
    BY <1>u DEF AllFaithful
  <2>3. PICK d : /\ setting' = setting /\ alive' = alive /\ touched' = touched
                 /\ sched' = [sched EXCEPT ![s] = d]
                 /\ Faithful(d) /\ d.stop = sched[s].stop /\ d.interval = sched[s].interval
    <3>1. CASE TimeOutOf(s)
      BY <2>2, <3>1, TimeOutFact DEF TimeOutOf
    <3>2. CASE DeliverTo(s)
      BY <2>2, <3>2, DeliverFact DEF DeliverTo, historyVars
    <3> QED
      BY <2>1, <3>1, <3>2
  <2>4. sched'[s] = d /\ \A x \in Space : x # s => sched'[x] = sched[x]
    BY <2>2, <2>3
  <2>5. sched' \in [Space -> Scheduler]
    BY <2>2, <2>3 DEF Faithful
  <2>6. AllFaithful(sched)'
    BY <2>3, <2>4, <2>5, <1>u DEF AllFaithful
  <2>7. \A x \in Space : sched'[x].stop = sched[x].stop /\ sched'[x].interval = sched[x].interval
    BY <2>3, <2>4
  <2>8. AllServe(sched, setting) => AllServe(sched', setting)
    BY <2>7 DEF AllServe, Serves
  <2> QED
    BY <2>3, <2>6, <2>8 DEF TimerInv, AllServe
<1>2. CASE WakeUp
  BY <1>2, <1>s DEF WakeUp
<1>3. CASE \E v \in Setting : SetProperty(v)
  BY <1>3, SetTimers DEF SetProperty
<1>4. CASE \E s \in Space, p \in Policy : SetSlideShow(s, p)
  <2>1. PICK s \in Space, p \in Policy : SetSlideShow(s, p)
    BY <1>4
  <2>2. CASE \E v : SetTo(v)
    BY <2>2, SetTimers
  <2>3. CASE UNCHANGED <<setting, alive, sched, historyVars>>
    BY <1>s, <2>3 DEF historyVars
  <2> QED
    BY <2>1, <2>2, <2>3 DEF SetSlideShow
<1>5. CASE OnWallpaperChanged
  <2>1. /\ UpdateWSPolicy(setting, desk)
        /\ setting' = setting /\ alive' = alive /\ touched' = touched
    BY <1>5 DEF OnWallpaperChanged
  <2>2. AllFaithful(sched)' /\ (AllServe(sched, setting) => AllServe(sched', setting))
    BY <2>1, UpdateTimers
  <2> QED
    BY <2>1, <2>2 DEF TimerInv, AllServe
<1>6. CASE Load
  BY <1>6, LoadTimers
<1>7. CASE Unload
  <2>1. alive' = FALSE /\ sched' = [s \in Space |-> NewScheduler]
    BY <1>7 DEF Unload
  <2> QED
    BY <2>1, NewSchedulerFact DEF TimerInv, AllFaithful, Faithful
<1>8. CASE \/ \E t \in Kind : Desktop(t)
           \/ \E w \in Workspace : SwitchWorkspace(w)
           \/ Lock \/ UNCHANGED vars
  BY <1>8, <1>s DEF Desktop, SwitchWorkspace, Lock, vars, processVars, historyVars
<1> QED
  BY <1>1, <1>2, <1>3, <1>4, <1>5, <1>6, <1>7, <1>8 DEF Next

\* Every timer is faithful to its flag at all times.
LEMMA TimerInvariant == Spec => []TimerInv
<1>1. Init => TimerInv
  BY NewSchedulerFact DEF Init, TimerInv, AllFaithful, Faithful
<1>2. TimerInv /\ [Next]_vars => TimerInv'
  BY TimerStep
<1> QED
  BY <1>1, <1>2, PTL DEF Spec

\* A period an int can hold is the one the timer will have.
LEMMA FaithfulPeriod ==
  ASSUME NEW c, Faithful(c)
  PROVE  /\ c.stop \/ c.interval = 0 => Outcome(c) = Off
         /\ ~c.stop /\ c.interval # 0 /\ Fits(c.interval - c.gone)
              => Outcome(c) = c.interval - c.gone
<1> DEFINE ms == c.interval - c.gone
<1>1. c.stop \/ c.interval = 0 => Outcome(c) = Off
  BY DEF Faithful
<1>2. ASSUME ~c.stop, c.interval # 0, Fits(ms)
      PROVE  Outcome(c) = ms
  <2>1. Outcome(c) = Period(ToInt(ms))
    BY <1>2 DEF Faithful
  <2>2. ms \in 0 .. IntHalf - 1
    BY <1>2 DEF Fits
  <2> HIDE DEF ms
  <2>3. ms \in IntRange /\ ms \in Int
    BY <2>2, IntAssumption DEF IntRange
  <2>4. ToInt(ms) = ms
    BY <2>3, ToIntFact
  <2> QED
    BY <2>1, <2>2, <2>3, <2>4, PeriodFact
<1> QED
  BY <1>1, <1>2

\* What a timer will do, once all that is posted to it has reached it, is what
\* its scheduler says, for periods an int can hold (stopScheduler and interval
\* of WallpaperScheduler).
THEOREM TimersFollow == Spec => []TimerFollowsFlag
<1>1. TimerInv => TimerFollowsFlag
  BY FaithfulPeriod DEF TimerInv, AllFaithful, TimerFollowsFlag
<1> QED
  BY <1>1, TimerInvariant, PTL

\* Until the setting is first changed, no timer runs that it does not ask for,
\* and those it asks for run as long as it says, the first period by the
\* seconds gone shorter, if an int can hold their milliseconds (init and
\* onWallpaperChanged of SlideshowManager).
THEOREM UntouchedTimers == Spec => []UntouchedRunsSetting
<1>1. TimerInv => UntouchedRunsSetting
  <2> SUFFICES ASSUME TimerInv, alive, ~touched, NEW s \in Space
               PROVE  /\ ~Asks(setting, s) => Outcome(sched[s]) = Off
                      /\ Asks(setting, s) /\ Fits(MsPerSec * setting[s])
                           /\ Fits(MsPerSec * setting[s] - sched[s].gone)
                           => Outcome(sched[s]) = MsPerSec * setting[s] - sched[s].gone
    BY DEF UntouchedRunsSetting, Asks
  <2> DEFINE c == sched[s]
             ms == MsPerSec * setting[s]
  <2>1. Faithful(c) /\ Serves(c, setting, s)
    BY DEF TimerInv, AllFaithful, AllServe
  <2>2. ASSUME Asks(setting, s) PROVE ms # 0
    BY <2>2, MsFact DEF Asks
  <2>3. /\ c.stop \/ c.interval = 0 => Outcome(c) = Off
        /\ ~c.stop /\ c.interval # 0 /\ Fits(c.interval - c.gone)
             => Outcome(c) = c.interval - c.gone
    BY <2>1, FaithfulPeriod
  <2> QED
    BY <2>1, <2>2, <2>3 DEF Serves
<1> QED
  BY <1>1, TimerInvariant, PTL

-----------------------------------------------------------------------------
(* The rotations *)

RotationTyped ==
  /\ saved \in [Space -> [kept : BOOLEAN, showed : SUBSET AllPaper]]
  /\ kind \in Kind
  /\ loop \in [Space -> Loop \cup {NoLoop}]
  /\ desk \in Kind
  /\ drawn \in [Space -> SUBSET AllPaper]
  /\ carried \in [Space -> BOOLEAN]

\* A file, in which what has no entry lists no image.
IsFile(f) ==
  /\ f \in [Space -> [kept : BOOLEAN, showed : SUBSET AllPaper]]
  /\ \A s \in Space : ~f[s].kept => f[s].showed = {}

\* Loops l agree with what was drawn, and are there for all the file lists.
Agrees(l) ==
  \A s \in Space :
    /\ l[s] = NoLoop => ~saved[s].kept /\ (carried[s] => drawn[s] = {})
    /\ l[s] # NoLoop /\ carried[s] => drawn[s] = l[s].showed

RotationInv ==
  /\ RotationTyped
  /\ IsFile(saved)
  /\ ~early
  /\ alive => Agrees(loop)
  /\ ~alive => \A s \in Space : /\ loop[s] = NoLoop
                                /\ carried[s] => drawn[s] = saved[s].showed

\* What a loop becomes is a loop of the same type.
LEMMA LoopFact ==
  ASSUME NEW l \in Loop
  PROVE  l.kind \in Kind /\ l.showed \in SUBSET AllPaper /\ Paper[l.kind] \subseteq AllPaper
BY DEF Loop, AllPaper

\* An image that is shown joins the round, or begins a new one.
LEMMA ShowingFact ==
  ASSUME NEW l \in Loop, NEW w \in AllPaper
  PROVE  /\ Showing(l, w) \in Loop /\ Showing(l, w).kind = l.kind
         /\ Showing(l, w).showed = IF NotShowed(l) # {} THEN l.showed \cup {w} ELSE {w}
BY LoopFact DEF Showing, Loop

\* Images added to a loop count as shown and leave its type alone.
LEMMA AddFact ==
  ASSUME NEW l \in Loop, NEW files \in SUBSET AllPaper
  PROVE  /\ AddToShow(l, files) \in Loop /\ AddToShow(l, files).kind = l.kind
         /\ AddToShow(l, files).showed = l.showed \cup files
BY LoopFact DEF AddToShow, Loop

\* A new loop has its type and has shown nothing.
LEMMA NewLoopFact ==
  ASSUME NEW t \in Kind
  PROVE  /\ NewLoop(t) \in Loop /\ NewLoop(t) # NoLoop
         /\ NewLoop(t).kind = t /\ NewLoop(t).showed = {}
BY SlideshowAssumption DEF NewLoop, Loop

\* Whatever becomes of a saving, the file is one, and has no entry that it did
\* not have or was given.
LEMMA SaveFact ==
  ASSUME IsFile(saved), NEW S \in SUBSET Space,
         NEW l, \A s \in S : l[s] \in Loop, NEW f \in SaveFor(S, l)
  PROVE  IsFile(f) /\ \A s \in Space : f[s].kept => s \in S \/ saved[s].kept
<1>1. PICK done \in SUBSET S, base \in {saved, EmptyFile} :
        f = [s \in Space |-> IF s \in done THEN Entry(l[s]) ELSE base[s]]
  BY DEF SaveFor, EmptyFile
<1>2. IsFile(base) /\ \A s \in Space : base[s].kept => saved[s].kept
  <2>1. NoEntry.kept = FALSE /\ NoEntry.showed = {}
        /\ NoEntry \in [kept : BOOLEAN, showed : SUBSET AllPaper]
    BY DEF NoEntry
  <2>2. IsFile(EmptyFile) /\ \A s \in Space : ~EmptyFile[s].kept
    BY <2>1 DEF IsFile, EmptyFile
  <2> QED
    BY <2>2
<1>3. \A s \in S : /\ Entry(l[s]) \in [kept : BOOLEAN, showed : SUBSET AllPaper]
                   /\ Entry(l[s]).kept
  BY LoopFact DEF Entry
<1> QED
  BY <1>1, <1>2, <1>3 DEF IsFile

\* What loadWSConfig leaves of loops l.
LEMMA LoadedFact ==
  ASSUME IsFile(saved), NEW l \in [Space -> Loop \cup {NoLoop}], NEW s \in Space
  PROVE  /\ LoadWSConfig(l)[s] \in Loop \cup {NoLoop}
         /\ LoadWSConfig(l)[s] = NoLoop <=> l[s] = NoLoop /\ ~saved[s].kept
         /\ l[s] = NoLoop /\ saved[s].kept => LoadWSConfig(l)[s].showed = saved[s].showed
         /\ l[s] # NoLoop => /\ LoadWSConfig(l)[s].showed = l[s].showed \cup saved[s].showed
                             /\ LoadWSConfig(l)[s].kind = l[s].kind
<1>1. saved[s].showed \in SUBSET AllPaper /\ (~saved[s].kept => saved[s].showed = {})
  BY DEF IsFile
<1>2. NewLoop(Custom) \in Loop /\ NewLoop(Custom).showed = {}
  BY NewLoopFact, LoopAssumption
<1>3. NoLoop \notin Loop
  BY SlideshowAssumption
<1>4. CASE ~saved[s].kept
  <2>1. LoadWSConfig(l)[s] = l[s]
    BY <1>4 DEF LoadWSConfig
  <2>2. l[s].showed \cup saved[s].showed = l[s].showed
    BY <1>1, <1>4
  <2> QED
    BY <1>4, <2>1, <2>2
<1>5. CASE saved[s].kept /\ l[s] = NoLoop
  <2>1. LoadWSConfig(l)[s] = AddToShow(NewLoop(Custom), saved[s].showed)
    BY <1>5 DEF LoadWSConfig
  <2>2. LoadWSConfig(l)[s] \in Loop /\ LoadWSConfig(l)[s].showed = {} \cup saved[s].showed
    <3>1. ASSUME NEW n \in Loop
          PROVE  /\ AddToShow(n, saved[s].showed) \in Loop
                 /\ AddToShow(n, saved[s].showed).showed = n.showed \cup saved[s].showed
      BY <1>1, AddFact
    <3> QED
      BY <1>2, <2>1, <3>1
  <2> QED
    BY <1>3, <1>5, <2>2
<1>6. CASE saved[s].kept /\ l[s] # NoLoop
  <2>1. LoadWSConfig(l)[s] = AddToShow(l[s], saved[s].showed) /\ l[s] \in Loop
    BY <1>6 DEF LoadWSConfig
  <2> QED
    BY <1>1, <1>3, <1>6, <2>1, AddFact
<1> QED
  BY <1>4, <1>5, <1>6

\* A change on loops that agree with what was drawn: the next image is one that
\* was not drawn, or the rotation is over.
LEMMA ChangeFact ==
  ASSUME RotationTyped, IsFile(saved), ~early,
         NEW S \in SUBSET Space, NEW l \in [Space -> Loop \cup {NoLoop}],
         Agrees(l), Change(S, l)
  PROVE  /\ loop' \in [Space -> Loop \cup {NoLoop}]
         /\ IsFile(saved') /\ ~early' /\ Agrees(loop)'
         /\ drawn' \in [Space -> SUBSET AllPaper]
         /\ carried' \in [Space -> BOOLEAN]
         /\ \A s \in Space : l[s] # NoLoop => loop'[s] # NoLoop /\ loop'[s].kind = l[s].kind
<1> DEFINE D == {s \in S : l[s] # NoLoop /\ Paper[l[s].kind] # {}}
           over(s) == IF carried[s] THEN Paper[l[s].kind] \subseteq drawn[s]
                      ELSE NotShowed(l[s]) = {}
<1>0. PICK w \in [D -> AllPaper] :
        /\ \A s \in D : w[s] \in NextShow(l[s])
        /\ loop' = [s \in Space |-> IF s \in D THEN Showing(l[s], w[s]) ELSE l[s]]
        /\ saved' \in SaveFor(D \ Malformed, [s \in Space |-> IF s \in D THEN Showing(l[s], w[s]) ELSE l[s]])
        /\ drawn' = [s \in Space |->
                       IF s \notin D THEN drawn[s]
                       ELSE IF over(s) THEN {w[s]} ELSE drawn[s] \cup {w[s]}]
        /\ carried' = [s \in Space |-> carried[s] \/ (s \in D /\ over(s))]
        /\ early' = (early \/ \E s \in D :
                       carried[s] /\ w[s] \in drawn[s] /\ ~over(s))
  BY DEF Change
<1>1. D \subseteq Space /\ \A s \in D : l[s] \in Loop /\ w[s] \in AllPaper
  OBVIOUS
<1>2. \A s \in D : carried[s] => drawn[s] = l[s].showed
  BY <1>1 DEF Agrees
<1>3. \A s \in D : over(s) <=> NotShowed(l[s]) = {}
  BY <1>1, <1>2 DEF NotShowed
<1>4. ASSUME NEW s \in D
      PROVE  /\ loop'[s] = Showing(l[s], w[s])
             /\ loop'[s] \in Loop /\ loop'[s] # NoLoop /\ loop'[s].kind = l[s].kind
             /\ loop'[s].showed = IF NotShowed(l[s]) # {} THEN l[s].showed \cup {w[s]} ELSE {w[s]}
  <2>1. loop'[s] = Showing(l[s], w[s])
    BY <1>0, <1>1
  <2>2. l[s] \in Loop /\ w[s] \in AllPaper /\ NoLoop \notin Loop
    BY <1>1, SlideshowAssumption
  <2> HIDE DEF D, over
  <2>3. /\ Showing(l[s], w[s]) \in Loop /\ Showing(l[s], w[s]).kind = l[s].kind
        /\ Showing(l[s], w[s]).showed =
             IF NotShowed(l[s]) # {} THEN l[s].showed \cup {w[s]} ELSE {w[s]}
    BY <2>2, ShowingFact
  <2> QED
    BY <2>1, <2>2, <2>3
<1>5. \A s \in Space \ D : loop'[s] = l[s] /\ drawn'[s] = drawn[s] /\ carried'[s] = carried[s]
  BY <1>0 DEF RotationTyped
<1>6. \A s \in D : /\ drawn'[s] = IF NotShowed(l[s]) = {} THEN {w[s]} ELSE drawn[s] \cup {w[s]}
                   /\ carried'[s] = (carried[s] \/ NotShowed(l[s]) = {})
  <2> HIDE DEF over
  <2> QED
    BY <1>0, <1>1, <1>3
<1>7. ~early'
  <2>1. ASSUME NEW s \in D, carried[s], w[s] \in drawn[s], NotShowed(l[s]) # {}
        PROVE  FALSE
    BY <1>0, <1>2, <2>1 DEF NextShow, NotShowed
  <2> HIDE DEF over
  <2> QED
    BY <1>0, <1>3, <2>1
<1>8. loop' \in [Space -> Loop \cup {NoLoop}]
  BY <1>0, <1>4, <1>5
<1>9. drawn' \in [Space -> SUBSET AllPaper]
  <2> HIDE DEF D, over
  <2>1. ASSUME NEW s \in Space
        PROVE  drawn'[s] \in SUBSET AllPaper
    <3>1. drawn[s] \subseteq AllPaper
      BY DEF RotationTyped
    <3>2. CASE s \in D
      <4>1. {w[s]} \subseteq AllPaper
        BY <1>1, <3>2
      <4>2. drawn'[s] = {w[s]} \/ drawn'[s] = drawn[s] \cup {w[s]}
        BY <1>6, <3>2
      <4> QED
        BY <3>1, <4>1, <4>2
    <3>3. CASE s \notin D
      BY <1>5, <3>1, <3>3
    <3> QED
      BY <3>2, <3>3
  <2> QED
    BY <1>0, <2>1
<1>10. carried' \in [Space -> BOOLEAN]
  <2>1. \A s \in Space : carried'[s] \in BOOLEAN
    BY <1>1, <1>5, <1>6 DEF RotationTyped
  <2> HIDE DEF D, over
  <2> QED
    BY <1>0, <2>1
<1>11. /\ IsFile(saved')
       /\ \A s \in Space : saved'[s].kept => s \in D \/ saved[s].kept
  <2> DEFINE after == [s \in Space |-> IF s \in D THEN Showing(l[s], w[s]) ELSE l[s]]
  <2>1. D \ Malformed \in SUBSET Space /\ saved' \in SaveFor(D \ Malformed, after)
    BY <1>0, <1>1
  <2>2. \A s \in D \ Malformed : after[s] \in Loop
    BY <1>0, <1>1, <1>4
  <2> HIDE DEF after, D
  <2> QED
    BY <2>1, <2>2, SaveFact
<1>12. Agrees(loop)'
  <2>1. ASSUME NEW s \in D
        PROVE  loop'[s] # NoLoop /\ (carried'[s] => drawn'[s] = loop'[s].showed)
    BY <1>2, <1>4, <1>6
  <2>2. ASSUME NEW s \in Space \ D
        PROVE  /\ loop'[s] = NoLoop => ~saved'[s].kept /\ (carried'[s] => drawn'[s] = {})
               /\ loop'[s] # NoLoop /\ carried'[s] => drawn'[s] = loop'[s].showed
    BY <1>5, <1>11 DEF Agrees
  <2> QED
    BY <2>1, <2>2 DEF Agrees
<1>13. \A s \in Space : l[s] # NoLoop => loop'[s] # NoLoop /\ loop'[s].kind = l[s].kind
  BY <1>4, <1>5
<1> QED
  BY <1>7, <1>8, <1>9, <1>10, <1>11, <1>12, <1>13

\* What a handler that goes through updateWSPolicy or a change leaves behind.
RotationNext ==
  /\ loop' \in [Space -> Loop \cup {NoLoop}]
  /\ IsFile(saved') /\ Agrees(loop)'
  /\ drawn' \in [Space -> SUBSET AllPaper]
  /\ carried' \in [Space -> BOOLEAN]

\* updateWSPolicy: the keys of the setting begin anew, the others are read from
\* the file, and one whose list does not agree with the file is given up.
LEMMA UpdateFact ==
  ASSUME RotationInv, alive, NEW v, NEW t \in Kind, UpdateWSPolicy(v, t)
  PROVE  /\ RotationNext
         /\ ~strayed' => \A s \in Member(v) : loop'[s] # NoLoop /\ loop'[s].kind = t
<1>t. RotationTyped /\ IsFile(saved) /\ Agrees(loop)
  BY DEF RotationInv
<1>1. CASE strayed' = TRUE /\ UNCHANGED <<saved, loop, sched, drawn, carried>>
  BY <1>1, <1>t DEF RotationTyped, RotationNext, Agrees
<1>2. CASE /\ strayed' = FALSE
           /\ loop' = LoopsFor(v, t)
           /\ saved' \in SaveFor({s \in Member(v) \cap {cur} : v[s] \in Seconds \cap IntRange}, LoopsFor(v, t))
           /\ drawn' = [s \in Space |-> IF s \in Member(v) THEN {} ELSE drawn[s]]
           /\ carried' = [s \in Space |->
                \/ s \in Member(v)
                \/ carried[s] /\ (loop[s] # NoLoop => saved[s].showed \subseteq loop[s].showed)]
  <2>m. Member(v) \subseteq Space
    BY DEF Member
  <2>1. ASSUME NEW s \in Member(v)
        PROVE  /\ loop'[s] \in Loop /\ loop'[s] # NoLoop
               /\ loop'[s].kind = t /\ loop'[s].showed = {}
               /\ LoopsFor(v, t)[s] \in Loop
               /\ drawn'[s] = {} /\ carried'[s] = TRUE
    <3>1. LoopsFor(v, t)[s] = NewLoop(t)
      BY <2>m DEF LoopsFor
    <3> QED
      BY <1>2, <2>m, <3>1, NewLoopFact
  <2>2. ASSUME NEW s \in Space \ Member(v)
        PROVE  /\ loop'[s] = LoadWSConfig(loop)[s]
               /\ drawn'[s] = drawn[s]
               /\ carried'[s] = (carried[s] /\ (loop[s] # NoLoop => saved[s].showed \subseteq loop[s].showed))
    BY <1>2, <1>t DEF LoopsFor, RotationTyped
  <2>3. /\ IsFile(saved')
        /\ \A s \in Space : saved'[s].kept => s \in Member(v) \/ saved[s].kept
    <3> DEFINE S == {s \in Member(v) \cap {cur} : v[s] \in Seconds \cap IntRange}
    <3>1. S \in SUBSET Space /\ S \subseteq Member(v) /\ \A s \in S : LoopsFor(v, t)[s] \in Loop
      BY <2>m, <2>1
    <3>2. saved' \in SaveFor(S, LoopsFor(v, t))
      BY <1>2
    <3> HIDE DEF S
    <3> QED
      BY <1>t, <3>1, <3>2, SaveFact
  <2>4. ASSUME NEW s \in Space
        PROVE  /\ loop'[s] \in Loop \cup {NoLoop}
               /\ drawn'[s] \in SUBSET AllPaper
               /\ carried'[s] \in BOOLEAN
    <3>1. CASE s \in Member(v)
      BY <2>1, <3>1
    <3>2. CASE s \notin Member(v)
      BY <1>t, <2>2, <3>2, LoadedFact DEF RotationTyped
    <3> QED
      BY <3>1, <3>2
  <2>5. Agrees(loop)'
    <3>1. ASSUME NEW s \in Space \ Member(v)
          PROVE  /\ loop'[s] = NoLoop => ~saved'[s].kept /\ (carried'[s] => drawn'[s] = {})
                 /\ loop'[s] # NoLoop /\ carried'[s] => drawn'[s] = loop'[s].showed
      <4>1. /\ loop[s] = NoLoop => ~saved[s].kept /\ (carried[s] => drawn[s] = {})
            /\ loop[s] # NoLoop /\ carried[s] => drawn[s] = loop[s].showed
        BY <1>t DEF Agrees
      <4>2. /\ loop'[s] = NoLoop <=> loop[s] = NoLoop /\ ~saved[s].kept
            /\ loop[s] # NoLoop => loop'[s].showed = loop[s].showed \cup saved[s].showed
        BY <1>t, <2>2, LoadedFact DEF RotationTyped
      <4>3. CASE loop[s] = NoLoop
        BY <2>2, <2>3, <4>1, <4>2, <4>3
      <4>4. CASE loop[s] # NoLoop
        BY <2>2, <4>1, <4>2, <4>4
      <4> QED
        BY <4>3, <4>4
    <3> QED
      BY <2>1, <3>1 DEF Agrees
  <2>6. /\ loop' \in [Space -> Loop \cup {NoLoop}]
        /\ drawn' \in [Space -> SUBSET AllPaper]
        /\ carried' \in [Space -> BOOLEAN]
    <3>1. loop' = [s \in Space |-> loop'[s]]
      BY <1>2 DEF LoopsFor
    <3>2. drawn' = [s \in Space |-> drawn'[s]] /\ carried' = [s \in Space |-> carried'[s]]
      BY <1>2
    <3> QED
      BY <2>4, <3>1, <3>2
  <2> QED
    BY <2>1, <2>3, <2>5, <2>6 DEF RotationNext
<1> QED
  BY <1>1, <1>2 DEF UpdateWSPolicy

\* The plugin is loaded: every loop holds what the file lists.
LEMMA LoadFact ==
  ASSUME RotationInv, Load
  PROVE  /\ RotationNext /\ ~early'
         /\ ~strayed' => \A s \in Member(setting) : loop'[s] # NoLoop /\ loop'[s].kind = desk
<1>t. /\ RotationTyped /\ IsFile(saved) /\ ~early
      /\ \A s \in Space : carried[s] => drawn[s] = saved[s].showed
  BY DEF RotationInv, Load
<1> DEFINE asked(ap) == [s \in Space |-> IF ap /\ s \in Member(setting)
                                           THEN NewLoop(desk) ELSE NoLoop]
           made(ap)  == [s \in Space |->
                           IF s \in Member(setting) /\ LoadWSConfig(asked(ap))[s] = NoLoop
                             THEN NewLoop(desk) ELSE LoadWSConfig(asked(ap))[s]]
<1>1. PICK ap \in BOOLEAN, S \in SUBSET Member(setting) : strayed' = ~ap /\ Change(S, made(ap))
  <2>1. PICK differs \in BOOLEAN :
          /\ strayed' = ~(differs /\ ~locked)
          /\ \E S \in SUBSET Member(setting) : Change(S, made(differs /\ ~locked))
    <3>1. PICK differs \in BOOLEAN, e \in [Space -> Elapsed] :
            LET logins == {s \in Member(setting) : setting[s] = Login}
                over   == {s \in Member(setting) : setting[s] \in Seconds /\ Over(setting[s], e[s])}
            IN /\ strayed' = ~(differs /\ ~locked)
               /\ \E S \in SUBSET logins : Change(over \cup S, made(differs /\ ~locked))
      BY DEF Load
    <3>2. PICK S \in SUBSET {s \in Member(setting) : setting[s] = Login} :
            Change({s \in Member(setting) : setting[s] \in Seconds /\ Over(setting[s], e[s])} \cup S,
                   made(differs /\ ~locked))
      BY <3>1
    <3> QED
      BY <3>1, <3>2
  <2> QED
    BY <2>1
<1>2. S \in SUBSET Space
  BY DEF Member
<1> DEFINE read == LoadWSConfig(asked(ap))
<1>3. desk \in Kind /\ NewLoop(desk) \in Loop /\ NewLoop(desk) # NoLoop
      /\ NewLoop(desk).kind = desk /\ NewLoop(desk).showed = {}
  BY <1>t, NewLoopFact DEF RotationTyped
<1>4. asked(ap) \in [Space -> Loop \cup {NoLoop}]
  BY <1>3
<1>5. ASSUME NEW s \in Space
      PROVE  /\ made(ap)[s] \in Loop \cup {NoLoop}
             /\ made(ap)[s] = NoLoop => ~saved[s].kept
             /\ made(ap)[s] # NoLoop => made(ap)[s].showed = saved[s].showed
             /\ ap /\ s \in Member(setting) => made(ap)[s] # NoLoop /\ made(ap)[s].kind = desk
  <2>0. ~saved[s].kept => saved[s].showed = {}
    BY <1>t DEF IsFile
  <2>1. CASE ap /\ s \in Member(setting)
    <3>1. asked(ap)[s] = NewLoop(desk)
      BY <2>1
    <3> HIDE DEF asked
    <3>2. /\ read[s] \in Loop \cup {NoLoop} /\ read[s] # NoLoop /\ read[s].kind = desk
          /\ read[s].showed = {} \cup saved[s].showed
      <4>1. asked(ap)[s] # NoLoop
        BY <1>3, <3>1
      <4>2. /\ read[s] \in Loop \cup {NoLoop} /\ read[s] # NoLoop
            /\ read[s].kind = asked(ap)[s].kind
            /\ read[s].showed = asked(ap)[s].showed \cup saved[s].showed
        BY <1>4, <1>t, <4>1, LoadedFact
      <4> HIDE DEF read
      <4> QED
        BY <1>3, <3>1, <4>2
    <3>3. made(ap)[s] = read[s]
      BY <3>2
    <3> QED
      BY <3>2, <3>3
  <2>2. CASE ~(ap /\ s \in Member(setting))
    <3>1. asked(ap)[s] = NoLoop
      BY <2>2
    <3> HIDE DEF asked
    <3>2. /\ read[s] \in Loop \cup {NoLoop}
          /\ read[s] = NoLoop <=> ~saved[s].kept
          /\ saved[s].kept => read[s].showed = saved[s].showed
      BY <1>4, <1>t, <3>1, LoadedFact
    <3>3. made(ap)[s] = IF s \in Member(setting) /\ read[s] = NoLoop THEN NewLoop(desk) ELSE read[s]
      OBVIOUS
    <3> QED
      BY <1>3, <2>0, <2>2, <3>2, <3>3
  <2> QED
    BY <2>1, <2>2
<1>6. made(ap) \in [Space -> Loop \cup {NoLoop}]
  BY <1>5
<1>7. Agrees(made(ap))
  <2>0. \A s \in Space : ~saved[s].kept => saved[s].showed = {}
    BY <1>t DEF IsFile
  <2> HIDE DEF made
  <2> QED
    BY <1>5, <1>t, <2>0 DEF Agrees
<1> HIDE DEF made
<1>8. /\ RotationNext /\ ~early'
      /\ \A s \in Space : made(ap)[s] # NoLoop =>
           loop'[s] # NoLoop /\ loop'[s].kind = made(ap)[s].kind
  BY <1>1, <1>2, <1>6, <1>7, <1>t, ChangeFact DEF RotationNext
<1>9. Member(setting) \subseteq Space
  BY DEF Member
<1> QED
  BY <1>1, <1>5, <1>8, <1>9

LoopsInv == RotationInv /\ LoopsFollowType

\* Every step preserves the invariant; a loop that follows the type goes on
\* doing so.
LEMMA RotationStep ==
  ASSUME LoopsInv, [Next]_vars
  PROVE  LoopsInv'
<1>t. /\ RotationInv /\ RotationTyped /\ IsFile(saved) /\ ~early
      /\ alive => Agrees(loop)
      /\ LoopsFollowType
  BY DEF LoopsInv, RotationInv
<1>n. ASSUME RotationNext, ~early', alive', kind' \in Kind, desk' \in Kind
      PROVE  RotationInv'
  BY <1>n DEF RotationInv, RotationNext, RotationTyped, IsFile, Agrees
<1>k. kind \in Kind /\ desk \in Kind
  BY <1>t DEF RotationTyped
<1>c. ASSUME NEW S \in SUBSET Space, alive, Change(S, loop),
             UNCHANGED <<setting, alive, kind, worldVars, strayed>>
      PROVE  LoopsInv'
  <2>1. RotationNext /\ ~early'
        /\ \A s \in Space : loop[s] # NoLoop => loop'[s] # NoLoop /\ loop'[s].kind = loop[s].kind
    BY <1>c, <1>t, ChangeFact DEF RotationTyped, RotationNext
  <2>2. setting' = setting /\ alive' = alive /\ kind' = kind /\ desk' = desk /\ strayed' = strayed
    BY <1>c DEF worldVars
  <2>3. RotationInv'
    BY <1>c, <1>k, <1>n, <2>1, <2>2
  <2>4. LoopsFollowType'
    BY <1>t, <2>1, <2>2 DEF LoopsFollowType, Member
  <2> QED
    BY <2>3, <2>4 DEF LoopsInv
<1>u. ASSUME alive, NEW v, NEW t \in Kind, UpdateWSPolicy(v, t), setting' = v, kind' = t,
             UNCHANGED <<alive, worldVars, early>>
      PROVE  LoopsInv'
  <2>1. RotationNext
        /\ (~strayed' => \A s \in Member(v) : loop'[s] # NoLoop /\ loop'[s].kind = t)
    BY <1>t, <1>u, UpdateFact
  <2>2. alive' /\ desk' = desk /\ ~early'
    BY <1>t, <1>u DEF worldVars
  <2>3. RotationInv'
    BY <1>k, <1>n, <1>u, <2>1, <2>2
  <2>4. LoopsFollowType'
    BY <1>u, <2>1 DEF LoopsFollowType, Member
  <2> QED
    BY <2>3, <2>4 DEF LoopsInv
<1>s. ASSUME alive, NEW v, SetTo(v)
      PROVE  LoopsInv'
  BY <1>k, <1>s, <1>u DEF SetTo
<1>o. ASSUME UNCHANGED <<setting, saved, alive, kind, loop, strayed, drawn, carried, early>>,
             desk' \in Kind
      PROVE  LoopsInv'
  BY <1>o, <1>t DEF LoopsInv, RotationInv, RotationTyped, IsFile, Agrees, LoopsFollowType, Member
<1>1. CASE \E s \in Space : TimeOutOf(s)
  BY <1>1, <1>c DEF TimeOutOf
<1>2. CASE \E s \in Space : DeliverTo(s)
  BY <1>2, <1>k, <1>o DEF DeliverTo, worldVars, historyVars
<1>3. CASE WakeUp
  <2>1. {s \in Member(setting) : setting[s] = Wakeup} \in SUBSET Space
    BY DEF Member
  <2> QED
    BY <1>3, <1>c, <2>1 DEF WakeUp
<1>4. CASE \E v \in Setting : SetProperty(v)
  BY <1>4, <1>s DEF SetProperty
<1>5. CASE \E s \in Space, p \in Policy : SetSlideShow(s, p)
  <2>1. alive
    BY <1>5 DEF SetSlideShow
  <2>2. CASE \E v : SetTo(v)
    BY <1>s, <2>1, <2>2
  <2>3. CASE UNCHANGED <<setting, saved, alive, kind, loop, sched, worldVars, historyVars>>
    BY <1>k, <1>o, <2>3 DEF worldVars, historyVars
  <2> QED
    BY <1>5, <2>2, <2>3 DEF SetSlideShow
<1>6. CASE OnWallpaperChanged
  BY <1>6, <1>k, <1>u DEF OnWallpaperChanged
<1>7. CASE Load
  <2>1. RotationNext /\ ~early'
        /\ (~strayed' => \A s \in Member(setting) : loop'[s] # NoLoop /\ loop'[s].kind = desk)
    BY <1>7, <1>t, LoadFact
  <2>2. alive' /\ kind' = desk /\ setting' = setting /\ desk' = desk
    BY <1>7 DEF Load, worldVars
  <2>3. RotationInv'
    BY <1>k, <1>n, <2>1, <2>2
  <2>4. LoopsFollowType'
    BY <2>1, <2>2 DEF LoopsFollowType, Member
  <2> QED
    BY <2>3, <2>4 DEF LoopsInv
<1>8. CASE Unload
  <2>1. /\ alive /\ ~alive' /\ loop' = [s \in Space |-> NoLoop]
        /\ saved' = saved /\ kind' = kind /\ desk' = desk /\ drawn' = drawn /\ early' = early
        /\ carried' = [s \in Space |->
             carried[s] /\ (loop[s] # NoLoop => saved[s].showed = loop[s].showed)]
    BY <1>8 DEF Unload, worldVars
  <2>2. \A s \in Space : carried'[s] => drawn'[s] = saved'[s].showed
    BY <1>t, <2>1 DEF Agrees, IsFile
  <2>3. RotationTyped'
    BY <1>t, <2>1 DEF RotationTyped
  <2>4. RotationInv'
    BY <1>t, <2>1, <2>2, <2>3 DEF RotationInv
  <2> QED
    BY <2>1, <2>4 DEF LoopsInv, LoopsFollowType
<1>9. CASE \/ \E t \in Kind : Desktop(t)
           \/ \E w \in Workspace : SwitchWorkspace(w)
           \/ Lock \/ UNCHANGED vars
  BY <1>9, <1>k, <1>o DEF Desktop, SwitchWorkspace, Lock, vars, processVars, worldVars, historyVars
<1> QED
  BY <1>1, <1>2, <1>3, <1>4, <1>5, <1>6, <1>7, <1>8, <1>9 DEF Next

\* What a rotation has drawn is what its loop or the file knows, at all times.
LEMMA LoopsInvariant == Spec => []LoopsInv
<1>1. Init => LoopsInv
  <2> SUFFICES ASSUME Init PROVE LoopsInv
    OBVIOUS
  <2>1. RotationTyped /\ ~alive /\ ~early
    BY DEF Init, RotationTyped, EmptyFile, NoEntry
  <2>2. IsFile(saved) /\ \A s \in Space : loop[s] = NoLoop /\ drawn[s] = saved[s].showed
    BY DEF Init, IsFile, EmptyFile, NoEntry
  <2> QED
    BY <2>1, <2>2 DEF LoopsInv, RotationInv, LoopsFollowType
<1>2. LoopsInv /\ [Next]_vars => LoopsInv'
  BY RotationStep
<1> QED
  BY <1>1, <1>2, PTL DEF Spec

\* No rotation repeats an image before its end, also over restarts of the
\* plugin, as long as the file lists what the loop did when the two meet: not
\* after a saving that failed (getNext of WallpaperLoop, and the file of
\* SlideshowManager).
THEOREM RotationsHold == Spec => []NoEarlyRepeat
<1>1. LoopsInv => NoEarlyRepeat
  BY DEF LoopsInv, RotationInv, NoEarlyRepeat
<1> QED
  BY <1>1, LoopsInvariant, PTL

\* After an updateWSPolicy that went through, the loops of the setting are of
\* the type of the desktop's wallpaper.
THEOREM LoopsFollow == Spec => []LoopsFollowType
<1>1. LoopsInv => LoopsFollowType
  BY DEF LoopsInv
<1> QED
  BY <1>1, LoopsInvariant, PTL

-----------------------------------------------------------------------------
(* The types *)

\* The variables that the other invariants do not speak of.
RestTyped ==
  /\ setting \in Setting
  /\ alive \in BOOLEAN
  /\ cur \in Space \cup {NoSpace}
  /\ space \in Workspace
  /\ wall \in [Space -> AllPaper \cup {NoPaper}]
  /\ locked \in BOOLEAN /\ touched \in BOOLEAN /\ strayed \in BOOLEAN /\ early \in BOOLEAN

\* Every step keeps the remaining variables of their types.
LEMMA RestStep ==
  ASSUME RestTyped, [Next]_vars
  PROVE  RestTyped'
<1> USE DEF RestTyped
<1>c. ASSUME NEW S, NEW l, Change(S, l)
      PROVE  early' \in BOOLEAN /\ wall' \in [Space -> AllPaper \cup {NoPaper}]
  <2> DEFINE D == {s \in S : l[s] # NoLoop /\ Paper[l[s].kind] # {}}
  <2>1. PICK w \in [D -> AllPaper] : wall' = SetBackground(D \ Malformed, w)
    BY <1>c DEF Change
  <2>2. early' \in BOOLEAN
    BY <1>c DEF Change
  <2> HIDE DEF D
  <2>3. wall' \in [Space -> AllPaper \cup {NoPaper}]
    BY <2>1 DEF SetBackground
  <2> QED
    BY <2>2, <2>3
<1>u. ASSUME NEW v, NEW t, UpdateWSPolicy(v, t)
      PROVE  strayed' \in BOOLEAN
  BY <1>u DEF UpdateWSPolicy
<1>1. CASE \E s \in Space : TimeOutOf(s)
  BY <1>1, <1>c DEF TimeOutOf, worldVars
<1>2. CASE \E s \in Space : DeliverTo(s)
  BY <1>2 DEF DeliverTo, worldVars, historyVars
<1>3. CASE WakeUp
  BY <1>3, <1>c DEF WakeUp, worldVars
<1>4. CASE \E v \in Setting : SetProperty(v)
  BY <1>4, <1>u DEF SetProperty, SetTo, worldVars
<1>5. CASE \E s \in Space, p \in Policy : SetSlideShow(s, p)
  <2>1. PICK s \in Space, p \in Policy : SetSlideShow(s, p)
    BY <1>5
  <2> DEFINE v == [x \in Space |-> IF x = s THEN p ELSE Absent]
  <2>2. v \in Setting
    BY DEF Setting
  <2>3. cur' = s
    BY <2>1 DEF SetSlideShow
  <2>4. CASE SetTo(v)
    BY <1>u, <2>2, <2>3, <2>4 DEF SetTo, worldVars
  <2>5. CASE UNCHANGED <<setting, saved, alive, kind, loop, sched, worldVars, historyVars>>
    BY <2>3, <2>5 DEF worldVars, historyVars
  <2> QED
    BY <2>1, <2>4, <2>5 DEF SetSlideShow
<1>6. CASE OnWallpaperChanged
  BY <1>6, <1>u DEF OnWallpaperChanged, worldVars
<1>7. CASE Load
  <2>1. /\ early' \in BOOLEAN /\ strayed' \in BOOLEAN
        /\ wall' \in [Space -> AllPaper \cup {NoPaper}]
    BY <1>7, <1>c DEF Load
  <2> QED
    BY <1>7, <2>1 DEF Load, worldVars
<1>8. CASE Unload
  BY <1>8 DEF Unload, worldVars
<1>9. CASE \/ \E t \in Kind : Desktop(t)
           \/ \E w \in Workspace : SwitchWorkspace(w)
           \/ Lock \/ UNCHANGED vars
  BY <1>9 DEF Desktop, SwitchWorkspace, Lock, vars, processVars, worldVars, historyVars
<1> QED
  BY <1>1, <1>2, <1>3, <1>4, <1>5, <1>6, <1>7, <1>8, <1>9 DEF Next

\* The slide shows are always well typed: loops, files and schedulers of every
\* key are what the classes can hold.
THEOREM SlideshowTyped == Spec => []TypeOK
<1>1. Init => RestTyped
  BY DEF Init, RestTyped, Setting, Policy
<1>2. RestTyped /\ [Next]_vars => RestTyped'
  BY RestStep
<1>3. RestTyped /\ TimerInv /\ LoopsInv => TypeOK
  BY DEF RestTyped, TimerInv, AllFaithful, LoopsInv, RotationInv, RotationTyped, TypeOK
<1> QED
  BY <1>1, <1>2, <1>3, TimerInvariant, LoopsInvariant, PTL DEF Spec
=============================================================================
