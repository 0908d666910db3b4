--------------------------- MODULE IpwdConfigProofs ---------------------------
(***************************************************************************)
(* Proofs about the reading of ipwatchd.conf, for files of any length, any *)
(* interfaces and any number of starts.                                    *)
(***************************************************************************)
EXTENDS IpwdConfig, TLAPS

\* An element that is appended comes last and moves no other.
LEMMA AppendFact ==
  ASSUME NEW S, NEW s \in Seq(S), NEW e \in S
  PROVE  /\ Append(s, e) \in Seq(S)
         /\ Len(Append(s, e)) = Len(s) + 1
         /\ Len(s) \in Nat
         /\ DOMAIN s = 1 .. Len(s)
         /\ DOMAIN Append(s, e) = 1 .. Len(s) + 1
         /\ \A i \in 1 .. Len(s) : Append(s, e)[i] = s[i]
         /\ Append(s, e)[Len(s) + 1] = e
  OBVIOUS

-----------------------------------------------------------------------------
(* Types *)

\* An interface and a protection mode make an entry of the table.
LEMMA EntryTypes ==
  ASSUME NEW d \in Iface, NEW m \in Prot
  PROVE  [dev |-> d, mode |-> m] \in DevEntry
BY DEF DevEntry

\* The lines that ReadLine reads.
LEMMA LineTypes ==
  /\ \A v \in {"#", "other", "short"} : [var |-> v] \in Line
  /\ \A f \in Facility \cup {Odd} : [var |-> "syslog_facility", facility |-> f] \in Line
  /\ \A s \in Script \cup {Odd} : [var |-> "user_script", script |-> s] \in Line
  /\ \A n \in Number : [var |-> "defend_interval", number |-> n] \in Line
  /\ \A l \in Level \cup {Odd} : [var |-> "log_level", level |-> l] \in Line
  /\ \A m \in Mode \cup {Odd} : [var |-> "iface_configuration", mode |-> m] \in Line
  /\ \A d \in Iface, p \in Prot \cup {None, Odd} :
       [var |-> "iface", dev |-> d, mode |-> p] \in Line
BY DEF Line

\* Every step that reads a line reads one of Line.
LEMMA ReadIsTyped ==
  ASSUME ReadLine
  PROVE  \E line \in Line : Read(line)
<1> USE LineTypes
<1>1. CASE ReadIgnored
  BY <1>1 DEF ReadIgnored
<1>2. CASE ReadShort
  BY <1>2 DEF ReadShort
<1>3. CASE \E f \in Facility \cup {Odd} : ReadFacility(f)
  BY <1>3 DEF ReadFacility
<1>4. CASE \E s \in Script \cup {Odd} : ReadScript(s)
  BY <1>4 DEF ReadScript
<1>5. CASE \E n \in Number : ReadInterval(n)
  BY <1>5 DEF ReadInterval
<1>6. CASE \E l \in Level \cup {Odd} : ReadLevel(l)
  BY <1>6 DEF ReadLevel
<1>7. CASE \E m \in Mode \cup {Odd} : ReadMode(m)
  BY <1>7 DEF ReadMode
<1>8. CASE \E d \in Iface, prot \in Prot \cup {None, Odd} : ReadIface(d, prot)
  BY <1>8 DEF ReadIface
<1> QED
  BY <1>1, <1>2, <1>3, <1>4, <1>5, <1>6, <1>7, <1>8 DEF ReadLine

\* What a step that reads a line does to what it does not read it for.
LEMMA ReadTypes ==
  ASSUME TypeOK, ReadLine
  PROVE  /\ lines' \in Seq(Line) /\ present' = present
         /\ kept' = kept /\ starts' = starts
<1>1. PICK line \in Line : Read(line)
  BY ReadIsTyped
<1> QED
  BY <1>1, AppendFact DEF Read, TypeOK

\* Each setting may be replaced by any value of its own.
LEMMA ConfigTypes ==
  ASSUME NEW c \in Config
  PROVE  /\ \A f \in Facility : [c EXCEPT !.facility = f] \in Config
         /\ \A s \in Script : [c EXCEPT !.script = s] \in Config
         /\ \A n \in IntRange : [c EXCEPT !.defend_interval = n] \in Config
         /\ \A l \in Level : [c EXCEPT !.log_level = l] \in Config
         /\ \A m \in Mode : [c EXCEPT !.mode = m] \in Config
<1>1. \A f \in Facility : [c EXCEPT !.facility = f] \in Config
  BY DEF Config
<1>2. \A s \in Script : [c EXCEPT !.script = s] \in Config
  BY DEF Config
<1>3. \A n \in IntRange : [c EXCEPT !.defend_interval = n] \in Config
  BY DEF Config
<1>4. \A l \in Level : [c EXCEPT !.log_level = l] \in Config
  BY DEF Config
<1>5. \A m \in Mode : [c EXCEPT !.mode = m] \in Config
  BY DEF Config
<1> QED
  BY <1>1, <1>2, <1>3, <1>4, <1>5

\* What the variables that a reading changes may hold.
Parsed ==
  /\ phase \in {"off", "reading", "filling", "accepted", "refused"}
  /\ config \in Config
  /\ devs \in Seq(DevEntry)
  /\ list \subseteq Iface
  /\ handles \in Nat
  /\ found \subseteq Iface
  /\ steady \subseteq Iface

\* Every line that is read leaves config and the table well typed.
LEMMA ReadParsed ==
  ASSUME TypeOK, ReadLine
  PROVE  Parsed'
<1> USE DEF Configure, Refuse, fillVars
<1>0. Parsed /\ config \in Config /\ present \subseteq Iface
  BY DEF TypeOK, Parsed
<1>1. CASE ReadIgnored \/ ReadShort
  BY <1>0, <1>1 DEF ReadIgnored, ReadShort, Read, Parsed
<1>2. ASSUME NEW f \in Facility \cup {Odd}, ReadFacility(f) PROVE Parsed'
  BY <1>0, <1>2, ConfigTypes DEF ReadFacility, Read, Parsed
<1>3. ASSUME NEW s \in Script \cup {Odd}, ReadScript(s) PROVE Parsed'
  BY <1>0, <1>3, ConfigTypes DEF ReadScript, Read, Parsed
<1>4. ASSUME NEW n \in Number, ReadInterval(n) PROVE Parsed'
  <2>1. [config EXCEPT !.defend_interval = ToInt(n)] \in Config
    BY <1>0, ConfigAssumption, ConfigTypes, ToIntFact
  <2>2. phase = "reading"
    BY <1>4 DEF ReadInterval, Read
  <2>3. /\ phase' \in {"reading", "refused"} /\ devs' = devs /\ handles' = handles
        /\ list' = list /\ found' = found /\ steady' = steady
        /\ config' = [config EXCEPT !.defend_interval = ToInt(n)]
    <3>1. CASE ToInt(n) \in 0 .. 600
      BY <1>4, <2>2, <3>1 DEF ReadInterval
    <3>2. CASE ToInt(n) \notin 0 .. 600
      BY <1>4, <3>2 DEF ReadInterval
    <3> QED
      BY <3>1, <3>2
  <2> QED
    BY <1>0, <2>1, <2>3 DEF Parsed
<1>5. ASSUME NEW l \in Level \cup {Odd}, ReadLevel(l) PROVE Parsed'
  <2>1. LevelOf(l) \in Level
    BY DEF LevelOf, Level
  <2> QED
    BY <1>0, <1>5, <2>1, ConfigTypes DEF ReadLevel, Read, Parsed
<1>6. ASSUME NEW m \in Mode \cup {Odd}, ReadMode(m) PROVE Parsed'
  <2>1. "manual" \in Mode
    BY DEF Mode
  <2> QED
    BY <1>0, <1>6, <2>1, ConfigTypes DEF ReadMode, Read, Parsed
<1>7. ASSUME NEW d \in Iface, NEW prot \in Prot \cup {None, Odd}, ReadIface(d, prot)
      PROVE  Parsed'
  <2>1. prot \in Prot => Append(devs, [dev |-> d, mode |-> prot]) \in Seq(DevEntry)
    BY <1>0, EntryTypes, AppendFact DEF Parsed
  <2>2. /\ config' = config /\ list' = list /\ found' = found /\ steady' = steady
        /\ phase' \in {phase, "refused"} /\ handles' \in {handles, handles + 1}
        /\ \/ devs' = devs
           \/ prot \in Prot /\ devs' = Append(devs, [dev |-> d, mode |-> prot])
    BY <1>7 DEF ReadIface, Read
  <2>3. handles' \in Nat
    BY <1>0, <2>2 DEF Parsed
  <2> QED
    BY <1>0, <2>1, <2>2, <2>3 DEF Parsed
<1> QED
  BY <1>1, <1>2, <1>3, <1>4, <1>5, <1>6, <1>7 DEF ReadLine

\* The types, for files of any length.
THEOREM TypeCorrect == Spec => []TypeOK
<1>0. 0 \in IntRange
  BY IntAssumption DEF IntRange
<1>1. Init => TypeOK
  BY <1>0, ConfigAssumption DEF Init, TypeOK, Config, Mode, DevEntry, Line
<1>2. TypeOK /\ [Next]_vars => TypeOK'
  <2> SUFFICES ASSUME TypeOK, [Next]_vars PROVE TypeOK'
    OBVIOUS
  <2>1. ASSUME NEW d \in Iface, IfaceChanges(d) PROVE TypeOK'
    BY <2>1 DEF IfaceChanges, TypeOK
  <2>2. CASE Start
    <3>1. config' \in Config
      BY <1>0, <2>2, ConfigAssumption DEF Start, TypeOK, Defaults, Config, Mode
    <3>2. kept' \in Level \cup {None}
      BY <2>2 DEF Start, TypeOK, Config
    <3>3. starts' \in 0 .. MaxStarts
      BY <2>2, ConfigAssumption DEF Start, TypeOK
    <3> QED
      BY <2>2, <3>1, <3>2, <3>3 DEF Start, TypeOK
  <2>3. CASE ReadLine
    BY <2>3, ReadParsed, ReadTypes DEF Parsed, TypeOK
  <2>4. ASSUME NEW d \in Iface, FillNext(d) PROVE TypeOK'
    <3>1. Append(devs, [dev |-> d, mode |-> "active"]) \in Seq(DevEntry)
      BY AppendFact, EntryTypes DEF TypeOK, Prot
    <3> QED
      BY <2>4, <3>1 DEF FillNext, Enter, Skip, TypeOK
  <2>5. CASE FillEnds \/ EndOfFile
    BY <2>5 DEF FillEnds, EndOfFile, TypeOK
  <2>6. CASE UNCHANGED vars
    BY <2>6 DEF vars, TypeOK
  <2> QED
    BY <2>1, <2>2, <2>3, <2>4, <2>5, <2>6 DEF Next
<1> QED
  BY <1>1, <1>2, PTL DEF Spec

-----------------------------------------------------------------------------
(* Settings *)

Variable == {"#", "other", "short", "syslog_facility", "user_script",
             "defend_interval", "log_level", "iface_configuration", "iface"}

\* Reading a line makes it the last one about its variable, and leaves the
\* other variables to the lines they had.
LEMMA ReadFact ==
  ASSUME TypeOK, NEW line \in Line, Read(line)
  PROVE  /\ \A i \in DOMAIN lines : i \in DOMAIN lines' /\ lines'[i] = lines[i]
         /\ Len(lines) + 1 \in DOMAIN lines' /\ lines'[Len(lines) + 1] = line
         /\ \A i \in DOMAIN lines' : i \in Nat /\ (i \in DOMAIN lines \/ i = Len(lines) + 1)
         /\ \A i \in DOMAIN lines : i \in Nat /\ i < Len(lines) + 1
<1>1. lines \in Seq(Line) /\ lines' = Append(lines, line)
  BY DEF Read, TypeOK
<1> QED
  BY <1>1, AppendFact

\* A line that is read joins the lines about its own variable and no others.
LEMMA AboutFact ==
  ASSUME TypeOK, NEW line \in Line, Read(line), NEW v \in Variable
  PROVE  About(v)' = IF line.var = v THEN About(v) \cup {Len(lines) + 1} ELSE About(v)
<1>1. \A i \in DOMAIN lines : Len(lines) + 1 # i
  BY ReadFact
<1> QED
  BY <1>1, ReadFact DEF About

\* A line that is read governs its variable from now on, and leaves the line
\* that governs any other in charge.
LEMMA GovernsFact ==
  ASSUME TypeOK, NEW line \in Line, Read(line), NEW v \in Variable
  PROVE  /\ line.var = v => /\ About(v)' # {}
                            /\ \A i \in DOMAIN lines' : Governs(i, v)' => i = Len(lines) + 1
         /\ line.var # v => /\ About(v)' = About(v)
                            /\ \A i \in DOMAIN lines' : Governs(i, v)' =>
                                 i \in DOMAIN lines /\ Governs(i, v) /\ lines'[i] = lines[i]
<1>1. CASE line.var = v
  <2>1. Len(lines) + 1 \in About(v)'
    BY <1>1, AboutFact
  <2>2. ASSUME NEW i \in DOMAIN lines', Governs(i, v)' PROVE i = Len(lines) + 1
    <3>1. Len(lines) + 1 <= i
      BY <2>1, <2>2 DEF Governs
    <3> QED
      BY <3>1, ReadFact, AppendFact DEF TypeOK
  <2> QED
    BY <1>1, <2>1, <2>2
<1>2. CASE line.var # v
  <2>1. About(v)' = About(v)
    BY <1>2, AboutFact
  <2>2. ASSUME NEW i \in DOMAIN lines', Governs(i, v)'
        PROVE  i \in DOMAIN lines /\ Governs(i, v) /\ lines'[i] = lines[i]
    BY <2>1, <2>2, ReadFact DEF Governs, About
  <2> QED
    BY <1>2, <2>1, <2>2
<1> QED
  BY <1>1, <1>2

\* The configuration is what the lines read so far say.
Settings ==
  /\ \A i \in DOMAIN lines :
       /\ Governs(i, "syslog_facility") => config.facility = lines[i].facility
       /\ Governs(i, "user_script") => config.script = lines[i].script
       /\ Governs(i, "defend_interval") /\ lines[i].number \in IntRange =>
            config.defend_interval = lines[i].number
       /\ Governs(i, "log_level") => config.log_level = LevelOf(lines[i].level)
  /\ About("syslog_facility") = {} => config.facility = "daemon"
  /\ About("user_script") = {} => config.script = None
  /\ About("defend_interval") = {} => config.defend_interval = 0
  /\ About("log_level") = {} => config.log_level = kept
  /\ config.defend_interval \in 0 .. 600

Going == phase \in {"reading", "filling", "accepted"}

SettingsInv == Going => Settings

\* Lines that say nothing about the four settings.
LEMMA OtherLineKeepsSettings ==
  ASSUME TypeOK, Settings, NEW line \in Line, Read(line),
         line.var \notin {"syslog_facility", "user_script", "defend_interval", "log_level"},
         \A f \in {"facility", "script", "defend_interval", "log_level"} : config'[f] = config[f]
  PROVE  Settings'
<1>1. \A v \in {"syslog_facility", "user_script", "defend_interval", "log_level"} :
        /\ About(v)' = About(v)
        /\ \A i \in DOMAIN lines' : Governs(i, v)' =>
             i \in DOMAIN lines /\ Governs(i, v) /\ lines'[i] = lines[i]
  BY GovernsFact DEF Variable
<1>2. kept' = kept
  BY DEF Read
<1>3. /\ config'.facility = config.facility /\ config'.script = config.script
      /\ config'.defend_interval = config.defend_interval
      /\ config'.log_level = config.log_level
  OBVIOUS
<1> QED
  BY <1>1, <1>2, <1>3 DEF Settings

\* Every step keeps the settings as the governing lines say.
LEMMA SettingsStep ==
  ASSUME TypeOK, TypeOK', SettingsInv, [Next]_vars
  PROVE  SettingsInv'
<1>1. ASSUME NEW d \in Iface, IfaceChanges(d) PROVE SettingsInv'
  BY <1>1 DEF IfaceChanges, SettingsInv, Going, Settings, Governs, About
<1>2. CASE Start
  <2>1. DOMAIN lines' = {}
    BY <1>2 DEF Start
  <2>2. \A v \in Variable : About(v)' = {}
    BY <2>1 DEF About
  <2>3. config' = Defaults /\ kept' = config.log_level
    BY <1>2 DEF Start
  <2> QED
    BY <2>1, <2>2, <2>3 DEF Defaults, SettingsInv, Settings, Variable
<1>3. CASE ReadLine
  <2> SUFFICES ASSUME Going' PROVE Settings'
    BY DEF SettingsInv
  <2>0. Settings /\ config \in Config
    BY <1>3, ReadIsTyped DEF SettingsInv, Going, Read, TypeOK
  <2>1. CASE ReadIgnored \/ ReadShort
    <3>1. PICK v \in {"#", "other", "short"} : Read([var |-> v])
      BY <2>1 DEF ReadIgnored, ReadShort
    <3>2. config' = config
      BY <2>1 DEF ReadIgnored, ReadShort, Configure, Refuse
    <3> QED
      BY <2>0, <3>1, <3>2, LineTypes, OtherLineKeepsSettings
  <2>2. ASSUME NEW f \in Facility \cup {Odd}, ReadFacility(f) PROVE Settings'
    <3> DEFINE line == [var |-> "syslog_facility", facility |-> f]
    <3>1. line \in Line /\ Read(line)
      BY <2>2, LineTypes DEF ReadFacility
    <3>2. /\ config'.facility = f /\ config'.script = config.script
          /\ config'.defend_interval = config.defend_interval
          /\ config'.log_level = config.log_level /\ kept' = kept
      BY <2>0, <2>2 DEF ReadFacility, Configure, Refuse, Going, Read, Config
    <3> QED
      BY <2>0, <3>1, <3>2, GovernsFact, ReadFact DEF Settings, Variable
  <2>3. ASSUME NEW s \in Script \cup {Odd}, ReadScript(s) PROVE Settings'
    <3> DEFINE line == [var |-> "user_script", script |-> s]
    <3>1. line \in Line /\ Read(line)
      BY <2>3, LineTypes DEF ReadScript
    <3>2. /\ config'.facility = config.facility /\ config'.script = s
          /\ config'.defend_interval = config.defend_interval
          /\ config'.log_level = config.log_level /\ kept' = kept
      BY <2>0, <2>3 DEF ReadScript, Configure, Refuse, Going, Read, Config
    <3> QED
      BY <2>0, <3>1, <3>2, GovernsFact, ReadFact DEF Settings, Variable
  <2>4. ASSUME NEW n \in Number, ReadInterval(n) PROVE Settings'
    <3> DEFINE line == [var |-> "defend_interval", number |-> n]
    <3>1. line \in Line /\ Read(line)
      BY <2>4, LineTypes DEF ReadInterval
    <3>2. /\ config'.facility = config.facility /\ config'.script = config.script
          /\ config'.defend_interval = ToInt(n) /\ ToInt(n) \in 0 .. 600
          /\ config'.log_level = config.log_level /\ kept' = kept
      BY <2>0, <2>4 DEF ReadInterval, Configure, Going, Read, Config
    <3>3. n \in IntRange => config'.defend_interval = n
      BY <3>2, ConfigAssumption, ToIntFact
    <3> QED
      BY <2>0, <3>1, <3>2, <3>3, GovernsFact, ReadFact DEF Settings, Variable
  <2>5. ASSUME NEW l \in Level \cup {Odd}, ReadLevel(l) PROVE Settings'
    <3> DEFINE line == [var |-> "log_level", level |-> l]
    <3>1. line \in Line /\ Read(line)
      BY <2>5, LineTypes DEF ReadLevel
    <3>2. /\ config'.facility = config.facility /\ config'.script = config.script
          /\ config'.defend_interval = config.defend_interval
          /\ config'.log_level = LevelOf(l) /\ kept' = kept
      BY <2>0, <2>5 DEF ReadLevel, Configure, Read, Config
    <3> QED
      BY <2>0, <3>1, <3>2, GovernsFact, ReadFact DEF Settings, Variable
  <2>6. ASSUME NEW m \in Mode \cup {Odd}, ReadMode(m) PROVE Settings'
    <3>1. PICK line \in Line : Read(line) /\ line.var = "iface_configuration"
      BY <2>6, LineTypes DEF ReadMode
    <3>2. \A f \in {"facility", "script", "defend_interval", "log_level"} :
            config'[f] = config[f]
      BY <2>0, <2>6 DEF ReadMode, Configure, Refuse, Config
    <3> QED
      BY <2>0, <3>1, <3>2, OtherLineKeepsSettings
  <2>7. ASSUME NEW d \in Iface, NEW prot \in Prot \cup {None, Odd}, ReadIface(d, prot)
        PROVE  Settings'
    <3>1. PICK line \in Line : Read(line) /\ line.var = "iface"
      BY <2>7, LineTypes DEF ReadIface
    <3>2. config' = config
      BY <2>7 DEF ReadIface, Refuse
    <3> QED
      BY <2>0, <3>1, <3>2, OtherLineKeepsSettings
  <2> QED
    BY <1>3, <2>1, <2>2, <2>3, <2>4, <2>5, <2>6, <2>7 DEF ReadLine
<1>4. ASSUME NEW d \in Iface, FillNext(d) PROVE SettingsInv'
  <2>1. UNCHANGED <<config, lines, kept>> /\ (Going' => Going)
    BY <1>4 DEF FillNext, Going
  <2> QED
    BY <2>1 DEF SettingsInv, Going, Settings, Governs, About
<1>5. CASE FillEnds \/ EndOfFile
  <2>1. UNCHANGED <<config, lines, kept>> /\ (Going' => Going)
    BY <1>5 DEF FillEnds, EndOfFile, Going
  <2> QED
    BY <2>1 DEF SettingsInv, Going, Settings, Governs, About
<1>6. CASE UNCHANGED vars
  BY <1>6 DEF vars, SettingsInv, Going, Settings, Governs, About
<1> QED
  BY <1>1, <1>2, <1>3, <1>4, <1>5, <1>6 DEF Next

\* Every setting of a configuration that is accepted is the last one its own
\* file gives, or the default: nothing of an earlier start but the level.
THEOREM SettingsTheorem == Spec => []SettingsAsSaid
<1>1. Init => SettingsInv
  BY DEF Init, SettingsInv, Going
<1>2. TypeOK /\ TypeOK' /\ SettingsInv /\ [Next]_vars => SettingsInv'
  BY SettingsStep
<1>3. SettingsInv => SettingsAsSaid
  BY DEF SettingsInv, Going, Settings, SettingsAsSaid
<1> QED
  BY <1>1, <1>2, <1>3, TypeCorrect, PTL DEF Spec

-----------------------------------------------------------------------------
(* Handles and interfaces that come and go *)

ProbesInv == Going => handles = 0

\* A reading that is accepted leaves no capture handle open.
THEOREM ProbesTheorem == Spec => []ProbesAreClosed
<1>1. Init => ProbesInv
  BY DEF Init, ProbesInv, Going
<1>2. ProbesInv /\ [Next]_vars => ProbesInv'
  <2> SUFFICES ASSUME ProbesInv, [Next]_vars PROVE ProbesInv'
    OBVIOUS
  <2>1. CASE ReadIgnored \/ ReadShort \/ \E f \in Facility \cup {Odd} : ReadFacility(f)
    BY <2>1 DEF ReadIgnored, ReadShort, ReadFacility, Configure, Refuse, Read, ProbesInv, Going
  <2>2. CASE \/ \E s \in Script \cup {Odd} : ReadScript(s)
             \/ \E n \in Number : ReadInterval(n)
             \/ \E l \in Level \cup {Odd} : ReadLevel(l)
    BY <2>2 DEF ReadScript, ReadInterval, ReadLevel, Configure, Refuse, Read, ProbesInv, Going
  <2>3. CASE \E m \in Mode \cup {Odd} : ReadMode(m)
    BY <2>3 DEF ReadMode, Configure, Refuse, Read, ProbesInv, Going
  <2>4. CASE \E d \in Iface, prot \in Prot \cup {None, Odd} : ReadIface(d, prot)
    BY <2>4 DEF ReadIface, Refuse, Read, ProbesInv, Going
  <2>5. CASE \E d \in Iface : IfaceChanges(d) \/ FillNext(d)
    BY <2>5 DEF IfaceChanges, FillNext, Enter, Skip, ProbesInv, Going
  <2>6. CASE Start \/ FillEnds \/ EndOfFile \/ UNCHANGED vars
    BY <2>6 DEF Start, FillEnds, EndOfFile, vars, ProbesInv, Going
  <2> QED
    BY <2>1, <2>2, <2>3, <2>4, <2>5, <2>6 DEF Next, ReadLine
<1>3. ProbesInv => ProbesAreClosed
  BY DEF ProbesInv, Going, ProbesAreClosed
<1> QED
  BY <1>1, <1>2, <1>3, PTL DEF Spec

\* What could be watched all the while is in the table or still to be looked at.
MissedInv ==
  /\ steady \subseteq present
  /\ (steady \ Loopback) \cap Ether \subseteq found \cup list
  /\ phase # "filling" => list = {}

\* No interface that stays is missed by the automatic configuration.
THEOREM NoneMissedTheorem == Spec => []NoneMissed
<1>1. Init => MissedInv
  BY DEF Init, MissedInv
<1>2. MissedInv /\ [Next]_vars => MissedInv'
  <2> SUFFICES ASSUME MissedInv, [Next]_vars PROVE MissedInv'
    OBVIOUS
  <2>1. CASE \/ ReadIgnored \/ ReadShort
             \/ \E f \in Facility \cup {Odd} : ReadFacility(f)
             \/ \E s \in Script \cup {Odd} : ReadScript(s)
    BY <2>1 DEF ReadIgnored, ReadShort, ReadFacility, ReadScript, Configure, Refuse, Read,
                fillVars, MissedInv
  <2>2. CASE \/ \E n \in Number : ReadInterval(n)
             \/ \E l \in Level \cup {Odd} : ReadLevel(l)
    <3>1. phase = "reading" /\ phase' # "filling" /\ UNCHANGED <<present, list, found, steady>>
      BY <2>2, Zenon DEF ReadInterval, ReadLevel, Configure, Read, fillVars
    <3> QED
      BY <3>1 DEF MissedInv
  <2>3. CASE \E m \in Mode \cup {Odd} : ReadMode(m)
    BY <2>3 DEF ReadMode, Configure, Refuse, Read, fillVars, MissedInv
  <2>4. CASE \E d \in Iface, prot \in Prot \cup {None, Odd} : ReadIface(d, prot)
    BY <2>4 DEF ReadIface, Refuse, Read, fillVars, MissedInv
  <2>5. ASSUME NEW d \in Iface, IfaceChanges(d) PROVE MissedInv'
    BY <2>5 DEF IfaceChanges, MissedInv
  <2>6. ASSUME NEW d \in Iface, FillNext(d) PROVE MissedInv'
    <3>1. CASE d \in Suits
      BY <2>6, <3>1 DEF FillNext, Enter, MissedInv
    <3>2. CASE d \notin Suits
      BY <2>6, <3>2 DEF FillNext, Skip, Suits, MissedInv
    <3> QED
      BY <3>1, <3>2
  <2>7. CASE Start
    BY <2>7 DEF Start, MissedInv
  <2>8. CASE FillEnds \/ EndOfFile \/ UNCHANGED vars
    BY <2>8 DEF FillEnds, EndOfFile, vars, MissedInv
  <2> QED
    BY <2>1, <2>2, <2>3, <2>4, <2>5, <2>6, <2>7, <2>8 DEF Next, ReadLine
<1>3. MissedInv => NoneMissed
  BY DEF MissedInv, NoneMissed
<1> QED
  BY <1>1, <1>2, <1>3, PTL DEF Spec

-----------------------------------------------------------------------------
(* The table *)

Entries == {devs[k] : k \in DOMAIN devs}

\* The table read so far is the one the lines and the search have made.
Table ==
  /\ \A i \in DOMAIN devs :
       /\ devs[i].dev \in Ether
       /\ \/ Named(devs[i])
          \/ devs[i].mode = "active" /\ devs[i].dev \in found
  /\ \A i \in About("iface") :
       [dev |-> lines[i].dev, mode |-> lines[i].mode] \in Entries
  /\ \A d \in found : [dev |-> d, mode |-> "active"] \in Entries

TableInv == Going => Table

\* A line that is read keeps the entries that earlier lines name.
LEMMA NamedKept ==
  ASSUME TypeOK, NEW line \in Line, Read(line), NEW e, Named(e)
  PROVE  Named(e)'
BY AboutFact, ReadFact DEF Named, Variable, About

\* A line that names no interface changes nothing of what the table rests on.
LEMMA OtherLineKeepsTable ==
  ASSUME TypeOK, Table, NEW line \in Line, Read(line), line.var # "iface",
         UNCHANGED <<devs, found>>
  PROVE  Table'
<1>1. About("iface")' = About("iface")
  BY AboutFact DEF Variable
<1>2. \A i \in About("iface") : lines'[i] = lines[i]
  BY ReadFact DEF About
<1>3. \A i \in DOMAIN devs : Named(devs[i]) => Named(devs[i])'
  BY <1>1, <1>2 DEF Named
<1> QED
  BY <1>1, <1>2, <1>3 DEF Table, Entries

\* What is appended to the table.
LEMMA EntriesFact ==
  ASSUME TypeOK, NEW e \in DevEntry, devs' = Append(devs, e)
  PROVE  /\ Entries' = Entries \cup {e}
         /\ \A i \in DOMAIN devs' : i \in DOMAIN devs \/ i = Len(devs) + 1
         /\ \A i \in DOMAIN devs : i # Len(devs) + 1 /\ i \in DOMAIN devs' /\ devs'[i] = devs[i]
         /\ Len(devs) + 1 \in DOMAIN devs' /\ devs'[Len(devs) + 1] = e
<1>1. /\ \A i \in DOMAIN devs' : i \in DOMAIN devs \/ i = Len(devs) + 1
      /\ \A i \in DOMAIN devs : i # Len(devs) + 1 /\ i \in DOMAIN devs' /\ devs'[i] = devs[i]
      /\ Len(devs) + 1 \in DOMAIN devs' /\ devs'[Len(devs) + 1] = e
  BY AppendFact DEF TypeOK
<1> QED
  BY <1>1 DEF Entries

\* Every step keeps the table backed by the lines and by what was found.
LEMMA TableStep ==
  ASSUME TypeOK, TypeOK', TableInv, [Next]_vars
  PROVE  TableInv'
<1>1. ASSUME NEW d \in Iface, IfaceChanges(d) PROVE TableInv'
  BY <1>1 DEF IfaceChanges, TableInv, Going, Table, Entries, Named, About
<1>2. CASE Start
  <2>1. DOMAIN devs' = {} /\ DOMAIN lines' = {} /\ found' = {}
    BY <1>2 DEF Start
  <2> QED
    BY <2>1 DEF TableInv, Table, About
<1>3. CASE ReadLine
  <2> SUFFICES ASSUME Going' PROVE Table'
    BY DEF TableInv
  <2>0. Table
    BY <1>3, ReadIsTyped DEF TableInv, Going, Read
  <2>1. CASE ReadIgnored \/ ReadShort
    <3>1. PICK line \in Line : Read(line) /\ line.var # "iface"
      BY <2>1, LineTypes DEF ReadIgnored, ReadShort
    <3>2. UNCHANGED <<devs, found>>
      BY <2>1 DEF ReadIgnored, ReadShort, Configure, Refuse, fillVars
    <3> QED
      BY <2>0, <3>1, <3>2, OtherLineKeepsTable
  <2>2. ASSUME NEW f \in Facility \cup {Odd}, ReadFacility(f) PROVE Table'
    <3>1. PICK line \in Line : Read(line) /\ line.var # "iface"
      BY <2>2, LineTypes DEF ReadFacility
    <3>2. UNCHANGED <<devs, found>>
      BY <2>2 DEF ReadFacility, Configure, Refuse, fillVars
    <3> QED
      BY <2>0, <3>1, <3>2, OtherLineKeepsTable
  <2>3. ASSUME NEW s \in Script \cup {Odd}, ReadScript(s) PROVE Table'
    <3>1. PICK line \in Line : Read(line) /\ line.var # "iface"
      BY <2>3, LineTypes DEF ReadScript
    <3>2. UNCHANGED <<devs, found>>
      BY <2>3 DEF ReadScript, Configure, Refuse, fillVars
    <3> QED
      BY <2>0, <3>1, <3>2, OtherLineKeepsTable
  <2>4. ASSUME NEW n \in Number, ReadInterval(n) PROVE Table'
    <3>1. PICK line \in Line : Read(line) /\ line.var # "iface"
      BY <2>4, LineTypes DEF ReadInterval
    <3>2. UNCHANGED <<devs, found>>
      BY <2>4 DEF ReadInterval, Configure, fillVars
    <3> QED
      BY <2>0, <3>1, <3>2, OtherLineKeepsTable
  <2>5. ASSUME NEW l \in Level \cup {Odd}, ReadLevel(l) PROVE Table'
    <3>1. PICK line \in Line : Read(line) /\ line.var # "iface"
      BY <2>5, LineTypes DEF ReadLevel
    <3>2. UNCHANGED <<devs, found>>
      BY <2>5 DEF ReadLevel, Configure, fillVars
    <3> QED
      BY <2>0, <3>1, <3>2, OtherLineKeepsTable
  <2>6. ASSUME NEW m \in Mode \cup {Odd}, ReadMode(m) PROVE Table'
    <3>1. PICK line \in Line : Read(line) /\ line.var # "iface"
      BY <2>6, LineTypes DEF ReadMode
    <3>2. UNCHANGED <<devs, found>>
      BY <2>6 DEF ReadMode, Configure, Refuse, fillVars
    <3> QED
      BY <2>0, <3>1, <3>2, OtherLineKeepsTable
  <2>7. ASSUME NEW d \in Iface, NEW prot \in Prot \cup {None, Odd}, ReadIface(d, prot)
        PROVE  Table'
    <3> DEFINE line == [var |-> "iface", dev |-> d, mode |-> prot]
               e    == [dev |-> d, mode |-> prot]
    <3>1. line \in Line /\ Read(line)
      BY <2>7, LineTypes DEF ReadIface
    <3>2. d \in Ether /\ prot \in Prot /\ devs' = Append(devs, e) /\ found' = found
      BY <2>7 DEF ReadIface, Refuse, Going, fillVars
    <3>3. e \in DevEntry
      BY <3>2, EntryTypes
    <3>4. About("iface")' = About("iface") \cup {Len(lines) + 1}
      BY <3>1, AboutFact DEF Variable
    <3>5. lines'[Len(lines) + 1] = line
      BY <3>1, ReadFact
    <3>6. Named(e)'
      BY <3>4, <3>5 DEF Named
    <3>7. ASSUME NEW i \in DOMAIN devs'
          PROVE  /\ devs'[i].dev \in Ether
                 /\ \/ Named(devs[i])'
                    \/ devs'[i].mode = "active" /\ devs'[i].dev \in found'
      <4>1. CASE i \in DOMAIN devs
        BY <2>0, <3>1, <3>2, <3>3, <4>1, EntriesFact, NamedKept DEF Table
      <4>2. CASE i = Len(devs) + 1
        BY <3>2, <3>3, <3>6, <4>2, EntriesFact
      <4> QED
        BY <3>2, <3>3, <4>1, <4>2, EntriesFact
    <3>8. \A i \in About("iface")' :
            [dev |-> lines'[i].dev, mode |-> lines'[i].mode] \in Entries'
      <4>1. Entries' = Entries \cup {e}
        BY <3>2, <3>3, EntriesFact
      <4>2. \A i \in About("iface") : lines'[i] = lines[i]
        BY <3>1, ReadFact DEF About
      <4> QED
        BY <2>0, <3>4, <3>5, <4>1, <4>2 DEF Table
    <3>9. \A f \in found' : [dev |-> f, mode |-> "active"] \in Entries'
      BY <2>0, <3>2, <3>3, EntriesFact DEF Table
    <3> QED
      BY <3>7, <3>8, <3>9 DEF Table
  <2> QED
    BY <1>3, <2>1, <2>2, <2>3, <2>4, <2>5, <2>6, <2>7 DEF ReadLine
<1>4. ASSUME NEW d \in Iface, FillNext(d) PROVE TableInv'
  <2>1. Table /\ lines' = lines
    BY <1>4 DEF FillNext, TableInv, Going
  <2>2. CASE d \notin Suits
    BY <1>4, <2>1, <2>2 DEF FillNext, Skip, TableInv, Table, Entries, Named, About
  <2>3. CASE d \in Suits
    <3> DEFINE e == [dev |-> d, mode |-> "active"]
    <3>1. devs' = Append(devs, e) /\ found' = found \cup {d} /\ d \in Ether
      BY <1>4, <2>3 DEF FillNext, Enter, Suits
    <3>2. e \in DevEntry
      BY EntryTypes DEF Prot
    <3>3. \A x : Named(x)' <=> Named(x)
      BY <2>1 DEF Named, About
    <3>4. ASSUME NEW i \in DOMAIN devs'
          PROVE  /\ devs'[i].dev \in Ether
                 /\ \/ Named(devs[i])'
                    \/ devs'[i].mode = "active" /\ devs'[i].dev \in found'
      <4>1. CASE i \in DOMAIN devs
        <5>1. devs'[i] = devs[i]
          BY <3>1, <3>2, <4>1, EntriesFact
        <5> QED
          BY <2>1, <3>1, <4>1, <5>1 DEF Table, Named, About
      <4>2. CASE i = Len(devs) + 1
        BY <3>1, <3>2, <4>2, EntriesFact
      <4> QED
        BY <3>1, <3>2, <4>1, <4>2, EntriesFact
    <3>5. Entries' = Entries \cup {e}
      BY <3>1, <3>2, EntriesFact
    <3> QED
      BY <2>1, <3>1, <3>4, <3>5 DEF TableInv, Table, About
  <2> QED
    BY <2>2, <2>3
<1>5. CASE FillEnds \/ EndOfFile
  <2>1. UNCHANGED <<devs, lines, found>> /\ (Going' => Going)
    BY <1>5 DEF FillEnds, EndOfFile, Going
  <2> QED
    BY <2>1 DEF TableInv, Table, Entries, Named, About
<1>6. CASE UNCHANGED vars
  BY <1>6 DEF vars, TableInv, Going, Table, Entries, Named, About
<1> QED
  BY <1>1, <1>2, <1>3, <1>4, <1>5, <1>6 DEF Next

\* The table of a configuration that is accepted holds what its lines name and
\* what the search has found, and nothing else.
THEOREM TableTheorem == Spec => []TableAsSaid
<1>1. Init => TableInv
  BY DEF Init, TableInv, Going
<1>2. TypeOK /\ TypeOK' /\ TableInv /\ [Next]_vars => TableInv'
  BY TableStep
<1>3. (phase = "accepted" => devs # <<>>) /\ [Next]_vars
      => (phase = "accepted" => devs # <<>>)'
  <2> SUFFICES ASSUME phase = "accepted" => devs # <<>>, [Next]_vars, phase' = "accepted"
               PROVE  devs' # <<>>
    OBVIOUS
  <2>1. ReadLine => phase' # "accepted"
    BY DEF ReadLine, ReadIgnored, ReadShort, ReadFacility, ReadScript, ReadInterval,
           ReadLevel, ReadMode, ReadIface, Read, Configure, Refuse
  <2> QED
    BY <2>1 DEF Next, IfaceChanges, Start, FillNext, FillEnds, EndOfFile, vars
<1>4. Init => (phase = "accepted" => devs # <<>>)
  BY DEF Init
<1>5. TableInv /\ (phase = "accepted" => devs # <<>>) => TableAsSaid
  BY DEF TableInv, Going, Table, Entries, TableAsSaid
<1> QED
  BY <1>1, <1>2, <1>3, <1>4, <1>5, TypeCorrect, PTL DEF Spec

-----------------------------------------------------------------------------
(* Modes *)

Modes ==
  /\ config.mode = "manual" <=> \E j \in DOMAIN lines : Says(j, "manual")
  /\ \A i \in About("iface") : \E j \in 1 .. i - 1 : Says(j, "manual")
  /\ \A i, j \in DOMAIN lines : (Says(i, "automatic") /\ Says(j, "manual")) => i < j

\* No interface is in the table twice unless a line names it.
Unique ==
  \A i, j \in DOMAIN devs :
    i < j /\ devs[i].dev = devs[j].dev
    => \E k \in About("iface") : lines[k].dev = devs[j].dev

\* While the automatic configuration goes on, nothing else has been entered,
\* and what is still to be looked at has not.
FillInv ==
  phase = "filling" =>
    /\ config.mode = "automatic"
    /\ \A k \in DOMAIN devs : devs[k].dev \notin list

ModesInv == (Going => Modes /\ Unique) /\ FillInv

\* A line read does not make an entry of the table unaccounted for.
LEMMA UniqueStays ==
  ASSUME TypeOK, Unique, NEW line \in Line, Read(line), devs' = devs
  PROVE  Unique'
BY AboutFact, ReadFact DEF Unique, Variable, About

\* A line about neither modes nor interfaces.
LEMMA OtherLineKeepsModes ==
  ASSUME TypeOK, Modes, NEW line \in Line, Read(line),
         line.var \notin {"iface_configuration", "iface"},
         config'.mode = config.mode
  PROVE  Modes'
<1>1. /\ About("iface")' = About("iface")
      /\ About("iface_configuration")' = About("iface_configuration")
  BY AboutFact DEF Variable
<1>2. \A i \in About("iface_configuration") : i \in DOMAIN lines /\ lines'[i] = lines[i]
  BY ReadFact DEF About
<1>3. \A i, m : Says(i, m)' <=> Says(i, m)
  BY <1>1, <1>2 DEF Says
<1>4. \A i, m : Says(i, m) => i \in DOMAIN lines /\ i \in DOMAIN lines'
  BY ReadFact DEF Says, About
<1> QED
  BY <1>1, <1>3, <1>4 DEF Modes

\* The lines that leave the table and the mode alone.
PlainLine ==
  \/ ReadIgnored \/ ReadShort
  \/ \E f \in Facility \cup {Odd} : ReadFacility(f)
  \/ \E s \in Script \cup {Odd} : ReadScript(s)
  \/ \E n \in Number : ReadInterval(n)
  \/ \E l \in Level \cup {Odd} : ReadLevel(l)

\* A line about neither modes nor interfaces touches neither table nor mode.
LEMMA PlainLineFact ==
  ASSUME TypeOK, PlainLine
  PROVE  /\ \E line \in Line : Read(line) /\ line.var \notin {"iface_configuration", "iface"}
         /\ devs' = devs /\ config'.mode = config.mode /\ phase' # "filling"
<1> USE DEF Read, Configure, Refuse
<1>0. config \in Config
  BY DEF TypeOK
<1>1. CASE ReadIgnored \/ ReadShort
  BY <1>0, <1>1, LineTypes DEF ReadIgnored, ReadShort
<1>2. ASSUME NEW f \in Facility \cup {Odd}, ReadFacility(f)
      PROVE  /\ \E line \in Line : Read(line) /\ line.var \notin {"iface_configuration", "iface"}
             /\ devs' = devs /\ config'.mode = config.mode /\ phase' # "filling"
  <2>1. devs' = devs /\ config'.mode = config.mode /\ phase' # "filling"
    BY <1>0, <1>2 DEF ReadFacility, Config
  <2> QED
    BY <1>2, <2>1, LineTypes DEF ReadFacility
<1>3. ASSUME NEW s \in Script \cup {Odd}, ReadScript(s)
      PROVE  /\ \E line \in Line : Read(line) /\ line.var \notin {"iface_configuration", "iface"}
             /\ devs' = devs /\ config'.mode = config.mode /\ phase' # "filling"
  <2>1. devs' = devs /\ config'.mode = config.mode /\ phase' # "filling"
    BY <1>0, <1>3 DEF ReadScript, Config
  <2> QED
    BY <1>3, <2>1, LineTypes DEF ReadScript
<1>4. ASSUME NEW n \in Number, ReadInterval(n)
      PROVE  /\ \E line \in Line : Read(line) /\ line.var \notin {"iface_configuration", "iface"}
             /\ devs' = devs /\ config'.mode = config.mode /\ phase' # "filling"
  <2>1. devs' = devs /\ config'.mode = config.mode /\ phase' # "filling"
    BY <1>0, <1>4 DEF ReadInterval, Config
  <2> QED
    BY <1>4, <2>1, LineTypes DEF ReadInterval
<1>5. ASSUME NEW l \in Level \cup {Odd}, ReadLevel(l)
      PROVE  /\ \E line \in Line : Read(line) /\ line.var \notin {"iface_configuration", "iface"}
             /\ devs' = devs /\ config'.mode = config.mode /\ phase' # "filling"
  <2>1. devs' = devs /\ config'.mode = config.mode /\ phase' # "filling"
    BY <1>0, <1>5 DEF ReadLevel, Config
  <2> QED
    BY <1>5, <2>1, LineTypes DEF ReadLevel
<1> QED
  BY <1>1, <1>2, <1>3, <1>4, <1>5 DEF PlainLine

\* A line of the mode keeps the automatic mode ahead of the manual one and
\* begins the listing with interfaces that are in no entry.
LEMMA ModeLineStep ==
  ASSUME TypeOK, Modes, Unique, NEW m \in Mode \cup {Odd}, ReadMode(m)
  PROVE  /\ Going' => Modes' /\ Unique'
         /\ FillInv'
<1> DEFINE line == [var |-> "iface_configuration", mode |-> m]
           new  == Len(lines) + 1
<1>1. line \in Line /\ Read(line)
  BY LineTypes DEF ReadMode
<1>2. Unique'
  <2>1. devs' = devs
    BY DEF ReadMode, Configure, Refuse
  <2> QED
    BY <1>1, <2>1, UniqueStays
<1>3. /\ About("iface")' = About("iface")
      /\ About("iface_configuration")' = About("iface_configuration") \cup {new}
  BY <1>1, AboutFact DEF Variable
<1>4. \A i \in DOMAIN lines : i \in DOMAIN lines' /\ i < new /\ lines'[i] = lines[i]
  BY <1>1, ReadFact
<1>5. new \in DOMAIN lines' /\ lines'[new] = line
  BY <1>1, ReadFact
<1>6. \A i, k : Says(i, k)' <=> (Says(i, k) \/ (i = new /\ k = m))
  BY <1>3, <1>4, <1>5 DEF Says, About
<1>7. \A i, k : Says(i, k) => i \in DOMAIN lines
  BY DEF Says, About
<1>8. config \in Config
  BY DEF TypeOK
<1>9. CASE m = "manual"
  <2>1. config'.mode = "manual" /\ phase' = phase /\ phase = "reading"
    BY <1>8, <1>9 DEF ReadMode, Configure, Config, Read
  <2> QED
    BY <1>2, <1>3, <1>4, <1>5, <1>6, <1>7, <1>9, <2>1 DEF Modes, FillInv
<1>10. CASE m = "automatic" /\ phase' # "refused"
  <2>1. config'.mode = config.mode /\ config.mode = "automatic" /\ devs' = <<>>
    BY <1>10 DEF ReadMode, Refuse, MayFill
  <2>2. \A j \in DOMAIN lines : ~Says(j, "manual")
    BY <2>1 DEF Modes
  <2>3. \A j : ~Says(j, "manual")'
    BY <1>6, <1>7, <1>10, <2>2
  <2>4. About("iface")' = {}
    BY <1>3, <1>7, <2>2 DEF Modes
  <2> QED
    BY <1>2, <2>1, <2>3, <2>4 DEF Modes, FillInv
<1>11. CASE phase' = "refused"
  BY <1>11 DEF Going, FillInv
<1>12. phase' = "refused" \/ m = "manual" \/ m = "automatic"
  BY DEF ReadMode, Refuse, Mode
<1> QED
  BY <1>9, <1>10, <1>11, <1>12

\* A line that names an interface comes after the manual mode, and is the only
\* reason for an interface to be in the table twice.
LEMMA IfaceLineStep ==
  ASSUME TypeOK, Modes, Unique, Going',
         NEW d \in Iface, NEW prot \in Prot \cup {None, Odd}, ReadIface(d, prot)
  PROVE  Modes' /\ Unique' /\ phase' # "filling"
<1> DEFINE line == [var |-> "iface", dev |-> d, mode |-> prot]
           e    == [dev |-> d, mode |-> prot]
           new  == Len(lines) + 1
<1>1. line \in Line /\ Read(line)
  BY LineTypes DEF ReadIface
<1>2. /\ phase' = phase /\ phase = "reading" /\ config' = config /\ config.mode = "manual"
      /\ prot \in Prot /\ devs' = Append(devs, e)
  BY DEF ReadIface, Refuse, Going, RefusesIface, Read
<1>3. /\ About("iface")' = About("iface") \cup {new}
      /\ About("iface_configuration")' = About("iface_configuration")
  BY <1>1, AboutFact DEF Variable
<1>4. \A i \in DOMAIN lines : /\ i \in DOMAIN lines' /\ i < new /\ lines'[i] = lines[i]
                             /\ i \in 1 .. new - 1
  BY <1>1, ReadFact, AppendFact DEF TypeOK
<1>5. new \in DOMAIN lines' /\ lines'[new] = line
  BY <1>1, ReadFact
<1>6. \A i, k : /\ Says(i, k)' <=> Says(i, k)
                /\ Says(i, k) => i \in DOMAIN lines
  BY <1>3, <1>4 DEF Says, About
<1>7. Modes'
  <2>1. PICK j \in DOMAIN lines : Says(j, "manual")
    BY <1>2 DEF Modes
  <2>2. \E i \in 1 .. new - 1 : Says(i, "manual")'
    BY <1>4, <1>6, <2>1
  <2> QED
    BY <1>2, <1>3, <1>4, <1>6, <2>1, <2>2 DEF Modes
<1>8. Unique'
  <2>1. e \in DevEntry
    BY <1>2, EntryTypes
  <2> SUFFICES ASSUME NEW i \in DOMAIN devs', NEW j \in DOMAIN devs',
                      i < j, devs'[i].dev = devs'[j].dev
               PROVE  \E k \in About("iface")' : lines'[k].dev = devs'[j].dev
    BY DEF Unique
  <2>2. CASE j = Len(devs) + 1
    <3>1. devs'[j] = e
      BY <1>2, <2>1, <2>2, EntriesFact
    <3> QED
      BY <1>3, <1>5, <3>1
  <2>3. CASE j \in DOMAIN devs
    <3>1. i \in DOMAIN devs
      BY <1>2, <2>1, <2>3, AppendFact DEF TypeOK
    <3>2. devs'[i] = devs[i] /\ devs'[j] = devs[j]
      BY <1>2, <2>1, <2>3, <3>1, EntriesFact
    <3>3. PICK k \in About("iface") : lines[k].dev = devs[j].dev
      BY <2>3, <3>1, <3>2 DEF Unique
    <3>4. k \in About("iface")' /\ lines'[k] = lines[k]
      BY <1>3, <1>4, <3>3 DEF About
    <3> QED
      BY <3>2, <3>3, <3>4
  <2> QED
    BY <1>2, <2>1, <2>2, <2>3, EntriesFact
<1> QED
  BY <1>2, <1>7, <1>8

\* A turn of ipwd_fill_devices enters no interface twice and keeps what the
\* modes of the lines promise.
LEMMA FillStep ==
  ASSUME TypeOK, ModesInv, NEW d \in Iface, FillNext(d)
  PROVE  ModesInv'
<1>1. /\ phase = "filling" /\ phase' = phase /\ lines' = lines /\ config' = config
      /\ d \in list /\ list' = list \ {d}
  BY DEF FillNext, Enter, Skip
<1>2. Modes /\ Unique /\ config.mode = "automatic"
      /\ \A k \in DOMAIN devs : devs[k].dev \notin list
  BY <1>1 DEF ModesInv, Going, FillInv
<1>3. Modes'
  BY <1>1, <1>2 DEF Modes, Says, About
<1>4. CASE devs' = devs
  BY <1>1, <1>2, <1>3, <1>4 DEF ModesInv, Unique, FillInv, About
<1>5. CASE devs' # devs
  <2> DEFINE e == [dev |-> d, mode |-> "active"]
  <2>1. devs' = Append(devs, e) /\ e \in DevEntry
    BY <1>5, EntryTypes DEF FillNext, Enter, Skip, Prot
  <2>2. Unique'
    <3> SUFFICES ASSUME NEW i \in DOMAIN devs', NEW j \in DOMAIN devs',
                        i < j, devs'[i].dev = devs'[j].dev
                 PROVE  \E k \in About("iface")' : lines'[k].dev = devs'[j].dev
      BY DEF Unique
    <3>1. i \in DOMAIN devs
      BY <2>1, AppendFact DEF TypeOK
    <3>2. devs'[i] = devs[i]
      BY <2>1, <3>1, EntriesFact
    <3>3. j \in DOMAIN devs
      BY <1>1, <1>2, <2>1, <3>1, <3>2, EntriesFact
    <3>4. devs'[j] = devs[j]
      BY <2>1, <3>3, EntriesFact
    <3> QED
      BY <1>1, <1>2, <3>1, <3>2, <3>3, <3>4 DEF Unique, About
  <2>3. \A k \in DOMAIN devs' : devs'[k].dev \notin list'
    BY <1>1, <1>2, <2>1, EntriesFact
  <2> QED
    BY <1>1, <1>2, <1>3, <2>2, <2>3 DEF ModesInv, FillInv
<1> QED
  BY <1>4, <1>5

\* Every step keeps what the modes of the lines promise.
LEMMA ModesStep ==
  ASSUME TypeOK, ModesInv, [Next]_vars
  PROVE  ModesInv'
<1>1. ASSUME NEW d \in Iface, IfaceChanges(d) PROVE ModesInv'
  <2>1. UNCHANGED <<phase, config, devs, list, lines>>
    BY <1>1 DEF IfaceChanges
  <2>2. (Modes /\ Unique) => (Modes /\ Unique)'
    BY <2>1 DEF Modes, Unique, Says, About
  <2> QED
    BY <2>1, <2>2 DEF ModesInv, Going, FillInv
<1>2. CASE Start
  <2>1. /\ DOMAIN devs' = {} /\ DOMAIN lines' = {} /\ config'.mode = "automatic"
        /\ phase' # "filling"
    BY <1>2 DEF Start, Defaults
  <2> QED
    BY <2>1 DEF ModesInv, Modes, Unique, FillInv, About
<1>3. CASE ReadLine
  <2>1. Modes /\ Unique
    BY <1>3, ReadIsTyped DEF ModesInv, Going, Read
  <2>2. CASE PlainLine
    BY <2>1, <2>2, PlainLineFact, OtherLineKeepsModes, UniqueStays DEF ModesInv, FillInv
  <2>3. ASSUME NEW m \in Mode \cup {Odd}, ReadMode(m) PROVE ModesInv'
    BY <2>1, <2>3, ModeLineStep DEF ModesInv
  <2>4. ASSUME NEW d \in Iface, NEW prot \in Prot \cup {None, Odd}, ReadIface(d, prot)
        PROVE  ModesInv'
    BY <2>1, <2>4, IfaceLineStep DEF ModesInv, FillInv, Going
  <2> QED
    BY <1>3, <2>2, <2>3, <2>4 DEF ReadLine, PlainLine
<1>4. ASSUME NEW d \in Iface, FillNext(d) PROVE ModesInv'
  BY <1>4, FillStep
<1>5. CASE FillEnds \/ EndOfFile
  <2>1. UNCHANGED <<devs, lines, config>> /\ (Going' => Going) /\ phase' # "filling"
    BY <1>5 DEF FillEnds, EndOfFile, Going
  <2> QED
    BY <2>1 DEF ModesInv, Modes, Unique, FillInv, Says, About
<1>6. CASE UNCHANGED vars
  <2>1. UNCHANGED <<phase, config, devs, list, lines>>
    BY <1>6 DEF vars
  <2>2. (Modes /\ Unique) => (Modes /\ Unique)'
    BY <2>1 DEF Modes, Unique, Says, About
  <2> QED
    BY <2>1, <2>2 DEF ModesInv, Going, FillInv
<1> QED
  BY <1>1, <1>2, <1>3, <1>4, <1>5, <1>6 DEF Next

\* In a file that is accepted the manual mode is never left, interfaces are named
\* in it alone, and the search never enters an interface twice.
THEOREM ManualTheorem == Spec => []ManualIsFinal
<1>1. Init => ModesInv
  BY DEF Init, ModesInv, Going, FillInv
<1>2. TypeOK /\ ModesInv /\ [Next]_vars => ModesInv'
  BY ModesStep
<1>3. ModesInv => ManualIsFinal
  <2> SUFFICES ASSUME ModesInv, phase = "accepted" PROVE ManualIsFinal
    BY DEF ManualIsFinal
  <2> QED
    BY DEF ModesInv, Going, Modes, Unique, ManualIsFinal
<1> QED
  BY <1>1, <1>2, <1>3, TypeCorrect, PTL DEF Spec
=============================================================================
