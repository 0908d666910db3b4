------------------------------ MODULE IpwdConfig ------------------------------
(***************************************************************************)
(* ipwd_read_config: the lines of ipwatchd.conf, read one after the other, *)
(* give the configuration and the table of devices that the watching       *)
(* thread works with.  Interfaces come and go while the file is read, and  *)
(* a host that registers the plugin again, on another connection to the    *)
(* bus, has the file read again in the same process.                       *)
(*                                                                         *)
(* A line is a record whose field "var" is its first word.  What the file  *)
(* says is chosen as it is read; "lines" keeps what has been read.         *)
(***************************************************************************)
EXTENDS CInt, Sequences, FiniteSets

CONSTANTS
  IfaceNum,   \* the interfaces are numbered as the kernel lists them
  Loopback,   \* those with IFF_LOOPBACK
  Ether,      \* those whose capture has link type DLT_EN10MB
  Facility,   \* the supported values of syslog_facility
  Script,     \* paths of files that exist
  Number,     \* what strtol may make of the value of defend_interval, a long
  MaxLines,   \* bound: lines of a file
  MaxStarts   \* bound: starts of the plugin in one process

Iface == 1 .. IfaceNum

ASSUME ConfigAssumption ==
  /\ IfaceNum \in Nat
  /\ Loopback \subseteq Iface
  /\ Ether \subseteq Iface
  /\ "daemon" \in Facility
  /\ Number \subseteq Int
  /\ MaxLines \in Nat
  /\ MaxStarts \in Nat

VARIABLES
  phase,    \* where ipwd_read_config is
  config,   \* config
  devs,     \* devices: the first devnum entries of devices.dev
  list,     \* ipwd_fill_devices: interfaces it has listed and not looked at
  handles,  \* capture handles of this reading that are open
  present,  \* the interfaces there are
  lines,    \* history: the lines read since the start
  found,    \* history: the interfaces that ipwd_fill_devices has entered
  steady,   \* history: interfaces present ever since they were listed last
  kept,     \* history: config.log_level at the start
  starts    \* how often the plugin has been started

vars == <<phase, config, devs, list, handles, present,
          lines, found, steady, kept, starts>>

\* Values that are not supported, or words that are missing.
Odd      == "?"
None     == "none"
Level    == {"error", "alert", "info", "debug"}
Mode     == {"automatic", "manual"}
Prot     == {"active", "passive"}
Config   == [facility : Facility, script : Script \cup {None},
             defend_interval : IntRange, mode : Mode, log_level : Level \cup {None}]
DevEntry == [dev : Iface, mode : Prot]

Line ==
  [var : {"#", "other", "short"}]
  \cup [var : {"syslog_facility"}, facility : Facility \cup {Odd}]
  \cup [var : {"user_script"}, script : Script \cup {Odd}]
  \cup [var : {"defend_interval"}, number : Number]
  \cup [var : {"log_level"}, level : Level \cup {Odd}]
  \cup [var : {"iface_configuration"}, mode : Mode \cup {Odd}]
  \cup [var : {"iface"}, dev : Iface, mode : Prot \cup {None, Odd}]

\* config is zeroed when the library is loaded.
Init ==
  /\ phase = "off"
  /\ config = [facility |-> "daemon", script |-> None, defend_interval |-> 0,
               mode |-> "automatic", log_level |-> None]
  /\ devs = <<>>
  /\ list = {}
  /\ handles = 0
  /\ present \in SUBSET Iface
  /\ lines = <<>>
  /\ found = {}
  /\ steady = {}
  /\ kept = None
  /\ starts = 0

-----------------------------------------------------------------------------
(* The world *)

\* An interface is plugged in or configured, or goes away.
IfaceChanges(d) ==
  /\ present' \in {present \cup {d}, present \ {d}}
  /\ steady' = steady \cap present'
  /\ UNCHANGED <<phase, config, devs, list, handles, lines, found, kept, starts>>

-----------------------------------------------------------------------------
(* The beginning and the lines that touch no device *)

\* Variant: the path of the script is not reset.
DefaultsScriptKept ==
  [facility |-> "daemon", script |-> config.script, defend_interval |-> 0,
   mode |-> "automatic", log_level |-> config.log_level]

\* The defaults.  log_level is not among them.
Defaults ==
  [facility |-> "daemon", script |-> None, defend_interval |-> 0,
   mode |-> "automatic", log_level |-> config.log_level]

\* start_ipwatchd is run by a new thread and reads the file, if it can.
Start ==
  /\ phase \in {"off", "accepted", "refused"}
  /\ starts < MaxStarts
  /\ phase' \in {"reading", "refused"}
  /\ config' = Defaults
  /\ devs' = <<>>
  /\ handles' = 0
  /\ lines' = <<>>
  /\ found' = {}
  /\ steady' = {}
  /\ kept' = config.log_level
  /\ starts' = starts + 1
  /\ UNCHANGED <<list, present>>

\* fgets has a line.
Read(line) ==
  /\ phase = "reading"
  /\ Len(lines) < MaxLines
  /\ lines' = Append(lines, line)
  /\ UNCHANGED <<present, kept, starts>>

fillVars == <<list, found, steady>>

\* The line is refused, and reading ends with an error.
Refuse == phase' = "refused" /\ UNCHANGED <<config, devs, handles, fillVars>>

\* The line only changes config.
Configure(c) ==
  /\ config' = c
  /\ UNCHANGED <<phase, devs, handles, fillVars>>

\* Comments and empty lines, and variables that are not known.
ReadIgnored ==
  /\ \E v \in {"#", "other"} : Read([var |-> v])
  /\ Configure(config)

\* A line of less than two words.
ReadShort ==
  /\ Read([var |-> "short"])
  /\ Refuse

ReadFacility(f) ==
  /\ Read([var |-> "syslog_facility", facility |-> f])
  /\ IF f \in Facility
       THEN Configure([config EXCEPT !.facility = f])
       ELSE Refuse

\* ipwd_file_exists
ReadScript(s) ==
  /\ Read([var |-> "user_script", script |-> s])
  /\ IF s \in Script
       THEN Configure([config EXCEPT !.script = s])
       ELSE Refuse

\* The long is stored in an int, and the int is looked at.
ReadInterval(n) ==
  /\ Read([var |-> "defend_interval", number |-> n])
  /\ IF ToInt(n) \in 0 .. 600
       THEN Configure([config EXCEPT !.defend_interval = ToInt(n)])
       ELSE /\ phase' = "refused"
            /\ config' = [config EXCEPT !.defend_interval = ToInt(n)]
            /\ UNCHANGED <<devs, handles, fillVars>>

\* Variant: the word is stored as it stands.
LevelOfRaw(l) == l

\* An unknown level is no error.
LevelOf(l) == IF l \in Level THEN l ELSE "info"

ReadLevel(l) ==
  /\ Read([var |-> "log_level", level |-> l])
  /\ Configure([config EXCEPT !.log_level = LevelOf(l)])

-----------------------------------------------------------------------------
(* The table of devices *)

\* Variant: the mode is not looked at.
MayFillAnyMode == devs = <<>>

\* What ipwd_fill_devices verifies before anything else.
MayFill == devs = <<>> /\ config.mode = "automatic"

\* iface_configuration.  ipwd_fill_devices may fail on its socket, too; what
\* SIOCGIFCONF lists are the interfaces that have an address now.
ReadMode(m) ==
  /\ Read([var |-> "iface_configuration", mode |-> m])
  /\ CASE m = "manual"    -> Configure([config EXCEPT !.mode = "manual"])
       [] m = "automatic" ->
            \/ Refuse
            \/ /\ MayFill
               /\ phase' = "filling"
               /\ list' \in SUBSET present
               /\ steady' = list'
               /\ UNCHANGED <<config, devs, handles, found>>
       [] OTHER -> Refuse

\* Variant: the first interface that is skipped ends the loop.
SkipEnds(d) ==
  /\ list' = {}
  /\ UNCHANGED <<devs, found, handles>>

\* Variant: the handle of an interface that is not ethernet stays open.
SkipLeaks(d) ==
  /\ list' = list \ {d}
  /\ handles' = IF d \in (present \ Loopback) \ Ether THEN handles + 1 ELSE handles
  /\ UNCHANGED <<devs, found>>

\* The interface is gone, or of no use; its handle has been closed.
Skip(d) ==
  /\ list' = list \ {d}
  /\ UNCHANGED <<devs, found, handles>>

\* Variant: the link type is not looked at.
SuitsAny == present \ Loopback

\* The interfaces that can be opened and are no loopback but ethernet.
Suits == (present \ Loopback) \cap Ether

Enter(d) ==
  /\ list' = list \ {d}
  /\ devs' = Append(devs, [dev |-> d, mode |-> "active"])
  /\ found' = found \cup {d}
  /\ UNCHANGED handles

\* One turn of the loop of ipwd_fill_devices.
FillNext(d) ==
  /\ phase = "filling"
  /\ d \in list
  /\ \A e \in list : d <= e
  /\ IF d \in Suits THEN Enter(d) ELSE Skip(d)
  /\ UNCHANGED <<phase, config, present, lines, steady, kept, starts>>

FillEnds ==
  /\ phase = "filling"
  /\ list = {}
  /\ phase' = "reading"
  /\ UNCHANGED <<config, devs, list, handles, present, lines, found, steady,
                 kept, starts>>

\* Errors before the capture is open: the mode, the words, the interface.
RefusesIface(d, prot) ==
  \/ config.mode # "manual"
  \/ prot = None
  \/ d \notin present

\* iface: the handle of an interface that is not ethernet stays open.
ReadIface(d, prot) ==
  /\ Read([var |-> "iface", dev |-> d, mode |-> prot])
  /\ \/ /\ RefusesIface(d, prot)
        /\ Refuse
     \/ /\ ~RefusesIface(d, prot)
        /\ d \notin Ether
        /\ phase' = "refused"
        /\ handles' = handles + 1
        /\ UNCHANGED <<config, devs, fillVars>>
     \/ /\ ~RefusesIface(d, prot)
        /\ d \in Ether
        /\ IF prot \in Prot
             THEN /\ devs' = Append(devs, [dev |-> d, mode |-> prot])
                  /\ UNCHANGED <<phase, config, handles, fillVars>>
             ELSE Refuse

\* fgets has no line; fclose may fail, and a table without devices is refused.
EndOfFile ==
  /\ phase = "reading"
  /\ \/ phase' = "refused"
     \/ devs # <<>> /\ phase' = "accepted"
  /\ UNCHANGED <<config, devs, list, handles, present, lines, found, steady,
                 kept, starts>>

ReadLine ==
  \/ ReadIgnored
  \/ ReadShort
  \/ \E f \in Facility \cup {Odd} : ReadFacility(f)
  \/ \E s \in Script \cup {Odd} : ReadScript(s)
  \/ \E n \in Number : ReadInterval(n)
  \/ \E l \in Level \cup {Odd} : ReadLevel(l)
  \/ \E m \in Mode \cup {Odd} : ReadMode(m)
  \/ \E d \in Iface, prot \in Prot \cup {None, Odd} : ReadIface(d, prot)

Next ==
  \/ \E d \in Iface : IfaceChanges(d)
  \/ Start
  \/ ReadLine
  \/ \E d \in Iface : FillNext(d)
  \/ FillEnds
  \/ EndOfFile

Spec == Init /\ [][Next]_vars

-----------------------------------------------------------------------------
(* What a configuration that is accepted is worth *)

\* config, the table and what is remembered of the lines are of their types.
TypeOK ==
  /\ phase \in {"off", "reading", "filling", "accepted", "refused"}
  /\ config \in Config
  /\ devs \in Seq(DevEntry)
  /\ list \subseteq Iface
  /\ handles \in Nat
  /\ present \subseteq Iface
  /\ lines \in Seq(Line)
  /\ found \subseteq Iface
  /\ steady \subseteq Iface
  /\ kept \in Level \cup {None}
  /\ starts \in 0 .. MaxStarts

\* The line that a variable has its value from is the last one about it.
About(var) == {i \in DOMAIN lines : lines[i].var = var}
Governs(i, var) == i \in About(var) /\ \A j \in About(var) : j <= i

\* What was said, in the file that is accepted and in no earlier one, is what
\* holds; a level that the file does not name is that of the earlier start.  Of an
\* interval too long for an int only this is said: what is used of it is in range
\* (4294967297 is accepted as 1).
SettingsAsSaid ==
  phase = "accepted" =>
    /\ \A i \in DOMAIN lines :
         /\ Governs(i, "syslog_facility") => config.facility = lines[i].facility
         /\ Governs(i, "user_script") => config.script = lines[i].script
         /\ Governs(i, "defend_interval") /\ lines[i].number \in IntRange =>
              config.defend_interval = lines[i].number
         /\ Governs(i, "log_level") => config.log_level = LevelOf(lines[i].level)
    /\ About("syslog_facility") = {} => config.facility = "daemon"
    /\ About("user_script") = {} => config.script = None
    /\ About("defend_interval") = {} => config.defend_interval = 0
    /\ About("log_level") = {} => config.log_level = kept
    /\ config.defend_interval \in 0 .. 600

\* The mode of each line about interfaces.
Says(i, m)  == i \in About("iface_configuration") /\ lines[i].mode = m
Named(e)    == \E i \in About("iface") : lines[i].dev = e.dev /\ lines[i].mode = e.mode

\* The devices that are watched are those that the lines name, in the mode they
\* name, and those that the automatic configuration found: none is lost, none
\* comes from elsewhere, and all of them are ethernet.
TableAsSaid ==
  phase = "accepted" =>
    /\ devs # <<>>
    /\ \A i \in DOMAIN devs :
         /\ devs[i].dev \in Ether
         /\ \/ Named(devs[i])
            \/ devs[i].mode = "active" /\ devs[i].dev \in found
    /\ \A i \in About("iface") : [dev |-> lines[i].dev, mode |-> lines[i].mode]
                                 \in {devs[k] : k \in DOMAIN devs}
    /\ \A d \in found : [dev |-> d, mode |-> "active"] \in {devs[k] : k \in DOMAIN devs}

\* Lines that name interfaces come after the manual mode, the automatic mode
\* never does, and finds something only once: an interface is in the table
\* twice only if a line names it.
ManualIsFinal ==
  phase = "accepted" =>
    /\ \A i \in About("iface") : \E j \in 1 .. i - 1 : Says(j, "manual")
    /\ \A i, j \in DOMAIN lines : (Says(i, "automatic") /\ Says(j, "manual")) => i < j
    /\ \A i, j \in DOMAIN devs :
         (i < j /\ devs[i].dev = devs[j].dev)
         => \E k \in About("iface") : lines[k].dev = devs[j].dev

\* The automatic configuration misses no interface that could be watched all
\* the while, whatever the other interfaces do meanwhile.
NoneMissed ==
  phase # "filling" => (steady \ Loopback) \cap Ether \subseteq found

\* A reading that is accepted has closed every capture it opened to look.
ProbesAreClosed == phase = "accepted" => handles = 0

=============================================================================
