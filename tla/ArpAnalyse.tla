----------------------------- MODULE ArpAnalyse -----------------------------
(***************************************************************************)
(* The state of the IPwatchD plugin that outlives one captured ARP packet, *)
(* the handler ipwd_analyse that updates it, and the world around it: the  *)
(* addresses of the local interfaces, the other hosts of the segment, the  *)
(* capture buffer of libpcap and the wall clock.                           *)
(*                                                                         *)
(* The module has no behaviours of its own.  ConflictWatch runs the        *)
(* handler from one thread, Ipwatchd from the two threads of the plugin.   *)
(***************************************************************************)
EXTENDS Integers, Sequences

CONSTANTS
  DevNum,          \* devices.devnum: the devices are 1..DevNum, in loop order
  DevMac,          \* the hardware address of each device
  Active,          \* devices in protection mode IPWD_PROTECTION_MODE_ACTIVE
  Host,            \* the other hosts, each named by its hardware address
  IP,              \* IP addresses
  NoIp,            \* "no address": 0.0.0.0 in a packet, EADDRNOTAVAIL locally
  OddText,         \* other spellings of addresses that inet_aton accepts
  BadText,         \* texts that inet_aton does not accept
  NoMac,           \* a NULL conflic_mac
  DefendInterval,  \* config.defend_interval, in ticks of the clock
  SignalCount,     \* the value signal_count is set to (3 in the code)
  RingSize,        \* bound: packets waiting in the capture buffer
  MaxStep          \* bound: how far the wall clock may be stepped

Device   == 1 .. DevNum
LocalMac == {DevMac[d] : d \in Device}
Mac      == Host \cup LocalMac

ASSUME DevAssumption ==
  /\ DevNum \in Nat \ {0}
  /\ DevMac = [d \in Device |-> DevMac[d]]
  /\ Active \subseteq Device
  /\ Host \cap LocalMac = {}
  /\ NoMac \notin Mac

\* An address as text.  Packets and interfaces spell it as inet_ntoa does,
\* a D-Bus caller as it likes; the code compares spellings.
Text == IP \cup {NoIp} \cup OddText \cup BadText

ASSUME AddressAssumption ==
  /\ NoIp \notin IP
  /\ (OddText \cup BadText) \cap (IP \cup {NoIp}) = {}
  /\ OddText \cap BadText = {}

ASSUME BoundAssumption ==
  /\ DefendInterval \in Nat
  /\ SignalCount \in Nat
  /\ RingSize \in Nat \ {0}
  /\ MaxStep \in Nat

VARIABLES
  os,      \* os[d]: the address the kernel reports for device d, or NoIp
  hostIp,  \* hostIp[h]: the address host h uses, or NoIp
  ring,    \* packets captured by libpcap and not analysed yet
  age,     \* age[d]: wall clock minus devices.dev[d].time, capped
  record,  \* the list ipconflict_dev_info: signal_count of each entry
  told,    \* conflicts that the D-Bus signals have announced and not resolved
  arps,    \* the ARP packets sent while the last step was taken
  check,   \* check_context: the address check in progress
  calm,    \* history: packets of the remote host that do not claim the
           \* address, since its conflict was last announced, capped
  real     \* history: ticks since device d last handled a conflict, capped

netVars    == <<os, hostIp>>
recordVars == <<age, record, told, calm, real>>
arpVars    == <<os, hostIp, ring, age, record, told, arps, check, calm, real>>

-----------------------------------------------------------------------------
(* Data *)

\* A packet as the handler reads it: the sender's IP and hardware address.
Packet == [sip : IP \cup {NoIp}, smac : Mac]

\* What identifies an IPCONFLICT_DEV_INFO: local ip, local mac, remote mac.
Key == IP \X LocalMac \X Mac

\* No entry in the list.  A count of 0 decremented once more: the handler
\* removes the entry at that point.
NoRecord == -1

Cap(n, m) == IF n < m THEN n ELSE m

CheckContext ==
  [wait : BOOLEAN, ip : Text, dev : Device \cup {0}, found : Mac \cup {NoMac}]

IdleCheck == [wait |-> FALSE, ip |-> NoIp, dev |-> 0, found |-> NoMac]

Arp == [dev : Device, op : {"reply", "request"}, to : Mac \cup {NoMac}]

ArpInit ==
  /\ os \in [Device -> IP \cup {NoIp}]
  /\ \A d, e \in Device : d # e /\ DevMac[d] = DevMac[e] /\ os[d] = os[e] => os[d] = NoIp
  /\ hostIp \in [Host -> IP \cup {NoIp}]
  /\ ring = <<>>
  /\ age = [d \in Device |-> DefendInterval]
  /\ record = [k \in Key |-> NoRecord]
  /\ told = {}
  /\ arps = {}
  /\ check = IdleCheck
  /\ calm = [k \in Key |-> 0]
  /\ real = [d \in Device |-> DefendInterval]

-----------------------------------------------------------------------------
(* The handler *)

\* ipwd_devinfo: both loops of the handler see the address the kernel
\* reports now.  devices.dev[d].ip, .mac and .state are written by the first
\* loop before the second one reads them, so they are not kept.
Usable(d) == os[d] # NoIp

\* Variant: the first loop stops one device early.
FromLocalShort(p) == \E d \in 1 .. DevNum - 1 : Usable(d) /\ DevMac[d] = p.smac

\* The first loop returns on a packet sent by a usable local interface.
FromLocal(p) == \E d \in Device : Usable(d) /\ DevMac[d] = p.smac

Conflicts(d, p) == p.sip = os[d] /\ p.smac # DevMac[d]

\* A conflict within the defend interval leaves the second loop.
LeavesLoop(d, p) == Usable(d) /\ Conflicts(d, p) /\ age[d] < DefendInterval

\* The devices the second loop acts on, and those where it finds a conflict.
Visited(p) == {d \in Device : Usable(d) /\ \A e \in 1 .. d : ~LeavesLoop(e, p)}
Raised(p)  == {d \in Visited(p) : Conflicts(d, p)}

KeyOf(d, p)    == <<os[d], DevMac[d], p.smac>>
RaisedKeys(p)  == {KeyOf(d, p) : d \in Raised(p)}

\* Variants: entries found by two of their three parts; probes not counted.
CalmedKeysAnyIp(p) ==
  {k \in Key : k[3] = p.smac /\ \E d \in Visited(p) \ Raised(p) : k[2] = DevMac[d]}
CalmedKeysAnyCard(p) ==
  {k \in Key : \E d \in Visited(p) \ Raised(p) : k[1] = os[d] /\ k[2] = DevMac[d]}
CalmedKeysNoProbe(p) ==
  {k \in Key : p.sip # NoIp /\ \E d \in Visited(p) \ Raised(p) : k = KeyOf(d, p)}

CalmedKeys(p) == {KeyOf(d, p) : d \in Visited(p) \ Raised(p)}

\* Variant: resolved one packet early.
ResolvedKeysEarly(p) == {k \in CalmedKeys(p) : record[k] = 1}

ResolvedKeys(p) == {k \in CalmedKeys(p) : record[k] = 0}

\* ipwd_genarp, called twice for a conflict on an active device: a reply to
\* the conflicting host and a gratuitous request.  Its result is ignored.
DefensiveArps(p) ==
  {[dev |-> d, op |-> "reply", to |-> p.smac] : d \in Raised(p) \cap Active} \cup
  {[dev |-> d, op |-> "request", to |-> NoMac] : d \in Raised(p) \cap Active}

SendArps(p) == \E sent \in SUBSET DefensiveArps(p) : arps' = sent

\* Variant: a card is stored although nobody waits for one.
CheckHitUnasked(p) ==
  /\ p.sip = check.ip
  /\ check.dev # 0 => p.smac # DevMac[check.dev]

\* The address check in progress: an answer for the address asked about.
\* dev 0 stands for an empty mac, which differs from any in a packet.
CheckHit(p) ==
  /\ check.wait
  /\ p.sip = check.ip
  /\ check.dev # 0 => p.smac # DevMac[check.dev]

\* Variants: an entry decremented without being looked up; an entry that is
\* found not refreshed.
RecountBlind(p, k) ==
  IF k \in RaisedKeys(p) THEN SignalCount
  ELSE IF k \in CalmedKeys(p) THEN record[k] - 1
  ELSE record[k]
RecountNoRefresh(p, k) ==
  IF k \in RaisedKeys(p) /\ record[k] = NoRecord THEN SignalCount
  ELSE IF k \in CalmedKeys(p) /\ record[k] # NoRecord THEN record[k] - 1
  ELSE record[k]

\* The count of entry k after packet p.
Recount(p, k) ==
  IF k \in RaisedKeys(p) THEN SignalCount
  ELSE IF k \in CalmedKeys(p) /\ record[k] # NoRecord THEN record[k] - 1
  ELSE record[k]

\* Variants: the time of a conflict not stored; stored before it is compared
\* with the interval.
TimeSinceNotStored(p, d)   == age[d]
TimeSinceStoredFirst(p, d) == IF Usable(d) /\ Conflicts(d, p) THEN 0 ELSE age[d]

TimeSince(p, d) == IF d \in Raised(p) THEN 0 ELSE age[d]

\* The second loop on the list and on the time of each device; emit_is_conflict.
UpdateRecords(p) ==
  /\ record' = [k \in Key |-> Recount(p, k)]
  /\ told' = (told \cup RaisedKeys(p)) \ ResolvedKeys(p)
  /\ age' = [d \in Device |-> TimeSince(p, d)]

UpdateHistory(p) ==
  /\ calm' = [k \in Key |->
                IF k \in RaisedKeys(p) \cup ResolvedKeys(p) \/ k \notin told THEN 0
                ELSE IF k[3] = p.smac /\ k[1] # p.sip THEN Cap(calm[k] + 1, SignalCount)
                ELSE calm[k]]
  /\ real' = [d \in Device |-> IF d \in Raised(p) THEN 0 ELSE real[d]]

\* ipwd_analyse on packet p, but for the card that it may store.
Analyse(p) ==
  \/ /\ FromLocal(p)
     /\ arps' = {}
     /\ UNCHANGED <<record, told, age, calm, real>>
  \/ /\ ~FromLocal(p)
     /\ UpdateRecords(p)
     /\ UpdateHistory(p)
     /\ SendArps(p)

\* The packet answers the address check: its card is to be stored.
Answers(p) == ~FromLocal(p) /\ CheckHit(p)

\* One packet of a pcap_dispatch, before its card is stored.
TakeHead ==
  /\ ring # <<>>
  /\ Analyse(Head(ring))
  /\ ring' = Tail(ring)
  /\ UNCHANGED netVars

\* One packet of a pcap_dispatch.
AnalyseHead ==
  /\ TakeHead
  /\ check' = IF Answers(Head(ring)) THEN [check EXCEPT !.found = Head(ring).smac] ELSE check

-----------------------------------------------------------------------------
(* The world around the handler.  None of these steps is the plugin's. *)

\* libpcap on the pseudodevice "any" sees what is sent and what arrives; a
\* packet that finds the buffer full is lost.
Capture(p) ==
  /\ Len(ring) < RingSize
  /\ ring' = Append(ring, p)
  /\ arps' = {}
  /\ UNCHANGED <<netVars, recordVars, check>>

\* Host h sends an ARP packet; one without an address probes with 0.0.0.0.
SendRemote(h) == Capture([sip |-> hostIp[h], smac |-> h])

\* The local machine sends one, with its address or as a probe.
SendLocal(d) == \E ip \in {os[d], NoIp} : Capture([sip |-> ip, smac |-> DevMac[d]])

Rebind(h, ip) ==
  /\ hostIp' = [hostIp EXCEPT ![h] = ip]
  /\ arps' = {}
  /\ UNCHANGED <<os, ring, recordVars, check>>

\* The user, DHCP or NetworkManager changes the address of a local interface.
\* Two interfaces with one hardware address never share an IP address.
Reconfigure(d, ip) ==
  /\ \A e \in Device \ {d} : DevMac[e] = DevMac[d] /\ os[e] = ip => ip = NoIp
  /\ os' = [os EXCEPT ![d] = ip]
  /\ arps' = {}
  /\ UNCHANGED <<hostIp, ring, recordVars, check>>

\* One tick of time: gettimeofday follows it.
Tick ==
  /\ age' = [d \in Device |-> Cap(age[d] + 1, DefendInterval)]
  /\ real' = [d \in Device |-> Cap(real[d] + 1, DefendInterval)]
  /\ arps' = {}
  /\ UNCHANGED <<netVars, ring, record, told, calm, check>>

\* The wall clock is stepped by s (settimeofday, NTP); time is not.  A capped
\* age stands for every age from DefendInterval on.
ClockStep(s) ==
  /\ age' \in [Device -> -MaxStep .. DefendInterval]
  /\ \A d \in Device :
       IF age[d] < DefendInterval
         THEN age'[d] = Cap(age[d] + s, DefendInterval)
         ELSE age'[d] \in Cap(DefendInterval + s, DefendInterval) .. DefendInterval
  /\ arps' = {}
  /\ UNCHANGED <<netVars, ring, record, told, calm, real, check>>

World ==
  \/ \E h \in Host : SendRemote(h)
  \/ \E d \in Device : SendLocal(d)
  \/ \E h \in Host, ip \in IP \cup {NoIp} : Rebind(h, ip)
  \/ \E d \in Device, ip \in IP \cup {NoIp} : Reconfigure(d, ip)
  \/ Tick
  \/ \E s \in (-MaxStep .. MaxStep) \ {0} : ClockStep(s)

-----------------------------------------------------------------------------
ArpTypeOK ==
  /\ os \in [Device -> IP \cup {NoIp}]
  /\ hostIp \in [Host -> IP \cup {NoIp}]
  /\ ring \in Seq(Packet)
  /\ age \in [Device -> -MaxStep .. DefendInterval]
  /\ record \in [Key -> NoRecord .. SignalCount]
  /\ told \subseteq Key
  /\ arps \subseteq Arp
  /\ check \in CheckContext
  /\ calm \in [Key -> 0 .. SignalCount]
  /\ real \in [Device -> 0 .. DefendInterval]

-----------------------------------------------------------------------------
(* What holds of the handler wherever it is run from *)

\* The list of conflicts and what the signals have told the clients are the
\* same thing: no entry is dropped silently, none outlives its resolution.
ToldIsRecorded == told = {k \in Key : record[k] # NoRecord}

\* signal_count never runs down faster than packets without a claim arrive,
\* whatever other hosts, devices and address changes come between them.
CountIsBacked ==
  \A k \in Key : record[k] # NoRecord => record[k] + calm[k] >= SignalCount

Notice == INSTANCE ConflictNotice
  WITH Address <- IP, NoAddress <- NoIp, LocalCard <- LocalMac, Card <- Mac,
       Patience <- SignalCount, announced <- told, quiet <- calm

\* The signals are those ConflictNotice allows.
ImplementsNotice == Notice!Spec
=============================================================================
