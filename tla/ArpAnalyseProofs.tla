--------------------------- MODULE ArpAnalyseProofs ---------------------------
(***************************************************************************)
(* Facts about the handler ipwd_analyse and the world around it that hold  *)
(* wherever they are run from.                                             *)
(***************************************************************************)
EXTENDS ArpAnalyse, TLAPS

\* Cap is the smaller of two integers.
LEMMA CapFact ==
  ASSUME NEW n \in Int, NEW m \in Int
  PROVE  /\ Cap(n, m) \in Int
         /\ Cap(n, m) <= m
         /\ n >= 0 /\ m >= 0 => Cap(n, m) >= 0
         /\ n <= m => Cap(n, m) = n
BY DEF Cap

\* A device and a card make a key with any address the device holds.
LEMMA KeyFact ==
  ASSUME NEW d \in Device, NEW p \in Packet, os \in [Device -> IP \cup {NoIp}], Usable(d)
  PROVE  KeyOf(d, p) \in Key
BY DEF KeyOf, Key, Usable, Packet, LocalMac

\* The sets of devices and of keys that the handler acts on.
LEMMA KeysFact ==
  ASSUME NEW p \in Packet, os \in [Device -> IP \cup {NoIp}]
  PROVE  /\ Raised(p) \subseteq Device
         /\ RaisedKeys(p) \subseteq Key
         /\ CalmedKeys(p) \subseteq Key
         /\ ResolvedKeys(p) \subseteq CalmedKeys(p)
BY KeyFact DEF Raised, Visited, RaisedKeys, CalmedKeys, ResolvedKeys

\* The initial state is well typed.
LEMMA ArpInitTyped == ArpInit => ArpTypeOK
<1> SUFFICES ASSUME ArpInit PROVE ArpTypeOK
  OBVIOUS
<1>1. [d \in Device |-> DefendInterval] \in [Device -> -MaxStep .. DefendInterval]
  BY BoundAssumption
<1>2. [k \in Key |-> NoRecord] \in [Key -> NoRecord .. SignalCount]
  BY BoundAssumption DEF NoRecord
<1>3. IdleCheck \in CheckContext
  BY DEF IdleCheck, CheckContext, Text
<1>4. [k \in Key |-> 0] \in [Key -> 0 .. SignalCount]
  BY BoundAssumption
<1>5. [d \in Device |-> DefendInterval] \in [Device -> 0 .. DefendInterval]
  BY BoundAssumption
<1> QED
  BY <1>1, <1>2, <1>3, <1>4, <1>5 DEF ArpInit, ArpTypeOK

\* What is handed to the handler is a packet.
LEMMA HeadTyped == ArpTypeOK /\ TakeHead => Head(ring) \in Packet
<1> SUFFICES ASSUME ArpTypeOK, TakeHead PROVE Head(ring) \in Packet
  OBVIOUS
<1>1. ring \in Seq(Packet) /\ ring # <<>>
  BY DEF TakeHead, ArpTypeOK
<1> QED
  BY <1>1

\* The handler keeps every variable in its type, apart from the check in progress.
LEMMA TakeTyped == ArpTypeOK /\ TakeHead /\ check' \in CheckContext => ArpTypeOK'
<1> SUFFICES ASSUME ArpTypeOK, TakeHead, check' \in CheckContext PROVE ArpTypeOK'
  OBVIOUS
<1> DEFINE p == Head(ring)
<1>1. ring \in Seq(Packet) /\ ring # <<>>
  BY DEF TakeHead, ArpTypeOK
<1>2. p \in Packet /\ Tail(ring) \in Seq(Packet)
  BY <1>1
<1>3. Analyse(p) /\ ring' = Tail(ring) /\ UNCHANGED netVars
  BY DEF TakeHead
<1> HIDE DEF p
<1>4. os' \in [Device -> IP \cup {NoIp}] /\ hostIp' \in [Host -> IP \cup {NoIp}]
  BY <1>3 DEF netVars, ArpTypeOK
<1>5. CASE FromLocal(p) /\ arps' = {} /\ UNCHANGED <<record, told, age, calm, real>>
  BY <1>2, <1>3, <1>4, <1>5 DEF ArpTypeOK
<1>6. CASE /\ ~FromLocal(p)
           /\ UpdateRecords(p)
           /\ UpdateHistory(p)
           /\ SendArps(p)
  <2> USE <1>6
  <2>0. /\ Raised(p) \subseteq Device /\ RaisedKeys(p) \subseteq Key
        /\ CalmedKeys(p) \subseteq Key /\ ResolvedKeys(p) \subseteq CalmedKeys(p)
    BY <1>2, KeysFact DEF ArpTypeOK
  <2>1. age' \in [Device -> -MaxStep .. DefendInterval]
    <3>1. \A d \in Device : TimeSince(p, d) \in -MaxStep .. DefendInterval
      BY BoundAssumption DEF TimeSince, ArpTypeOK
    <3> QED
      BY <3>1 DEF UpdateRecords
  <2>2. record' \in [Key -> NoRecord .. SignalCount]
    <3>1. \A k \in Key : Recount(p, k) \in NoRecord .. SignalCount
      BY BoundAssumption DEF Recount, NoRecord, ArpTypeOK
    <3> QED
      BY <3>1 DEF UpdateRecords
  <2>3. told' \subseteq Key
    BY <2>0 DEF UpdateRecords, ArpTypeOK
  <2>4. arps' \subseteq Arp
    <3>1. DefensiveArps(p) \subseteq Arp
      BY <1>2, <2>0 DEF DefensiveArps, Arp, Packet
    <3> QED
      BY <3>1 DEF SendArps
  <2>5. calm' \in [Key -> 0 .. SignalCount]
    <3>1. \A k \in Key : calm[k] \in 0 .. SignalCount /\ Cap(calm[k] + 1, SignalCount) \in 0 .. SignalCount
      BY BoundAssumption DEF Cap, ArpTypeOK
    <3> QED
      BY <3>1, BoundAssumption DEF UpdateHistory
  <2>6. real' \in [Device -> 0 .. DefendInterval]
    BY BoundAssumption DEF UpdateHistory, ArpTypeOK
  <2> QED
    BY <1>2, <1>3, <1>4, <2>1, <2>2, <2>3, <2>4, <2>5, <2>6 DEF ArpTypeOK
<1> QED
  BY <1>3, <1>5, <1>6 DEF Analyse

\* So does the handler with the card it stores.
LEMMA AnalyseTyped == ArpTypeOK /\ AnalyseHead => ArpTypeOK'
<1> SUFFICES ASSUME ArpTypeOK, AnalyseHead PROVE ArpTypeOK'
  OBVIOUS
<1>1. TakeHead
  BY DEF AnalyseHead
<1>2. Head(ring) \in Packet
  BY <1>1, HeadTyped
<1>3. check' \in CheckContext
  BY <1>2 DEF AnalyseHead, ArpTypeOK, CheckContext, Packet
<1> QED
  BY <1>1, <1>3, TakeTyped

\* A captured packet leaves everything but the buffer alone.
LEMMA CaptureTyped ==
  ASSUME NEW p \in Packet, ArpTypeOK, Capture(p)
  PROVE  ArpTypeOK'
BY DEF Capture, ArpTypeOK, netVars, recordVars

\* The world keeps every variable in its type.
LEMMA WorldTyped == ArpTypeOK /\ World => ArpTypeOK'
<1> SUFFICES ASSUME ArpTypeOK, World PROVE ArpTypeOK'
  OBVIOUS
<1>1. ASSUME NEW h \in Host, SendRemote(h) PROVE ArpTypeOK'
  <2>1. [sip |-> hostIp[h], smac |-> h] \in Packet
    BY DEF Packet, Mac, ArpTypeOK
  <2> QED
    BY <1>1, <2>1, CaptureTyped DEF SendRemote
<1>2. ASSUME NEW d \in Device, SendLocal(d) PROVE ArpTypeOK'
  <2>1. PICK ip \in {os[d], NoIp} : Capture([sip |-> ip, smac |-> DevMac[d]])
    BY <1>2 DEF SendLocal
  <2>2. [sip |-> ip, smac |-> DevMac[d]] \in Packet
    BY DEF Packet, Mac, LocalMac, ArpTypeOK
  <2> QED
    BY <2>1, <2>2, CaptureTyped
<1>3. ASSUME NEW h \in Host, NEW ip \in IP \cup {NoIp}, Rebind(h, ip) PROVE ArpTypeOK'
  BY <1>3 DEF Rebind, ArpTypeOK, recordVars
<1>4. ASSUME NEW d \in Device, NEW ip \in IP \cup {NoIp}, Reconfigure(d, ip) PROVE ArpTypeOK'
  BY <1>4 DEF Reconfigure, ArpTypeOK, recordVars
<1>5. CASE Tick
  <2>1. \A d \in Device : /\ Cap(age[d] + 1, DefendInterval) \in -MaxStep .. DefendInterval
                          /\ Cap(real[d] + 1, DefendInterval) \in 0 .. DefendInterval
    BY BoundAssumption DEF Cap, ArpTypeOK
  <2> QED
    BY <1>5, <2>1 DEF Tick, ArpTypeOK, netVars
<1>6. ASSUME NEW s \in (-MaxStep .. MaxStep) \ {0}, ClockStep(s) PROVE ArpTypeOK'
  BY <1>6 DEF ClockStep, ArpTypeOK, netVars
<1> QED
  BY <1>1, <1>2, <1>3, <1>4, <1>5, <1>6 DEF World

-----------------------------------------------------------------------------
(* What a packet does to the keys *)

\* A key that the handler raises is claimed by the packet; a key that it calms
\* belongs to the sender and is not claimed; no key is both.
LEMMA KeysDisjoint ==
  ASSUME NEW p \in Packet, ArpTypeOK, ~FromLocal(p)
  PROVE  /\ \A k \in RaisedKeys(p) : /\ k[1] = p.sip /\ k[3] = p.smac /\ k[2] # p.smac
                                    /\ \A d \in Device : Usable(d) => DevMac[d] # k[3]
         /\ \A k \in CalmedKeys(p) : k[1] # p.sip /\ k[3] = p.smac
         /\ RaisedKeys(p) \cap CalmedKeys(p) = {}
         /\ RaisedKeys(p) \cap ResolvedKeys(p) = {}
<1>1. ASSUME NEW k \in RaisedKeys(p)
      PROVE  /\ k[1] = p.sip /\ k[3] = p.smac /\ k[2] # p.smac
             /\ \A d \in Device : Usable(d) => DevMac[d] # k[3]
  <2>1. PICK d \in Raised(p) : k = KeyOf(d, p)
    BY DEF RaisedKeys
  <2> QED
    BY <2>1 DEF Raised, Conflicts, KeyOf, FromLocal
<1>2. ASSUME NEW k \in CalmedKeys(p) PROVE k[1] # p.sip /\ k[3] = p.smac
  <2>1. PICK d \in Visited(p) \ Raised(p) : k = KeyOf(d, p)
    BY DEF CalmedKeys
  <2>2. d \in Device /\ Usable(d) /\ ~Conflicts(d, p)
    BY <2>1 DEF Visited, Raised
  <2>3. DevMac[d] # p.smac
    BY <2>2 DEF FromLocal
  <2> QED
    BY <2>1, <2>2, <2>3 DEF Conflicts, KeyOf
<1>3. RaisedKeys(p) \cap CalmedKeys(p) = {}
  BY <1>1, <1>2
<1>4. ResolvedKeys(p) \subseteq CalmedKeys(p)
  BY DEF ResolvedKeys
<1> QED
  BY <1>1, <1>2, <1>3, <1>4

\* The handler either leaves records, announcements and history alone or
\* updates them for a packet that is not local.
LEMMA AnalyseCases ==
  ASSUME ArpTypeOK, TakeHead
  PROVE  \/ UNCHANGED <<record, told, calm>>
         \/ \E p \in Packet : ~FromLocal(p) /\ UpdateRecords(p) /\ UpdateHistory(p)
<1>1. Head(ring) \in Packet /\ Analyse(Head(ring))
  BY HeadTyped DEF TakeHead
<1> QED
  BY <1>1 DEF Analyse

\* The world touches none of them.
LEMMA WorldIsQuiet == World => UNCHANGED <<record, told, calm>>
BY DEF World, SendRemote, SendLocal, Capture, Rebind, Reconfigure, Tick, ClockStep, recordVars

-----------------------------------------------------------------------------
(* The list of conflicts *)

\* The invariant of the list: it agrees with the announcements, and each count
\* is backed by packets.  Neither part is inductive without the other: the
\* history of a key starts when it is announced, which the list must know.
ListInv == ArpTypeOK /\ ToldIsRecorded /\ CountIsBacked

\* The list is empty at first.
LEMMA ListAtFirst == ArpInit => ListInv
<1> SUFFICES ASSUME ArpInit PROVE ListInv
  OBVIOUS
<1>1. ArpTypeOK
  BY ArpInitTyped
<1>2. (\A k \in Key : record[k] = NoRecord) /\ told = {}
  BY DEF ArpInit
<1> QED
  BY <1>1, <1>2 DEF ListInv, ToldIsRecorded, CountIsBacked

\* A packet that is handled keeps the invariant.
LEMMA ListKept ==
  ASSUME NEW p \in Packet, ~FromLocal(p), UpdateRecords(p), UpdateHistory(p),
         ArpTypeOK, ArpTypeOK', ToldIsRecorded, CountIsBacked
  PROVE  ToldIsRecorded' /\ CountIsBacked'
<1>1. /\ RaisedKeys(p) \subseteq Key /\ CalmedKeys(p) \subseteq Key
      /\ RaisedKeys(p) \cap CalmedKeys(p) = {}
      /\ \A k \in CalmedKeys(p) : k[1] # p.sip /\ k[3] = p.smac
  BY KeysFact, KeysDisjoint DEF ArpTypeOK
<1>2. \A k \in ResolvedKeys(p) : k \in CalmedKeys(p) /\ record[k] = 0
  BY DEF ResolvedKeys
<1>3. \A k \in Key : record'[k] = Recount(p, k)
  BY DEF UpdateRecords
<1>4. \A k \in Key : record[k] \in NoRecord .. SignalCount /\ calm[k] \in 0 .. SignalCount
  BY DEF ArpTypeOK
<1>5. \A k \in Key : k \in told <=> record[k] # NoRecord
  BY DEF ToldIsRecorded
<1>6. ToldIsRecorded'
  <2>1. ASSUME NEW k \in Key PROVE k \in told' <=> record'[k] # NoRecord
    <3>1. k \in ResolvedKeys(p) <=> k \in CalmedKeys(p) /\ record[k] = 0
      BY DEF ResolvedKeys
    <3>2. k \in told' <=> (k \in told \/ k \in RaisedKeys(p)) /\ k \notin ResolvedKeys(p)
      BY DEF UpdateRecords
    <3> QED
      BY <1>1, <1>3, <1>4, <1>5, <3>1, <3>2, BoundAssumption DEF Recount, NoRecord
  <2> QED
    BY <2>1 DEF ToldIsRecorded, ArpTypeOK
<1>7. CountIsBacked'
  <2> SUFFICES ASSUME NEW k \in Key, record'[k] # NoRecord
               PROVE  record'[k] + calm'[k] >= SignalCount
    BY DEF CountIsBacked
  <2>1. calm'[k] = IF k \in RaisedKeys(p) \cup ResolvedKeys(p) \/ k \notin told THEN 0
                   ELSE IF k[3] = p.smac /\ k[1] # p.sip THEN Cap(calm[k] + 1, SignalCount)
                   ELSE calm[k]
    BY DEF UpdateHistory
  <2>2. CASE k \in RaisedKeys(p)
    BY <1>3, <2>1, <2>2, BoundAssumption DEF Recount
  <2>3. CASE k \notin RaisedKeys(p)
    <3>1. record[k] # NoRecord /\ k \in told
      BY <1>3, <1>5, <2>3 DEF Recount
    <3>2. k \notin ResolvedKeys(p)
      BY <1>2, <1>3, <2>3, <3>1 DEF Recount, NoRecord
    <3>3. record[k] + calm[k] >= SignalCount
      BY <3>1 DEF CountIsBacked
    <3>4. CASE k \in CalmedKeys(p)
      <4>1. record'[k] = record[k] - 1 /\ record[k] # 0
        BY <1>3, <2>3, <3>1, <3>4 DEF Recount, NoRecord
      <4>2. calm'[k] = Cap(calm[k] + 1, SignalCount)
        BY <1>1, <2>1, <2>3, <3>1, <3>2, <3>4
      <4> QED
        BY <1>4, <3>1, <3>3, <4>1, <4>2, BoundAssumption DEF Cap, NoRecord
    <3>5. CASE k \notin CalmedKeys(p)
      <4>1. record'[k] = record[k]
        BY <1>3, <2>3, <3>5 DEF Recount
      <4>2. calm'[k] = calm[k] \/ calm'[k] = Cap(calm[k] + 1, SignalCount)
        BY <2>1, <2>3, <3>1, <3>2
      <4> QED
        BY <1>4, <3>1, <3>3, <4>1, <4>2, BoundAssumption DEF Cap, NoRecord
    <3> QED
      BY <3>4, <3>5
  <2> QED
    BY <2>2, <2>3
<1> QED
  BY <1>6, <1>7

\* The announcements begin as ConflictNotice has them.
LEMMA NoticeAtFirst == ArpInit => Notice!Init
BY DEF ArpInit, Notice!Init, Notice!Conflict, Key

\* A packet that is handled is a packet of ConflictNotice.
LEMMA NoticeStep ==
  ASSUME NEW p \in Packet, ~FromLocal(p), UpdateRecords(p), UpdateHistory(p),
         ArpTypeOK, ToldIsRecorded, CountIsBacked
  PROVE  Notice!Next
<1>1. p.smac \in Mac /\ p.sip \in IP \cup {NoIp}
  BY DEF Packet
<1>2. RaisedKeys(p) \in SUBSET Notice!Claimed(p.smac, p.sip)
  BY KeysFact, KeysDisjoint DEF ArpTypeOK, Notice!Claimed, Notice!Conflict, Key
<1>3. ASSUME NEW k \in ResolvedKeys(p)
      PROVE  k \in Notice!Unclaimed(p.smac, p.sip) \cap told /\ calm[k] >= SignalCount
  <2>1. k \in CalmedKeys(p) /\ record[k] = 0 /\ k \in Key
    BY KeysFact DEF ResolvedKeys, ArpTypeOK
  <2>2. k \in told /\ record[k] + calm[k] >= SignalCount
    BY <2>1 DEF ToldIsRecorded, CountIsBacked, NoRecord
  <2>3. k[1] # p.sip /\ k[3] = p.smac
    BY <2>1, KeysDisjoint
  <2>4. calm[k] \in Int
    BY <2>1 DEF ArpTypeOK
  <2> QED
    BY <2>1, <2>2, <2>3, <2>4 DEF Notice!Unclaimed, Notice!Conflict, Key
<1>4. told' = (told \cup RaisedKeys(p)) \ ResolvedKeys(p)
  BY DEF UpdateRecords
<1>5. calm' = [k \in Key |->
                 IF k \in RaisedKeys(p) \cup ResolvedKeys(p) \/ k \notin told THEN 0
                 ELSE IF k \in Notice!Unclaimed(p.smac, p.sip) THEN Notice!More(calm[k])
                 ELSE calm[k]]
  <2>1. ASSUME NEW k \in Key PROVE Cap(calm[k] + 1, SignalCount) = Notice!More(calm[k])
    BY BoundAssumption DEF ArpTypeOK, Cap, Notice!More
  <2>2. \A k \in Key : k \in Notice!Unclaimed(p.smac, p.sip) <=> k[3] = p.smac /\ k[1] # p.sip
    BY DEF Notice!Unclaimed, Notice!Conflict, Key
  <2> QED
    BY <2>1, <2>2 DEF UpdateHistory
<1>6. ResolvedKeys(p) \in SUBSET {k \in Notice!Unclaimed(p.smac, p.sip) \cap told :
                                    calm[k] >= SignalCount}
  BY <1>3
<1>7. Notice!Packet(p.smac, p.sip)
  BY <1>2, <1>4, <1>5, <1>6 DEF Notice!Packet, Notice!Conflict, Key
<1> QED
  BY <1>1, <1>7 DEF Notice!Next
=============================================================================
