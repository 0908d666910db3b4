---------------------------- MODULE IpwatchdProofs ----------------------------
(***************************************************************************)
(* Proofs about the threads of the plugin, for any set of devices, hosts   *)
(* and addresses and any bound.                                            *)
(***************************************************************************)
EXTENDS Ipwatchd, ArpAnalyseProofs, WellFoundedInduction

\* Who holds the mutex, told from where the threads are.  The fourth conjunct is
\* what makes the early unlock of a refused request the first one of that
\* request; without it a request could free the lock of the watching thread
\* before the mutex has been unlocked twice.
LockInv ==
  /\ owner = "destroyed" => watcher \in {"close", "free", "done"}
  /\ watcher = "dispatch" /\ ~twice => owner = "watcher"
  /\ Serving /\ ~rejected /\ ~twice => owner \in {"bus", "destroyed"}
  /\ bus \in {"lock", "prepare", "verify"} => ~rejected
  /\ LockHasHolder

\* The invariant holds before the plugin is registered.
LEMMA LockInvInit == Init => LockInv
BY DEF Init, LockInv, LockHasHolder, Serving

\* Each step of the watching thread keeps it.
LEMMA LockInvWatcher == LockInv /\ Watcher => LockInv'
<1> SUFFICES ASSUME LockInv, Watcher PROVE LockInv'
  OBVIOUS
<1> USE DEF LockInv, LockHasHolder, Serving
<1>1. CASE StartUp
  BY <1>1 DEF StartUp, busVars
<1>2. CASE TestExit
  BY <1>2 DEF TestExit, busVars
<1>3. CASE WatcherLock
  BY <1>3 DEF WatcherLock, Acquire, busVars
<1>4. CASE WatcherAnalyse
  BY <1>4 DEF WatcherAnalyse, busVars
<1>5. CASE WatcherUnlock
  BY <1>5 DEF WatcherUnlock, Release, busVars
<1>6. CASE WatcherDestroy
  BY <1>6 DEF WatcherDestroy, DestroyMutex, busVars
<1>7. CASE WatcherClose
  BY <1>7 DEF WatcherClose, busVars
<1>8. CASE WatcherFree
  BY <1>8 DEF WatcherFree, busVars
<1>9. CASE SetUp
  BY <1>9 DEF SetUp, busVars
<1>10. CASE WatcherStore
  BY <1>10 DEF WatcherStore, busVars
<1> QED
  BY <1>1, <1>2, <1>3, <1>4, <1>5, <1>6, <1>7, <1>8, <1>9, <1>10 DEF Watcher

\* Each step of the thread that serves the request keeps it.
LEMMA LockInvBus == LockInv /\ Bus => LockInv'
<1> SUFFICES ASSUME LockInv, Bus PROVE LockInv'
  OBVIOUS
<1> USE DEF LockInv, LockHasHolder, Serving
<1>1. CASE BusLock
  BY <1>1 DEF BusLock, Acquire, watchVars
<1>2. CASE BusPrepare
  BY <1>2 DEF BusPrepare, Misuse, watchVars
<1>3. CASE BusVerify
  <2>1. UNCHANGED <<watcher, twice>> /\ bus = "verify"
    BY <1>3 DEF BusVerify, watchVars
  <2>2. \/ UNCHANGED <<rejected, owner, bus>>
        \/ bus' = "probe" /\ ~rejected' /\ UNCHANGED owner
        \/ bus' = "probe" /\ rejected' /\ Release
    BY <1>3, Zenon DEF BusVerify
  <2> QED
    BY <2>1, <2>2 DEF Release
<1>4. CASE BusProbe
  BY <1>4 DEF BusProbe, Misuse, watchVars
<1>5. CASE BusAnalyse
  BY <1>5 DEF BusAnalyse, watchVars
<1>6. CASE BusDispatched
  BY <1>6 DEF BusDispatched, watchVars
<1>7. CASE BusReply
  BY <1>7 DEF BusReply, watchVars
<1>8. CASE BusClear
  BY <1>8 DEF BusClear, watchVars
<1>9. CASE BusUnlock
  BY <1>9 DEF BusUnlock, EndOfCall, Release, watchVars
<1> QED
  BY <1>1, <1>2, <1>3, <1>4, <1>5, <1>6, <1>7, <1>8, <1>9 DEF Bus

\* So does every step of the system.
LEMMA LockInvNext == LockInv /\ [Next]_vars => LockInv'
<1> SUFFICES ASSUME LockInv, [Next]_vars PROVE LockInv'
  OBVIOUS
<1> USE DEF LockInv, LockHasHolder, Serving
<1>1. CASE DSMRegister
  BY <1>1 DEF DSMRegister
<1>2. CASE DSMUnRegister
  BY <1>2 DEF DSMUnRegister
<1>3. ASSUME NEW r \in Asked, BusRequest(r) PROVE LockInv'
  BY <1>3 DEF BusRequest, watchVars
<1>4. CASE Watcher
  BY <1>4, LockInvWatcher
<1>5. CASE Bus
  BY <1>5, LockInvBus
<1>6. CASE Race
  BY <1>6 DEF Race, busVars
<1>7. CASE UNCHANGED threadVars
  BY <1>7 DEF threadVars
<1>8. CASE UNCHANGED vars
  BY <1>8 DEF vars, threadVars
<1> QED
  BY <1>1, <1>2, <1>3, <1>4, <1>5, <1>6, <1>7, <1>8 DEF Next

\* While a request that is not refused is served the watching thread dispatches
\* no packet, until the mutex has been unlocked twice.
THEOREM RequestServedAlone == Spec => []ServedAlone
<1>1. LockInv => ServedAlone
  BY DEF LockInv, ServedAlone, Serving
<1>2. Spec => []LockInv
  BY LockInvInit, LockInvNext, PTL DEF Spec
<1> QED
  BY <1>1, <1>2, PTL

\* Nobody who is outside its critical section holds the mutex, so a thread that
\* waits for it waits for one that will unlock it: no early return of
\* start_ipwatchd or ipwd_conflict_check keeps it.
THEOREM LockIsHeldInside == Spec => []LockHasHolder
<1>1. LockInv => LockHasHolder
  BY DEF LockInv
<1>2. Spec => []LockInv
  BY LockInvInit, LockInvNext, PTL DEF Spec
<1> QED
  BY <1>1, <1>2, PTL

-----------------------------------------------------------------------------
\* Where each kind of undefined behaviour can come from.
FaultInv ==
  /\ handle \in {"null", "raw", "open", "closed"}
  /\ watcher \in {"loop", "lock", "dispatch"} => handle = "open"
  /\ handle = "null" => watcher \in {"off", "init", "failed"}
  /\ handle = "raw" => watcher \in {"setup", "failed"}
  /\ watcher \in {"destroy", "close", "free", "done"} => exitFlag
  /\ handle = "closed" => exitFlag
  /\ fault \in {"none", "null", "closed", "freed", "race", "raw", "bus"}
  /\ fault = "null" => handle = "null"
  /\ fault = "raw" => handle = "raw"
  /\ fault \in {"closed", "freed"} => exitFlag
  /\ fault = "race" => twice \/ rejected

\* Nothing undefined has happened before the plugin is registered.
LEMMA FaultInvInit == Init => FaultInv
BY DEF Init, FaultInv

\* Each step of the watching thread keeps it.
LEMMA FaultInvWatcher == FaultInv /\ Watcher => FaultInv'
<1> SUFFICES ASSUME FaultInv, Watcher PROVE FaultInv'
  OBVIOUS
<1> USE DEF FaultInv, Alive
<1>1. CASE StartUp
  BY <1>1 DEF StartUp, busVars
<1>2. CASE TestExit
  BY <1>2 DEF TestExit, busVars
<1>3. CASE WatcherLock
  BY <1>3 DEF WatcherLock, busVars
<1>4. CASE WatcherAnalyse
  BY <1>4 DEF WatcherAnalyse, busVars
<1>5. CASE WatcherUnlock
  BY <1>5 DEF WatcherUnlock, busVars
<1>6. CASE WatcherDestroy
  BY <1>6 DEF WatcherDestroy, busVars
<1>7. CASE WatcherClose
  BY <1>7 DEF WatcherClose, busVars
<1>8. CASE WatcherFree
  BY <1>8 DEF WatcherFree, busVars
<1>9. CASE SetUp
  BY <1>9 DEF SetUp, busVars
<1>10. CASE WatcherStore
  BY <1>10 DEF WatcherStore, busVars
<1> QED
  BY <1>1, <1>2, <1>3, <1>4, <1>5, <1>6, <1>7, <1>8, <1>9, <1>10 DEF Watcher

\* Each step of the thread that serves the request keeps it.
LEMMA FaultInvBus == FaultInv /\ Bus => FaultInv'
<1> SUFFICES ASSUME FaultInv, Bus PROVE FaultInv'
  OBVIOUS
<1> USE DEF FaultInv, Alive, Opened
<1>1. CASE BusLock
  BY <1>1 DEF BusLock, watchVars
<1>2. CASE BusPrepare
  BY <1>2 DEF BusPrepare, Misuse, watchVars
<1>3. CASE BusVerify
  BY <1>3 DEF BusVerify, watchVars
<1>4. CASE BusProbe
  BY <1>4 DEF BusProbe, Misuse, watchVars
<1>5. CASE BusAnalyse
  BY <1>5 DEF BusAnalyse, watchVars
<1>6. CASE BusDispatched
  BY <1>6 DEF BusDispatched, watchVars
<1>7. CASE BusReply
  BY <1>7 DEF BusReply, watchVars
<1>8. CASE BusClear
  BY <1>8 DEF BusClear, watchVars
<1>9. CASE BusUnlock
  BY <1>9 DEF BusUnlock, EndOfCall, watchVars
<1> QED
  BY <1>1, <1>2, <1>3, <1>4, <1>5, <1>6, <1>7, <1>8, <1>9 DEF Bus

\* So does every step of the system: that two dispatches overlap only after a
\* refused request is what LockInv says.
LEMMA FaultInvNext == LockInv /\ FaultInv /\ [Next]_vars => FaultInv'
<1> SUFFICES ASSUME LockInv, FaultInv, [Next]_vars PROVE FaultInv'
  OBVIOUS
<1> USE DEF FaultInv, Alive
<1>1. CASE DSMRegister
  BY <1>1 DEF DSMRegister
<1>2. CASE DSMUnRegister
  BY <1>2 DEF DSMUnRegister
<1>3. ASSUME NEW r \in Asked, BusRequest(r) PROVE FaultInv'
  BY <1>3 DEF BusRequest, watchVars
<1>4. CASE Watcher
  BY <1>4, FaultInvWatcher
<1>5. CASE Bus
  BY <1>5, FaultInvBus
<1>6. CASE Race
  BY <1>6 DEF Race, busVars, LockInv, Serving
<1>7. CASE UNCHANGED threadVars
  BY <1>7 DEF threadVars
<1>8. CASE UNCHANGED vars
  BY <1>8 DEF vars, threadVars
<1> QED
  BY <1>1, <1>2, <1>3, <1>4, <1>5, <1>6, <1>7, <1>8 DEF Next

\* While the watching thread is in its loop, is not told to leave it and no
\* request was refused, neither capture nor table, list or check is used in an
\* undefined way, whatever the packets and requests.  (A request that comes before
\* the loop may end at a capture that is missing or half set up, and both threads
\* send on the connection to the bus; of these it says nothing.)
THEOREM ServiceIsSound == Spec => []SoundInService
<1>1. FaultInv => SoundInService
  BY DEF FaultInv, SoundInService, Alive
<1>2. Spec => [](LockInv /\ FaultInv)
  BY LockInvInit, LockInvNext, FaultInvInit, FaultInvNext, PTL DEF Spec
<1> QED
  BY <1>1, <1>2, PTL

-----------------------------------------------------------------------------
(* The device that probes *)

\* Every set of natural numbers that is not empty has a least element.
LEMMA LeastFact ==
  ASSUME NEW S, S \subseteq Nat, S # {}
  PROVE  \E n \in S : \A m \in S : n <= m
<1>1. PICK n \in S : \A m \in S : ~(<<m, n>> \in OpToRel(<, Nat))
  BY NatLessThanWellFounded, WFMin, Zenon
<1>2. ASSUME NEW m \in S PROVE n <= m
  <2>1. m \in Nat /\ n \in Nat
    OBVIOUS
  <2>2. m < n => <<m, n>> \in OpToRel(<, Nat)
    BY <2>1 DEF OpToRel
  <2>3. ~(<<m, n>> \in OpToRel(<, Nat))
    BY <1>1, Zenon
  <2>4. ~(m < n)
    BY <2>2, <2>3, Zenon
  <2> QED
    BY <2>1, <2>4
<1> QED
  BY <1>2

\* One that is bounded has a greatest one.
LEMMA GreatestFact ==
  ASSUME NEW N \in Nat, NEW S, S \subseteq 0 .. N, S # {}
  PROVE  \E n \in S : \A m \in S : m <= n
<1> DEFINE T == {N - n : n \in S}
<1>1. \A n \in S : n \in 0 .. N /\ N - n \in Nat
  OBVIOUS
<1>2. T \subseteq Nat /\ T # {}
  BY <1>1
<1>3. PICK t \in T : \A u \in T : t <= u
  BY <1>2, LeastFact
<1>4. PICK n \in S : t = N - n
  OBVIOUS
<1>5. ASSUME NEW m \in S PROVE m <= n
  BY <1>1, <1>3, <1>4
<1> QED
  BY <1>5

\* ipwd_check_context_verify chooses a device of the table or none: a usable
\* one, of the network asked about if there is one and none is named.  It
\* chooses none only if the one named, or all of them, cannot be used.
LEMMA ChosenFact ==
  ASSUME NEW t, NEW misc
  PROVE  /\ ChosenDevice(t, misc) \in 0 .. DevNum
         /\ ChosenDevice(t, misc) # 0 => Usable(ChosenDevice(t, misc))
         /\ misc = NoName /\ InNet(t) # {} => ChosenDevice(t, misc) \in InNet(t)
         /\ misc = NoName /\ ChosenDevice(t, misc) = 0 => \A d \in Device : ~Usable(d)
         /\ misc # NoName =>
              (ChosenDevice(t, misc) # 0 <=> misc \in Device /\ Usable(misc))
<1> DEFINE Fits(d) ==
      IF misc # NoName
        THEN d = IF misc \in Device /\ Usable(misc) THEN misc ELSE 0
      ELSE IF InNet(t) # {}
        THEN d \in InNet(t) /\ \A e \in InNet(t) : d <= e
      ELSE /\ d # 0 => Usable(d)
           /\ \A e \in Device : Usable(e) => e <= d
<1>0. DevNum \in Nat /\ Device = 1 .. DevNum /\ InNet(t) \subseteq Device
  BY DevAssumption DEF Device, InNet
<1>1. \E d \in 0 .. DevNum : Fits(d)
  <2>1. CASE misc # NoName
    BY <1>0, <2>1
  <2>2. CASE misc = NoName /\ InNet(t) # {}
    <3>1. InNet(t) \subseteq Nat
      BY <1>0
    <3>2. PICK d \in InNet(t) : \A e \in InNet(t) : d <= e
      BY <2>2, <3>1, LeastFact
    <3> QED
      BY <1>0, <2>2, <3>2
  <2>3. CASE misc = NoName /\ InNet(t) = {}
    <3> DEFINE S == {0} \cup {e \in Device : Usable(e)}
    <3>1. S \subseteq 0 .. DevNum /\ S # {}
      BY <1>0
    <3>2. PICK d \in S : \A e \in S : e <= d
      BY <1>0, <3>1, GreatestFact
    <3> QED
      BY <1>0, <2>3, <3>1, <3>2
  <2> QED
    BY <2>1, <2>2, <2>3
<1>2. ChosenDevice(t, misc) = CHOOSE d \in 0 .. DevNum : Fits(d)
  BY DEF ChosenDevice
<1>3. ChosenDevice(t, misc) \in 0 .. DevNum /\ Fits(ChosenDevice(t, misc))
  <2> HIDE DEF Fits
  <2> QED
    BY <1>1, <1>2
<1> QED
  BY <1>3, <1>0 DEF InNet, NoName

-----------------------------------------------------------------------------
(* Types *)

\* A step that analyses no packet keeps the types of the handler's state if it
\* keeps that of the check in progress.
LEMMA NoPacketTyped == ArpTypeOK /\ NoPacket /\ check' \in CheckContext => ArpTypeOK'
BY DEF ArpTypeOK, NoPacket, netVars, recordVars

\* No reply, and an empty one, are replies.
LEMMA RepliesFact ==
  /\ <<>> \in Seq(Mac \cup {NoMac}) /\ Len(<<>>) = 0
  /\ <<NoMac>> \in Seq(Mac \cup {NoMac}) /\ Len(<<NoMac>>) = 1
OBVIOUS

\* The initial state is well typed.
LEMMA TypeInit == Init => TypeOK
<1> SUFFICES ASSUME Init PROVE TypeOK
  OBVIOUS
<1>1. ArpTypeOK
  BY ArpInitTyped DEF Init
<1>2. ThreadTypeOK
  <2>1. NoReq \in Request
    BY DevAssumption DEF NoReq, Request, Text, NoName
  <2>2. PcapMaxTimes \in Nat
    BY RequestAssumption
  <2>3. 0 \in 0 .. PcapMaxTimes /\ 0 <= 2 /\ {} \subseteq Mac
    BY <2>2
  <2> QED
    BY <2>1, <2>3, RepliesFact, Zenon DEF Init, ThreadTypeOK
<1> QED
  BY <1>1, <1>2 DEF TypeOK

\* Each step of the watching thread keeps the types.
LEMMA TypeWatcher == TypeOK /\ Watcher => TypeOK'
<1> SUFFICES ASSUME TypeOK, Watcher PROVE TypeOK'
  OBVIOUS
<1>0. ArpTypeOK /\ ThreadTypeOK /\ check \in CheckContext
  BY DEF TypeOK, ArpTypeOK
<1>1. CASE StartUp
  BY <1>0, <1>1, NoPacketTyped DEF StartUp, busVars, TypeOK, ThreadTypeOK
<1>2. CASE TestExit
  BY <1>0, <1>2, NoPacketTyped DEF TestExit, busVars, TypeOK, ThreadTypeOK
<1>3. CASE WatcherLock
  BY <1>0, <1>3, NoPacketTyped DEF WatcherLock, Acquire, busVars, TypeOK, ThreadTypeOK
<1>4. CASE WatcherAnalyse
  <2>1. ArpTypeOK'
    BY <1>0, <1>4, TakeTyped DEF WatcherAnalyse
  <2>2. Head(ring).smac \in Mac
    BY <1>0, <1>4, HeadTyped DEF WatcherAnalyse, Packet
  <2>3. heard' \subseteq Mac /\ hand' \in Mac \cup {NoMac}
    BY <1>0, <1>4, <2>2 DEF WatcherAnalyse, Hear, ThreadTypeOK
  <2> QED
    BY <1>0, <1>4, <2>1, <2>3 DEF WatcherAnalyse, busVars, TypeOK, ThreadTypeOK
<1>5. CASE WatcherUnlock
  BY <1>0, <1>5, NoPacketTyped DEF WatcherUnlock, Release, busVars, TypeOK, ThreadTypeOK
<1>6. CASE WatcherDestroy
  BY <1>0, <1>6, NoPacketTyped DEF WatcherDestroy, DestroyMutex, busVars, TypeOK, ThreadTypeOK
<1>7. CASE WatcherClose
  BY <1>0, <1>7, NoPacketTyped DEF WatcherClose, busVars, TypeOK, ThreadTypeOK
<1>8. CASE WatcherFree
  <2>1. [k \in Key |-> NoRecord] \in [Key -> NoRecord .. SignalCount]
    BY BoundAssumption DEF NoRecord
  <2>2. ArpTypeOK'
    BY <1>0, <1>8, <2>1 DEF WatcherFree, ArpTypeOK
  <2> QED
    BY <1>0, <1>8, <2>2 DEF WatcherFree, busVars, TypeOK, ThreadTypeOK
<1>9. CASE SetUp
  BY <1>0, <1>9, NoPacketTyped DEF SetUp, busVars, TypeOK, ThreadTypeOK
<1>10. CASE WatcherStore
  <2>1. [check EXCEPT !.found = hand] \in CheckContext
    BY <1>0 DEF ThreadTypeOK, CheckContext
  <2>2. ArpTypeOK'
    BY <1>0, <1>10, <2>1, NoPacketTyped DEF WatcherStore
  <2> QED
    BY <1>0, <1>10, <2>2 DEF WatcherStore, busVars, TypeOK, ThreadTypeOK
<1> QED
  BY <1>1, <1>2, <1>3, <1>4, <1>5, <1>6, <1>7, <1>8, <1>9, <1>10 DEF Watcher

\* The loop of the request has not run out and its replies are not all sent
\* before it is over: what bounds the two counters.
CountInv ==
  /\ bus \in {"probe", "dispatch"} => tries < PcapMaxTimes
  /\ bus \notin {"idle", "clear", "unlock"} => Len(answers) <= 1

\* Each step of the thread that serves the request keeps types and bounds.
LEMMA TypeBus == TypeOK /\ CountInv /\ Bus => TypeOK' /\ CountInv'
<1> SUFFICES ASSUME TypeOK, CountInv, Bus PROVE TypeOK' /\ CountInv'
  OBVIOUS
<1>0. ArpTypeOK /\ ThreadTypeOK /\ check \in CheckContext /\ PcapMaxTimes \in Nat \ {0}
  BY RequestAssumption DEF TypeOK, ArpTypeOK
<1>1. CASE BusLock
  BY <1>0, <1>1, NoPacketTyped DEF BusLock, Acquire, watchVars, TypeOK, ThreadTypeOK, CountInv
<1>2. CASE BusPrepare
  <2>1. [check EXCEPT !.ip = req.ip, !.wait = TRUE] \in CheckContext
    BY <1>0 DEF ThreadTypeOK, CheckContext, Request
  <2>2. ArpTypeOK'
    BY <1>0, <1>2, <2>1, NoPacketTyped DEF BusPrepare
  <2> QED
    BY <1>0, <1>2, <2>2 DEF BusPrepare, Misuse, Opened, watchVars, TypeOK, ThreadTypeOK, CountInv
<1>3. CASE BusVerify
  <2> DEFINE ok == ~RefusedText(req.ip) /\ VerifiedDevice # 0
  <2>1. VerifiedDevice \in Device \cup {0}
    <3>1. ChosenDevice(req.ip, req.misc) \in Device \cup {0}
      BY ChosenFact, DevAssumption DEF Device
    <3> QED
      BY <1>0, <3>1 DEF VerifiedDevice, CheckContext
  <2>2. [check EXCEPT !.dev = VerifiedDevice, !.wait = ok] \in CheckContext
    <3> HIDE DEF ok
    <3>1. ok \in BOOLEAN
      BY DEF ok
    <3> QED
      BY <1>0, <2>1, <3>1 DEF CheckContext
  <2>3. ArpTypeOK'
    BY <1>0, <1>3, <2>2, NoPacketTyped DEF BusVerify
  <2>4. CASE ~RefusedText(req.ip) /\ watcher = "done"
    BY <1>0, <1>3, <2>3, <2>4 DEF BusVerify, watchVars, TypeOK, ThreadTypeOK, CountInv
  <2>5. CASE ~(~RefusedText(req.ip) /\ watcher = "done")
    <3>1. owner' \in {owner, "free", "destroyed"}
      BY <1>3, <2>5 DEF BusVerify, Release
    <3>2. rejected' \in BOOLEAN /\ tries' = 0 /\ bus' = "probe"
      BY <1>3, <2>5, Zenon DEF BusVerify
    <3>3. UNCHANGED <<watcher, hand, handle, exitFlag, req, got, twice, heard, fault>>
      BY <1>3, <2>5, Zenon DEF BusVerify, watchVars
    <3>4. answers' = IF ok THEN <<>> ELSE <<NoMac>>
      BY <1>3, <2>5, Zenon DEF BusVerify
    <3>5. answers' \in Seq(Mac \cup {NoMac}) /\ Len(answers') <= 1
      <4> HIDE DEF ok
      <4>1. CASE ok
        BY <3>4, <4>1, RepliesFact
      <4>2. CASE ~ok
        BY <3>4, <4>2, RepliesFact
      <4> QED
        BY <4>1, <4>2
    <3> QED
      BY <1>0, <2>3, <3>1, <3>2, <3>3, <3>5 DEF TypeOK, ThreadTypeOK, CountInv
  <2> QED
    BY <2>4, <2>5
<1>4. CASE BusProbe
  <2>1. PICK sent \in Probes : ring' = ring \o sent
    BY <1>4 DEF BusProbe
  <2>2. sent \in Seq(Packet)
    <3>1. check.dev # 0 => DevMac[check.dev] \in LocalMac
      BY <1>0 DEF CheckContext, LocalMac
    <3>2. CASE sent = <<>>
      BY <3>2
    <3>3. CASE check.dev # 0 /\ sent = <<[sip |-> NoIp, smac |-> DevMac[check.dev]]>>
      <4>1. [sip |-> NoIp, smac |-> DevMac[check.dev]] \in Packet
        BY <3>1, <3>3 DEF Packet, Mac
      <4> QED
        BY <3>3, <4>1
    <3> QED
      BY <2>1, <3>2, <3>3 DEF Probes
  <2>3. ring' \in Seq(Packet)
    BY <1>0, <2>1, <2>2 DEF ArpTypeOK
  <2>4. ArpTypeOK'
    BY <1>0, <1>4, <2>3 DEF BusProbe, recordVars, ArpTypeOK
  <2>5. /\ bus = "probe" /\ bus' \in {"probe", "dispatch"} /\ got' = FALSE
        /\ fault' \in {fault, handle} /\ (fault' = handle => handle \in {"null", "closed", fault})
        /\ UNCHANGED <<watcher, hand, owner, handle, exitFlag, req, tries, answers,
                       rejected, twice, heard>>
    BY <1>0, <1>4 DEF BusProbe, Misuse, Opened, watchVars, ThreadTypeOK
  <2>6. fault' \in {"none", "null", "closed", "freed", "race", "raw", "bus"}
    BY <1>0, <2>5 DEF ThreadTypeOK
  <2>7. CountInv' /\ bus' \in {"idle", "lock", "prepare", "verify", "probe", "dispatch",
                               "reply", "clear", "unlock"}
    BY <2>5 DEF CountInv
  <2>8. ThreadTypeOK'
    BY <1>0, <2>5, <2>6, <2>7, Zenon DEF ThreadTypeOK
  <2> QED
    BY <2>4, <2>7, <2>8 DEF TypeOK
<1>5. CASE BusAnalyse
  <2>1. ArpTypeOK'
    BY <1>0, <1>5, AnalyseTyped DEF BusAnalyse
  <2>2. heard' \subseteq Mac
    BY <1>0, <1>5, HeadTyped DEF BusAnalyse, Hear, ThreadTypeOK, AnalyseHead, Packet
  <2> QED
    BY <1>0, <1>5, <2>1, <2>2 DEF BusAnalyse, watchVars, TypeOK, ThreadTypeOK, CountInv
<1>6. CASE BusDispatched
  <2>1. ArpTypeOK'
    BY <1>0, <1>6, NoPacketTyped DEF BusDispatched
  <2>2. tries' \in 0 .. PcapMaxTimes /\ (bus' = "probe" => tries' < PcapMaxTimes)
    BY <1>0, <1>6 DEF BusDispatched, CountInv, ThreadTypeOK
  <2>3. /\ bus = "dispatch" /\ bus' \in {"probe", "reply"} /\ got' = FALSE
        /\ UNCHANGED <<watcher, hand, owner, handle, exitFlag, req, answers,
                       rejected, twice, heard, fault>>
    BY <1>6 DEF BusDispatched, watchVars
  <2>4. CountInv' /\ bus' \in {"idle", "lock", "prepare", "verify", "probe", "dispatch",
                               "reply", "clear", "unlock"}
    BY <2>2, <2>3 DEF CountInv
  <2>5. got' \in BOOLEAN
    BY <2>3
  <2>6. /\ UNCHANGED <<watcher, hand, owner, handle, exitFlag, req, answers>>
        /\ UNCHANGED <<rejected, twice, heard, fault>>
        /\ tries' \in 0 .. PcapMaxTimes
    BY <2>2, <2>3
  <2>7. ThreadTypeOK'
    BY <1>0, <2>4, <2>5, <2>6 DEF ThreadTypeOK
  <2> QED
    BY <2>1, <2>4, <2>7 DEF TypeOK
<1>7. CASE BusReply
  <2>1. ArpTypeOK'
    BY <1>0, <1>7, NoPacketTyped DEF BusReply
  <2>2. answers \in Seq(Mac \cup {NoMac}) /\ Len(answers) <= 1
    BY <1>0, <1>7 DEF BusReply, CountInv, ThreadTypeOK
  <2>3. answers' = Append(answers, check.found) /\ check.found \in Mac \cup {NoMac}
    BY <1>0, <1>7 DEF BusReply, CheckContext
  <2>4. answers' \in Seq(Mac \cup {NoMac}) /\ Len(answers') <= 2
    BY <2>2, <2>3
  <2>5. bus' = "clear" /\ UNCHANGED <<watcher, hand, owner, handle, exitFlag, req, tries,
                                   got, rejected, twice, heard, fault>>
    BY <1>7, Zenon DEF BusReply, watchVars
  <2> QED
    BY <1>0, <2>1, <2>4, <2>5 DEF TypeOK, ThreadTypeOK, CountInv
<1>8. CASE BusClear
  <2>1. [check EXCEPT !.found = NoMac] \in CheckContext
    BY <1>0 DEF CheckContext
  <2>2. ArpTypeOK'
    BY <1>0, <1>8, <2>1, NoPacketTyped DEF BusClear
  <2> QED
    BY <1>0, <1>8, <2>2 DEF BusClear, watchVars, TypeOK, ThreadTypeOK, CountInv
<1>9. CASE BusUnlock
  <2>1. [check EXCEPT !.wait = FALSE] \in CheckContext
    BY <1>0 DEF CheckContext
  <2>2. ArpTypeOK'
    BY <1>0, <1>9, <2>1, NoPacketTyped DEF BusUnlock, EndOfCall
  <2>3. tries' \in 0 .. PcapMaxTimes /\ got' \in BOOLEAN /\ heard' \subseteq Mac /\ bus' = "idle"
    <3>1. tries' = 0 /\ got' = FALSE /\ heard' = {} /\ bus' = "idle"
      BY <1>9, Zenon DEF BusUnlock, EndOfCall
    <3>2. 0 \in 0 .. PcapMaxTimes
      BY <1>0
    <3> QED
      BY <3>1, <3>2, Zenon
  <2>4. twice' \in BOOLEAN
    BY <1>0, <1>9 DEF BusUnlock, EndOfCall, ThreadTypeOK
  <2>5. UNCHANGED <<watcher, hand, handle, exitFlag, req, answers, rejected, fault>>
    BY <1>9, Zenon DEF BusUnlock, EndOfCall, watchVars
  <2>6. /\ bus' \in {"idle", "lock", "prepare", "verify", "probe", "dispatch", "reply",
                    "clear", "unlock"}
        /\ owner' \in {"free", "watcher", "bus", "destroyed"}
    BY <1>9, <2>3 DEF BusUnlock, Release
  <2>7. ThreadTypeOK'
    BY <1>0, <2>3, <2>4, <2>5, <2>6, Zenon DEF ThreadTypeOK
  <2>8. CountInv'
    BY <2>3 DEF CountInv
  <2> QED
    BY <2>2, <2>7, <2>8, Zenon DEF TypeOK
<1> QED
  BY <1>1, <1>2, <1>3, <1>4, <1>5, <1>6, <1>7, <1>8, <1>9 DEF Bus

\* So does every step of the system.
LEMMA TypeNext == TypeOK /\ CountInv /\ [Next]_vars => TypeOK' /\ CountInv'
<1> SUFFICES ASSUME TypeOK, CountInv, [Next]_vars PROVE TypeOK' /\ CountInv'
  OBVIOUS
<1>0. ArpTypeOK /\ ThreadTypeOK /\ check \in CheckContext
  BY DEF TypeOK, ArpTypeOK
<1>1. CASE DSMRegister
  BY <1>0, <1>1, NoPacketTyped DEF DSMRegister, TypeOK, ThreadTypeOK, CountInv
<1>2. CASE DSMUnRegister
  BY <1>0, <1>2, NoPacketTyped DEF DSMUnRegister, TypeOK, ThreadTypeOK, CountInv
<1>3. ASSUME NEW r \in Asked, BusRequest(r) PROVE TypeOK' /\ CountInv'
  <2>1. ArpTypeOK'
    BY <1>0, <1>3, NoPacketTyped DEF BusRequest
  <2>2. bus' = "lock" /\ req' = r /\ answers' = <<>> /\ rejected' = FALSE
        /\ UNCHANGED <<watcher, hand, handle, exitFlag, owner, tries, got, twice, heard, fault>>
    BY <1>3, Zenon DEF BusRequest, watchVars
  <2>3. req' \in Request /\ rejected' \in BOOLEAN /\ heard' \subseteq Mac
    BY <1>0, <1>3, <2>2, AskedAssumption DEF ThreadTypeOK
  <2>4. answers' \in Seq(Mac \cup {NoMac}) /\ Len(answers') <= 2 /\ CountInv'
    BY <2>2 DEF CountInv
  <2>5. bus' \in {"idle", "lock", "prepare", "verify", "probe", "dispatch", "reply",
                   "clear", "unlock"}
    BY <2>2
  <2>6. /\ watcher' \in {"off", "init", "setup", "loop", "lock", "dispatch", "destroy",
                       "close", "free", "done", "failed"}
        /\ hand' \in Mac \cup {NoMac}
        /\ owner' \in {"free", "watcher", "bus", "destroyed"}
        /\ handle' \in {"null", "raw", "open", "closed"}
        /\ tries' \in 0 .. PcapMaxTimes
        /\ fault' \in {"none", "null", "closed", "freed", "race", "raw", "bus"}
    BY <1>0, <2>2, Zenon DEF ThreadTypeOK
  <2>7. exitFlag' \in BOOLEAN /\ got' \in BOOLEAN /\ twice' \in BOOLEAN
    BY <1>0, <2>2, Zenon DEF ThreadTypeOK
  <2>8. ThreadTypeOK'
    BY <2>3, <2>4, <2>5, <2>6, <2>7, Zenon DEF ThreadTypeOK
  <2> QED
    BY <2>1, <2>4, <2>8, Zenon DEF TypeOK
<1>4. CASE Watcher
  <2>1. UNCHANGED <<bus, tries, answers>>
    BY <1>4 DEF Watcher, StartUp, SetUp, TestExit, WatcherLock, WatcherAnalyse, WatcherStore,
                WatcherUnlock, WatcherDestroy, WatcherClose, WatcherFree, busVars
  <2> QED
    BY <1>4, <2>1, TypeWatcher DEF CountInv
<1>5. CASE Bus
  BY <1>5, TypeBus
<1>6. CASE Race
  BY <1>0, <1>6, NoPacketTyped DEF Race, busVars, TypeOK, ThreadTypeOK, CountInv
<1>7. CASE World /\ UNCHANGED threadVars
  BY <1>0, <1>7, WorldTyped DEF threadVars, TypeOK, ThreadTypeOK, CountInv
<1>8. CASE UNCHANGED vars
  BY <1>0, <1>8 DEF vars, arpVars, threadVars, TypeOK, ArpTypeOK, ThreadTypeOK, CountInv
<1> QED
  BY <1>1, <1>2, <1>3, <1>4, <1>5, <1>6, <1>7, <1>8 DEF Next

\* The state of the plugin is always well typed.
THEOREM PluginTyped == Spec => []TypeOK
<1>1. Init => CountInv
  BY DEF Init, CountInv
<1> QED
  BY <1>1, TypeInit, TypeNext, PTL DEF Spec
-----------------------------------------------------------------------------
(* The answer *)

\* What the request being served has heard and found, told from where it is, as
\* long as the mutex has not been unlocked twice.  Before it probes it has heard
\* nothing, because it holds the mutex; from then on the card found is one that
\* was heard, and, if the address is spelled as packets are, one is found as soon
\* as one was heard that the probing device does not have itself.  A packet that
\* the watching thread analyses answers nobody.
AnswerInv ==
  /\ ContextIsClean
  /\ bus \in {"idle", "lock", "prepare"} => heard = {}
  /\ bus \in {"verify", "probe", "dispatch", "reply"} => check.ip = req.ip
  /\ ~twice => hand = NoMac
  /\ bus = "verify" /\ ~twice => heard = {} /\ check.found = NoMac
  /\ bus \in {"probe", "dispatch", "reply", "clear", "unlock"} /\ ~twice /\ rejected =>
       ~check.wait /\ check.found = NoMac
  /\ bus \in {"probe", "dispatch", "reply"} /\ ~twice /\ ~rejected =>
       /\ check.wait
       /\ check.dev # 0
       /\ check.found # NoMac => check.found \in heard
       /\ req.ip \notin OddText /\ (heard \ {DevMac[check.dev]}) # {} => check.found # NoMac
  /\ bus = "unlock" /\ ~twice => check.found = NoMac

\* A packet claims the address asked about and answers the check by the same
\* comparison, unless the address is spelled as no packet is.
LEMMA AddressFact ==
  ASSUME TypeOK, NEW p \in Packet
  PROVE  /\ req.ip \notin OddText => Address(req.ip) = req.ip
         /\ req.ip \in OddText => p.sip # req.ip
BY AddressAssumption DEF Address, Packet

\* What one packet does to what has been heard, and what its card would do to
\* the check.
LEMMA HeardFact ==
  ASSUME TypeOK, NEW p \in Packet, Hear(p),
         bus \in {"verify", "probe", "dispatch", "reply"} => check.ip = req.ip
  PROVE  /\ Answers(p) => check.wait
         /\ bus \notin {"verify", "probe", "dispatch", "reply"} => heard' = heard
         /\ bus \in {"verify", "probe", "dispatch", "reply"} /\ check.wait =>
              \/ ~Answers(p) /\ heard' = heard
              \/ ~Answers(p) /\ req.ip \in OddText /\ heard' = heard \cup {p.smac}
              \/ ~Answers(p) /\ check.dev # 0 /\ heard' = heard \cup {DevMac[check.dev]}
              \/ Answers(p) /\ heard' = heard \cup {p.smac}
<1>1. heard' = IF /\ bus \in {"verify", "probe", "dispatch", "reply"}
                  /\ p.sip = Address(req.ip)
                  /\ ~FromLocal(p)
                 THEN heard \cup {p.smac}
                 ELSE heard
  BY DEF Hear
<1>2. /\ req.ip \notin OddText => Address(req.ip) = req.ip
      /\ req.ip \in OddText => p.sip # req.ip
  BY AddressFact
<1>3. CASE FromLocal(p)
  BY <1>1, <1>3 DEF Answers
<1>4. CASE ~FromLocal(p) /\ CheckHit(p)
  <2>1. Answers(p) /\ check.wait /\ p.sip = check.ip
    BY <1>4 DEF Answers, CheckHit
  <2> QED
    BY <1>1, <1>2, <1>4, <2>1
<1>5. CASE ~FromLocal(p) /\ ~CheckHit(p)
  <2>1. ~Answers(p)
    BY <1>5 DEF Answers
  <2>2. check.wait /\ p.sip = check.ip => check.dev # 0 /\ p.smac = DevMac[check.dev]
    BY <1>5 DEF CheckHit
  <2> QED
    BY <1>1, <1>2, <1>5, <2>1, <2>2
<1> QED
  BY <1>3, <1>4, <1>5

\* A step that changes neither the check nor the request, and what is heard
\* not at all, keeps the invariant.
LEMMA AnswerKept ==
  ASSUME AnswerInv, check' = check, heard' = heard, bus' = bus, req' = req,
         hand' = hand, rejected' = rejected, twice' = twice
  PROVE  AnswerInv'
BY DEF AnswerInv, ContextIsClean

\* Each step of the watching thread keeps it: while a request that is not
\* refused is served, the thread analyses nothing, and otherwise nobody waits.
LEMMA AnswerWatcher == TypeOK /\ LockInv /\ AnswerInv /\ Watcher => AnswerInv'
<1> SUFFICES ASSUME TypeOK, LockInv, AnswerInv, Watcher PROVE AnswerInv'
  OBVIOUS
<1>1. CASE WatcherAnalyse
  <2> DEFINE p == Head(ring)
  <2>1. /\ UNCHANGED <<bus, req, rejected, twice, check>> /\ watcher = "dispatch"
        /\ TakeHead /\ Hear(p) /\ hand' = IF Answers(p) THEN p.smac ELSE NoMac
    BY <1>1 DEF WatcherAnalyse, busVars
  <2>2. p \in Packet
    BY <2>1, HeadTyped DEF TypeOK
  <2>3. bus \in {"verify", "probe", "dispatch", "reply"} => check.ip = req.ip
    BY DEF AnswerInv
  <2> HIDE DEF p
  <2>4. /\ Answers(p) => check.wait
        /\ bus \notin {"verify", "probe", "dispatch", "reply"} => heard' = heard
    BY <2>1, <2>2, <2>3, HeardFact
  <2>5. Serving /\ ~twice => rejected /\ bus \notin {"prepare", "verify"}
    BY <2>1 DEF LockInv, Serving
  <2>6. bus \in {"idle", "lock"} \/ Serving
    BY DEF Serving, TypeOK, ThreadTypeOK
  <2>7. ~twice => ~check.wait
    BY <2>5, <2>6 DEF AnswerInv, ContextIsClean, Serving
  <2> QED
    BY <2>1, <2>4, <2>5, <2>7 DEF AnswerInv, ContextIsClean, Serving
<1>2. CASE WatcherStore
  <2>1. /\ UNCHANGED <<bus, req, rejected, twice, heard>> /\ twice /\ hand' = NoMac
        /\ check' = [check EXCEPT !.found = hand]
    BY <1>2 DEF WatcherStore, busVars, AnswerInv
  <2>2. check'.ip = check.ip
    BY <2>1 DEF TypeOK, ArpTypeOK, CheckContext
  <2> QED
    BY <2>1, <2>2 DEF AnswerInv, ContextIsClean
<1>3. CASE Watcher /\ ~WatcherAnalyse /\ ~WatcherStore
  <2>1. UNCHANGED <<check, hand, heard, bus, req, rejected, twice>>
    BY <1>3 DEF Watcher, StartUp, SetUp, TestExit, WatcherLock, WatcherUnlock,
                WatcherDestroy, WatcherClose, WatcherFree, busVars
  <2> QED
    BY <2>1, AnswerKept
<1> QED
  BY <1>1, <1>2, <1>3

\* Each step of the thread that serves the request keeps it.
LEMMA AnswerBus == TypeOK /\ AnswerInv /\ Bus => AnswerInv'
<1> SUFFICES ASSUME TypeOK, AnswerInv, Bus PROVE AnswerInv'
  OBVIOUS
<1>0. check \in CheckContext
  BY DEF TypeOK, ArpTypeOK
<1>1. CASE BusLock
  BY <1>1 DEF BusLock, watchVars, AnswerInv, ContextIsClean
<1>2. CASE BusPrepare
  <2>1. UNCHANGED <<hand, req, rejected, twice, heard>> /\ bus = "prepare"
    BY <1>2 DEF BusPrepare, watchVars
  <2>2. CASE UNCHANGED <<bus, check>>
    BY <2>1, <2>2, AnswerKept
  <2>3. CASE check' = [check EXCEPT !.ip = req.ip, !.wait = TRUE] /\ bus' = "verify"
    <3>1. check'.ip = req.ip /\ check'.found = check.found
      BY <1>0, <2>3 DEF CheckContext
    <3> QED
      BY <2>1, <2>3, <3>1 DEF AnswerInv, ContextIsClean
  <2> QED
    BY <1>2, <2>2, <2>3 DEF BusPrepare
<1>3. CASE BusVerify
  <2> DEFINE ok == ~RefusedText(req.ip) /\ VerifiedDevice # 0
  <2>1. UNCHANGED <<hand, req, twice, heard>> /\ bus = "verify"
    BY <1>3 DEF BusVerify, watchVars
  <2>2. CASE UNCHANGED <<check, rejected, bus>>
    BY <2>1, <2>2, AnswerKept
  <2>3. CASE /\ check' = [check EXCEPT !.dev = VerifiedDevice, !.wait = ok]
             /\ rejected' = ~ok
             /\ bus' = "probe"
    <3>1. /\ check'.ip = check.ip /\ check'.found = check.found /\ check'.wait = ok
          /\ ok => check'.dev # 0
      BY <1>0, <2>3 DEF CheckContext
    <3> HIDE DEF ok
    <3> QED
      BY <2>1, <2>3, <3>1 DEF AnswerInv, ContextIsClean
  <2> QED
    BY <1>3, <2>2, <2>3, Zenon DEF BusVerify
<1>4. CASE BusProbe
  <2>1. UNCHANGED <<check, hand, req, rejected, twice, heard>> /\ bus = "probe"
        /\ bus' \in {"probe", "dispatch"}
    BY <1>4 DEF BusProbe, watchVars
  <2> QED
    BY <2>1 DEF AnswerInv, ContextIsClean
<1>5. CASE BusAnalyse
  <2> DEFINE p == Head(ring)
  <2>1. UNCHANGED <<hand, bus, req, rejected, twice>> /\ bus = "dispatch"
        /\ TakeHead /\ Hear(p)
        /\ check' = IF Answers(p) THEN [check EXCEPT !.found = p.smac] ELSE check
    BY <1>5 DEF BusAnalyse, AnalyseHead, watchVars
  <2>2. p \in Packet
    BY <2>1, HeadTyped DEF TypeOK
  <2>3. check.ip = req.ip
    BY <2>1 DEF AnswerInv
  <2>4. p.smac # NoMac
    BY <2>2, DevAssumption DEF Packet
  <2> HIDE DEF p
  <2>5. /\ Answers(p) => check.wait
        /\ check.wait =>
             \/ ~Answers(p) /\ heard' = heard
             \/ ~Answers(p) /\ req.ip \in OddText /\ heard' = heard \cup {p.smac}
             \/ ~Answers(p) /\ check.dev # 0 /\ heard' = heard \cup {DevMac[check.dev]}
             \/ Answers(p) /\ heard' = heard \cup {p.smac}
    BY <2>1, <2>2, <2>3, HeardFact
  <2>6. /\ check'.ip = check.ip /\ check'.dev = check.dev /\ check'.wait = check.wait
        /\ Answers(p) => check'.found = p.smac
        /\ ~Answers(p) => check'.found = check.found
    BY <1>0, <2>1 DEF CheckContext
  <2> QED
    BY <2>1, <2>3, <2>4, <2>5, <2>6 DEF AnswerInv, ContextIsClean
<1>6. CASE BusDispatched
  <2>1. UNCHANGED <<check, hand, req, rejected, twice, heard>> /\ bus = "dispatch"
        /\ bus' \in {"probe", "reply"}
    BY <1>6 DEF BusDispatched, watchVars
  <2> QED
    BY <2>1 DEF AnswerInv, ContextIsClean
<1>7. CASE BusReply
  <2>1. UNCHANGED <<check, hand, req, rejected, twice, heard>> /\ bus = "reply"
        /\ bus' = "clear"
    BY <1>7 DEF BusReply, watchVars
  <2> QED
    BY <2>1 DEF AnswerInv, ContextIsClean
<1>8. CASE BusClear
  <2>1. /\ UNCHANGED <<hand, req, rejected, twice, heard>> /\ bus = "clear" /\ bus' = "unlock"
        /\ check' = [check EXCEPT !.found = NoMac]
    BY <1>8 DEF BusClear, watchVars
  <2>2. check'.found = NoMac /\ check'.wait = check.wait
    BY <1>0, <2>1 DEF CheckContext
  <2> QED
    BY <2>1, <2>2 DEF AnswerInv, ContextIsClean
<1>9. CASE BusUnlock
  <2>1. /\ bus = "unlock" /\ bus' = "idle" /\ heard' = {} /\ UNCHANGED hand
        /\ twice' = (twice \/ rejected) /\ check' = [check EXCEPT !.wait = FALSE]
    BY <1>9, Zenon DEF BusUnlock, EndOfCall, watchVars
  <2>2. check'.found = check.found /\ ~check'.wait
    BY <1>0, <2>1 DEF CheckContext
  <2> QED
    BY <2>1, <2>2 DEF AnswerInv, ContextIsClean
<1> QED
  BY <1>1, <1>2, <1>3, <1>4, <1>5, <1>6, <1>7, <1>8, <1>9 DEF Bus

\* So does every step of the system.
LEMMA AnswerNext == TypeOK /\ LockInv /\ AnswerInv /\ [Next]_vars => AnswerInv'
<1> SUFFICES ASSUME TypeOK, LockInv, AnswerInv, [Next]_vars PROVE AnswerInv'
  OBVIOUS
<1>1. CASE DSMRegister
  BY <1>1, AnswerKept DEF DSMRegister
<1>2. CASE DSMUnRegister
  BY <1>2, AnswerKept DEF DSMUnRegister
<1>3. ASSUME NEW r \in Asked, BusRequest(r) PROVE AnswerInv'
  <2>1. bus = "idle" /\ bus' = "lock" /\ UNCHANGED <<heard, check, hand, twice>>
    BY <1>3 DEF BusRequest, watchVars
  <2> QED
    BY <2>1 DEF AnswerInv, ContextIsClean
<1>4. CASE Watcher
  BY <1>4, AnswerWatcher
<1>5. CASE Bus
  BY <1>5, AnswerBus
<1>6. CASE Race
  BY <1>6, AnswerKept DEF Race, busVars
<1>7. CASE World /\ UNCHANGED threadVars
  <2>1. check' = check
    BY <1>7 DEF World, SendRemote, SendLocal, Rebind, Reconfigure, Tick, ClockStep, Capture
  <2> QED
    BY <1>7, <2>1, AnswerKept DEF threadVars
<1>8. CASE UNCHANGED vars
  BY <1>8, AnswerKept DEF vars, arpVars, threadVars
<1> QED
  BY <1>1, <1>2, <1>3, <1>4, <1>5, <1>6, <1>7, <1>8 DEF Next

\* The invariant of the answer holds of every behaviour.
LEMMA AnswerAlways == Spec => []AnswerInv
<1>1. Init => AnswerInv
  BY DEF Init, ArpInit, IdleCheck, AnswerInv, ContextIsClean
<1>2. Spec => []TypeOK
  BY PluginTyped
<1>3. Spec => []LockInv
  BY LockInvInit, LockInvNext, PTL DEF Spec
<1> QED
  BY <1>1, <1>2, <1>3, AnswerNext, PTL DEF Spec

\* The card named in an answer claimed the address in a packet analysed for
\* that request, a refused request names none, and one is named if a foreign
\* card was heard for an address spelled as packets are: ipwd_conflict_check with
\* ipwd_analyse, until the mutex has been unlocked twice.
THEOREM AnswerRight == Spec => []AnswerIsHeard
<1>1. AnswerInv => AnswerIsHeard
  BY DEF AnswerInv, AnswerIsHeard
<1> QED
  BY <1>1, AnswerAlways, PTL

\* Until the mutex has been unlocked twice, no answer, and no wait for one, is left
\* over to the next request, whatever the watching thread does meanwhile.
THEOREM ContextCleaned == Spec => []ContextIsClean
<1>1. AnswerInv => ContextIsClean
  BY DEF AnswerInv
<1> QED
  BY <1>1, AnswerAlways, PTL

\* A card is taken up only out of a packet that no configured interface of the
\* machine has sent: the first loop of ipwd_analyse returns before the answer
\* is stored, in whichever thread it runs.
THEOREM OwnCardsUnnamed == Spec => OwnCardNotNamed
<1> DEFINE Named == \A d \in Device :
      Usable(d) => DevMac[d] \notin {check'.found, hand'} \ {check.found, hand}
<1>1. TypeOK /\ [Next]_vars => [Named]_vars
  <2> SUFFICES ASSUME TypeOK, Next PROVE Named
    BY DEF vars, arpVars
  <2>0. check \in CheckContext /\ \A d \in Device : DevMac[d] # NoMac
    BY DevAssumption DEF TypeOK, ArpTypeOK, Mac, LocalMac
  <2>1. CASE WatcherAnalyse
    <3> DEFINE p == Head(ring)
    <3>1. check' = check /\ hand' = IF Answers(p) THEN p.smac ELSE NoMac
      BY <2>1 DEF WatcherAnalyse
    <3>2. Answers(p) => \A d \in Device : Usable(d) => DevMac[d] # p.smac
      BY DEF Answers, FromLocal
    <3> HIDE DEF p
    <3> QED
      BY <2>0, <3>1, <3>2
  <2>2. CASE BusAnalyse
    <3> DEFINE p == Head(ring)
    <3>1. /\ hand' = hand
          /\ check' = IF Answers(p) THEN [check EXCEPT !.found = p.smac] ELSE check
      BY <2>2 DEF BusAnalyse, AnalyseHead, watchVars
    <3>2. Answers(p) => \A d \in Device : Usable(d) => DevMac[d] # p.smac
      BY DEF Answers, FromLocal
    <3> HIDE DEF p
    <3>3. check'.found = check.found \/ (Answers(p) /\ check'.found = p.smac)
      BY <2>0, <3>1 DEF CheckContext
    <3> QED
      BY <3>1, <3>2, <3>3
  <2>3. CASE WatcherStore
    <3>1. hand' = NoMac /\ check' = [check EXCEPT !.found = hand]
      BY <2>3 DEF WatcherStore
    <3>2. check'.found = hand
      BY <2>0, <3>1 DEF CheckContext
    <3> QED
      BY <2>0, <3>1, <3>2
  <2>4. CASE BusPrepare \/ BusVerify \/ BusClear \/ BusUnlock
    <3>1. hand' = hand
      BY <2>4, Zenon DEF BusPrepare, BusVerify, BusClear, BusUnlock, EndOfCall, watchVars
    <3>2. CASE BusPrepare
      <4>1. check' \in {check, [check EXCEPT !.ip = req.ip, !.wait = TRUE]}
        BY <3>2 DEF BusPrepare
      <4>2. check'.found = check.found
        BY <2>0, <4>1 DEF CheckContext
      <4> QED
        BY <3>1, <4>2
    <3>3. CASE BusVerify
      <4>1. check' = check \/ \E dev, ok : check' = [check EXCEPT !.dev = dev, !.wait = ok]
        BY <3>3, Zenon DEF BusVerify
      <4>2. check'.found = check.found
        BY <2>0, <4>1 DEF CheckContext
      <4> QED
        BY <3>1, <4>2
    <3>4. CASE BusClear \/ BusUnlock
      <4>1. check' \in {[check EXCEPT !.found = NoMac], [check EXCEPT !.wait = FALSE]}
        BY <3>4 DEF BusClear, BusUnlock
      <4>2. check'.found \in {check.found, NoMac}
        BY <2>0, <4>1 DEF CheckContext
      <4> QED
        BY <2>0, <3>1, <4>2
    <3> QED
      BY <2>4, <3>2, <3>3, <3>4
  <2>5. CASE /\ ~WatcherAnalyse /\ ~BusAnalyse /\ ~WatcherStore
             /\ ~(BusPrepare \/ BusVerify \/ BusClear \/ BusUnlock)
    <3>1. check' = check /\ hand' = hand
      <4>1. CASE Watcher
        BY <2>5, <4>1 DEF Watcher, StartUp, SetUp, TestExit, WatcherLock,
                          WatcherUnlock, WatcherDestroy, WatcherClose, WatcherFree
      <4>2. CASE Bus
        BY <2>5, <4>2 DEF Bus, BusLock, BusProbe, BusDispatched, BusReply, watchVars
      <4>3. CASE World /\ UNCHANGED threadVars
        BY <4>3 DEF World, SendRemote, SendLocal, Rebind, Reconfigure, Tick, ClockStep, Capture,
                    threadVars
      <4> QED
        BY <4>1, <4>2, <4>3 DEF Next, DSMRegister, DSMUnRegister, BusRequest, Race, watchVars
    <3> QED
      BY <3>1
  <2> QED
    BY <2>1, <2>2, <2>3, <2>4, <2>5
<1> QED
  BY <1>1, PluginTyped, PTL DEF Spec, OwnCardNotNamed

-----------------------------------------------------------------------------
(* The signals, with both threads in the handler *)

\* The list agrees with the announcements, and the counts are backed, until
\* the list is freed; nothing is analysed from then on, because the handle is
\* closed before, under any dispatch of the other thread.
NoticeInv ==
  /\ watcher # "done" => ToldIsRecorded /\ CountIsBacked
  /\ watcher \in {"free", "done"} => handle = "closed"
  /\ watcher \in {"free", "done"} /\ Alive => bus # "dispatch"

\* A packet that either thread hands to the handler is one of ConflictNotice.
LEMMA NoticeAnalyse ==
  ASSUME TypeOK, TypeOK', NoticeInv, TakeHead, watcher # "done"
  PROVE  /\ ToldIsRecorded' /\ CountIsBacked'
         /\ Notice!Next \/ UNCHANGED <<told, calm>>
<1>0. ArpTypeOK /\ ArpTypeOK' /\ ToldIsRecorded /\ CountIsBacked
  BY DEF TypeOK, NoticeInv
<1>1. CASE UNCHANGED <<record, told, calm>>
  BY <1>0, <1>1 DEF ToldIsRecorded, CountIsBacked
<1>2. ASSUME NEW p \in Packet, ~FromLocal(p), UpdateRecords(p), UpdateHistory(p)
      PROVE  /\ ToldIsRecorded' /\ CountIsBacked'
             /\ Notice!Next
  BY <1>0, <1>2, ListKept, NoticeStep
<1> QED
  BY <1>0, <1>1, <1>2, AnalyseCases

\* What the other steps leave alone.
LEMMA NoticeKept ==
  ASSUME NoticeInv, UNCHANGED <<record, told, calm>>,
         watcher = "done" => watcher' = "done"
  PROVE  watcher' # "done" => ToldIsRecorded' /\ CountIsBacked'
BY DEF NoticeInv, ToldIsRecorded, CountIsBacked

\* Every step keeps the invariant and is a step of ConflictNotice or none.
LEMMA NoticeNext ==
  TypeOK /\ TypeOK' /\ NoticeInv /\ [Next]_vars
    => NoticeInv' /\ (Notice!Next \/ UNCHANGED <<told, calm>>)
<1> SUFFICES ASSUME TypeOK, TypeOK', NoticeInv, [Next]_vars
             PROVE  NoticeInv' /\ (Notice!Next \/ UNCHANGED <<told, calm>>)
  OBVIOUS
<1>1. CASE WatcherAnalyse
  <2>1. watcher = "dispatch" /\ TakeHead /\ UNCHANGED <<watcher, handle, bus, fault>>
    BY <1>1 DEF WatcherAnalyse, busVars
  <2>2. ToldIsRecorded' /\ CountIsBacked' /\ (Notice!Next \/ UNCHANGED <<told, calm>>)
    BY <2>1, NoticeAnalyse
  <2> QED
    BY <2>1, <2>2 DEF NoticeInv, Alive
<1>2. CASE BusAnalyse
  <2>1. bus = "dispatch" /\ Alive /\ TakeHead /\ UNCHANGED <<watcher, handle, bus, fault>>
    BY <1>2 DEF BusAnalyse, AnalyseHead, watchVars
  <2>2. watcher # "done"
    BY <2>1 DEF NoticeInv
  <2>3. ToldIsRecorded' /\ CountIsBacked' /\ (Notice!Next \/ UNCHANGED <<told, calm>>)
    BY <2>1, <2>2, NoticeAnalyse
  <2> QED
    BY <2>1, <2>3 DEF NoticeInv, Alive
<1>3. CASE WatcherFree
  <2>1. watcher = "free" /\ watcher' = "done" /\ UNCHANGED <<told, calm, handle, bus, fault>>
    BY <1>3 DEF WatcherFree, busVars
  <2> QED
    BY <2>1 DEF NoticeInv, Alive
<1>4. CASE Next /\ ~WatcherAnalyse /\ ~BusAnalyse /\ ~WatcherFree
  <2>1. UNCHANGED <<record, told, calm>>
    <3>1. World => UNCHANGED <<record, told, calm>>
      BY WorldIsQuiet
    <3> QED
      BY <1>4, <3>1
      DEF Next, Watcher, Bus, NoPacket, recordVars, DSMRegister, DSMUnRegister, StartUp, SetUp,
          TestExit, WatcherLock, WatcherStore, WatcherUnlock, WatcherDestroy, WatcherClose,
          BusRequest, BusLock, BusPrepare, BusVerify, BusProbe, BusDispatched,
          BusReply, BusClear, BusUnlock, EndOfCall, Race
  <2>2. /\ watcher = "done" => watcher' = "done"
        /\ watcher' \in {"free", "done"} => handle' = "closed"
        /\ watcher' \in {"free", "done"} /\ Alive' => bus' # "dispatch"
    <3>1. CASE DSMRegister \/ DSMUnRegister \/ Race \/ (World /\ UNCHANGED threadVars)
      BY <3>1 DEF NoticeInv, Alive, DSMRegister, DSMUnRegister, Race, threadVars, busVars
    <3>2. ASSUME NEW r \in Asked, BusRequest(r)
          PROVE  /\ UNCHANGED <<watcher, handle, fault>> /\ bus' = "lock"
      BY <3>2 DEF BusRequest, watchVars
    <3>3. CASE Watcher
      BY <1>4, <3>3
      DEF NoticeInv, Alive, Watcher, StartUp, SetUp, TestExit, WatcherLock, WatcherStore,
          WatcherUnlock, WatcherDestroy, WatcherClose, busVars
    <3>4. CASE Bus
      <4>1. UNCHANGED <<watcher, handle>>
        BY <3>4, Zenon
        DEF Bus, BusLock, BusPrepare, BusVerify, BusProbe, BusAnalyse, BusDispatched,
            BusReply, BusClear, BusUnlock, EndOfCall, watchVars
      <4>2. bus' = "dispatch" => Opened \/ (bus = "dispatch" /\ Alive)
        BY <1>4, <3>4
        DEF Bus, BusLock, BusPrepare, BusVerify, BusProbe, BusDispatched,
            BusReply, BusClear, BusUnlock, EndOfCall
      <4> QED
        BY <4>1, <4>2 DEF NoticeInv, Alive, Opened
    <3> QED
      BY <1>4, <3>1, <3>2, <3>3, <3>4 DEF Next, NoticeInv, Alive
  <2> QED
    BY <2>1, <2>2, NoticeKept DEF NoticeInv
<1>5. CASE UNCHANGED vars
  BY <1>5 DEF vars, arpVars, threadVars, NoticeInv, Alive, ToldIsRecorded, CountIsBacked
<1> QED
  BY <1>1, <1>2, <1>3, <1>4, <1>5

\* The plugin as a whole, whose handler runs in either thread, sends the signals
\* that ConflictNotice allows, also while it is being unloaded.  (Where two
\* dispatches overlap, after a double unlock, the analyses of two packets come one
\* after the other or end in the fault "race".)
THEOREM PluginNotice == Spec => ImplementsNotice
<1>1. Init => Notice!Init /\ NoticeInv
  BY NoticeAtFirst, ListAtFirst DEF Init, NoticeInv, ListInv
<1>2. TypeOK /\ TypeOK' /\ NoticeInv /\ [Next]_vars => NoticeInv' /\ [Notice!Next]_<<told, calm>>
  BY NoticeNext
<1>3. Spec => []TypeOK
  BY PluginTyped
<1>4. Spec => [][Notice!Next]_<<told, calm>>
  BY <1>1, <1>2, <1>3, PTL DEF Spec
<1> QED
  BY <1>1, <1>4, PTL DEF Spec, ImplementsNotice, Notice!Spec

-----------------------------------------------------------------------------
(* The call as its client sees it *)

\* Which replies have been sent, told from where the call is.
CallInv ==
  /\ bus \in {"lock", "prepare", "verify"} => answers = <<>>
  /\ bus \in {"probe", "dispatch", "reply"} /\ answers = <<>> => ~rejected
  /\ bus \in {"clear", "unlock"} => answers # <<>>

\* One packet adds to what the call has heard a card that no configured
\* interface has, or nothing.
LEMMA HearFact ==
  ASSUME TypeOK, TakeHead, Hear(Head(ring))
  PROVE  \/ heard' = heard
         \/ /\ bus \in {"verify", "probe", "dispatch", "reply"}
            /\ \E c \in Mac : /\ heard' = heard \cup {c}
                              /\ \A d \in Device : Usable(d) => DevMac[d] # c
<1> DEFINE p == Head(ring)
<1>1. p.smac \in Mac
  BY HeadTyped DEF TypeOK, Packet
<1>2. heard' = heard
      \/ /\ bus \in {"verify", "probe", "dispatch", "reply"}
         /\ ~FromLocal(p)
         /\ heard' = heard \cup {p.smac}
  BY DEF Hear
<1> HIDE DEF p
<1> QED
  BY <1>1, <1>2 DEF FromLocal

\* Every step keeps it.
LEMMA CallNext == TypeOK /\ CallInv /\ [Next]_vars => CallInv'
<1> SUFFICES ASSUME TypeOK, CallInv, [Next]_vars PROVE CallInv'
  OBVIOUS
<1> USE DEF CallInv
<1>1. ASSUME NEW r \in Asked, BusRequest(r) PROVE CallInv'
  BY <1>1 DEF BusRequest
<1>2. CASE BusLock \/ BusPrepare \/ BusProbe \/ BusAnalyse \/ BusDispatched \/ BusClear \/ BusUnlock
  <2>1. /\ UNCHANGED <<answers, rejected>>
        /\ \/ bus \in {"lock", "prepare"} /\ bus' \in {"prepare", "verify"}
           \/ bus \in {"probe", "dispatch"} /\ bus' \in {"probe", "dispatch", "reply"}
           \/ bus = "clear" /\ bus' = "unlock"
           \/ bus = "unlock" /\ bus' = "idle"
    BY <1>2 DEF BusLock, BusPrepare, BusProbe, BusAnalyse, BusDispatched, BusClear, BusUnlock,
                EndOfCall
  <2> QED
    BY <2>1
<1>3. CASE BusVerify
  <2> DEFINE ok == ~RefusedText(req.ip) /\ VerifiedDevice # 0
  <2>1. CASE UNCHANGED <<rejected, answers, bus>>
    BY <2>1
  <2>2. CASE /\ bus' = "probe" /\ rejected' = ~ok
             /\ answers' = IF ok THEN <<>> ELSE <<NoMac>>
    <3> HIDE DEF ok
    <3>1. CASE ok
      BY <2>2, <3>1
    <3>2. CASE ~ok
      BY <2>2, <3>2
    <3> QED
      BY <3>1, <3>2
  <2> QED
    BY <1>3, <2>1, <2>2, Zenon DEF BusVerify
<1>4. CASE BusReply
  <2>1. bus' = "clear" /\ answers' = Append(answers, check.found)
    BY <1>4 DEF BusReply
  <2>2. answers \in Seq(Mac \cup {NoMac}) /\ check.found \in Mac \cup {NoMac}
    BY DEF TypeOK, ThreadTypeOK, ArpTypeOK, CheckContext
  <2>3. answers' # <<>>
    BY <2>1, <2>2
  <2> QED
    BY <2>1, <2>3
<1>5. CASE UNCHANGED <<bus, answers, rejected>>
  BY <1>5
<1>6. CASE \/ DSMRegister \/ DSMUnRegister \/ Race \/ Watcher
           \/ UNCHANGED threadVars \/ UNCHANGED vars
  <2>1. UNCHANGED <<bus, answers, rejected>>
    BY <1>6 DEF DSMRegister, DSMUnRegister, Race, busVars, vars, threadVars, Watcher, StartUp,
                SetUp, TestExit, WatcherLock, WatcherAnalyse, WatcherStore, WatcherUnlock,
                WatcherDestroy, WatcherClose, WatcherFree
  <2> QED
    BY <2>1, <1>5
<1> QED
  BY <1>1, <1>2, <1>3, <1>4, <1>6 DEF Next, Bus

\* A step between two points of one phase of the call is not seen, nor is one
\* of the world, except that interfaces come into use and go out of it.
LEMMA CheckUnseen ==
  ASSUME UNCHANGED <<answers, req>>, CallPhase' = CallPhase,
         heard' = heard \/ answers # <<>>
  PROVE  Check!Change
BY DEF Check!Change, Check!callVars, InUse, CallClaims, CallAnswer

\* A packet analysed by either thread is a claim, or is not seen.
LEMMA CheckHear ==
  ASSUME TypeOK, TakeHead, Hear(Head(ring)), UNCHANGED <<bus, answers, req>>
  PROVE  Check!Serve
<1>1. CallPhase' = CallPhase /\ InUse' = InUse
  BY DEF CallPhase, TakeHead, netVars, InUse, Usable
<1>2. CASE heard' = heard \/ answers # <<>>
  BY <1>1, <1>2, CheckUnseen DEF Check!Serve
<1>3. CASE answers = <<>> /\ heard' # heard
  <2>1. PICK c \in Mac : /\ bus \in {"verify", "probe", "dispatch", "reply"}
                         /\ heard' = heard \cup {c}
                         /\ \A d \in Device : Usable(d) => DevMac[d] # c
    BY <1>3, HearFact
  <2>2. CallPhase # "idle"
    BY <1>3, <2>1 DEF CallPhase
  <2>3. CallClaims' = CallClaims \cup {c} /\ CallAnswer' = CallAnswer
    BY <1>3, <2>1 DEF CallClaims, CallAnswer
  <2>4. \A d \in InUse : DevMac[d] # c
    BY <2>1 DEF InUse
  <2>5. Check!Claim(c)
    BY <1>1, <2>2, <2>3, <2>4 DEF Check!Claim
  <2> QED
    BY <2>5 DEF Check!Serve
<1> QED
  BY <1>2, <1>3

\* Verification accepts or declines the call by what there is at that moment.
LEMMA CheckVerify ==
  ASSUME TypeOK, CallInv, BusVerify
  PROVE  Check!Serve
<1> DEFINE ok == ~RefusedText(req.ip) /\ VerifiedDevice # 0
<1>1. UNCHANGED <<req, heard, os>> /\ bus = "verify" /\ answers = <<>>
  BY DEF BusVerify, CallInv, NoPacket, netVars
<1>2. InUse' = InUse
  BY <1>1 DEF InUse, Usable
<1>3. CASE UNCHANGED <<answers, bus>>
  BY <1>1, <1>3, CheckUnseen DEF CallPhase, Check!Serve
<1>4. CASE bus' = "probe" /\ answers' = IF ok THEN <<>> ELSE <<NoMac>>
  <2>1. ok <=> req.ip \in IP \cup OddText /\ Check!Suitable # {}
    <3>1. req.ip \in Text
      BY DEF TypeOK, ThreadTypeOK, Request
    <3>2. ~RefusedText(req.ip) <=> req.ip \in IP \cup OddText
      BY <3>1, AddressAssumption DEF RefusedText, Text
    <3>3. ~RefusedText(req.ip) => VerifiedDevice = ChosenDevice(req.ip, req.misc)
      BY DEF VerifiedDevice
    <3>4. ChosenDevice(req.ip, req.misc) # 0 <=> Check!Suitable # {}
      <4>1. CASE req.misc = NoName
        <5>1. ChosenDevice(req.ip, req.misc) = 0 => \A d \in Device : ~Usable(d)
          BY <4>1, ChosenFact
        <5>2. ChosenDevice(req.ip, req.misc) # 0 =>
                /\ ChosenDevice(req.ip, req.misc) \in Device
                /\ Usable(ChosenDevice(req.ip, req.misc))
          BY ChosenFact, DevAssumption DEF Device
        <5>3. Check!Suitable = InUse
          BY <4>1 DEF Check!Suitable
        <5> QED
          BY <5>1, <5>2, <5>3 DEF InUse
      <4>2. CASE req.misc # NoName
        <5>1. ChosenDevice(req.ip, req.misc) # 0 <=> req.misc \in Device /\ Usable(req.misc)
          BY <4>2, ChosenFact
        <5>2. Check!Suitable = InUse \cap {req.misc}
          BY <4>2 DEF Check!Suitable
        <5> QED
          BY <5>1, <5>2 DEF InUse
      <4> QED
        BY <4>1, <4>2
    <3> QED
      BY <3>2, <3>3, <3>4
  <2> HIDE DEF ok
  <2>2. CallPhase = "asked" /\ CallAnswer = NoMac
    BY <1>1 DEF CallPhase, CallAnswer
  <2>3. CASE ok
    <3>1. CallPhase' = "accepted" /\ CallClaims' = CallClaims /\ CallAnswer' = CallAnswer
      BY <1>1, <1>4, <2>3 DEF CallPhase, CallClaims, CallAnswer
    <3>2. Check!Accept
      BY <1>1, <1>2, <2>1, <2>2, <2>3, <3>1 DEF Check!Accept
    <3> QED
      BY <3>2 DEF Check!Serve
  <2>4. CASE ~ok
    <3>1. answers' = <<NoMac>>
      BY <1>4, <2>4
    <3>2. CallPhase' = "idle" /\ CallClaims' = {} /\ CallAnswer' = NoMac
      BY <3>1 DEF CallPhase, CallClaims, CallAnswer
    <3>3. Check!Decline
      BY <1>1, <1>2, <2>1, <2>2, <2>4, <3>2 DEF Check!Decline, Check!Reply
    <3> QED
      BY <3>3 DEF Check!Serve
  <2> QED
    BY <2>3, <2>4
<1> QED
  BY <1>3, <1>4, Zenon DEF BusVerify

\* The last reply answers an accepted call; to a refused one it is the second
\* reply, which the client does not see.
LEMMA CheckReply ==
  ASSUME TypeOK, AnswerInv, CallInv, BusReply, ~twice
  PROVE  Check!Serve
<1>1. /\ UNCHANGED <<req, os>> /\ bus = "reply" /\ bus' = "clear"
      /\ answers' = Append(answers, check.found) /\ heard' = heard
  BY DEF BusReply, NoPacket, netVars
<1>2. InUse' = InUse
  BY <1>1 DEF InUse, Usable
<1>3. /\ answers \in Seq(Mac \cup {NoMac}) /\ check.found \in Mac \cup {NoMac}
      /\ heard \subseteq Mac /\ NoMac \notin Mac /\ check.dev \in Device \cup {0}
  BY DevAssumption DEF TypeOK, ThreadTypeOK, ArpTypeOK, CheckContext
<1>4. answers' # <<>>
  BY <1>1, <1>3
<1>5. CallPhase' = "idle" /\ CallClaims' = {}
  BY <1>4 DEF CallPhase, CallClaims
<1>6. CASE answers = <<>>
  <2>1. CallPhase = "accepted" /\ CallClaims = heard
    BY <1>1, <1>6 DEF CallPhase, CallClaims
  <2>2. CallAnswer' = check.found
    BY <1>1, <1>3, <1>6 DEF CallAnswer
  <2>3. /\ check.found # NoMac => check.found \in heard
        /\ req.ip \notin OddText /\ heard \ {DevMac[check.dev]} # {} => check.found # NoMac
        /\ DevMac[check.dev] \in LocalMac
    BY <1>1, <1>3, <1>6 DEF CallInv, AnswerInv, LocalMac
  <2>4. Check!Reply(check.found)
    BY <1>1, <1>2, <1>5, <2>2 DEF Check!Reply
  <2>5. CASE check.found # NoMac
    BY <2>1, <2>3, <2>4, <2>5 DEF Check!Serve, Check!AnswerCall
  <2>6. CASE check.found = NoMac
    <3>1. req.ip \in IP => heard \subseteq Check!LocalCard
      BY <2>3, <2>6, AddressAssumption DEF Check!LocalCard, LocalMac
    <3> QED
      BY <2>1, <2>4, <2>6, <3>1 DEF Check!Serve, Check!AnswerCall
  <2> QED
    BY <2>5, <2>6
<1>7. CASE answers # <<>>
  <2>1. answers'[1] = answers[1]
    BY <1>1, <1>3, <1>7
  <2>2. CallPhase' = CallPhase /\ CallClaims' = CallClaims /\ CallAnswer' = CallAnswer
    BY <1>4, <1>5, <1>7, <2>1 DEF CallPhase, CallClaims, CallAnswer
  <2>3. Check!Change
    BY <1>1, <2>2 DEF Check!Change, Check!callVars, InUse
  <2> QED
    BY <2>3 DEF Check!Serve
<1> QED
  BY <1>6, <1>7

\* Until the mutex has been unlocked twice every step is one of the service, or is
\* not seen.
LEMMA CheckStep ==
  TypeOK /\ AnswerInv /\ CallInv /\ [Next]_vars /\ ~twice => Check!Serve
<1> SUFFICES ASSUME TypeOK, AnswerInv, CallInv, [Next]_vars, ~twice PROVE Check!Serve
  OBVIOUS
<1>1. CASE WatcherAnalyse
  BY <1>1, CheckHear DEF WatcherAnalyse, busVars
<1>2. CASE BusAnalyse
  BY <1>2, CheckHear DEF BusAnalyse, AnalyseHead
<1>3. ASSUME NEW r \in Asked, BusRequest(r) PROVE Check!Serve
  <2>1. /\ bus = "idle" /\ bus' = "lock" /\ req' = r /\ answers' = <<>>
        /\ UNCHANGED <<heard, os>> /\ heard = {} /\ r \in Request
    BY <1>3, AskedAssumption DEF BusRequest, NoPacket, netVars, AnswerInv
  <2>2. InUse' = InUse
    BY <2>1 DEF InUse, Usable
  <2>3. /\ CallPhase = "idle" /\ CallPhase' = "asked"
        /\ CallClaims' = CallClaims /\ CallAnswer' = NoMac
    BY <2>1 DEF CallPhase, CallClaims, CallAnswer
  <2>4. Check!Ask
    BY <2>1, <2>2, <2>3 DEF Check!Ask, Check!Question, Request
  <2> QED
    BY <2>4 DEF Check!Serve
<1>4. CASE BusLock \/ BusPrepare \/ BusProbe \/ BusDispatched
  <2>1. UNCHANGED <<answers, req, heard>>
    BY <1>4 DEF BusLock, BusPrepare, BusProbe, BusDispatched
  <2>2. \/ bus \in {"lock", "prepare", "verify"} /\ bus' \in {"lock", "prepare", "verify"}
        \/ bus \in {"probe", "dispatch", "reply"} /\ bus' \in {"probe", "dispatch", "reply"}
    BY <1>4 DEF BusLock, BusPrepare, BusProbe, BusDispatched
  <2>3. CallPhase' = CallPhase
    BY <2>1, <2>2 DEF CallPhase
  <2> QED
    BY <2>1, <2>3, CheckUnseen DEF Check!Serve
<1>5. CASE BusVerify
  BY <1>5, CheckVerify
<1>6. CASE BusReply
  BY <1>6, CheckReply
<1>7. CASE BusClear \/ BusUnlock
  <2>1. UNCHANGED <<answers, req>> /\ answers # <<>>
    BY <1>7 DEF BusClear, BusUnlock, EndOfCall, CallInv
  <2>2. CallPhase' = CallPhase
    BY <2>1 DEF CallPhase
  <2> QED
    BY <2>1, <2>2, CheckUnseen DEF Check!Serve
<1>8. CASE UNCHANGED <<bus, answers, req, heard>>
  <2>1. CallPhase' = CallPhase
    BY <1>8 DEF CallPhase
  <2> QED
    BY <1>8, <2>1, CheckUnseen DEF Check!Serve
<1>9. CASE DSMRegister \/ DSMUnRegister \/ Race \/ UNCHANGED threadVars \/ UNCHANGED vars
  <2>1. UNCHANGED <<bus, answers, req, heard>>
    BY <1>9 DEF DSMRegister, DSMUnRegister, Race, busVars, vars, threadVars
  <2> QED
    BY <2>1, <1>8
<1>10. CASE Watcher /\ ~WatcherAnalyse
  <2>1. UNCHANGED <<bus, answers, req, heard>>
    BY <1>10 DEF Watcher, StartUp, SetUp, TestExit, WatcherLock, WatcherStore, WatcherUnlock,
                 WatcherDestroy, WatcherClose, WatcherFree, busVars
  <2> QED
    BY <2>1, <1>8
<1> QED
  BY <1>1, <1>2, <1>3, <1>4, <1>5, <1>6, <1>7, <1>9, <1>10 DEF Next, Bus

\* What has happened to the mutex is never forgotten.
LEMMA TwiceKept == TypeOK /\ [Next]_vars /\ twice => twice'
<1> SUFFICES ASSUME TypeOK, [Next]_vars, twice PROVE twice'
  OBVIOUS
<1>1. ASSUME NEW r \in Asked, BusRequest(r) PROVE twice'
  BY <1>1 DEF BusRequest
<1>2. CASE Bus
  BY <1>2 DEF Bus, BusLock, BusPrepare, BusVerify, BusProbe, BusAnalyse, BusDispatched,
              BusReply, BusClear, BusUnlock, EndOfCall
<1>3. CASE Watcher
  BY <1>3 DEF Watcher, StartUp, SetUp, TestExit, WatcherLock, WatcherAnalyse, WatcherStore,
              WatcherUnlock, WatcherDestroy, WatcherClose, WatcherFree, busVars
<1>4. CASE DSMRegister \/ DSMUnRegister \/ Race \/ UNCHANGED threadVars \/ UNCHANGED vars
  BY <1>4 DEF DSMRegister, DSMUnRegister, Race, busVars, vars, threadVars
<1> QED
  BY <1>1, <1>2, <1>3, <1>4 DEF Next

\* The service that AddressCheck promises to clients is what the two threads
\* implement, in every behaviour up to undefined behaviour, until a refused
\* request has unlocked the mutex twice; from then on nothing is promised.
THEOREM CheckRefined == Spec => ImplementsCheck
<1>1. Init => Check!Init /\ CallInv
  <2> SUFFICES ASSUME Init PROVE Check!Init /\ CallInv
    OBVIOUS
  <2>1. req \in Request /\ bus = "idle" /\ answers = <<>> /\ heard = {} /\ twice = FALSE
    BY TypeInit DEF TypeOK, ThreadTypeOK, Init
  <2>2. CallPhase = "idle" /\ CallClaims = {} /\ CallAnswer = NoMac /\ InUse \subseteq Device
    BY <2>1 DEF CallPhase, CallClaims, CallAnswer, InUse
  <2> QED
    BY <2>1, <2>2 DEF Check!Init, Check!Question, Request, CallInv
<1>2. TypeOK /\ TypeOK' /\ AnswerInv /\ CallInv /\ [Next]_vars => [Check!Next]_(Check!vars)
  <2> SUFFICES ASSUME TypeOK, TypeOK', AnswerInv, CallInv, [Next]_vars PROVE Check!Next
    OBVIOUS
  <2>0. twice \in BOOLEAN /\ twice' \in BOOLEAN
    BY DEF TypeOK, ThreadTypeOK
  <2>1. CASE twice'
    BY <2>0, <2>1 DEF Check!Next, Check!Break
  <2>2. CASE ~twice'
    <3>1. ~twice
      BY <2>2, TwiceKept
    <3>2. twice' = twice
      BY <2>0, <2>2, <3>1
    <3>3. Check!Serve
      BY <3>1, CheckStep
    <3> QED
      BY <3>2, <3>3 DEF Check!Next
  <2> QED
    BY <2>1, <2>2
<1>3. Spec => [](TypeOK /\ AnswerInv)
  BY PluginTyped, AnswerAlways, PTL
<1>4. Spec => []CallInv
  BY <1>1, <1>3, CallNext, PTL DEF Spec
<1>5. Spec => [][Check!Next]_(Check!vars)
  BY <1>2, <1>3, <1>4, PTL DEF Spec
<1> QED
  BY <1>1, <1>5, PTL DEF Spec, ImplementsCheck, Check!Spec
=============================================================================
