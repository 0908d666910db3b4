------------------------------- MODULE Ipwatchd -------------------------------
(***************************************************************************)
(* The IPwatchD plugin as it runs in the service manager: the watching     *)
(* thread that DSMRegister starts, the D-Bus method RequestIPConflictCheck *)
(* that another thread serves, the mutex and the capture handle they share *)
(* and the exit flag that DSMUnRegister sets.                              *)
(*                                                                         *)
(* A step of a thread ends where the other one can see it or hold it up:   *)
(* at a lock, an unlock, a read of exit_flag, a write of h_pcap, at every  *)
(* packet that a pcap_dispatch hands to ipwd_analyse, and, since the mutex *)
(* may fail to keep the threads apart, between the accesses of each to the *)
(* card in check_context.                                                  *)
(***************************************************************************)
EXTENDS ArpAnalyse

CONSTANTS
  Denotes,       \* the address that each of the other spellings stands for
  Net,           \* the /24 network of an accepted address text
  PcapMaxTimes,  \* PCAP_MAX_TIMES (5 in the code)
  Asked          \* bound: the requests that clients make

ASSUME RequestAssumption ==
  /\ Denotes \in [OddText -> IP]
  /\ Net = [t \in IP \cup OddText |-> Net[t]]
  /\ PcapMaxTimes \in Nat \ {0}

VARIABLES
  watcher,    \* where start_ipwatchd is
  hand,       \* the card it is about to store in check_context, or NoMac
  bus,        \* where ipwd_conflict_check is
  owner,      \* who holds the mutex, or its state
  handle,     \* h_pcap, "raw" until the filter is set
  exitFlag,   \* exit_flag
  req,        \* the arguments of the request being served
  tries,      \* i in the probing loop of ipwd_conflict_check
  got,        \* its pcap_dispatch has handed on a packet
  answers,    \* history: replies sent to the request being served, NoMac
              \* for an empty one
  rejected,   \* history: the request being served failed verification
  twice,      \* history: the mutex has been unlocked twice by one request
  heard,      \* history: foreign cards that claimed the address asked about
              \* in packets analysed since the request holds the mutex
  fault       \* the undefined behaviour that has been met, or "none"

threadVars == <<watcher, hand, bus, owner, handle, exitFlag, req, tries, got,
                answers, rejected, twice, heard, fault>>
vars       == <<arpVars, threadVars>>

\* The second argument of a request: a device, no name, or an unlisted name.
NoName   == 0
Unlisted == DevNum + 1
Request  == [ip : Text, misc : 0 .. DevNum + 1]
NoReq    == [ip |-> NoIp, misc |-> NoName]

ASSUME AskedAssumption == Asked \subseteq Request

Init ==
  /\ ArpInit
  /\ watcher = "off"
  /\ hand = NoMac
  /\ bus = "idle"
  /\ owner = "free"
  /\ handle = "null"
  /\ exitFlag = FALSE
  /\ req = NoReq
  /\ tries = 0
  /\ got = FALSE
  /\ answers = <<>>
  /\ rejected = FALSE
  /\ twice = FALSE
  /\ heard = {}
  /\ fault = "none"

Alive == fault = "none"

\* A step that analyses no packet.
NoPacket == arps' = {} /\ UNCHANGED <<netVars, ring, recordVars>>

-----------------------------------------------------------------------------
(* The mutex and the handle *)

\* pthread_mutex_lock: a destroyed mutex answers EINVAL and locks nothing.
\* The result is not looked at.
Acquire(who) ==
  \/ /\ owner = "free"
     /\ owner' = who
  \/ /\ owner = "destroyed"
     /\ UNCHANGED owner

\* pthread_mutex_unlock of a normal mutex does not ask who holds it.
Release == owner' = IF owner = "destroyed" THEN "destroyed" ELSE "free"

\* pthread_mutex_destroy refuses (EBUSY) while its count of users is not 0.
\* An unlock too many leaves that count wrong.
DestroyMutex ==
  \/ /\ owner = "free" \/ twice
     /\ owner' = "destroyed"
  \/ /\ owner # "free" \/ twice
     /\ UNCHANGED owner

\* Using h_pcap before pcap_open_live or after pcap_close.
Opened == handle \in {"raw", "open"}

Misuse ==
  /\ ~Opened
  /\ fault' = handle

-----------------------------------------------------------------------------
(* plugin.c *)

\* DSMRegister: the method is on the bus before the thread is started.
DSMRegister ==
  /\ watcher = "off"
  /\ watcher' = "init"
  /\ NoPacket
  /\ UNCHANGED <<check, hand, bus, owner, handle, exitFlag,
                 req, tries, got, answers, rejected, twice, heard, fault>>

\* DSMUnRegister, stop_ipwatchd: nothing else is undone.
DSMUnRegister ==
  /\ Alive
  /\ watcher # "off"
  /\ ~exitFlag
  /\ exitFlag' = TRUE
  /\ NoPacket
  /\ UNCHANGED <<check, watcher, hand, bus, owner, handle,
                 req, tries, got, answers, rejected, twice, heard, fault>>

-----------------------------------------------------------------------------
(* start_ipwatchd *)

busVars == <<bus, req, tries, got, answers, rejected, twice>>

\* Reading the configuration and opening the capture: h_pcap is there for all
\* to see from then on.
StartUp ==
  /\ Alive
  /\ watcher = "init"
  /\ \/ watcher' = "failed" /\ UNCHANGED handle
     \/ watcher' = "setup" /\ handle' = "raw"
  /\ NoPacket
  /\ UNCHANGED <<check, hand, owner, exitFlag, busVars, heard, fault>>

\* Compiling and setting the filter.  On failure the handle stays open.
SetUp ==
  /\ Alive
  /\ watcher = "setup"
  /\ \/ watcher' = "failed" /\ UNCHANGED handle
     \/ watcher' = "loop" /\ handle' = "open"
  /\ NoPacket
  /\ UNCHANGED <<check, hand, owner, exitFlag, busVars, heard, fault>>

\* Variant: the flag is not looked at.
TestExitNot ==
  /\ Alive
  /\ watcher = "loop"
  /\ watcher' = "lock"
  /\ NoPacket
  /\ UNCHANGED <<check, hand, owner, handle, exitFlag, busVars, heard, fault>>

\* while (!exit_flag)
TestExit ==
  /\ Alive
  /\ watcher = "loop"
  /\ watcher' = IF exitFlag THEN "destroy" ELSE "lock"
  /\ NoPacket
  /\ UNCHANGED <<check, hand, owner, handle, exitFlag,
                 busVars, heard, fault>>

\* Variant: the thread does not take the lock.
WatcherLockNot ==
  /\ Alive
  /\ watcher = "lock"
  /\ watcher' = "dispatch"
  /\ NoPacket
  /\ UNCHANGED <<check, hand, owner, handle, exitFlag, busVars, heard, fault>>

WatcherLock ==
  /\ Alive
  /\ watcher = "lock"
  /\ Acquire("watcher")
  /\ watcher' = "dispatch"
  /\ NoPacket
  /\ UNCHANGED <<check, hand, handle, exitFlag, busVars, heard, fault>>

\* The address that a text stands for.
Address(t) == IF t \in OddText THEN Denotes[t] ELSE t

\* What the request being served has heard so far: who claims the address it
\* asks about, however the client has spelled it.
Hear(p) ==
  heard' = IF /\ bus \in {"verify", "probe", "dispatch", "reply"}
              /\ p.sip = Address(req.ip)
              /\ ~FromLocal(p)
             THEN heard \cup {p.smac}
             ELSE heard

\* ipwd_analyse up to its test of check_context, and what it does afterwards
\* to the list and the devices, which no request touches.
WatcherAnalyse ==
  /\ Alive
  /\ watcher = "dispatch"
  /\ hand = NoMac
  /\ TakeHead
  /\ Hear(Head(ring))
  /\ hand' = IF Answers(Head(ring)) THEN Head(ring).smac ELSE NoMac
  /\ UNCHANGED <<check, watcher, owner, handle, exitFlag, busVars, fault>>

\* The card is stored, whatever has become of the check since.
WatcherStore ==
  /\ Alive
  /\ hand # NoMac
  /\ check' = [check EXCEPT !.found = hand]
  /\ hand' = NoMac
  /\ NoPacket
  /\ UNCHANGED <<watcher, owner, handle, exitFlag, busVars, heard, fault>>

\* The dispatch times out or has emptied the buffer; unlock, usleep.
\* pcap_set_timeout on a handle in use changes nothing.
WatcherUnlock ==
  /\ Alive
  /\ watcher = "dispatch"
  /\ hand = NoMac
  /\ Release
  /\ watcher' = "loop"
  /\ NoPacket
  /\ UNCHANGED <<check, hand, handle, exitFlag, busVars, heard, fault>>

WatcherDestroy ==
  /\ Alive
  /\ watcher = "destroy"
  /\ DestroyMutex
  /\ watcher' = "close"
  /\ NoPacket
  /\ UNCHANGED <<check, hand, handle, exitFlag, busVars, heard, fault>>

\* pcap_close, which pulls the handle away from a dispatch in progress.
WatcherClose ==
  /\ Alive
  /\ watcher = "close"
  /\ handle' = "closed"
  /\ fault' = IF bus = "dispatch" THEN "closed" ELSE fault
  /\ watcher' = "free"
  /\ NoPacket
  /\ UNCHANGED <<check, hand, owner, exitFlag, busVars, heard>>

\* Variant: what is freed is announced as resolved.
WatcherFreeResolves ==
  /\ Alive
  /\ watcher = "free"
  /\ record' = [k \in Key |-> NoRecord]
  /\ told' = {}
  /\ watcher' = "done"
  /\ arps' = {}
  /\ UNCHANGED <<os, hostIp, ring, age, calm, real, check, hand, owner, handle, exitFlag,
                 busVars, heard, fault>>

\* The list of conflicts is freed; what has been announced stays announced.
WatcherFree ==
  /\ Alive
  /\ watcher = "free"
  /\ record' = [k \in Key |-> NoRecord]
  /\ watcher' = "done"
  /\ arps' = {}
  /\ UNCHANGED <<os, hostIp, ring, age, told, calm, real, check, hand, owner, handle, exitFlag,
                 busVars, heard, fault>>

-----------------------------------------------------------------------------
(* ipwd_conflict_check *)

watchVars == <<watcher, hand, handle, exitFlag>>

\* sd-bus calls the handler.  Its slot is never released.
BusRequest(r) ==
  /\ Alive
  /\ watcher # "off"
  /\ bus = "idle"
  /\ bus' = "lock"
  /\ req' = r
  /\ answers' = <<>>
  /\ rejected' = FALSE
  /\ NoPacket
  /\ UNCHANGED <<check, watchVars, owner, tries, got, twice, heard, fault>>

\* Variant: the handler does not take the lock.
BusLockNot ==
  /\ Alive
  /\ bus = "lock"
  /\ bus' = "prepare"
  /\ NoPacket
  /\ UNCHANGED <<check, watchVars, owner, req, tries, got, answers, rejected, twice, heard, fault>>

BusLock ==
  /\ Alive
  /\ bus = "lock"
  /\ Acquire("bus")
  /\ bus' = "prepare"
  /\ NoPacket
  /\ UNCHANGED <<check, watchVars, req, tries, got,
                 answers, rejected, twice, heard, fault>>

\* pcap_set_timeout on the handle; the arguments go to check_context.
BusPrepare ==
  /\ Alive
  /\ bus = "prepare"
  /\ \/ /\ Misuse
        /\ UNCHANGED <<bus, check>>
     \/ /\ Opened
        /\ check' = [check EXCEPT !.ip = req.ip, !.wait = TRUE]
        /\ bus' = "verify"
        /\ UNCHANGED fault
  /\ NoPacket
  /\ UNCHANGED <<watchVars, owner, req, tries, got,
                 answers, rejected, twice, heard>>

\* ipwd_check_context_verify: the device that probes for an accepted address,
\* 0 when there is none.  Without a name, the first usable device of the same
\* network, or else the last usable one.
InNet(t) == {d \in Device : Usable(d) /\ Net[os[d]] = Net[t]}

ChosenDevice(t, misc) ==
  CHOOSE d \in 0 .. DevNum :
    IF misc # NoName
      THEN d = IF misc \in Device /\ Usable(misc) THEN misc ELSE 0
    ELSE IF InNet(t) # {}
      THEN d \in InNet(t) /\ \A e \in InNet(t) : d <= e
    ELSE /\ d # 0 => Usable(d)
         /\ \A e \in Device : Usable(e) => e <= d

\* The address itself is refused before check_context.dev is reset.
RefusedText(t) == t \in BadText \cup {NoIp}

VerifiedDevice ==
  IF RefusedText(req.ip) THEN check.dev ELSE ChosenDevice(req.ip, req.misc)

\* A refused request is answered and unlocked here, and goes on all the same.
BusVerify ==
  /\ Alive
  /\ bus = "verify"
  /\ IF ~RefusedText(req.ip) /\ watcher = "done"
       THEN /\ fault' = "freed"
            /\ UNCHANGED <<check, rejected, answers, owner, tries, bus>>
       ELSE LET ok == ~RefusedText(req.ip) /\ VerifiedDevice # 0
            IN  /\ check' = [check EXCEPT !.dev = VerifiedDevice, !.wait = ok]
                /\ rejected' = ~ok
                /\ answers' = IF ok THEN <<>> ELSE <<NoMac>>
                /\ IF ok THEN UNCHANGED owner ELSE Release
                /\ tries' = 0
                /\ bus' = "probe"
                /\ UNCHANGED fault
  /\ NoPacket
  /\ UNCHANGED <<watchVars, req, got, twice, heard>>

\* ipwd_genarp refuses an address or a card it cannot parse; the probe that
\* does go out is captured like any other packet.
Probes ==
  IF check.dev # 0 /\ check.ip \notin BadText
    THEN {<<>>, <<[sip |-> NoIp, smac |-> DevMac[check.dev]]>>}
    ELSE {<<>>}

\* A probe, a pause, and pcap_dispatch begins.
BusProbe ==
  /\ Alive
  /\ bus = "probe"
  /\ \E sent \in Probes :
       /\ Len(ring) + Len(sent) <= RingSize
       /\ ring' = ring \o sent
  /\ got' = FALSE
  /\ \/ /\ Misuse
        /\ UNCHANGED bus
     \/ /\ Opened
        /\ bus' = "dispatch"
        /\ UNCHANGED fault
  /\ arps' = {}
  /\ UNCHANGED <<os, hostIp, recordVars, check, watchVars, owner, req, tries,
                 answers, rejected, twice, heard>>

BusAnalyse ==
  /\ Alive
  /\ bus = "dispatch"
  /\ AnalyseHead
  /\ Hear(Head(ring))
  /\ got' = TRUE
  /\ UNCHANGED <<watchVars, owner, bus, req, tries, answers, rejected, twice, fault>>

\* Variant: one round too many.
BusDispatchedLate ==
  /\ Alive
  /\ bus = "dispatch"
  /\ tries' = tries + 1
  /\ bus' = IF (got /\ check.found # NoMac) \/ tries = PcapMaxTimes THEN "reply" ELSE "probe"
  /\ got' = FALSE
  /\ NoPacket
  /\ UNCHANGED <<check, watchVars, owner, req, answers, rejected, twice, heard, fault>>

\* The dispatch returns its count; the loop ends on an answer or after PCAP_MAX_TIMES.
BusDispatched ==
  /\ Alive
  /\ bus = "dispatch"
  /\ tries' = tries + 1
  /\ bus' = IF (got /\ check.found # NoMac) \/ tries + 1 = PcapMaxTimes
              THEN "reply" ELSE "probe"
  /\ got' = FALSE
  /\ NoPacket
  /\ UNCHANGED <<check, watchVars, owner, req,
                 answers, rejected, twice, heard, fault>>

\* The reply: the card found, or "".
BusReply ==
  /\ Alive
  /\ bus = "reply"
  /\ answers' = Append(answers, check.found)
  /\ bus' = "clear"
  /\ NoPacket
  /\ UNCHANGED <<check, watchVars, owner, req, tries, got, rejected, twice, heard, fault>>

\* Variant: the card found is kept.
BusClearNot ==
  /\ Alive
  /\ bus = "clear"
  /\ bus' = "unlock"
  /\ NoPacket
  /\ UNCHANGED <<check, watchVars, owner, req, tries, got, answers, rejected, twice, heard, fault>>

\* The card is freed.
BusClear ==
  /\ Alive
  /\ bus = "clear"
  /\ check' = [check EXCEPT !.found = NoMac]
  /\ bus' = "unlock"
  /\ NoPacket
  /\ UNCHANGED <<watchVars, owner, req, tries, got, answers, rejected, twice, heard, fault>>

\* The variables of the call are gone when it returns.
EndOfCall ==
  /\ bus' = "idle"
  /\ tries' = 0
  /\ got' = FALSE
  /\ heard' = {}
  /\ twice' = (twice \/ rejected)
  /\ NoPacket
  /\ UNCHANGED <<watchVars, req, answers, rejected, fault>>

\* Variants: the check goes on; the lock is kept.
BusUnlockKeepsWaiting ==
  /\ Alive
  /\ bus = "unlock"
  /\ UNCHANGED check
  /\ Release
  /\ EndOfCall
BusUnlockNot ==
  /\ Alive
  /\ bus = "unlock"
  /\ check' = [check EXCEPT !.wait = FALSE]
  /\ UNCHANGED owner
  /\ EndOfCall

\* The end of the check and the unlock, for a refused request too.
BusUnlock ==
  /\ Alive
  /\ bus = "unlock"
  /\ check' = [check EXCEPT !.wait = FALSE]
  /\ Release
  /\ EndOfCall

-----------------------------------------------------------------------------
(* Undefined behaviour *)

\* What the bus thread does between its lock and its last unlock.
Serving == bus \in {"prepare", "verify", "probe", "dispatch", "reply", "clear", "unlock"}

\* ipwd_analyse emits a signal for packet p.
Emits(p) == ~FromLocal(p) /\ RaisedKeys(p) \cup ResolvedKeys(p) # {}

\* Data races, which may bite or not: both threads work on the handle or on the
\* check at once; one dispatches on a capture that the other is setting up, or
\* whose filter was never set, and reads anything as an ARP packet; one emits a
\* signal on the connection that the other is serving.
Race ==
  /\ Alive
  /\ \/ watcher = "dispatch" /\ Serving /\ fault' = "race"
     \/ bus = "dispatch" /\ handle = "raw" /\ fault' = "raw"
     \/ /\ watcher = "dispatch" /\ hand = NoMac
        /\ ring # <<>> /\ Emits(Head(ring))
        /\ fault' = "bus"
  /\ NoPacket
  /\ UNCHANGED <<check, watcher, hand, owner, handle, exitFlag, busVars, heard>>

Watcher ==
  \/ StartUp \/ SetUp \/ TestExit \/ WatcherLock \/ WatcherAnalyse \/ WatcherStore
  \/ WatcherUnlock \/ WatcherDestroy \/ WatcherClose \/ WatcherFree

Bus ==
  \/ BusLock \/ BusPrepare \/ BusVerify \/ BusProbe \/ BusAnalyse
  \/ BusDispatched \/ BusReply \/ BusClear \/ BusUnlock

\* Nothing is said of what comes after undefined behaviour.
Next ==
  \/ DSMRegister
  \/ DSMUnRegister
  \/ \E r \in Asked : BusRequest(r)
  \/ Watcher
  \/ Bus
  \/ Race
  \/ Alive /\ World /\ UNCHANGED threadVars

Spec == Init /\ [][Next]_vars

(* Each thread goes on when it can.  A dispatch ends if packets come while   *)
(* it waits: its read time-out may not begin to run before the first one.    *)
(* That packets come is an assumption about the network; that each of two    *)
(* dispatches gets some of them, about libpcap, and needed only after a      *)
(* refused request.  The lock is not a fair one: that a waiting thread gets  *)
(* it in the end rests on the usleep that the watcher takes without it.      *)
DispatchesEnd ==
  /\ []<><<WatcherAnalyse>>_vars => []<>(watcher # "dispatch")
  /\ []<><<BusAnalyse>>_vars => []<>(bus # "dispatch")

Traffic == (\E d \in Device : SendLocal(d)) /\ UNCHANGED threadVars

FairSpec ==
  /\ Spec
  /\ WF_vars(StartUp) /\ WF_vars(SetUp) /\ WF_vars(TestExit) /\ SF_vars(WatcherLock)
  /\ SF_vars(WatcherAnalyse) /\ WF_vars(WatcherStore)
  /\ WF_vars(WatcherDestroy) /\ WF_vars(WatcherClose) /\ WF_vars(WatcherFree)
  /\ SF_vars(BusLock) /\ WF_vars(BusPrepare) /\ WF_vars(BusVerify) /\ WF_vars(BusProbe)
  /\ SF_vars(BusAnalyse) /\ WF_vars(BusReply) /\ WF_vars(BusClear) /\ WF_vars(BusUnlock)
  /\ WF_vars(Traffic)
  /\ DispatchesEnd

-----------------------------------------------------------------------------
(* Safety *)

ThreadTypeOK ==
  /\ watcher \in {"off", "init", "setup", "loop", "lock", "dispatch", "destroy",
                  "close", "free", "done", "failed"}
  /\ hand \in Mac \cup {NoMac}
  /\ bus \in {"idle", "lock", "prepare", "verify", "probe", "dispatch", "reply",
              "clear", "unlock"}
  /\ owner \in {"free", "watcher", "bus", "destroyed"}
  /\ handle \in {"null", "raw", "open", "closed"}
  /\ exitFlag \in BOOLEAN
  /\ req \in Request
  /\ tries \in 0 .. PcapMaxTimes
  /\ got \in BOOLEAN
  /\ answers \in Seq(Mac \cup {NoMac}) /\ Len(answers) <= 2
  /\ rejected \in BOOLEAN
  /\ twice \in BOOLEAN
  /\ heard \subseteq Mac
  /\ fault \in {"none", "null", "closed", "freed", "race", "raw", "bus"}

TypeOK == ArpTypeOK /\ ThreadTypeOK

\* While a request that is not refused is served, the watching thread analyses
\* no packet, also while the plugin is being unloaded, as long as no earlier
\* request has unlocked the mutex twice.  (Once it has left its loop the thread
\* may still close the capture and free table and list under the request:
\* ReleasedIsNotUsed.)
ServedAlone ==
  Serving /\ ~rejected /\ ~twice => watcher # "dispatch"

\* While the watching thread is in its loop and not told to leave it, and no
\* request was ever refused, the capture, the table, the list and the check are
\* not used in an undefined way: the two dispatches never overlap, and nothing is
\* used closed or freed.  (A request that comes before the loop may find the
\* capture missing or half set up, and ends there; and the connection to the bus
\* is another matter: both threads send on it.)
SoundInService ==
  watcher \in {"loop", "lock", "dispatch"} /\ ~exitFlag /\ ~rejected /\ ~twice
    => fault \in {"none", "bus"}

\* As long as the mutex has not been unlocked twice: the card named in the
\* answer claimed the address asked about in a packet analysed for this very
\* request; a refused request names no card; and when a request that spells the
\* address as packets do was accepted and foreign cards were heard, one is named.
AnswerIsHeard ==
  bus = "reply" /\ Alive /\ ~twice =>
    /\ check.found # NoMac => ~rejected /\ check.found \in heard
    /\ ~rejected /\ req.ip \notin OddText /\ (heard \ {DevMac[check.dev]}) # {}
         => check.found # NoMac

\* The card that an address check settles on is never that of a configured
\* interface of the machine, not even of one with the address asked about,
\* whichever thread comes across it.
OwnCardNotNamed ==
  [][\A d \in Device :
       Usable(d) => DevMac[d] \notin {check'.found, hand'} \ {check.found, hand}]_vars

\* The mutex is never abandoned: who holds it is between a lock and an unlock,
\* also after a refused request has unlocked once too often.  (The other half
\* of ServedAlone; without it a thread waits for a lock nobody will release.)
LockHasHolder ==
  /\ owner = "watcher" => watcher = "dispatch"
  /\ owner = "bus" => Serving

\* Between requests nothing of the last one is left to answer the next with, as
\* long as the mutex has not been unlocked twice.  (From then on the watching
\* thread may store a card that it judged before the check was cleared.)
ContextIsClean ==
  bus \in {"idle", "lock", "prepare"} /\ ~twice => ~check.wait /\ check.found = NoMac

-----------------------------------------------------------------------------
(* Refinement *)

\* What the client of a request sees: the first of its replies.  A refused
\* request is over for the client when it is declined.
InUse == {d \in Device : Usable(d)}

CallPhase ==
  IF bus = "idle" \/ answers # <<>> THEN "idle"
  ELSE IF bus \in {"lock", "prepare", "verify"} THEN "asked"
  ELSE "accepted"

CallClaims == IF answers = <<>> THEN heard ELSE {}

CallAnswer == IF answers = <<>> THEN NoMac ELSE answers[1]

Check == INSTANCE AddressCheck
  WITH Acceptable <- IP \cup OddText, Plain <- IP, Name <- 0 .. DevNum + 1,
       AnyInterface <- NoName, Interface <- Device, CardOf <- DevMac, Card <- Mac,
       NoCard <- NoMac, up <- InUse, phase <- CallPhase, ask <- req, claims <- CallClaims,
       answer <- CallAnswer, void <- twice

\* The requests are served as AddressCheck allows, by two threads that share
\* the check in progress, until the mutex has been unlocked twice.
ImplementsCheck == Check!Spec

-----------------------------------------------------------------------------
(* Liveness *)

\* If packets keep coming, a request that waits for the mutex gets it and is
\* answered, or undefined behaviour is met.
RequestAnswered == bus = "lock" ~> bus = "idle" \/ ~Alive

\* If packets keep coming, the watching thread ends after DSMUnRegister, or
\* undefined behaviour is met.
StopStops == exitFlag ~> watcher \in {"done", "failed"} \/ ~Alive

-----------------------------------------------------------------------------
(* What the comments of the code say and the code does not do *)

\* plugin.c:25: DSMUnRegister "is for releasing resources".  A resource that
\* it causes to be released is not used afterwards.
ReleasedIsNotUsed == fault # "closed"
=============================================================================
