---------------------------- MODULE ConflictWatch ----------------------------
(***************************************************************************)
(* Passive watching: one thread captures ARP packets and analyses them, no *)
(* D-Bus request is served.  The handler is the one of ArpAnalyse.         *)
(***************************************************************************)
EXTENDS ArpAnalyse

\* One packet handed to ipwd_analyse by the pcap_dispatch of start_ipwatchd.
Watch == AnalyseHead

Init == ArpInit

Next == Watch \/ World

Spec == Init /\ [][Next]_arpVars

(* What the environment and the scheduler are assumed to do: the watching  *)
(* thread keeps dispatching, time goes on, and a host goes on sending      *)
(* packets, some of which find room in the capture buffer.                 *)
FairSpec ==
  /\ Spec
  /\ WF_arpVars(Watch)
  /\ WF_arpVars(Tick)
  /\ \A h \in Host : SF_arpVars(SendRemote(h))

-----------------------------------------------------------------------------
(* Safety *)

\* The machine never announces one of its own configured interfaces as the
\* other side of a conflict, even when two of them share an IP address or an
\* address moves between them while their packets wait in the buffer.
OwnCardNotAccused ==
  [][\A k \in told' \ told : \A d \in Device : DevMac[d] = k[3] => ~Usable(d)]_arpVars

\* ipwatchd.h:118: defend_interval is the "Minimum interval between defensive
\* ARPs".  In real time, for each device, while nobody steps the clock.
DefendSpacing ==
  [][\A x \in arps' : real[x.dev] >= DefendInterval]_arpVars

\* The conflicts of an address that no local card holds are frozen: neither
\* announced nor resolved.  The clients keep the last thing they heard.
StaleConflictsFrozen ==
  [][\A k \in Key :
       (\A d \in Device : os[d] = k[1] => DevMac[d] # k[2])
         => (k \in told' <=> k \in told)]_arpVars

-----------------------------------------------------------------------------
(* Liveness *)

\* A host that gives up an address we keep is eventually reported resolved,
\* and stays so.
GivenUpIsResolved ==
  \A d \in Device, h \in Host, ip \in IP :
    <>[](os[d] = ip /\ hostIp[h] # ip) => <>[](<<ip, DevMac[d], h>> \notin told)

\* An address claimed for ever by a host is announced and defended again and
\* again, however many claims the defend interval swallows in between.
StandingClaimDefended ==
  \A d \in Device, h \in Host, ip \in IP :
    <>[](os[d] = ip /\ hostIp[h] = ip) => []<>(real[d] = 0)

\* The same where the wall clock is stepped: a step back suspends the defence,
\* but not for ever unless the clock is set back again and again.
DefenceOutlivesSteps ==
  []<><<\E s \in -MaxStep .. -1 : ClockStep(s)>>_arpVars \/ StandingClaimDefended
=============================================================================
