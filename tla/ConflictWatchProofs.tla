-------------------------- MODULE ConflictWatchProofs --------------------------
(***************************************************************************)
(* Proofs about passive watching, for any number of devices, hosts and     *)
(* addresses, any interval, any count and any size of the capture buffer.  *)
(***************************************************************************)
EXTENDS ConflictWatch, ArpAnalyseProofs

-----------------------------------------------------------------------------
(* Types *)

\* The initial state is well typed.
LEMMA InitTyped == Init => ArpTypeOK
BY ArpInitTyped DEF Init

\* Every step keeps the types.
LEMMA NextTyped == ArpTypeOK /\ [Next]_arpVars => ArpTypeOK'
<1> SUFFICES ASSUME ArpTypeOK, [Next]_arpVars PROVE ArpTypeOK'
  OBVIOUS
<1>1. CASE Watch
  BY <1>1, AnalyseTyped DEF Watch
<1>2. CASE World
  BY <1>2, WorldTyped
<1>3. CASE UNCHANGED arpVars
  BY <1>3 DEF arpVars, ArpTypeOK
<1> QED
  BY <1>1, <1>2, <1>3 DEF Next

\* The state of the handler and of its world is always well typed.
THEOREM TypeCorrect == Spec => []ArpTypeOK
BY InitTyped, NextTyped, PTL DEF Spec

-----------------------------------------------------------------------------
\* A step either leaves records, announcements and history alone or analyses
\* the packet at the head of the buffer, one that is not local.
LEMMA StepCases ==
  ASSUME ArpTypeOK, [Next]_arpVars
  PROVE  \/ UNCHANGED <<record, told, calm>>
         \/ \E p \in Packet : ~FromLocal(p) /\ UpdateRecords(p) /\ UpdateHistory(p)
<1>1. CASE Watch
  BY <1>1, AnalyseCases DEF Watch, AnalyseHead
<1>2. CASE World
  BY <1>2, WorldIsQuiet
<1>3. CASE UNCHANGED arpVars
  BY <1>3 DEF arpVars
<1> QED
  BY <1>1, <1>2, <1>3 DEF Next

-----------------------------------------------------------------------------
(* The list of conflicts *)

\* The list is empty at first.
LEMMA ListInit == Init => ListInv
BY ListAtFirst DEF Init

\* Every step keeps the invariant of the list.
LEMMA ListNext == ListInv /\ [Next]_arpVars => ListInv'
<1> SUFFICES ASSUME ListInv, [Next]_arpVars PROVE ListInv'
  OBVIOUS
<1>1. ArpTypeOK /\ ArpTypeOK'
  BY NextTyped DEF ListInv
<1>2. CASE UNCHANGED <<record, told, calm>>
  BY <1>1, <1>2 DEF ListInv, ToldIsRecorded, CountIsBacked
<1>3. ASSUME NEW p \in Packet, ~FromLocal(p), UpdateRecords(p), UpdateHistory(p)
      PROVE  ListInv'
  BY <1>1, <1>3, ListKept DEF ListInv
<1> QED
  BY <1>1, <1>2, <1>3, StepCases

\* The clients know exactly the conflicts in the list.
THEOREM ClientsKnowTheList == Spec => []ToldIsRecorded
<1>1. Spec => []ListInv
  BY ListInit, ListNext, PTL DEF Spec
<1> QED
  BY <1>1, PTL DEF ListInv

\* A count runs down no faster than packets without a claim arrive.
THEOREM CountsAreBacked == Spec => []CountIsBacked
<1>1. Spec => []ListInv
  BY ListInit, ListNext, PTL DEF Spec
<1> QED
  BY <1>1, PTL DEF ListInv

-----------------------------------------------------------------------------
(* What a step never does *)

\* No configured interface of the machine is ever announced as a foreign card.
THEOREM OwnCardsAreSafe == Spec => OwnCardNotAccused
<1>1. ArpTypeOK /\ [Next]_arpVars =>
        \A k \in told' \ told : \A d \in Device : DevMac[d] = k[3] => ~Usable(d)
  <2> SUFFICES ASSUME ArpTypeOK, [Next]_arpVars, NEW k \in told' \ told,
                      NEW d \in Device, DevMac[d] = k[3]
               PROVE  ~Usable(d)
    OBVIOUS
  <2>1. PICK p \in Packet : ~FromLocal(p) /\ UpdateRecords(p)
    BY StepCases
  <2>2. k \in RaisedKeys(p)
    BY <2>1 DEF UpdateRecords
  <2> QED
    BY <2>1, <2>2, KeysDisjoint
<1> QED
  BY <1>1, TypeCorrect, PTL DEF Spec, OwnCardNotAccused

\* A conflict about an address that no local card holds is neither announced
\* nor resolved, whatever the hosts send.
THEOREM StaleStaysFrozen == Spec => StaleConflictsFrozen
<1>1. ASSUME ArpTypeOK, [Next]_arpVars, NEW k \in Key,
             \A d \in Device : os[d] = k[1] => DevMac[d] # k[2]
      PROVE  k \in told' <=> k \in told
  <2>1. CASE UNCHANGED <<record, told, calm>>
    BY <2>1
  <2>2. ASSUME NEW p \in Packet, UpdateRecords(p) PROVE k \in told' <=> k \in told
    <3>1. \A d \in Visited(p) : KeyOf(d, p) # k
      BY <1>1 DEF Visited, KeyOf
    <3>2. k \notin RaisedKeys(p) /\ k \notin ResolvedKeys(p)
      BY <3>1 DEF Raised, RaisedKeys, CalmedKeys, ResolvedKeys
    <3> QED
      BY <2>2, <3>2 DEF UpdateRecords
  <2> QED
    BY <1>1, <2>1, <2>2, StepCases
<1>2. ArpTypeOK /\ [Next]_arpVars
      => [\A k \in Key : (\A d \in Device : os[d] = k[1] => DevMac[d] # k[2])
                           => (k \in told' <=> k \in told)]_arpVars
  BY <1>1
<1> QED
  BY <1>2, TypeCorrect, PTL DEF Spec, StaleConflictsFrozen

\* On a clock that is never stepped, the age of a conflict is its real age.
ClockInv == ArpTypeOK /\ age = real

\* The age of a conflict is its real age at all times, where no step happens.
LEMMA ClockInvariant ==
  ASSUME MaxStep = 0
  PROVE  Spec => []ClockInv
<1>1. Init => ClockInv
  BY InitTyped DEF Init, ArpInit, ClockInv
<1>2. ClockInv /\ [Next]_arpVars => ClockInv'
  <2> SUFFICES ASSUME ClockInv, [Next]_arpVars PROVE age' = real'
    BY NextTyped DEF ClockInv
  <2>1. CASE Watch
    <3>1. Analyse(Head(ring))
      BY <2>1 DEF Watch, AnalyseHead, TakeHead
    <3> QED
      BY <3>1 DEF Analyse, UpdateRecords, UpdateHistory, TimeSince, ClockInv
  <2>2. CASE World
    <3>1. (-MaxStep .. MaxStep) \ {0} = {}
      OBVIOUS
    <3>2. CASE Tick
      BY <3>2 DEF Tick, ClockInv
    <3> QED
      BY <2>2, <3>1, <3>2 DEF World, SendRemote, SendLocal, Capture, Rebind, Reconfigure,
                              recordVars, ClockInv
  <2>3. CASE UNCHANGED arpVars
    BY <2>3 DEF arpVars, ClockInv
  <2> QED
    BY <2>1, <2>2, <2>3 DEF Next
<1> QED
  BY <1>1, <1>2, PTL DEF Spec

\* On such a clock, defensive packets of a device are spaced in real time.
THEOREM DefencesAreSpaced ==
  ASSUME MaxStep = 0
  PROVE  Spec => DefendSpacing
<1>1. ClockInv /\ [Next]_arpVars =>
        [\A x \in arps' : real[x.dev] >= DefendInterval]_arpVars
  <2> SUFFICES ASSUME ClockInv, Next, NEW x \in arps'
               PROVE  real[x.dev] >= DefendInterval
    OBVIOUS
  <2>1. Watch
    BY DEF Next, World, SendRemote, SendLocal, Capture, Rebind, Reconfigure, Tick, ClockStep
  <2> DEFINE p == Head(ring)
  <2>2. arps' \subseteq DefensiveArps(p)
    BY <2>1 DEF Watch, AnalyseHead, TakeHead, Analyse, SendArps
  <2>3. x.dev \in Raised(p)
    BY <2>2 DEF DefensiveArps
  <2>4. ~LeavesLoop(x.dev, p) /\ Usable(x.dev) /\ Conflicts(x.dev, p) /\ x.dev \in Device
    BY <2>3 DEF Raised, Visited, Device
  <2>5. age[x.dev] \in Int
    BY <2>4 DEF ClockInv, ArpTypeOK
  <2> QED
    BY <2>4, <2>5, BoundAssumption DEF LeavesLoop, ClockInv
<1> QED
  BY <1>1, ClockInvariant, PTL DEF Spec, DefendSpacing

-----------------------------------------------------------------------------
(* Refinement *)

\* The announcements are those that ConflictNotice allows.
THEOREM NoticeRefined == Spec => ImplementsNotice
<1>1. Init => Notice!Init
  BY NoticeAtFirst DEF Init
<1>2. ListInv /\ [Next]_arpVars => [Notice!Next]_<<told, calm>>
  <2> SUFFICES ASSUME ListInv, [Next]_arpVars, <<told, calm>>' # <<told, calm>>
               PROVE  Notice!Next
    OBVIOUS
  <2>1. PICK p \in Packet : ~FromLocal(p) /\ UpdateRecords(p) /\ UpdateHistory(p)
    BY StepCases DEF ListInv
  <2> QED
    BY <2>1, NoticeStep DEF ListInv
<1>3. Spec => []ListInv
  BY ListInit, ListNext, PTL DEF Spec
<1> QED
  BY <1>1, <1>2, <1>3, PTL DEF Spec, ImplementsNotice, Notice!Spec
=============================================================================
