---------------------------- MODULE ConflictNotice ----------------------------
(***************************************************************************)
(* What IPwatchD promises to the D-Bus clients that listen to its signals  *)
(* IPConflict and IPConflictReslove: each conflict announced comes from a  *)
(* packet in which a foreign card claims the address, and each resolution  *)
(* comes after enough packets in which the same card does not claim it.    *)
(* Nothing is said here of lists, devices, defend intervals or sockets.    *)
(***************************************************************************)
EXTENDS Integers

CONSTANTS
  Address,   \* IP addresses
  NoAddress, \* the sender address of an ARP probe
  LocalCard, \* hardware addresses of the local interfaces
  Card,      \* hardware addresses
  Patience   \* packets without a claim that precede a resolution

Conflict == Address \X LocalCard \X Card

VARIABLES
  announced, \* conflicts announced and not resolved
  quiet      \* packets of the remote card without a claim since then, capped

Init ==
  /\ announced = {}
  /\ quiet = [k \in Conflict |-> 0]

Claimed(card, ip)   == {k \in Conflict : k[1] = ip /\ k[3] = card /\ k[2] # card}
Unclaimed(card, ip) == {k \in Conflict : k[1] # ip /\ k[3] = card}

More(n) == IF n < Patience THEN n + 1 ELSE n

\* A packet of a card that gives an address as its own.
Packet(card, ip) ==
  \E raised \in SUBSET Claimed(card, ip) :
    \E resolved \in SUBSET {k \in Unclaimed(card, ip) \cap announced : quiet[k] >= Patience} :
      /\ announced' = (announced \cup raised) \ resolved
      /\ quiet' = [k \in Conflict |->
                     IF k \in raised \cup resolved \/ k \notin announced THEN 0
                     ELSE IF k \in Unclaimed(card, ip) THEN More(quiet[k])
                     ELSE quiet[k]]

Next == \E card \in Card, ip \in Address \cup {NoAddress} : Packet(card, ip)

Spec == Init /\ [][Next]_<<announced, quiet>>
=============================================================================
