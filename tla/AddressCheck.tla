----------------------------- MODULE AddressCheck -----------------------------
(***************************************************************************)
(* What IPwatchD promises to a D-Bus client that calls                     *)
(* RequestIPConflictCheck, in terms of the one reply the client sees: the  *)
(* request is accepted or declined by the interfaces there are at one      *)
(* moment of the call; a card in the reply has claimed the address during  *)
(* the call; and an empty reply to an accepted request that spells the     *)
(* address in the plain way means that no foreign card did.  Nothing is    *)
(* said here of threads, locks, probes or packets that wait.  At some      *)
(* point the service may stop to keep its promises for good.               *)
(***************************************************************************)

CONSTANTS
  Text,         \* what a client may write for an address
  Acceptable,   \* the texts that are addresses
  Plain,        \* those that are spelled as packets are written out
  Name,         \* what a client may write for an interface
  AnyInterface, \* the name that leaves the choice to the service
  Interface,    \* the interfaces that are watched, by name
  CardOf,       \* the hardware address of each
  Card,         \* hardware addresses
  NoCard        \* an empty reply

LocalCard == {CardOf[i] : i \in Interface}
Question  == [ip : Text, misc : Name]

VARIABLES
  up,      \* interfaces that have an address
  phase,   \* where the call is: idle, asked, accepted
  ask,     \* the question of the last call
  claims,  \* cards that have claimed the address during the call
  answer,  \* what the last call was answered, NoCard until it is
  void     \* nothing is promised any more

callVars == <<phase, ask, claims, answer>>
vars     == <<up, callVars, void>>

Init ==
  /\ up \subseteq Interface
  /\ phase = "idle"
  /\ ask \in Question
  /\ claims = {}
  /\ answer = NoCard
  /\ void = FALSE

Ask ==
  /\ phase = "idle"
  /\ phase' = "asked"
  /\ ask' \in Question
  /\ answer' = NoCard
  /\ UNCHANGED <<up, claims>>

\* A card that no interface in use has claims the address.
Claim(c) ==
  /\ phase # "idle"
  /\ \A i \in up : CardOf[i] # c
  /\ claims' = claims \cup {c}
  /\ UNCHANGED <<up, phase, ask, answer>>

\* The interfaces that may probe for the address.
Suitable == IF ask.misc = AnyInterface THEN up ELSE up \cap {ask.misc}

Accept ==
  /\ phase = "asked"
  /\ ask.ip \in Acceptable
  /\ Suitable # {}
  /\ phase' = "accepted"
  /\ UNCHANGED <<up, ask, claims, answer>>

Reply(c) ==
  /\ phase' = "idle"
  /\ answer' = c
  /\ claims' = {}
  /\ UNCHANGED <<up, ask>>

Decline ==
  /\ phase = "asked"
  /\ ask.ip \notin Acceptable \/ Suitable = {}
  /\ Reply(NoCard)

\* A machine may hear cards of its own interfaces that are not in use.
AnswerCall ==
  /\ phase = "accepted"
  /\ \/ \E c \in claims : Reply(c)
     \/ /\ ask.ip \in Plain => claims \subseteq LocalCard
        /\ Reply(NoCard)

Change ==
  /\ up' \subseteq Interface
  /\ UNCHANGED callVars

\* From here on anything may happen.
Break == void' = TRUE

Serve ==
  \/ Change
  \/ Ask
  \/ \E c \in Card : Claim(c)
  \/ Accept
  \/ Decline
  \/ AnswerCall

Next == Break \/ (UNCHANGED void /\ Serve)

Spec == Init /\ [][Next]_vars
=============================================================================
