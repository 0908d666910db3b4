----------------------------- MODULE MCIpwatchd -----------------------------
(* Values of the constants of Ipwatchd for TLC. *)
EXTENDS Ipwatchd

CONSTANTS a, b, odd, m1, m2, h1, h2

OneCard     == <<m1>>
TwoCards    == <<m1, m2>>
Passive     == {}
Spelled     == [t \in OddText |-> a]
\* A plain request, and one that names the device and spells the address in
\* another way; either is refused while the device has no address.
TwoAsked    == {[ip |-> a, misc |-> NoName], [ip |-> odd, misc |-> 1]}

\* One that is always refused for its text, next to a plain one.
OneRefused  == {[ip |-> a, misc |-> NoName], [ip |-> NoIp, misc |-> 1]}
OneNet      == [t \in IP \cup OddText |-> 1]
=============================================================================
