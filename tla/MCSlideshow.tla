------------------------------ MODULE MCSlideshow ------------------------------
(* Small instances of Slideshow for TLC. *)
EXTENDS Slideshow, TLC

CONSTANTS
  a, b,             \* keys: two monitors, on the same workspace
  w1, x1, x2        \* images: of the system, and of the user

AllWords == {Login, Wakeup, Empty, Unknown}

TwoKinds == {"custom", "sys"}

OnePaper  == ("custom" :> {x1}) @@ ("sys" :> {w1})
OneCustom == "custom" :> {x1}
MixedPapers == ("custom" :> {x1, x2}) @@ ("sys" :> {})

\* A text in UTC that is read as local time may be one of the future.
Times == {-1, 0, 6}

OnOne == [s \in Space |-> 1]
=============================================================================
