--------------------------- MODULE MCConflictWatch ---------------------------
(* Values of the constants of ConflictWatch for TLC. *)
EXTENDS ConflictWatch, TLC

CONSTANTS a, b, m1, m2, h1, h2

OneCard       == <<m1>>
TwoCards      == <<m1, m2>>
FirstActive   == {1}
BothActive    == {1, 2}

HostSymmetry  == Permutations(Host)
=============================================================================
