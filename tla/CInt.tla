--------------------------------- MODULE CInt ---------------------------------
(***************************************************************************)
(* What becomes of a whole number that is stored in an int: the compilers  *)
(* the code is built with keep its low bits.                               *)
(***************************************************************************)
EXTENDS Integers, TLAPS

CONSTANT IntHalf   \* half of the numbers an int tells apart: 2^31

ASSUME IntAssumption == IntHalf \in Nat \ {0}

IntRange == -IntHalf .. IntHalf - 1

ToInt(n) == ((n + IntHalf) % (2 * IntHalf)) - IntHalf

\* A conversion ends in the range of an int and changes no number that is there
\* already: the assignment of config.c:248, the casts of wallpaperscheduler.cpp.
LEMMA ToIntFact ==
  ASSUME NEW n \in Int
  PROVE  /\ ToInt(n) \in IntRange
         /\ n \in IntRange => ToInt(n) = n
<1> DEFINE w == 2 * IntHalf
           m == n + IntHalf
<1>1. IntHalf \in Nat /\ IntHalf > 0 /\ w \in Nat /\ w > 0 /\ m \in Int
  BY IntAssumption
<1>2. \A a, b \in Int : b > 0 => a % b \in 0 .. b - 1
  OBVIOUS
<1>3. \A a, b \in Int : b > 0 /\ 0 <= a /\ a < b => a % b = a
  OBVIOUS
<1>4. m % w \in 0 .. w - 1 /\ (0 <= m /\ m < w => m % w = m)
  <2> HIDE DEF m, w
  <2> QED
    BY <1>1, <1>2, <1>3
<1>5. ToInt(n) = (m % w) - IntHalf
  BY DEF ToInt
<1>6. n \in IntRange => 0 <= m /\ m < w
  BY <1>1 DEF IntRange
<1> DEFINE r == m % w
<1>7. r \in 0 .. w - 1 /\ (0 <= m /\ m < w => r = m) /\ ToInt(n) = r - IntHalf
  BY <1>4, <1>5
<1> HIDE DEF r
<1> QED
  BY <1>1, <1>6, <1>7 DEF IntRange
===============================================================================
