---------------------------- MODULE MCThemeManager ----------------------------
(* Small instances of ThemeManager for TLC. *)
EXTENDS ThemeManager, TLC

CONSTANTS nowhere

At(h)  == [kind |-> "hour", hour |-> h]
NoSet  == [kind |-> "always", hour |-> 0]

\* Auckland's day begins on the day before in UTC; Tromso, where the sun rises
\* one hour after midnight for a day that does not end; Svalbard in summer;
\* Nome, where the sun of June sets after midnight; and a zone without
\* coordinates.
Offsets == ("auckland" :> 12) @@ ("tromso" :> 2) @@ ("svalbard" :> 2)
           @@ ("other" :> -3) @@ ("nome" :> -8)
Suns ==
  ("auckland" :> [rise |-> At(-5), set |-> At(6)]) @@
  ("tromso"   :> [rise |-> At(23), set |-> NoSet]) @@
  ("svalbard" :> [rise |-> NoSet, set |-> NoSet]) @@
  ("nome"     :> [rise |-> At(12), set |-> At(33)]) @@
  (Nowhere    :> [rise |-> At(9), set |-> At(29)])

OffsetOf == [z \in Zone |-> Offsets[z]]
SunOf == [p \in Place |-> Suns[p]]
=============================================================================
