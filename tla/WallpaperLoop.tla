----------------------------- MODULE WallpaperLoop -----------------------------
(***************************************************************************)
(* The rotation of one slide show: which wallpapers it has shown and which *)
(* it may show next.                                                       *)
(*                                                                         *)
(* allList is what the disk holds of the loop's type; it is read when it   *)
(* is next needed after every change of the type, so it is not kept here.  *)
(* The order of showedList tells nothing, and it holds no image twice.     *)
(***************************************************************************)
EXTENDS Naturals

CONSTANTS
  Kind,     \* the types of wallpapers (BT_Solid, BT_Custom, BT_Sys)
  Custom,   \* BT_Custom
  Paper     \* the wallpapers of each type on the disk

ASSUME LoopAssumption ==
  /\ Custom \in Kind
  /\ Paper = [t \in Kind |-> Paper[t]]
  /\ \A t, u \in Kind : t # u => Paper[t] \cap Paper[u] = {}

AllPaper == UNION {Paper[t] : t \in Kind}

Loop == [kind : Kind, showed : SUBSET AllPaper]

\* A loop as it is made, and as updateWallpaperType leaves it.
NewLoop(t) == [kind |-> t, showed |-> {}]

\* getNotShowed
NotShowed(l) == Paper[l.kind] \ l.showed

\* getNext: an image not shown in this round, or any image of a new round;
\* none at all if there is none on the disk.
NextShow(l) == IF NotShowed(l) # {} THEN NotShowed(l) ELSE Paper[l.kind]

\* What getNext leaves behind when it has chosen w.
Showing(l, w) ==
  [l EXCEPT !.showed = IF NotShowed(l) # {} THEN @ \cup {w} ELSE {w}]

\* addToShow of each of files that is not listed yet.
AddToShow(l, files) == [l EXCEPT !.showed = @ \cup files]
=============================================================================
