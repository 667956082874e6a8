----------------------------- MODULE MCDesktop -----------------------------
(* A screen of two by two pixels with the button in its corner.  -1 is a   *)
(* movement byte with bit 3 set, 0 and 1 have it clear; 9 has the left     *)
(* button down.  The font ends as the real one does.                       *)
EXTENDS Desktop

MCStart == [x |-> 1, y |-> 1]
MCHeads == {8, 9}
MCMoves == {-1, 0, 1}
MCFont == <<"1", " ", ".", ",", ":", "-", "!", "?">>
=============================================================================
