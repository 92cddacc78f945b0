------------------------------- MODULE MCOutput -------------------------------
(***************************************************************************)
(* An instance of Output for TLC.                                          *)
(***************************************************************************)
EXTENDS Output

(* A whole character, and one whose bytes are in two pieces. *)
FourPieces == 0 :> <<LEAD, TRAIL>> @@ 1 :> <<"a">> @@ 2 :> <<"b", LEAD>> @@ 3 :> <<TRAIL, "a">>

(* Equal ones, and a penalty that reverses an order, are among the choices. *)
ThreeScores == {-2, 2, 4}

(* Strings that cross pieces and end in the middle of one; the second begins
   before the first where both are in the text. *)
ThreeStops == <<<<"a", "b">>, <<"a", "a", "b">>, <<CHAR, "a">>>>
=============================================================================
