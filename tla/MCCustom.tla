------------------------------ MODULE MCCustom ------------------------------
(* Instances of Custom for TLC. *)
EXTENDS Custom

CONSTANTS h1, h2, h3

Symmetry == Permutations(Handles)

(* The last and the first piece of a frame, and a message.                  *)
MCItems ==
    {Piece(1500, 6, "frame"), Piece(1500, 0, "frame"),
     CustomData(228, "a message")}

(* A message, the longest whose packet the radio takes, and the longest     *)
(* that meshnow_send takes.                                                 *)
MCMessages == {CustomData(l, "a message") : l \in {128, 228, 230}}
=============================================================================
