----------------------------- MODULE MCFragments -----------------------------
(* An instance of Fragments for TLC: two senders with the same id, frames   *)
(* of three, two and one fragments, one of which is filled to the last byte.*)
EXTENDS Fragments

CONSTANTS a, b

Frame(src, id, len) == [src |-> src, id |-> id, len |-> len]

MCFrames == {Frame(a, 1, 5), Frame(b, 1, 4), Frame(a, 2, 2)}
=============================================================================
