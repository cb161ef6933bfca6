------------------------------ MODULE MCRouting ------------------------------
(* An instance of Routing for TLC: a root r, p that attaches to it or, far  *)
(* below, to y, x that attaches to r or p, moves, and takes y with it.  x   *)
(* may move below p when p is below y: the three are a cycle then.          *)
EXTENDS Routing

CONSTANTS r, p, x, y

MCCandidates == {<<p, r>>, <<p, y>>, <<x, r>>, <<x, p>>, <<y, x>>}
MCMaxJoins == [n \in Nodes |-> IF n = r THEN 0 ELSE IF n = x THEN 2 ELSE 1]
=============================================================================
