----------------------------- MODULE Attachment -----------------------------
(***************************************************************************)
(* What a node's connection promises to the rest of the node: at any time  *)
(* it has at most one parent, which it asked before, and it claims to      *)
(* reach the root only through a parent.  MeshNode implements it.          *)
(***************************************************************************)
CONSTANTS Nodes, NoNode

VARIABLES
    parent,    \* the node attached to, or NoNode
    asked,     \* the node whose answer is awaited, or NoNode
    reach      \* the root is claimed to be reachable

vars == <<parent, asked, reach>>

Init == parent = NoNode /\ asked = NoNode /\ reach = FALSE

(* A node without a parent asks another node, one at a time. *)
Ask(m) == parent = NoNode /\ asked' = m /\ UNCHANGED <<parent, reach>>

GiveUp == asked' = NoNode /\ UNCHANGED <<parent, reach>>

(* The node asked answers. *)
Attach ==
    /\ parent = NoNode /\ asked # NoNode
    /\ parent' = asked /\ asked' = NoNode /\ reach' = TRUE

(* The parent says whether it reaches the root. *)
Hear == parent # NoNode /\ reach' \in BOOLEAN /\ UNCHANGED <<parent, asked>>

Detach == parent' = NoNode /\ asked' = NoNode /\ reach' = FALSE

Next == (\E m \in Nodes : Ask(m)) \/ GiveUp \/ Attach \/ Hear \/ Detach

Spec == Init /\ [][Next]_vars
=============================================================================
