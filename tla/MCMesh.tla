------------------------------- MODULE MCMesh -------------------------------
(* Instances of Mesh for TLC. *)
EXTENDS Mesh, TLC

CONSTANTS r, a, b, c

(* Everybody hears everybody. *)
MCRange == (Nodes \X Nodes) \ {<<n, n>> : n \in Nodes}

(* A line r - a - b - c whose end hears a, but not the root.                *)
MCRing ==
    LET links == {<<r, a>>, <<a, b>>, <<b, c>>, <<c, a>>}
    IN  links \cup {<<l[2], l[1]>> : l \in links}

(* A change of state that has children is heard of by each of them.         *)
NewsSent ==
    \A n \in Nodes : state'[n] # state[n] =>
      \A m \in children[n] : \E k \in 1..Len(rx'[m]) :
        rx'[m][k].hop = n /\ rx'[m][k].kind \in NewsKinds

(* Behaviours of FairSpec in which the news of the root is neither lost nor *)
(* late, no node reboots, and only a's link ever fails.                     *)
LinkFails ==
    /\ \E n \in Nodes :
         \/ HandlePacket(n) \/ HandleStatus(n)
         \/ \E m \in Nodes : Ask(n, m)
         \/ n = a /\ DropParent(n)
    /\ NewsSent /\ UNCHANGED late

LinkFailsSpec == Init /\ [][LinkFails]_vars /\ Fairness
=============================================================================
