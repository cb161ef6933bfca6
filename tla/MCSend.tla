------------------------------- MODULE MCSend -------------------------------
(* Instances of Send for TLC. *)
EXTENDS Send

CONSTANTS p, c, far

MCNeighbors == {p, c}
MCFar == {far}

Item(id, behavior, to, prev_hop) ==
    [id |-> id, behavior |-> behavior, to |-> to, prev_hop |-> prev_hop]

(* One packet of each behaviour that is retried: a broadcast that came from *)
(* c, and a packet for a far node.                                          *)
MCItems ==
    {Item(1, "DownstreamRetry", NoNode, NoNode),
     Item(2, "UpstreamRetry", NoNode, NoNode),
     Item(3, "FullyResolve", far, Self),
     Item(4, "FullyResolve", Broadcast, c)}
=============================================================================
