------------------------------- MODULE Routing -------------------------------
(***************************************************************************)
(* The routing tables of a mesh of nodes: how they are learned from the    *)
(* packets that pass, announced and withdrawn (job/packet_handler.cpp,     *)
(* job/keep_alive.cpp), and how a packet finds its next hop by them        *)
(* (FullyResolve in send/def.cpp, layout.cpp).                             *)
(*                                                                         *)
(* A node has a table for each of its children, a sequence of addresses    *)
(* that may list one several times.  The table of a child is meant to hold *)
(* what is below it; it also holds the child itself, once a packet of its  *)
(* own was heard.                                                          *)
(*                                                                         *)
(* How nodes find parents is the matter of Mesh: here Attach is the whole  *)
(* exchange, whose answer may get lost.  A node that is without a parent   *)
(* keeps its children, and moves with them; nothing keeps parents from     *)
(* forming a cycle.  Packets are lost, at a full receive queue; those that *)
(* are not are handled in the order in which they were sent, hop by hop.   *)
(* The send queue is left to Send.  What it does beyond loss is to put a   *)
(* refused packet back behind later ones, and that order is assumed not to *)
(* matter here: a refused RoutingTableAdd is tried again, or dropped for   *)
(* want of a parent, before its node has another parent.                   *)
(***************************************************************************)
EXTENDS Integers, SequencesExt

CONSTANTS
    Nodes, Root, NoNode,
    ROOT,          \* the address of whoever is the root
    Candidates,    \* the pairs <<n, m>> such that m may become n's parent
    Askers,        \* the nodes whose IP stack talks to the root's
    Movers,        \* the nodes whose link to a parent may fail
    MAX_CHILDREN, RX_SIZE,
    MaxJoins       \* bound: how often each node is taken as a child

ASSUME NodesAssumption ==
    /\ Root \in Nodes /\ {NoNode, ROOT} \cap Nodes = {}
    /\ Candidates \subseteq (Nodes \ {Root}) \X Nodes
    /\ \A c \in Candidates : c[1] # c[2]
    /\ Askers \cup Movers \subseteq Nodes \ {Root}
ASSUME SizeAssumption ==
    /\ MAX_CHILDREN \in Nat \ {0} /\ RX_SIZE \in Nat \ {0}
    /\ MaxJoins \in [Nodes -> Nat]

VARIABLES
    parent,
    children,   \* of each node, a sequence
    table,      \* table[n][c] is the routing table of n's child c
    rx,         \* each node's receive queue
    joins       \* how often each node was taken as a child

vars == <<parent, children, table, rx, joins>>

Children(n) == ToSet(children[n])

(* A packet on its way: who sent it, to whom, over which last hop. *)
Packet(kind, from, to, hop, entry) ==
    [kind |-> kind, from |-> from, to |-> to, hop |-> hop, entry |-> entry]
Packets ==
    [kind : {"DataFragment", "RoutingTableAdd", "RoutingTableRemove"},
     from : Nodes, to : Nodes \cup {ROOT}, hop : Nodes,
     entry : Nodes \cup {NoNode}]

Init ==
    /\ parent = [n \in Nodes |-> NoNode]
    /\ children = [n \in Nodes |-> <<>>]
    /\ table = [n \in Nodes |-> [c \in Nodes |-> <<>>]]
    /\ rx = [n \in Nodes |-> <<>>]
    /\ joins = [n \in Nodes |-> 0]

-----------------------------------------------------------------------------
(* Layout::has *)
Has(n, m) ==
    \/ m = parent[n] \/ m \in Children(n)
    \/ \E c \in Children(n) : m \in ToSet(table[n][c])

Without(s, m) ==
    LET kept[i \in 0..Len(s)] ==
          IF i = 0 THEN <<>>
          ELSE IF s[i] = m THEN kept[i - 1] ELSE Append(kept[i - 1], s[i])
    IN  kept[Len(s)]

(* What std::remove_if leaves of a vector that is not made shorter: what is *)
(* kept moves to the front, and the tail is as it was.                      *)
RemoveIf(s, m) ==
    LET kept == Without(s, m)
    IN  kept \o SubSeq(s, Len(kept) + 1, Len(s))

(* n's tables after a packet of from that came over hop.                    *)
LearnBesideOthers(n, from, hop) ==
    IF hop \notin Children(n) \/ from \in ToSet(table[n][hop])
      THEN table[n]
      ELSE [table[n] EXCEPT ![hop] = Append(@, from)]
Learn(n, from, hop) ==
    IF hop \notin Children(n) \/ from \in ToSet(table[n][hop])
      THEN table[n]
      ELSE [c \in Nodes |-> IF c = hop THEN Append(table[n][c], from)
                                       ELSE Without(table[n][c], from)]

(* The children of n that lead to m. *)
IsChildItself(n, c, m, tables) == c = m
Leads(n, c, m, tables) == c = m \/ m \in ToSet(tables[c])

(* FullyResolve: n's next hop to an address, NoNode if there is none. *)
Resolve(n, to, tables) ==
    LET leading == {i \in DOMAIN children[n] : Leads(n, children[n][i], to, tables)}
    IN  IF to = ROOT \/ to = parent[n] \/ leading = {}
          THEN parent[n]
          ELSE children[n][CHOOSE i \in leading : \A j \in leading : i <= j]

(* The queues q after a packet was sent to m: one that is full drops it.    *)
HasRoomForOneMore(s) == Len(s) <= RX_SIZE
HasRoom(s) == Len(s) < RX_SIZE
Sent(q, m, packet) ==
    IF m # NoNode /\ HasRoom(q[m]) THEN [q EXCEPT ![m] = Append(@, packet)] ELSE q

(* UpstreamRetry: to the parent, which is not asked to pass it on. *)
SentUpstream(q, n, kind, entry) ==
    Sent(q, parent[n], Packet(kind, n, parent[n], n, entry))

(* meshnow_visible_mesh_size *)
VisibleMeshSize(n) ==
    1 + Len(children[n]) + (IF parent[n] # NoNode THEN 1 ELSE 0)
      + MapThenSumSet(LAMBDA c : Len(table[n][c]), Children(n))

-----------------------------------------------------------------------------
(* The layout changes. *)

(* m takes n as a child; n hears of it or not, and takes m as its parent    *)
(* unless it knows it already.                                              *)
Attach(n, m) ==
    /\ joins[n] < MaxJoins[n] /\ parent[n] = NoNode
    /\ m = Root \/ parent[m] # NoNode
    /\ ~Has(m, n) /\ Len(children[m]) < MAX_CHILDREN
    /\ joins' = [joins EXCEPT ![n] = @ + 1]
    /\ children' = [children EXCEPT ![m] = Append(@, n)]
    /\ \/ ~Has(n, m) /\ parent' = [parent EXCEPT ![n] = m]
       \/ (n \in Movers \/ Has(n, m)) /\ UNCHANGED parent
    /\ rx' = SentUpstream(rx, m, "RoutingTableAdd", n)
    /\ UNCHANGED table

DropParent(n) ==
    /\ n \in Movers /\ parent[n] # NoNode
    /\ parent' = [parent EXCEPT ![n] = NoNode]
    /\ UNCHANGED <<children, table, rx, joins>>

DropChild(n, c) ==
    /\ c \in Movers
    /\ children' = [children EXCEPT ![n] = Without(@, c)]
    /\ table' = [table EXCEPT ![n][c] = <<>>]
    /\ rx' = SentUpstream(rx, n, "RoutingTableRemove", c)
    /\ UNCHANGED <<parent, joins>>

-----------------------------------------------------------------------------
(* Packets. *)

Gets(n, kind) == rx[n] # <<>> /\ Head(rx[n]).kind = kind
IsForMe(n, packet) == packet.to = n \/ (packet.to = ROOT /\ n = Root)
Handled(n) == [rx EXCEPT ![n] = Tail(@)]

(* n sends a packet of another, or its own, to its next hop. *)
Forwarded(q, n, packet, tables) ==
    Sent(q, Resolve(n, packet.to, tables), [packet EXCEPT !.hop = n])

(* A child's beacon is a packet of the child to its parent. *)
HandleStatus(n, c) ==
    /\ parent[c] = n
    /\ table' = [table EXCEPT ![n] = Learn(n, c, c)]
    /\ UNCHANGED <<parent, children, rx, joins>>

(* A frame of the IP stack for another node. *)
Forward(n) ==
    /\ Gets(n, "DataFragment")
    /\ LET packet == Head(rx[n])
           tables == Learn(n, packet.from, packet.hop)
       IN  /\ ~IsForMe(n, packet)
           /\ table' = [table EXCEPT ![n] = tables]
           /\ rx' = Forwarded(Handled(n), n, packet, tables)
    /\ UNCHANGED <<parent, children, joins>>

(* One for this node, from a neighbour.  The root's IP stack answers.       *)
Receives(n) ==
    /\ Gets(n, "DataFragment")
    /\ IsForMe(n, Head(rx[n]))
    /\ Head(rx[n]).hop \in {parent[n]} \cup Children(n)

HandleDataFragment(n) ==
    /\ Gets(n, "DataFragment")
    /\ LET packet == Head(rx[n])
           tables == Learn(n, packet.from, packet.hop)
           answer == Packet("DataFragment", n, packet.from, n, NoNode)
       IN  /\ IsForMe(n, packet)
           /\ table' = [table EXCEPT ![n] = tables]
           /\ rx' = IF n = Root /\ Receives(n)
                      THEN Forwarded(Handled(n), n, answer, tables)
                      ELSE Handled(n)
    /\ UNCHANGED <<parent, children, joins>>

(* It is not passed on. *)
HandleRoutingTableAdd(n) ==
    /\ Gets(n, "RoutingTableAdd")
    /\ LET packet == Head(rx[n])
           tables == Learn(n, packet.from, packet.hop)
       IN  table' = [table EXCEPT ![n] =
                       IF packet.hop \in Children(n)
                         THEN [tables EXCEPT ![packet.hop] = Append(@, packet.entry)]
                         ELSE tables]
    /\ rx' = Handled(n)
    /\ UNCHANGED <<parent, children, joins>>

HandleRoutingTableRemove(n) ==
    /\ Gets(n, "RoutingTableRemove")
    /\ LET packet == Head(rx[n])
           tables == Learn(n, packet.from, packet.hop)
       IN  IF packet.hop \in Children(n)
             THEN /\ table' = [table EXCEPT ![n] =
                        [tables EXCEPT ![packet.hop] = RemoveIf(@, packet.entry)]]
                  /\ rx' = SentUpstream(Handled(n), n, packet.kind, packet.entry)
             ELSE /\ table' = [table EXCEPT ![n] = tables]
                  /\ rx' = Handled(n)
    /\ UNCHANGED <<parent, children, joins>>

(* n's IP stack sends a frame to the root, once the last is off the air.    *)
Ask(n) ==
    /\ parent[n] # NoNode
    /\ \A m \in Nodes : \A i \in DOMAIN rx[m] :
         ~(rx[m][i].kind = "DataFragment" /\ rx[m][i].from = n)
    /\ rx' = Forwarded(rx, n, Packet("DataFragment", n, ROOT, n, NoNode), table[n])
    /\ UNCHANGED <<parent, children, table, joins>>

HandlePacket(n) ==
    \/ Forward(n) \/ HandleDataFragment(n)
    \/ HandleRoutingTableAdd(n) \/ HandleRoutingTableRemove(n)

Next ==
    \/ \E c \in Candidates : Attach(c[1], c[2])
    \/ \E n \in Nodes :
         \/ \E c \in Children(n) : DropChild(n, c) \/ HandleStatus(n, c)
         \/ DropParent(n) \/ HandlePacket(n)
    \/ \E n \in Askers : Ask(n)

Spec == Init /\ [][Next]_vars

-----------------------------------------------------------------------------
(* Every variable has its type; what is no child has no table. *)
TypeOK ==
    /\ parent \in [Nodes -> Nodes \cup {NoNode}]
    /\ children \in [Nodes -> Seq(Nodes)]
    /\ table \in [Nodes -> [Nodes -> Seq(Nodes)]]
    /\ rx \in [Nodes -> Seq(Packets)]
    /\ joins \in [Nodes -> Nat]
    /\ \A n \in Nodes : Len(rx[n]) <= RX_SIZE /\ Len(children[n]) <= MAX_CHILDREN
    /\ \A n, c \in Nodes : c \notin Children(n) => table[n][c] = <<>>

(* A node that was never taken as a child by a second node is in the table  *)
(* of one child of each node, whatever was learned, announced, withdrawn or *)
(* lost, and however the nodes above it moved, in trees or a cycle: "check  *)
(* if sender is part of routing table of other children, if so, remove from *)
(* their routing table" (packet_handler.cpp).                               *)
OneRoute ==
    \A n \in Nodes : \A c, d \in Children(n) : c # d =>
      \A m \in Nodes : joins[m] <= 1 =>
        ~ (m \in ToSet(table[n][c]) /\ m \in ToSet(table[n][d]))

(* The answer to a packet of such a node goes back the way the packet came: *)
(* the table of the child it came over lists the node, and no child asked   *)
(* before it does.  The exceptions are a packet that comes from below       *)
(* although its sender is the parent or another child, as in a cycle.       *)
AnswersGoBack ==
    [][\A n \in Nodes :
         LET packet == Head(rx[n])
         IN  /\ rx[n] # <<>>
             /\ packet.hop \in Children(n)
             /\ packet.from \notin {parent[n]} \cup (Children(n) \ {packet.hop})
             /\ joins[packet.from] <= 1
             /\ HandlePacket(n)
             => Resolve(n, packet.from, table'[n]) = packet.hop]_vars

(* "Call this from the root node to obtain the total number of nodes in the *)
(* mesh" (include/meshnow.h:269): it is not more than there are.            *)
CountsMesh == VisibleMeshSize(Root) <= Cardinality(Nodes)
=============================================================================
