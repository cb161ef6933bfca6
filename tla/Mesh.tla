-------------------------------- MODULE Mesh --------------------------------
(***************************************************************************)
(* The nodes of a mesh, connected to one another: how the state, the       *)
(* parent and the children of each node follow the packets of the others   *)
(* (job/packet_handler.cpp, job/keep_alive.cpp, state.cpp).                *)
(*                                                                         *)
(* MeshNode has what happens inside a node between the packets; here the   *)
(* internal events and the search are left out: a node that has no parent  *)
(* may ask any node in range, since its list of candidates outlives the    *)
(* state of the world it was made in.                                      *)
(*                                                                         *)
(* Packets to a node go through its receive queue, in order; they are lost *)
(* on the air or when the queue is full.  News of the root, which a node   *)
(* sends all its children until they accept it, may in addition be dropped *)
(* by a full send queue, or refused and put back behind what was sent      *)
(* since: it comes late, after newer news.  Beacons, which repeat, are     *)
(* read from the parent's state when they are heard; a node that hears     *)
(* none gives its parent up, and that it may always do.                    *)
(*                                                                         *)
(* Of time, two things are kept.  A node has a parent for longer (Waited)  *)
(* than the request it made before, and the answer, can be under way.  And *)
(* no packet waits for as long as its sender takes to boot.  Connect       *)
(* requests and their answers may be later than CONNECT_TIMEOUT.           *)
(***************************************************************************)
EXTENDS Integers, Sequences, FiniteSets

CONSTANTS
    Nodes, Root, NoNode,
    InRange,      \* the pairs <<m, n>> of nodes that hear each other
    MAX_CHILDREN,
    RX_SIZE,      \* of the receive queue
    MAX_LATE      \* bound: packets of news that are put back at a time

ASSUME NodesAssumption == Root \in Nodes /\ NoNode \notin Nodes
ASSUME RangeAssumption ==
    /\ InRange \subseteq Nodes \X Nodes
    /\ \A p \in InRange : p[1] # p[2] /\ <<p[2], p[1]>> \in InRange
ASSUME SizeAssumption ==
    MAX_CHILDREN \in Nat /\ RX_SIZE \in Nat \ {0} /\ MAX_LATE \in Nat

VARIABLES
    state, parent, children,   \* of each node
    asked,                     \* the parent each node is waiting for
    rx,                        \* each node's receive queue
    late                       \* the news each node has yet to send again

vars == <<state, parent, children, asked, rx, late>>

DISC == "DISCONNECTED_FROM_PARENT"
CONN == "CONNECTED_TO_PARENT"
REACHES == "REACHES_ROOT"

Packet(kind, hop) == [kind |-> kind, hop |-> hop]
Packets == [kind : {"ConnectRequest", "ConnectOk", "RootUnreachable",
                    "RootReachable"}, hop : Nodes]

NewsKinds == {"RootUnreachable", "RootReachable"}

Others == Nodes \ {Root}

Init ==
    /\ state = [n \in Nodes |-> IF n = Root THEN REACHES ELSE DISC]
    /\ parent = [n \in Nodes |-> NoNode]
    /\ children = [n \in Nodes |-> {}]
    /\ asked = [n \in Nodes |-> NoNode]
    /\ rx = [n \in Nodes |-> <<>>]
    /\ late = [n \in Nodes |-> {}]

(* What fits in a receive queue. *)
FitOneMore(q) == SubSeq(q, 1, IF Len(q) <= RX_SIZE THEN Len(q) ELSE RX_SIZE + 1)
Fit(q) == SubSeq(q, 1, IF Len(q) <= RX_SIZE THEN Len(q) ELSE RX_SIZE)

(* The queues r after n sent packets of these kinds, in order, to dests.    *)
Sent(r, n, dests, kinds) ==
    [m \in Nodes |->
       IF m \in dests
         THEN Fit(r[m] \o [k \in 1..Len(kinds) |-> Packet(kinds[k], n)])
         ELSE r[m]]

(* The packets state::setState sends downstream. *)
News(n, new) ==
    IF new = state[n] THEN <<>>
    ELSE IF new = REACHES THEN <<"RootReachable">>
    ELSE <<"RootUnreachable">>

PutBack == Cardinality({p \in Nodes \X NewsKinds : p[2] \in late[p[1]]})

(* What n sends its children of the news: enqueuePayload drops a packet     *)
(* that finds no room in time, and a packet that a child refuses is put     *)
(* back, after those that follow it.                                        *)
SendNews(n, news, r) ==
    IF children[n] = {}
      THEN rx' = r /\ UNCHANGED late
      ELSE \E out \in {<<>>, news} \cup {<<news[k]>> : k \in 1..Len(news)},
              refused \in SUBSET {news[k] : k \in 1..Len(news)} :
             /\ refused # {} => PutBack + Cardinality(refused) <= MAX_LATE
             /\ rx' = Sent(r, n, children[n], out)
             /\ late' = [late EXCEPT ![n] = @ \cup refused]

(* state::setState at n, and what the caller sends downstream after it.     *)
SetState(n, new, r, more) ==
    /\ state' = [state EXCEPT ![n] = new]
    /\ SendNews(n, News(n, new) \o more, r)

(* The worker comes round to news it had put back. *)
SendAgain(n, kind) ==
    /\ kind \in late[n]
    /\ late' = [late EXCEPT ![n] = @ \ {kind}]
    /\ rx' = Sent(rx, n, children[n], <<kind>>)
    /\ UNCHANGED <<state, parent, children, asked>>

-----------------------------------------------------------------------------
(* The packet at the head of n's receive queue, and the queues without it.  *)
Gets(n, kind, m) == rx[n] # <<>> /\ Head(rx[n]) = Packet(kind, m)
Handled(n) == [rx EXCEPT ![n] = Tail(@)]

KnowsParent(n, m) == m = parent[n]
KnowsChild(n, m) == m \in children[n]
Knows(n, m) == m = parent[n] \/ m \in children[n]

AcceptsConnectRequest(n, m) ==
    /\ state[n] = REACHES /\ ~Knows(n, m)
    /\ Cardinality(children[n]) < MAX_CHILDREN

HandleConnectRequest(n, m) ==
    /\ Gets(n, "ConnectRequest", m)
    /\ AcceptsConnectRequest(n, m)
    /\ children' = [children EXCEPT ![n] = @ \cup {m}]
    /\ rx' = Sent(Handled(n), n, {m}, <<"ConnectOk">>)
    /\ UNCHANGED <<state, parent, asked, late>>

(* An m in the routing table of a child is known, too: whether it is there  *)
(* depends on what came of the announcements (RoutingTableAdd), which are   *)
(* the subject of Routing.  Here a node with children may know any other.   *)
MayKnow(n, m) == Knows(n, m) \/ children[n] # {}

IgnoreConnectRequest(n, m) ==
    /\ Gets(n, "ConnectRequest", m)
    /\ ~AcceptsConnectRequest(n, m) \/ MayKnow(n, m)
    /\ rx' = Handled(n)
    /\ UNCHANGED <<state, parent, children, asked, late>>

AnyConnectOk(n, m) == state[n] = DISC /\ ~Knows(n, m)
AcceptsConnectOk(n, m) == state[n] = DISC /\ ~Knows(n, m) /\ asked[n] = m

HandleConnectOk(n, m) ==
    /\ Gets(n, "ConnectOk", m)
    /\ AcceptsConnectOk(n, m)
    /\ parent' = [parent EXCEPT ![n] = m]
    /\ asked' = [asked EXCEPT ![n] = NoNode]
    /\ SetState(n, REACHES, Handled(n), <<>>)
    /\ UNCHANGED children

IgnoreConnectOk(n, m) ==
    /\ Gets(n, "ConnectOk", m)
    /\ ~AcceptsConnectOk(n, m) \/ MayKnow(n, m)
    /\ rx' = Handled(n)
    /\ UNCHANGED <<state, parent, children, asked, late>>

HandleRootUnreachable(n, m) ==
    /\ Gets(n, "RootUnreachable", m)
    /\ IF state[n] = REACHES /\ m = parent[n]
         THEN SetState(n, CONN, Handled(n), <<"RootUnreachable">>)
         ELSE rx' = Handled(n) /\ UNCHANGED <<state, late>>
    /\ UNCHANGED <<parent, children, asked>>

(* It forwards RootUnreachable. *)
HandleRootReachable(n, m) ==
    /\ Gets(n, "RootReachable", m)
    /\ IF state[n] # REACHES /\ m = parent[n]
         THEN SetState(n, REACHES, Handled(n), <<"RootUnreachable">>)
         ELSE rx' = Handled(n) /\ UNCHANGED <<state, late>>
    /\ UNCHANGED <<parent, children, asked>>

(* n hears a beacon of its parent, which sends them to its children.        *)
OnlyToChildren(n) == parent[n] # NoNode /\ n \in children[parent[n]]
HeardAsIs(s) == IF s = DISC THEN REACHES ELSE s
HeardState(s) == IF s = REACHES THEN REACHES ELSE CONN

HandleStatus(n) ==
    /\ OnlyToChildren(n)
    /\ SetState(n, HeardState(state[parent[n]]), rx, <<>>)
    /\ UNCHANGED <<parent, children, asked>>

-----------------------------------------------------------------------------
(* Jobs. *)

(* ConnectPhase: a connect request to the next candidate.  Before it comes  *)
(* back to the same one, the node searches again, and the earlier request   *)
(* has been handled.                                                        *)
Ask(n, m) ==
    /\ n # Root /\ state[n] = DISC /\ <<n, m>> \in InRange
    /\ \A k \in 1..Len(rx[m]) : rx[m][k] # Packet("ConnectRequest", n)
    /\ asked' = [asked EXCEPT ![n] = m]
    /\ rx' = Sent(rx, n, {m}, <<"ConnectRequest">>)
    /\ UNCHANGED <<state, parent, children, late>>

(* The end of ConnectPhase without an answer. *)
GiveUp(n) ==
    /\ asked[n] # NoNode
    /\ asked' = [asked EXCEPT ![n] = NoNode]
    /\ UNCHANGED <<state, parent, children, rx, late>>

(* n has had its parent for the least time a node has one: last_seen is set *)
(* with the parent and counts from there.  It made its last request before, *)
(* and that, or the answer, takes less time: none waits for n.  Nothing in  *)
(* the code makes it so.  The race of the unreachable timer, by which a     *)
(* parent may be given up at once (see MeshNode), is left out.              *)
Waited(n) ==
    \A m \in Nodes : \A k \in 1..Len(rx[n]) :
      rx[n][k] # Packet("ConnectOk", m)

KeepParent(n) == parent
WithoutParent(n) == [parent EXCEPT ![n] = NoNode]

(* NeighborCheck or UnreachableTimeout. *)
DropParent(n) ==
    /\ parent[n] # NoNode /\ Waited(n)
    /\ parent' = WithoutParent(n)
    /\ SetState(n, DISC, rx, <<>>)
    /\ UNCHANGED <<children, asked>>

DropChild(n, c) ==
    /\ c \in children[n]
    /\ children' = [children EXCEPT ![n] = @ \ {c}]
    /\ UNCHANGED <<state, parent, asked, rx, late>>

Lose(n) ==
    /\ rx[n] # <<>>
    /\ rx' = Handled(n)
    /\ UNCHANGED <<state, parent, children, asked, late>>

Reboot(n) ==
    /\ n # Root
    /\ \A m \in Nodes : \A k \in 1..Len(rx[m]) : rx[m][k].hop # n
    /\ state' = [state EXCEPT ![n] = DISC]
    /\ parent' = [parent EXCEPT ![n] = NoNode]
    /\ children' = [children EXCEPT ![n] = {}]
    /\ asked' = [asked EXCEPT ![n] = NoNode]
    /\ rx' = [rx EXCEPT ![n] = <<>>]
    /\ late' = [late EXCEPT ![n] = {}]

HandlePacket(n) ==
    \E m \in Nodes :
      \/ HandleConnectRequest(n, m) \/ IgnoreConnectRequest(n, m)
      \/ HandleConnectOk(n, m) \/ IgnoreConnectOk(n, m)
      \/ HandleRootUnreachable(n, m) \/ HandleRootReachable(n, m)

Next ==
    \E n \in Nodes :
      \/ HandlePacket(n)
      \/ HandleStatus(n)
      \/ \E kind \in NewsKinds : SendAgain(n, kind)
      \/ \E m \in Nodes : Ask(n, m) \/ DropChild(n, m)
      \/ GiveUp(n) \/ DropParent(n) \/ Lose(n) \/ Reboot(n)

Spec == Init /\ [][Next]_vars

(* The neighbours that no longer send n beacons. *)
Silent(n) == parent[n] # NoNode /\ n \notin children[parent[n]]

(* Packets are handled.  A node whose parent beacons to it hears it (it     *)
(* gives the parent up otherwise); one that hears nothing, or that is kept  *)
(* from the root, gives its parent up: the runner performs every due job in *)
(* each turn of its loop, and turns in which more packets wait do not       *)
(* postpone it.                                                             *)
Fairness ==
    \A n \in Others :
      /\ WF_vars(HandlePacket(n))
      /\ WF_vars(HandleStatus(n))
      /\ SF_vars(DropParent(n) /\ (Silent(n) \/ state[n] = CONN))

FairSpec == Spec /\ Fairness

-----------------------------------------------------------------------------
(* Every variable has its type, and the root is the root. *)
TypeOK ==
    /\ state \in [Nodes -> {DISC, CONN, REACHES}]
    /\ parent \in [Nodes -> Nodes \cup {NoNode}]
    /\ children \in [Nodes -> SUBSET Nodes]
    /\ asked \in [Nodes -> Nodes \cup {NoNode}]
    /\ rx \in [Nodes -> Seq(Packets)]
    /\ \A n \in Nodes : Len(rx[n]) <= RX_SIZE
    /\ late \in [Nodes -> SUBSET NewsKinds]
    /\ state[Root] = REACHES /\ parent[Root] = NoNode /\ asked[Root] = NoNode

(* The state of a node and its layout agree, between any two packets and    *)
(* jobs of any of its neighbours.                                           *)
StateFollowsParent == \A n \in Others : parent[n] = NoNode <=> state[n] = DISC

(* No node has one neighbour for its parent and its child: a packet would   *)
(* go back and forth between them.                                          *)
ParentIsNoChild == \A n \in Nodes : parent[n] \notin children[n]

(* Two nodes are never each other's parents, although answers come after    *)
(* CONNECT_TIMEOUT, out of turn and across one another, if no later than    *)
(* Waited says: both would take the other's word that the root is           *)
(* reachable.                                                               *)
NoMutualParents ==
    \A n \in Nodes : parent[n] # NoNode => parent[parent[n]] # n

(* The connection of each node implements Attachment among the others.      *)
Attached(n) == INSTANCE Attachment WITH
    parent <- parent[n], asked <- asked[n], reach <- (state[n] = REACHES)
EachAttached ==
    [][\A n \in Others : [Attached(n)!Next]_(Attached(n)!vars)]_vars

(* n's parents, their parents and so on do not lead to the root.            *)
CutOff(n) ==
    \E S \in SUBSET Others :
      n \in S /\ \A m \in S : parent[m] \in S \cup {NoNode}

(* "After this timeout value in milliseconds, the nodes will disconnect and *)
(* search for new parents as they cannot reach the root node anymore"       *)
(* (docs/source/sdkconfig.rst, CONFIG_ROOT_UNREACHABLE_TIMEOUT): however    *)
(* far the lost link is, a node that is cut off disconnects, unless the     *)
(* link comes back, whichever news of the root is lost, late, or, as the    *)
(* forwarded one, wrong.                                                    *)
CutOffDisconnects ==
    \A n \in Others : CutOff(n) ~> (~CutOff(n) \/ state[n] = DISC)
=============================================================================
