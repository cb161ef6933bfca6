-------------------------------- MODULE Send --------------------------------
(***************************************************************************)
(* The send queue of a node (send/queue.cpp), the worker task that empties *)
(* it (send/worker.cpp) and the behaviours that choose the next hops of a  *)
(* packet (send/def.cpp).                                                  *)
(*                                                                         *)
(* Handlers and jobs enqueue while they hold the global Lock; forwarded    *)
(* packets, fragments of the netif and custom messages, which all use      *)
(* FullyResolve, are enqueued without it.  A producer waits for room for a *)
(* bounded time and then drops the packet.  The worker pops an item, takes *)
(* the Lock, and sends; what it puts back it pushes with the Lock held.    *)
(* The layout changes under the Lock, but a child's routing table is also  *)
(* updated without it (packet_handler.cpp).                                *)
(*                                                                         *)
(* requeue() enqueues the copy of the behaviour the sink took before       *)
(* send(), whose lists of failed hops are empty: the branches that send to *)
(* the failed ones only are never entered, and are not modelled.           *)
(***************************************************************************)
EXTENDS Integers, Sequences, FiniteSets

CONSTANTS
    Neighbors,   \* the nodes in range: parents or children
    Far,         \* destinations that are no neighbours
    NoNode,      \* no address
    Self,        \* this node's address
    RootAddr,    \* the address that stands for the root
    Broadcast,   \* the broadcast address
    IsRoot,      \* this node is the root
    Items,       \* what is to be enqueued, once each:
                 \* [id, behavior, to, prev_hop]
    NoItem,
    QUEUE_SIZE   \* 128 in send/queue.cpp

Behaviors == {"DirectOnce", "NeighborsOnce", "UpstreamRetry",
              "DownstreamRetry", "FullyResolve"}

ASSUME AddressAssumption ==
    /\ NoNode \notin Neighbors
    /\ {Self, RootAddr, Broadcast} \cap (Neighbors \cup Far \cup {NoNode}) = {}
    /\ Self # RootAddr /\ Self # Broadcast /\ RootAddr # Broadcast
    /\ IsRoot \in BOOLEAN
ASSUME ItemsAssumption ==
    /\ NoItem \notin Items
    /\ \A i \in Items :
         /\ i.behavior \in Behaviors
         /\ i.to \in Neighbors \cup Far \cup {NoNode, Self, RootAddr, Broadcast}
         /\ i.prev_hop \in Neighbors \cup {NoNode, Self}
ASSUME QueueAssumption == QUEUE_SIZE \in Nat \ {0}

VARIABLES
    parent, children,
    table,     \* the routing table of each child
    left,      \* the items nobody enqueued yet
    queue,
    lock,      \* "free", or the task that holds the Lock
    posting,   \* the item that is enqueued with the Lock held
    hand,      \* the worker's item
    worker,    \* what the worker is about to do
    accepted,  \* the hops that have accepted each item
    doubled    \* the items that some hop has accepted again

layoutVars == <<parent, children, table>>
airVars == <<accepted, doubled>>
vars == <<parent, children, table, left, queue, lock, posting, hand, worker,
          accepted, doubled>>

Parent == {parent} \ {NoNode}

Init ==
    /\ parent \in (IF IsRoot THEN {} ELSE Neighbors) \cup {NoNode}
    /\ children \in SUBSET (Neighbors \ Parent)
    /\ table = [c \in Neighbors |-> {}]
    /\ left = Items /\ queue = <<>>
    /\ lock = "free" /\ posting = NoItem
    /\ hand = NoItem /\ worker = "pop"
    /\ accepted = [i \in Items |-> {}] /\ doubled = {}

-----------------------------------------------------------------------------
(* Next hops. *)

(* FullyResolve::child: a child that is the target or lists it.             *)
Towards(to) == {c \in children : c = to \/ to \in table[c]}

DownstreamToAll(to) ==
    IF Towards(to) = {} THEN {Parent} ELSE {Towards(to)}
Downstream(to) ==
    IF Towards(to) = {} THEN {Parent} ELSE {{c} : c \in Towards(to)}

(* The sets of hops that an item may be sent to now; more than one where    *)
(* several children list the target, as find_if takes the oldest child.     *)
Resolve(i) ==
    IF i.to = Self THEN {{}}
    ELSE IF i.to = Broadcast THEN {(children \cup Parent) \ {i.prev_hop}}
    ELSE IF i.to = RootAddr THEN {IF IsRoot THEN {} ELSE Parent}
    ELSE IF i.to \in Parent THEN {Parent}
    ELSE Downstream(i.to)

Targets(i) ==
    CASE i.behavior = "DirectOnce" -> {{i.to} \ {Self}}
      [] i.behavior = "NeighborsOnce" -> {children \cup Parent}
      [] i.behavior = "UpstreamRetry" -> {Parent}
      [] i.behavior = "DownstreamRetry" -> {children}
      [] i.behavior = "FullyResolve" -> Resolve(i)

RetriesUpstreamOnly(i) == i.behavior = "UpstreamRetry"
Retries(i) == i.behavior \notin {"DirectOnce", "NeighborsOnce"}

-----------------------------------------------------------------------------
(* The queue.  A push waits while there is no room ... *)
RoomForOneMore == Len(queue) <= QUEUE_SIZE
HasRoom == Len(queue) < QUEUE_SIZE
PushFront(i) == queue' = <<i>> \o queue
Push(i) == queue' = Append(queue, i)

(* ... for QUEUE_TIMEOUT. *)
WaitsForever == FALSE
TimesOut == ~HasRoom

(* enqueuePayload by a handler, a job or setState. *)
BeginPost(i) ==
    /\ lock = "free" /\ i \in left /\ i.behavior # "FullyResolve"
    /\ lock' = "poster" /\ posting' = i /\ left' = left \ {i}
    /\ UNCHANGED <<layoutVars, queue, hand, worker, airVars>>

EndPost ==
    /\ lock = "poster"
    /\ \/ HasRoom /\ Push(posting)
       \/ TimesOut /\ UNCHANGED queue
    /\ lock' = "free" /\ posting' = NoItem
    /\ UNCHANGED <<layoutVars, left, hand, worker, airVars>>

(* enqueuePayload by handlePacket, transmit and meshnow_send. *)
PostUnlocked(i) ==
    /\ i \in left /\ i.behavior = "FullyResolve"
    /\ \/ HasRoom /\ Push(i)
       \/ TimesOut /\ UNCHANGED queue
    /\ left' = left \ {i}
    /\ UNCHANGED <<layoutVars, lock, posting, hand, worker, airVars>>

-----------------------------------------------------------------------------
(* The worker. *)
PopItem ==
    /\ worker = "pop" /\ queue # <<>>
    /\ hand' = Head(queue) /\ queue' = Tail(queue)
    /\ worker' = "send"
    /\ UNCHANGED <<layoutVars, left, lock, posting, airVars>>

(* SendBehavior::send: each hop accepts the packet or does not.             *)
SendItem ==
    /\ worker = "send" /\ lock = "free"
    /\ \E hops \in Targets(hand) : \E ok \in SUBSET hops :
         /\ accepted' = [accepted EXCEPT ![hand] = @ \cup ok]
         /\ doubled' = IF ok \cap accepted[hand] = {} THEN doubled
                                                    ELSE doubled \cup {hand}
         /\ IF Retries(hand) /\ ok # hops
              THEN worker' = "requeue" /\ lock' = "worker" /\ UNCHANGED hand
              ELSE worker' = "pop" /\ hand' = NoItem /\ UNCHANGED lock
    /\ UNCHANGED <<layoutVars, left, queue, posting>>

(* SendSink::requeue, the Lock still held. *)
Requeue ==
    /\ worker = "requeue"
    /\ \/ HasRoom /\ Push(hand)
       \/ TimesOut /\ UNCHANGED queue
    /\ lock' = "free" /\ worker' = "pop" /\ hand' = NoItem
    /\ UNCHANGED <<layoutVars, left, posting, airVars>>

-----------------------------------------------------------------------------
(* The other modules: a handler or a job changes the layout under the Lock. *)
ChangeLayout ==
    /\ lock = "free"
    /\ parent' \in (IF IsRoot THEN {} ELSE Neighbors) \cup {NoNode}
    /\ children' \in SUBSET (Neighbors \ {parent'})
    /\ table' = [c \in Neighbors |->
                   IF c \in children' THEN table[c] ELSE {}]
    /\ UNCHANGED <<left, queue, lock, posting, hand, worker, airVars>>

(* handlePacket updates routing tables without the Lock and takes f from    *)
(* the others; the handler of RoutingTableAdd does not.                     *)
LearnRoute(c, f) ==
    /\ c \in children /\ f \notin table[c]
    /\ \/ table' = [d \in Neighbors |->
                      IF d = c THEN table[d] \cup {f} ELSE table[d] \ {f}]
       \/ lock = "free" /\ table' = [table EXCEPT ![c] = @ \cup {f}]
    /\ UNCHANGED <<parent, children, left, queue, lock, posting, hand,
                   worker, airVars>>

Worker == PopItem \/ SendItem \/ Requeue

Next ==
    \/ \E i \in Items : BeginPost(i) \/ PostUnlocked(i)
    \/ EndPost
    \/ Worker
    \/ ChangeLayout
    \/ \E c \in Neighbors, f \in Far : LearnRoute(c, f)

Spec == Init /\ [][Next]_vars

(* The worker runs in a loop at the priority of the other tasks, and a      *)
(* producer in a critical section ends it.                                  *)
FairSpec == Spec /\ WF_vars(Worker) /\ WF_vars(EndPost)

-----------------------------------------------------------------------------
Queued == {queue[k] : k \in 1..Len(queue)}
Addresses == Neighbors \cup Far \cup {NoNode, Self, RootAddr, Broadcast}

(* Every variable has its type. *)
TypeOK ==
    /\ parent \in Neighbors \cup {NoNode}
    /\ children \in SUBSET (Neighbors \ {parent})
    /\ table \in [Neighbors -> SUBSET Far]
    /\ left \in SUBSET Items
    /\ queue \in Seq(Items) /\ Len(queue) <= QUEUE_SIZE
    /\ lock \in {"free", "poster", "worker"}
    /\ posting \in Items \cup {NoItem}
    /\ hand \in Items \cup {NoItem}
    /\ worker \in {"pop", "send", "requeue"}
    /\ accepted \in [Items -> SUBSET Addresses]
    /\ doubled \in SUBSET Items

(* The places an item is in. *)
Places(i) ==
    Cardinality({k \in 1..Len(queue) : queue[k] = i})
      + Cardinality({x \in {hand} : x = i}) + Cardinality({x \in {posting} : x = i})
      + Cardinality(left \cap {i})

(* The layout, as it is now, has nobody to send a packet to, and the send   *)
(* behaviours end without a retry.                                          *)
NobodyFor(i) ==
    \/ i.behavior = "UpstreamRetry" /\ parent = NoNode
    \/ i.behavior = "DownstreamRetry" /\ children = {}
    \/ /\ i.behavior = "FullyResolve"
       /\ \/ i.to = Self
          \/ i.to = RootAddr /\ (IsRoot \/ parent = NoNode)
          \/ i.to = Broadcast /\ children \cup Parent \subseteq {i.prev_hop}
          \/ /\ i.to \notin {Self, RootAddr, Broadcast}
             /\ parent = NoNode /\ Towards(i.to) = {}

BeingTried(i) == worker = "send" /\ hand = i

(* A packet is never in two places.  A packet that is retried leaves the    *)
(* node when every hop of some set of hops it is for has accepted it, in    *)
(* this try or an earlier one, and there is at least one; when it is pushed *)
(* on a full queue; or when it is tried while the layout has nobody for it, as   *)
(* after the loss of the parent.  Nothing else ends it: not a hop that      *)
(* refuses it while another accepts, and not a layout that changes between  *)
(* two tries, as long as there is somebody to send to.                      *)
RetryKept ==
    [][\A i \in Items :
         /\ Places(i)' <= 1
         /\ /\ Places(i) = 1 /\ Places(i)' = 0
            /\ i.behavior \in {"UpstreamRetry", "DownstreamRetry", "FullyResolve"}
            => \/ Len(queue) = QUEUE_SIZE /\ ~BeingTried(i)
               \/ \E hops \in Targets(i) \ {{}} : hops \subseteq accepted[i]'
               \/ NobodyFor(i)]_vars

(* A packet for one destination is accepted by one hop, once, whatever      *)
(* happens to the layout between its tries: the next try, towards another   *)
(* parent or the child that lists the destination now, follows a refusal    *)
(* only.                                                                    *)
ForOneHop(i) ==
    /\ i.behavior \in {"DirectOnce", "UpstreamRetry", "FullyResolve"}
    /\ i.to # Broadcast

UnicastOnce ==
    \A i \in Items : ForOneHop(i) =>
        i \notin doubled /\ \A g, h \in accepted[i] : g = h

(* No item waits behind items that are retried for ever.                    *)
EveryItemTried == \A i \in Items : i \in Queued ~> hand = i

(* A full queue does not stop the node: whoever waits for room with the     *)
(* Lock held, while the worker waits for the Lock, gives up.                *)
LockReturned == lock # "free" ~> lock = "free"

=============================================================================
