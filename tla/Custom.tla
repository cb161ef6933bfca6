-------------------------------- MODULE Custom --------------------------------
(***************************************************************************)
(* Messages of the application: meshnow_send (meshnow.cpp), the way of a   *)
(* packet through the send worker, the air and the receiver                *)
(* (send/worker.cpp, packets.cpp, receive/receiver.cpp), and the callbacks *)
(* that the runner calls for it (custom.cpp, job/packet_handler.cpp).      *)
(*                                                                         *)
(* The callbacks are a doubly linked list, newest first.  The runner walks *)
(* it with the Lock held; the application, and the callbacks themselves,   *)
(* register and unregister without it, a write at a time.  The application *)
(* makes one such call at a time: nothing in the code would keep two apart *)
(* from each other.  The handles are the cells of the heap, which are      *)
(* given out again after they were freed.  What the runner reads from a    *)
(* handle that was freed while the runner was at it may be anything.       *)
(*                                                                         *)
(* Send has the bound of the send queue and its next hops; here a packet   *)
(* has one, and the radio refuses it as often as it likes.                 *)
(***************************************************************************)
EXTENDS Packets, SequencesExt

CONSTANTS
    Handles, NoHandle,
    Items       \* the payloads to send, once each

ASSUME HandlesAssumption == NoHandle \notin Handles
IsMessage(i) ==
    i.kind = "CustomData" /\ i = CustomData(i.len, i.name) /\ i.len \in Nat
IsPiece(i) ==
    /\ i.kind = "DataFragment" /\ i = Piece(i.total_size, i.frag_num, i.name)
    /\ i.total_size \in 1..1568 /\ i.frag_num \in 0..NumPieces(i.total_size) - 1
ASSUME ItemsAssumption == \A i \in Items : IsMessage(i) \/ IsPiece(i)

VARIABLES
    left, sendq,     \* payloads not yet sent, and in the send queue
    air,             \* what the radio accepted: payload and buffer
    rx,              \* the receive queue
    first, next, prev,   \* the list
    heap,            \* the handles that are allocated
    op,              \* what the application is doing: a step, and a handle
    order,           \* the registered callbacks, newest first
    walk,            \* whether the runner walks the list: idle, call or next
    at,              \* the handle it is at
    called,          \* how often it has called each, 2 for more than once
    stays,           \* the callbacks registered since the walk began
    astray           \* the handle the runner was at was freed

pathVars == <<left, sendq, air, rx>>
listVars == <<first, next, prev, heap, op, order>>
walkVars == <<walk, at, called, stays, astray>>
vars == <<left, sendq, air, rx, first, next, prev, heap, op, order,
          walk, at, called, stays, astray>>

Idle == [step |-> "idle", handle |-> NoHandle]
Step(name, h) == [step |-> name, handle |-> h]

Init ==
    /\ left = Items /\ sendq = <<>> /\ air = {} /\ rx = <<>>
    /\ first = NoHandle
    /\ next = [h \in Handles |-> NoHandle]
    /\ prev = [h \in Handles |-> NoHandle]
    /\ heap = {} /\ op = Idle /\ order = <<>>
    /\ walk = "idle" /\ at = NoHandle /\ called = [h \in Handles |-> 0]
    /\ stays = {} /\ astray = FALSE

-----------------------------------------------------------------------------
(* The way of a packet. *)

(* meshnow_send and, for fragments, transmit. *)
Legal(i) == i.kind = "CustomData" => i.len <= MAX_CUSTOM_PAYLOAD_SIZE

Send(i) ==
    /\ i \in left /\ Legal(i)
    /\ left' = left \ {i} /\ sendq' = Append(sendq, i)
    /\ UNCHANGED <<air, rx, listVars, walkVars>>

(* SendSinkImpl::accept: the radio takes the packet ... *)
Accept ==
    /\ sendq # <<>> /\ Fits(Serialize(Head(sendq)))
    /\ air' = air \cup {[sent |-> Head(sendq), buffer |-> Serialize(Head(sendq))]}
    /\ sendq' = Tail(sendq)
    /\ UNCHANGED <<left, rx, listVars, walkVars>>

(* ... or does not, and it goes to the end of the queue. *)
Refuse ==
    /\ sendq # <<>>
    /\ sendq' = Append(Tail(sendq), Head(sendq))
    /\ UNCHANGED <<left, air, rx, listVars, walkVars>>

(* Receiver::receiveCallback *)
Receive(packet) ==
    /\ packet \in air
    /\ air' = air \ {packet}
    /\ rx' = IF Readable(packet.buffer) THEN Append(rx, packet.buffer.payload)
                                        ELSE rx
    /\ UNCHANGED <<left, sendq, listVars, walkVars>>

(* A fragment is the matter of Fragments. *)
HandleDataFragment ==
    /\ walk = "idle" /\ rx # <<>> /\ Head(rx).kind = "DataFragment"
    /\ rx' = Tail(rx)
    /\ UNCHANGED <<left, sendq, air, listVars, walkVars>>

-----------------------------------------------------------------------------
(* createCBHandle *)

(* The new handle points at the first ... *)
Register(h) ==
    /\ op = Idle /\ h \notin heap
    /\ heap' = heap \cup {h}
    /\ next' = [next EXCEPT ![h] = first]
    /\ prev' = [prev EXCEPT ![h] = NoHandle]
    /\ op' = Step("link", h)
    /\ UNCHANGED <<pathVars, first, order, walkVars>>

(* ... the first points back at it ... *)
LinkFirst ==
    /\ op.step = "link"
    /\ prev' = IF first # NoHandle THEN [prev EXCEPT ![first] = op.handle]
                                   ELSE prev
    /\ op' = Step("publish", op.handle)
    /\ UNCHANGED <<pathVars, first, next, heap, order, walkVars>>

(* ... and it is the first. *)
PublishFirst ==
    /\ op.step = "publish"
    /\ first' = op.handle
    /\ order' = <<op.handle>> \o order
    /\ op' = Idle
    /\ UNCHANGED <<pathVars, next, prev, heap, walkVars>>

-----------------------------------------------------------------------------
(* destroyCBHandle *)

(* What is before the handle skips it ... *)
SkipNothing(h) == next
SkipHandle(h) ==
    IF prev[h] # NoHandle THEN [next EXCEPT ![prev[h]] = next[h]] ELSE next

Unregister(h) ==
    /\ op = Idle
    /\ \E k \in DOMAIN order : order[k] = h /\ order' = RemoveAt(order, k)
    /\ next' = SkipHandle(h)
    /\ stays' = stays \ {h}
    /\ op' = Step("unlink", h)
    /\ UNCHANGED <<pathVars, first, prev, heap, walk, at, called, astray>>

(* ... what is behind it, too ... *)
UnlinkNothing(h) == prev
UnlinkNext(h) ==
    IF next[h] # NoHandle THEN [prev EXCEPT ![next[h]] = prev[h]] ELSE prev
Unlink ==
    /\ op.step = "unlink"
    /\ prev' = UnlinkNext(op.handle)
    /\ op' = Step("free", op.handle)
    /\ UNCHANGED <<pathVars, first, next, heap, order, walkVars>>

(* ... and it is no longer the first, and freed. *)
KeepFirst(h) == first
FirstWithout(h) == IF first = h THEN next[h] ELSE first
Free ==
    /\ op.step = "free"
    /\ LET h == op.handle
       IN  /\ first' = FirstWithout(h)
           /\ heap' = heap \ {h}
           /\ astray' = (astray \/ (walk # "idle" /\ at = h))
    /\ op' = Idle
    /\ UNCHANGED <<pathVars, next, prev, order, walk, at, called, stays>>

(* custom::deinit, when the runner and the application are done with them.  *)
Deinit ==
    /\ walk = "idle" /\ op = Idle
    /\ first' = NoHandle /\ heap' = {} /\ order' = <<>>
    /\ UNCHANGED <<pathVars, next, prev, op, walkVars>>

-----------------------------------------------------------------------------
(* The handler of CustomData. *)

BeginWalk ==
    /\ walk = "idle" /\ rx # <<>> /\ Head(rx).kind = "CustomData"
    /\ walk' = "call" /\ at' = first
    /\ called' = [h \in Handles |-> 0]
    /\ stays' = ToSet(order) /\ astray' = FALSE
    /\ UNCHANGED <<pathVars, listVars>>

Call ==
    /\ walk = "call" /\ at # NoHandle
    /\ called' = [called EXCEPT ![at] = Smaller(@ + 1, 2)]
    /\ walk' = "next"
    /\ UNCHANGED <<pathVars, listVars, at, stays, astray>>

Advance ==
    /\ walk = "next"
    /\ at' \in IF astray THEN Handles \cup {NoHandle} ELSE {next[at]}
    /\ walk' = "call"
    /\ UNCHANGED <<pathVars, listVars, called, stays, astray>>

EndWalk ==
    /\ walk = "call" /\ at = NoHandle
    /\ walk' = "idle" /\ rx' = Tail(rx)
    /\ stays' = {} /\ astray' = FALSE /\ called' = [h \in Handles |-> 0]
    /\ UNCHANGED <<left, sendq, air, listVars, at>>

Runner == HandleDataFragment \/ BeginWalk \/ Call \/ Advance \/ EndWalk

Application ==
    \/ \E h \in Handles : Register(h) \/ Unregister(h)
    \/ LinkFirst \/ PublishFirst \/ Unlink \/ Free

Next ==
    \/ \E i \in Items : Send(i)
    \/ Accept \/ Refuse
    \/ \E packet \in air : Receive(packet)
    \/ Runner
    \/ Application
    \/ Deinit

Spec == Init /\ [][Next]_vars

(* The send worker goes on, and the radio accepts, time and again, what is  *)
(* short enough for it.                                                     *)
Fairness ==
    /\ WF_vars(Accept \/ Refuse)
    /\ \A i \in Items : SF_vars(Accept /\ Head(sendq) = i)
FairSpec == Spec /\ Fairness

-----------------------------------------------------------------------------
Steps == {"idle", "link", "publish", "unlink", "free"}

(* Every variable has its type; a callback that is registered is allocated, *)
(* and so is the first of the list.                                         *)
TypeOK ==
    /\ left \in SUBSET Items /\ sendq \in Seq(Items)
    /\ \A packet \in air : packet.sent \in Items
    /\ first \in heap \cup {NoHandle}
    /\ next \in [Handles -> Handles \cup {NoHandle}]
    /\ prev \in [Handles -> Handles \cup {NoHandle}]
    /\ heap \in SUBSET Handles
    /\ op \in [step : Steps, handle : Handles \cup {NoHandle}]
    /\ order \in Seq(Handles) /\ ToSet(order) \subseteq heap
    /\ walk \in {"idle", "call", "next"} /\ at \in Handles \cup {NoHandle}
    /\ called \in [Handles -> 0..2] /\ stays \in SUBSET Handles
    /\ astray \in BOOLEAN

(* The list is the registered callbacks, newest first, whenever no call is  *)
(* changing it.                                                             *)
Nth(k) == IF k \in DOMAIN order THEN order[k] ELSE NoHandle
ListKept ==
    op = Idle =>
      /\ first = Nth(1)
      /\ \A k \in DOMAIN order :
           next[order[k]] = Nth(k + 1) /\ prev[order[k]] = Nth(k - 1)

(* A message reaches each callback that is registered while it is handled,  *)
(* once, whatever else is registered and unregistered meanwhile and between *)
(* any two reads of the walk, unless the callback the runner is at is freed *)
(* under it.                                                                *)
CalledOnce ==
    ~astray =>
      \A h \in stays :
        /\ called[h] <= 1
        /\ walk = "call" /\ at = NoHandle => called[h] = 1

(* Whatever the radio accepts, the receiver reads, and as it was sent.      *)
ReadAsSent ==
    \A packet \in air :
      Readable(packet.buffer) /\ packet.buffer.payload = packet.sent

(* "cannot exceed MESHNOW_MAX_CUSTOM_MESSAGE_SIZE" (include/meshnow.h:227): *)
(* a message that does not is sent, over a radio that accepts it as often   *)
(* as it takes.                                                             *)
LegalMessagesLeave ==
    \A i \in Items : i \in ToSet(sendq) ~> i \notin ToSet(sendq)
=============================================================================
