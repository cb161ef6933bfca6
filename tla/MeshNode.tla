------------------------------ MODULE MeshNode ------------------------------
(***************************************************************************)
(* One non-root node of the mesh: the state module (state.cpp), the three  *)
(* phases of ConnectJob (job/connect.cpp), UnreachableTimeoutJob and       *)
(* NeighborCheckJob (job/keep_alive.cpp), the handlers of PacketHandler    *)
(* that touch the connection (job/packet_handler.cpp), the internal event  *)
(* loop (event.cpp) and the link flag of the network interface             *)
(* (netif.cpp).  What the node sends is the subject of Mesh.               *)
(*                                                                         *)
(* Two tasks of the node interleave here.  The RUNNER handles a packet or  *)
(* performs a job inside one critical section of the global Lock, so each  *)
(* of those is one action.  The EVENT task takes one event from the        *)
(* internal queue and calls its handlers in the order they registered:     *)
(* the netif handler (no Lock), ConnectJob's (under the Lock), and         *)
(* UnreachableTimeoutJob's (no Lock); each handler is a step of its own.   *)
(*                                                                         *)
(* fire() posts to a queue of QUEUE_SIZE events and waits, with the Lock   *)
(* held, while it is full.  The post that waits is the element beyond      *)
(* QUEUE_SIZE: as long as it is there the Lock is taken.                   *)
(*                                                                         *)
(* Packets come from an environment that may send anything a peer can      *)
(* send, at any time: beacons and news of the root unprompted, search      *)
(* replies after a probe, one answer to each connect request.  Time        *)
(* is abstract: a timeout measured from a stored tick is "running" or over, *)
(* probe and status intervals may always have passed.                      *)
(***************************************************************************)
EXTENDS Integers, Sequences, FiniteSets

CONSTANTS
    Nodes,                   \* the other nodes in range: parents or children
    NoNode,                  \* no address
    Roots,                   \* root addresses that packets carry
    Rssi,                    \* signal strengths of search replies
    NoRssi,                  \* absent from parent_infos_
    MinChannel, MaxChannel,  \* the country's channels
    NoChannel,               \* NVS holds no usable channel
    PROBES_PER_CHANNEL,
    MAX_PARENTS_TO_CONSIDER,
    MAX_CHILDREN,
    QUEUE_SIZE               \* of the internal event queue (16 in event.cpp)

ASSUME NodesAssumption == NoNode \notin Nodes /\ NoNode \notin Roots
ASSUME RssiAssumption == Rssi \subseteq Int /\ NoRssi \notin Rssi
ASSUME ChannelAssumption ==
    /\ MinChannel \in Nat /\ MaxChannel \in Nat
    /\ MinChannel <= MaxChannel
    /\ NoChannel \in Nat /\ NoChannel \notin MinChannel..MaxChannel
ASSUME SizeAssumption ==
    /\ PROBES_PER_CHANNEL \in Nat \ {0}
    /\ MAX_PARENTS_TO_CONSIDER \in Nat \ {0}
    /\ MAX_CHILDREN \in Nat
    /\ QUEUE_SIZE \in Nat \ {0}

VARIABLES
    state,               \* state::state
    rootMac,             \* state::root_mac
    parent,              \* Layout::parent_, NoNode when empty
    children,            \* Layout::children_

    phase,               \* the alternative phase_ holds
    parent_infos,        \* parent_infos_: the rssi of each candidate
    parent_wait,         \* first_parent_found_time_ against FIRST_PARENT_WAIT
    search_probes_sent,
    current_channel,     \* SearchPhase::current_channel_
    current_parent,      \* ConnectPhase::current_parent_mac_
    radio,               \* the channel the radio is on
    nvs,                 \* "last_channel" in flash, survives a reboot
    queue,               \* the internal event queue
    ev, pc,              \* event task: event in hand, handler to call next
    awaiting_reachable,  \* UnreachableTimeoutJob::awaiting_reachable
    unreachable_timer,   \* mesh_unreachable_since_ against its timeout
    link,                \* the netif has been told it is connected
    probed,              \* a probe was sent that peers may still answer
    asked                \* peers that have a connect request to answer

layoutVars  == <<parent, children>>
stateVars   == <<state, rootMac>>
searchVars  ==
    <<parent_infos, parent_wait, search_probes_sent, current_channel>>
connectVars == <<phase, current_parent>>
radioVars   == <<radio, nvs>>
eventVars   == <<ev, pc>>
airVars     == <<probed, asked>>
timerVars   == <<awaiting_reachable, unreachable_timer>>
vars == <<state, rootMac, parent, children, phase, parent_infos, parent_wait,
          search_probes_sent, current_channel, current_parent, radio, nvs,
          queue, ev, pc, awaiting_reachable, unreachable_timer, link, probed,
          asked>>

DISC == "DISCONNECTED_FROM_PARENT"
CONN == "CONNECTED_TO_PARENT"
REACHES == "REACHES_ROOT"
States == {DISC, CONN, REACHES}

Channels == MinChannel..MaxChannel

(* The events of event.hpp. *)
StateChanged(old, new) == [kind |-> "STATE_CHANGED", old |-> old, new |-> new]
ParentFound(m, r) == [kind |-> "PARENT_FOUND", mac |-> m, rssi |-> r]
GotConnectResponse(m, r) ==
    [kind |-> "GOT_CONNECT_RESPONSE", mac |-> m, root |-> r]
NoEvent == [kind |-> "NONE"]

Events ==
    [kind : {"STATE_CHANGED"}, old : States, new : States]
      \cup [kind : {"PARENT_FOUND"}, mac : Nodes, rssi : Rssi]
      \cup [kind : {"GOT_CONNECT_RESPONSE"}, mac : Nodes, root : Roots]

(* The Lock can be taken: no task waits inside fire() with the Lock held. *)
LockFree == Len(queue) <= QUEUE_SIZE

Candidates == {m \in Nodes : parent_infos[m] # NoRssi}

(* getNVS: a stored channel outside the country's range is not used. *)
ReadChannelFromNVS == IF nvs \in Channels THEN nvs ELSE MinChannel

-----------------------------------------------------------------------------
(* Power-on, meshnow_init and meshnow_start: only the flash has a past.     *)
Init ==
    /\ nvs \in Channels \cup {NoChannel}
    /\ state = DISC /\ rootMac = NoNode
    /\ parent = NoNode /\ children = {}
    /\ phase = "Search"
    /\ parent_infos = [m \in Nodes |-> NoRssi]
    /\ parent_wait = "none" /\ search_probes_sent = 0
    /\ current_channel = ReadChannelFromNVS
    /\ current_parent = NoNode
    /\ radio = MinChannel
    /\ queue = <<>> /\ ev = NoEvent /\ pc = "idle"
    /\ awaiting_reachable = FALSE /\ unreachable_timer = "over"
    /\ link = FALSE
    /\ probed = FALSE /\ asked = {}

(* A reset, by the user or by abort(): everything but the flash is lost.    *)
Reboot ==
    /\ UNCHANGED <<nvs, airVars>>
    /\ state' = DISC /\ rootMac' = NoNode
    /\ parent' = NoNode /\ children' = {}
    /\ phase' = "Search"
    /\ parent_infos' = [m \in Nodes |-> NoRssi]
    /\ parent_wait' = "none" /\ search_probes_sent' = 0
    /\ current_channel' = ReadChannelFromNVS
    /\ current_parent' = NoNode
    /\ radio' = MinChannel
    /\ queue' = <<>> /\ ev' = NoEvent /\ pc' = "idle"
    /\ awaiting_reachable' = FALSE /\ unreachable_timer' = "over"
    /\ link' = FALSE

(* state::setState: nothing happens if the state stays; else STATE_CHANGED  *)
(* is fired.  The news for the children is the subject of Mesh.            *)
SetState(new) ==
    /\ state' = new
    /\ queue' = IF new = state THEN queue
                               ELSE Append(queue, StateChanged(state, new))

(* Layout::removeParent and what its callers do with it. *)
ForgetToRemoveParent == UNCHANGED parent
RemoveParent == parent' = NoNode

DropParent ==
    IF parent # NoNode
      THEN RemoveParent /\ SetState(DISC)
      ELSE UNCHANGED <<parent, state, queue>>

-----------------------------------------------------------------------------
(* The RUNNER: packets.  m is both the sender and the last hop; the         *)
(* handlers that require it drop what was forwarded.                        *)

(* A status beacon of the parent.  A child's beacon only refreshes          *)
(* last_seen.                                                               *)
HandleStatus(m, s, r) ==
    /\ LockFree
    /\ m = parent
    /\ rootMac' = IF s = REACHES THEN r ELSE rootMac
    /\ SetState(IF s = REACHES THEN REACHES ELSE CONN)
    /\ UNCHANGED <<layoutVars, connectVars, searchVars, radioVars, eventVars,
                   timerVars, link, airVars>>

(* knowsNode: the address is the parent's, a child's, or in the routing     *)
(* table of a child.  The tables are not part of this module: a node with   *)
(* children may know any address.                                           *)
Knows(m) == m = parent \/ m \in children
MayKnow(m) == m = parent \/ children # {}

HandleSearchReply(m, r) ==
    /\ LockFree
    /\ probed
    /\ state = DISC /\ ~Knows(m)
    /\ queue' = Append(queue, ParentFound(m, r))
    /\ UNCHANGED <<stateVars, layoutVars, connectVars, searchVars,
                   radioVars, eventVars, timerVars, link, airVars>>

(* The answer of a child is dropped, though the node may have asked it: the *)
(* list of candidates is older than the child.                              *)
TakesAnyAnswer(m) == state = DISC
TakesAnswer(m) == state = DISC /\ ~Knows(m)

HandleConnectOk(m, r) ==
    /\ LockFree
    /\ m \in asked /\ asked' = asked \ {m}
    /\ TakesAnswer(m)
    /\ queue' = Append(queue, GotConnectResponse(m, r))
    /\ UNCHANGED <<stateVars, layoutVars, connectVars, searchVars,
                   radioVars, eventVars, timerVars, link, probed>>

(* A new child, which gets a ConnectOk. *)
HandleConnectRequest(m) ==
    /\ LockFree
    /\ state = REACHES /\ ~Knows(m)
    /\ Cardinality(children) < MAX_CHILDREN
    /\ children' = children \cup {m}
    /\ UNCHANGED <<stateVars, parent, connectVars, searchVars, radioVars,
                   queue, eventVars, timerVars, link, airVars>>

(* What both handlers then send to the children is in Mesh.                 *)
HandleRootUnreachable(m) ==
    /\ LockFree
    /\ state = REACHES /\ m = parent
    /\ SetState(CONN)
    /\ UNCHANGED <<rootMac, layoutVars, connectVars, searchVars, radioVars,
                   eventVars, timerVars, link, airVars>>

HandleRootReachable(m) ==
    /\ LockFree
    /\ state # REACHES /\ m = parent
    /\ SetState(REACHES)
    /\ UNCHANGED <<rootMac, layoutVars, connectVars, searchVars, radioVars,
                   eventVars, timerVars, link, airVars>>

-----------------------------------------------------------------------------
(* The RUNNER: jobs. *)

(* A new SearchPhase{channel_config_}.  It sets current_channel_ and leaves *)
(* the radio where it is; parent_infos_ belongs to the job and stays.       *)
EnterSearch ==
    /\ phase' = "Search" /\ current_parent' = NoNode
    /\ parent_wait' = "none" /\ search_probes_sent' = 0
    /\ current_channel' = ReadChannelFromNVS

(* The counter is only compared with PROBES_PER_CHANNEL: it saturates.      *)
CountProbe(n) == IF n < PROBES_PER_CHANNEL THEN n + 1 ELSE n

NextChannelNoWrap(c) == c + 1
NextChannel(c) == IF c + 1 > MaxChannel THEN MinChannel ELSE c + 1

SearchProbe ==
    /\ LockFree /\ phase = "Search"
    /\ IF Candidates = {} THEN search_probes_sent < PROBES_PER_CHANNEL
                          ELSE parent_wait = "running"
    /\ search_probes_sent' = CountProbe(search_probes_sent)
    /\ probed' = TRUE
    /\ UNCHANGED <<stateVars, layoutVars, connectVars, parent_infos,
                   parent_wait, current_channel, radioVars, queue, eventVars,
                   timerVars, link, asked>>

SwitchChannel ==
    /\ LockFree /\ phase = "Search"
    /\ Candidates = {} /\ search_probes_sent >= PROBES_PER_CHANNEL
    /\ current_channel' = NextChannel(current_channel)
    /\ radio' = NextChannel(current_channel)
    /\ search_probes_sent' = CountProbe(0)
    /\ probed' = TRUE
    /\ UNCHANGED <<stateVars, layoutVars, connectVars, parent_infos,
                   parent_wait, nvs, queue, eventVars, timerVars, link,
                   asked>>

(* With parent_wait = "none" the time of the first parent is still 0, and   *)
(* the node has been up for longer than FIRST_PARENT_WAIT.                  *)
StartConnecting ==
    /\ LockFree /\ phase = "Search"
    /\ Candidates # {} /\ parent_wait # "running"
    /\ phase' = "Connect" /\ current_parent' = NoNode
    /\ UNCHANGED <<stateVars, layoutVars, searchVars, radioVars, queue,
                   eventVars, timerVars, link, airVars>>

(* parent_infos_.erase *)
KeepCandidate(m) == parent_infos
EraseCandidate(m) == [parent_infos EXCEPT ![m] = NoRssi]

(* The first request, or the next one after CONNECT_TIMEOUT. *)
RequestNextParent ==
    /\ LockFree /\ phase = "Connect"
    /\ \E m \in Candidates :
         /\ \A n \in Candidates : parent_infos[n] <= parent_infos[m]
         /\ current_parent' = m
         /\ asked' = asked \cup {m}
         /\ parent_infos' = EraseCandidate(m)
    /\ UNCHANGED <<stateVars, layoutVars, phase, parent_wait,
                   search_probes_sent, current_channel, radioVars, queue,
                   eventVars, timerVars, link, probed>>

ParentsExhausted ==
    /\ LockFree /\ phase = "Connect"
    /\ Candidates = {}
    /\ EnterSearch
    /\ UNCHANGED <<stateVars, layoutVars, parent_infos, radioVars,
                   queue, eventVars, timerVars, link, airVars>>

UnreachableTimeout ==
    /\ LockFree
    /\ awaiting_reachable /\ unreachable_timer = "over"
    /\ awaiting_reachable' = FALSE
    /\ DropParent
    /\ UNCHANGED <<rootMac, children, connectVars, searchVars, radioVars,
                   eventVars, unreachable_timer, link, airVars>>

(* lost: the children whose last beacon is too old; gone: the parent's is.  *)
NeighborCheck(lost, gone) ==
    /\ LockFree
    /\ lost # {} \/ gone
    /\ children' = children \ lost
    /\ IF gone THEN DropParent ELSE UNCHANGED <<parent, state, queue>>
    /\ UNCHANGED <<rootMac, connectVars, searchVars, radioVars, eventVars,
                   timerVars, link, airVars>>

-----------------------------------------------------------------------------
(* The EVENT task. *)

(* Events other than STATE_CHANGED have only ConnectJob's handler. *)
TakeEvent ==
    /\ pc = "idle" /\ queue # <<>>
    /\ ev' = Head(queue) /\ queue' = Tail(queue)
    /\ pc' = IF Head(queue).kind = "STATE_CHANGED" THEN "netif" ELSE "connect"
    /\ UNCHANGED <<stateVars, layoutVars, connectVars, searchVars,
                   radioVars, timerVars, link, airVars>>

(* NowNetif::event_handler, the interface being started. *)
LinkDownOnlyOnLoss(e) ==
    IF e.new = REACHES THEN TRUE ELSE IF e.new = DISC THEN FALSE ELSE link
LinkAfter(e) ==
    IF e.new = REACHES THEN TRUE ELSE IF e.old = REACHES THEN FALSE ELSE link

NetifHandler ==
    /\ pc = "netif"
    /\ link' = LinkAfter(ev)
    /\ pc' = "connect"
    /\ UNCHANGED <<stateVars, layoutVars, connectVars, searchVars,
                   radioVars, queue, ev, timerVars, airVars>>

(* The change that sends DonePhase back to searching. *)
LostOrCutOff(e) == e.new # REACHES
LostFromCutOff(e) == e.old = CONN /\ e.new = DISC
Lost(e) == e.new = DISC

(* The response ConnectPhase waits for. *)
AnyAnswer(e) == TRUE
Answers(e) == e.mac = current_parent

EndConnectHandler ==
    IF ev.kind = "STATE_CHANGED"
      THEN pc' = "unreachable" /\ UNCHANGED ev
      ELSE pc' = "idle" /\ ev' = NoEvent

(* The phases' early returns. *)
IgnoreEvent ==
    /\ pc = "connect" /\ LockFree
    /\ \/ phase = "Search" /\ ev.kind # "PARENT_FOUND"
       \/ phase = "Search" /\ ev.kind = "PARENT_FOUND" /\ MayKnow(ev.mac)
       \/ phase = "Connect" /\ ev.kind # "GOT_CONNECT_RESPONSE"
       \/ /\ phase = "Connect" /\ ev.kind = "GOT_CONNECT_RESPONSE"
          /\ ~Answers(ev)
       \/ phase = "Done" /\ ev.kind # "STATE_CHANGED"
       \/ phase = "Done" /\ ev.kind = "STATE_CHANGED" /\ ~Lost(ev)
    /\ EndConnectHandler
    /\ UNCHANGED <<stateVars, layoutVars, connectVars, searchVars,
                   radioVars, queue, timerVars, link, airVars>>

ListOverfull == Cardinality(Candidates) > MAX_PARENTS_TO_CONSIDER
ListFull == Cardinality(Candidates) >= MAX_PARENTS_TO_CONSIDER

(* The candidates after a reply of m: a full list gives up its weakest      *)
(* entry unless the new one is weaker still.                                *)
Considered(m, r) ==
    IF m \in Candidates \/ ~ListFull
      THEN {[parent_infos EXCEPT ![m] = r]}
      ELSE {IF r < parent_infos[w] THEN parent_infos
                ELSE [parent_infos EXCEPT ![w] = NoRssi, ![m] = r] :
              w \in {w \in Candidates : \A n \in Candidates :
                                   parent_infos[w] <= parent_infos[n]}}

RecordParent ==
    /\ pc = "connect" /\ LockFree
    /\ phase = "Search" /\ ev.kind = "PARENT_FOUND" /\ ~Knows(ev.mac)
    /\ parent_infos' \in Considered(ev.mac, ev.rssi)
    /\ IF Candidates = {}
         THEN parent_wait' = "running" /\ nvs' = current_channel
         ELSE UNCHANGED <<parent_wait, nvs>>
    /\ EndConnectHandler
    /\ UNCHANGED <<stateVars, layoutVars, connectVars,
                   search_probes_sent, current_channel, radio, queue,
                   timerVars, link, airVars>>

AcceptsInAnyPhase ==
    pc = "connect" /\ LockFree /\ ev.kind = "GOT_CONNECT_RESPONSE"
AcceptsResponse ==
    /\ pc = "connect" /\ LockFree
    /\ phase = "Connect" /\ ev.kind = "GOT_CONNECT_RESPONSE"
    /\ Answers(ev)

AdoptParent ==
    /\ AcceptsResponse
    /\ state # REACHES => Len(queue) < QUEUE_SIZE
    /\ parent' = ev.mac /\ rootMac' = ev.root
    /\ SetState(REACHES)
    /\ phase' = "Done" /\ current_parent' = NoNode
    /\ EndConnectHandler
    /\ UNCHANGED <<children, searchVars, radioVars, timerVars, link, airVars>>

(* The loop's own task may not wait for room in its queue: the post fails   *)
(* and ESP_ERROR_CHECK aborts.                                              *)
AbortOnFullQueue ==
    /\ AcceptsResponse
    /\ state # REACHES /\ Len(queue) >= QUEUE_SIZE
    /\ Reboot

ResumeSearch ==
    /\ pc = "connect" /\ LockFree
    /\ phase = "Done" /\ ev.kind = "STATE_CHANGED" /\ Lost(ev)
    /\ EnterSearch
    /\ EndConnectHandler
    /\ UNCHANGED <<stateVars, layoutVars, parent_infos, radioVars,
                   queue, timerVars, link, airVars>>

(* UnreachableTimeoutJob::event_handler runs without the Lock: a change     *)
(* while waiting ends the wait ...                                          *)
EndUnreachableWait ==
    /\ pc = "unreachable" /\ awaiting_reachable
    /\ awaiting_reachable' = FALSE /\ unreachable_timer' = "over"
    /\ pc' = "idle" /\ ev' = NoEvent
    /\ UNCHANGED <<stateVars, layoutVars, connectVars, searchVars,
                   radioVars, queue, link, airVars>>

(* The change that arms the timer. *)
ArmsOnLoss(e) == e.old = REACHES /\ e.new = DISC
ArmsOnAnyLoss(e) == e.old = REACHES /\ e.new # REACHES
Arms(e) == e.old = REACHES /\ e.new = CONN

(* ... and losing the root begins one, in two writes ...                    *)
BeginUnreachableWait ==
    /\ pc = "unreachable" /\ ~awaiting_reachable
    /\ Arms(ev)
    /\ awaiting_reachable' = TRUE
    /\ pc' = "since"
    /\ UNCHANGED <<stateVars, layoutVars, connectVars, searchVars,
                   radioVars, queue, ev, unreachable_timer, link, airVars>>

StampUnreachableWait ==
    /\ pc = "since"
    /\ unreachable_timer' = "running"
    /\ pc' = "idle" /\ ev' = NoEvent
    /\ UNCHANGED <<stateVars, layoutVars, connectVars, searchVars,
                   radioVars, queue, awaiting_reachable, link, airVars>>

(* ... other changes are nothing to it. *)
SkipUnreachableWait ==
    /\ pc = "unreachable" /\ ~awaiting_reachable
    /\ ~Arms(ev)
    /\ pc' = "idle" /\ ev' = NoEvent
    /\ UNCHANGED <<stateVars, layoutVars, connectVars, searchVars,
                   radioVars, queue, timerVars, link, airVars>>

-----------------------------------------------------------------------------
(* Time.  A stored tick of 0 counts as long past: the node has been up for  *)
(* longer than the timeouts.                                                *)
FirstParentWaitElapses ==
    /\ parent_wait = "running"
    /\ parent_wait' = "over"
    /\ UNCHANGED <<stateVars, layoutVars, connectVars, parent_infos,
                   search_probes_sent, current_channel, radioVars, queue,
                   eventVars, timerVars, link, airVars>>

UnreachableTimerElapses ==
    /\ unreachable_timer = "running"
    /\ unreachable_timer' = "over"
    /\ UNCHANGED <<stateVars, layoutVars, connectVars, searchVars,
                   radioVars, queue, eventVars, awaiting_reachable, link,
                   airVars>>

-----------------------------------------------------------------------------
Packet ==
    \E m \in Nodes :
      \/ \E s \in States, r \in Roots : HandleStatus(m, s, r)
      \/ \E r \in Rssi : HandleSearchReply(m, r)
      \/ \E r \in Roots : HandleConnectOk(m, r)
      \/ HandleConnectRequest(m)
      \/ HandleRootUnreachable(m)
      \/ HandleRootReachable(m)

Job ==
    \/ SearchProbe \/ SwitchChannel \/ StartConnecting
    \/ RequestNextParent \/ ParentsExhausted
    \/ UnreachableTimeout
    \/ \E lost \in SUBSET children, gone \in BOOLEAN :
         NeighborCheck(lost, gone)

ConnectHandler ==
    \/ IgnoreEvent \/ RecordParent \/ AdoptParent \/ AbortOnFullQueue
    \/ ResumeSearch

UnreachableHandler ==
    \/ EndUnreachableWait \/ BeginUnreachableWait \/ StampUnreachableWait
    \/ SkipUnreachableWait

EventTask == TakeEvent \/ NetifHandler \/ ConnectHandler \/ UnreachableHandler

Time == FirstParentWaitElapses \/ UnreachableTimerElapses

Next == Packet \/ Job \/ EventTask \/ Time \/ Reboot

Spec == Init /\ [][Next]_vars

(* The event task has the highest priority of the node's tasks and the      *)
(* runner performs every due job in each turn of its loop; clocks run.      *)
(* Nothing is assumed of the peers.                                         *)
Fairness ==
    /\ WF_vars(EventTask)
    /\ WF_vars(StartConnecting)
    /\ WF_vars(RequestNextParent \/ ParentsExhausted)
    /\ WF_vars(UnreachableTimeout)
    /\ WF_vars(Time)

FairSpec == Spec /\ Fairness

-----------------------------------------------------------------------------
(* Properties. *)

(* Every variable has its type. *)
TypeOK ==
    /\ state \in States
    /\ rootMac \in Roots \cup {NoNode}
    /\ parent \in Nodes \cup {NoNode}
    /\ children \in SUBSET Nodes
    /\ phase \in {"Search", "Connect", "Done"}
    /\ parent_infos \in [Nodes -> Rssi \cup {NoRssi}]
    /\ parent_wait \in {"none", "running", "over"}
    /\ search_probes_sent \in 0..PROBES_PER_CHANNEL
    /\ current_channel \in Channels
    /\ current_parent \in Nodes \cup {NoNode}
    /\ radio \in Channels
    /\ nvs \in Channels \cup {NoChannel}
    /\ queue \in Seq(Events)
    /\ pc \in {"idle", "netif", "connect", "unreachable", "since"}
    /\ ev \in Events \cup {NoEvent}
    /\ awaiting_reachable \in BOOLEAN
    /\ unreachable_timer \in {"running", "over"}
    /\ link \in BOOLEAN
    /\ probed \in BOOLEAN /\ asked \in SUBSET Nodes

IsChange(e) == e.kind = "STATE_CHANGED"
IsLoss(e) == IsChange(e) /\ e.new = DISC

(* The loss of the parent that ConnectJob has not yet been told of.         *)
LossInHand == pc \in {"netif", "connect"} /\ IsLoss(ev)
LossesQueued == {i \in 1..Len(queue) : IsLoss(queue[i])}
LossPending == LossInHand \/ LossesQueued # {}

(* ConnectJob learns of disconnections only through queued events, and its  *)
(* own actions queue more behind them.  Whatever the interleaving of        *)
(* packets, jobs and events, its phase is right for the node's state, up to *)
(* one event still on its way: a node that searches or connects is          *)
(* disconnected; a node that is done is connected, or exactly one event     *)
(* that will send it back to searching is pending.  Only ConnectPhase waits *)
(* for an answer.                                                           *)
PhaseFollowsState ==
    /\ phase # "Done" => state = DISC /\ ~LossPending
    /\ phase = "Done" => (state = DISC <=> LossPending)
    /\ \A i, j \in LossesQueued : i = j
    /\ LossInHand => LossesQueued = {}
    /\ phase # "Connect" => current_parent = NoNode

(* The asserts of packet_handler.cpp (reachesRoot, isParent, disconnected)  *)
(* and of state.cpp (getRootMac): the state and the layout agree wherever   *)
(* the Lock is free, and a root that is reached is known, which the         *)
(* RootReachable handler relies on, as it sets no address, in any connected *)
(* node.                                                                    *)
AssertionsHold ==
    /\ state = DISC <=> parent = NoNode
    /\ state # DISC => rootMac # NoNode

Drained == pc = "idle" /\ queue = <<>>

(* The network interface follows the state by events only: once they are    *)
(* handled, it carries traffic exactly if the root is reached.              *)
LinkFollowsState == Drained => (link <=> state = REACHES)

(* The unreachable-root timer is armed by events and disarmed by events and *)
(* by its own expiry, without the Lock: once the events are handled, it is  *)
(* armed exactly in a node that has a parent but no root.                   *)
TimerFollowsState == Drained => (awaiting_reachable <=> state = CONN)

(* The node a search ends with is no child of this one, though the list of  *)
(* candidates is older than the node's last connection, in which any of     *)
(* them may have become a child, and an answer that was no child's when it  *)
(* was handled waits in the event queue: the two would be each other's      *)
(* parents, and packets would go back and forth between them.               *)
ParentIsNoChild == parent \notin children

(* parent_infos_ outlives the phases, and it stays within its bound.        *)
CandidatesBounded == Cardinality(Candidates) <= MAX_PARENTS_TO_CONSIDER

(* A connect response that arrives late never replaces a parent: the parent *)
(* is always given up first.                                                *)
NoParentSwap == [][parent # NoNode => parent' \in {parent, NoNode}]_vars

(* The node's connection implements Attachment: one parent at a time, the   *)
(* one whose answer was awaited, and no claim to reach the root without one.*)
Attached == INSTANCE Attachment WITH
    asked <- current_parent, reach <- (state = REACHES)
AttachmentSpec == Attached!Spec

(* Liveness, as long as the event queue is not overrun.                     *)
NotOverrun == []LockFree

(* A node that lost its parent goes back to searching.                      *)
SearchResumes ==
    NotOverrun => (state = DISC /\ phase = "Done" ~> phase # "Done")

(* Connecting ends, in a connection or, the candidates exhausted, in a      *)
(* search: no answer is waited for forever.                                 *)
ConnectingEnds == NotOverrun => (phase = "Connect" ~> phase # "Connect")

(* A node cut off from the root does not stay so: the root is reachable     *)
(* again or the parent is given up.                                         *)
CutOffEnds == NotOverrun => (state = CONN ~> state # CONN)

=============================================================================
