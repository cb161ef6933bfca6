# meshNOW in TLA+

meshNOW connects ESP32 nodes into a tree by ESP-NOW packets. One node is the
root; each other node searches for a *parent* that reaches the root, asks it,
and then accepts *children* of its own. This directory models the library
(`meshnow/src`), checks the models with TLC and proves their safety properties
with TLAPS. Line references are to `meshnow/src` unless they say
otherwise.

## The system

A node runs these tasks, all of which share one mutex, the `Lock` (lock.cpp):

| Task | What it does |
|---|---|
| ESP-NOW receive callback | deserializes a packet and pushes it to the receive queue (receive/receiver.cpp) |
| job runner | one packet, then every job that is due, in a loop (job/runner.cpp) |
| internal event loop | takes one event from a queue of 16 and calls its handlers (event.cpp) |
| send worker | pops an item from the send queue and sends it to its next hops (send/worker.cpp) |
| io receive | hands reassembled frames to the IP stack (netif.cpp) |
| IP stack, user tasks | enqueue frames and custom messages, register callbacks, start and stop (netif.cpp, meshnow.cpp) |

### Components

| Component | State | Operations | Talks to | Hard behaviour | What makes it correct |
|---|---|---|---|---|---|
| state (state.cpp) | state, root's address | setState | fires STATE_CHANGED; enqueues RootReachable/RootUnreachable for the children | called by two tasks, its readers learn of it late | agrees with the layout; what the children believe ends with the truth or with a new search |
| layout (layout.cpp) | parent, children with a routing table each | add, remove, look up | everybody, most of them under the Lock | read and written without the Lock in `handlePacket` | parent is no child; routing tables are disjoint |
| internal events (event.cpp) | a bounded queue | fire, handlers | setState, PacketHandler → ConnectJob, UnreachableTimeoutJob, NowNetif | a post waits with the Lock held, a handler needs the Lock | handlers end in agreement with the state |
| ConnectJob (job/connect.cpp) | phase, candidates, channel, the candidate asked | SearchPhase, ConnectPhase, DonePhase: an action and an event handler each | PacketHandler by events, setState, flash | late answers, stale candidates, timeouts | one parent at a time, the one asked; it always goes on |
| keep-alive (job/keep_alive.cpp) | when the last beacon came; an unreachable timer | StatusSend, UnreachableTimeout, NeighborCheck | setState, layout | the timer is written without the Lock | a dead parent or a lost root is given up, a live one is not |
| PacketHandler (job/packet_handler.cpp) | none of its own | one handler per packet, forwarding, learning of routes | all of the above, send | packets late, lost, duplicated; cycles | no cycle without the root |
| send (send/*.cpp) | a bounded queue | enqueue, the worker, five behaviors | layout, radio | enqueue waits with the Lock held; retries while the layout changes | a retried packet is neither lost nor multiplied |
| receive (receive/*.cpp) | a bounded queue | push, pop | runner | drops when full | order |
| netif (netif.cpp) | link flag, io task | event handler, transmit, receive | fragments, send | follows the state by events | carries traffic exactly if the root is reached |
| fragments (fragments.cpp, job/fragment_gc.cpp) | reassembly map, queue of frames | addFragment, pop, collect | runner, io task | key collisions, duplicates, timeouts | a frame delivered is one that was sent |
| custom (custom.cpp) | list of callbacks | register, unregister, call | user tasks, runner | list changed while it is walked | each registered callback is called once |
| packets (packets.cpp, constants.hpp) | none | serialize, deserialize | send worker, receiver | sizes at their limits, bit fields | what the radio takes is read as it was sent |
| life cycle (meshnow.cpp, networking.cpp, wifi.cpp) | initialized, started, the tasks, Wi-Fi and its handlers | init, start, stop, deinit | all | a step fails half way; stop waits for tasks that may be stuck; tasks are deleted | no task is deleted with the Lock, none runs without its queues, stop returns |
| layout queries (meshnow.cpp) | none | six getters | layout | counts what is listed twice | the size is the number of nodes |
| util, examples | none | wrappers | | | |

`PROJECT.json` lists the components with what is modelled of each, and under
`hazards` every place of the code that a test would hardly reach.

## The modules

| Module | Models | Extended or instantiated by |
|---|---|---|
| `Attachment` | what a node's connection promises: one parent at a time, the one it asked, and no claim to reach the root without one | instantiated by `MeshNode` and `Mesh` |
| `MeshNode` | one node, inside: runner and event task, step by step | `MCMeshNode`, `MeshNode_proofs` |
| `Mesh` | several nodes and the packets between them | `MCMesh`, `Mesh_proofs` |
| `Routing` | the routing tables of several nodes and the packets that find their way by them | `MCRouting`, `Routing_proofs` |
| `Send` | send queue, worker, behaviors | `MCSend`, `Send_proofs` |
| `Fragments` | frames cut into fragments, put together again, collected, given to the IP stack | `MCFragments`, `Fragments_proofs` |
| `Packets` | payloads, how long their buffers are, what the reader makes of them | `Custom` |
| `Custom` | the way of a payload from `meshnow_send` to the callbacks of another node, and their list | `MCCustom`, `Custom_proofs` |
| `Lifecycle` | init, start, stop, deinit and the tasks that come and go | `MCLifecycle`, `Lifecycle_proofs` |

Each `MC` module gives the constants of its module their values for TLC. The
theorems are in eight more: `MeshNode_proofs` and `MeshNodeEvents_proofs`, which extends
it, `Mesh_proofs`, `Routing_proofs`, `Send_proofs`, `Fragments_proofs`, `Custom_proofs`,
`Lifecycle_proofs`.

### MeshNode

A packet or a job of the runner is one critical section and so one action
(`HandleStatus`, `HandleConnectOk`, …, `SearchProbe`, `NeighborCheck`, …). The
event task is slower than that: `TakeEvent` takes an event, and each of its
handlers is a step of its own, in the order in which they registered
(`NetifHandler`, then ConnectJob's, then UnreachableTimeoutJob's, whose two
writes are two steps as no lock guards them). `pc` is the handler to call next.
A handler that needs the Lock waits for `LockFree`.

`queue` holds up to `QUEUE_SIZE` events. A `fire()` that finds it full waits,
its Lock held: the model appends the event as element `QUEUE_SIZE + 1` and
nobody else gets the Lock until the event task has taken one. If the event task
holds an event whose handler needs the Lock, nobody ever moves again: the code
deadlocks there, and so does the model. The loop's own post cannot wait; it
fails, and `ESP_ERROR_CHECK` aborts (`AbortOnFullQueue`).

The peers are an environment that may send whatever a peer can send, and nothing unasked
where only an answer makes sense (`probed`, `asked`). What the node sends its children
is left to `Mesh`: an enqueued packet may be dropped or overtaken, so that no variable
of one node could say what they know. Clocks are abstract: a timeout that was started is
running or over, and a tick of 0, which the code compares as if it were a time, is long
over.

Left out: the contents of routing tables (`MayKnow` allows either answer where a
child could list the address), the probe and status intervals, packets that the
handlers drop in their first lines, and the events for the user's loop.

### Send

Items are enqueued once each. `BeginPost`/`EndPost` are an `enqueuePayload` with
the Lock held, which blocks while the queue is full and gives up after
`QUEUE_TIMEOUT`; `PostUnlocked` is one without. `PopItem`, `SendItem` and
`Requeue` are the worker, of which the last two hold the Lock. `Targets` gives
the hops a behavior resolves to; the radio accepts at any of them or does not.
`ChangeLayout` and `LearnRoute` stand for the rest of the node, and change the
layout between any two steps, as far as the Lock lets them. The retry lists
of the behaviors (`failed_`, send/def.cpp) are not there because the code
never reads them: the sink's `requeue()` enqueues the copy of the behavior that
was taken before `send()` ran (worker.cpp:59), whose list is always empty, so that a
retry to all children goes to everybody again, although def.cpp:53 says "do the
remaining ones next time".

### Mesh

The state, parent, children, the candidate asked and the receive queue of each node. The
handlers are `MeshNode`'s, with the packets they send put into the queues of their
receivers; what happens inside a node between the packets (events, phases, candidates)
is left to `MeshNode`, so that a node without a parent may ask any node in range.
Packets are lost on the air (`Lose`) or at a full receive queue (`Fit`). What a node
tells its children of the root (`SendNews`) goes through its send queue: it may be
dropped there after 100 ms (send/queue.cpp:24), or be refused by a child and put back
behind newer news (send/def.cpp:54), so that it comes late (`late`, `SendAgain`;
`MAX_LATE` bounds how many packets are put back at a time). Nodes reset, keep-alive
timeouts fire at any time, even for neighbours that live. A beacon repeats, so it is not
queued: it is read where it is heard.

A node also knows what is in its routing tables (Layout::has, layout.cpp:26), and
ignores a request or an answer of such a node. The tables depend on what came of the
RoutingTableAdd packets, which are not sent here: `MayKnow` lets a node with children
know any other, or not.

Two assumptions on time are made and named in the module. `Waited`: a node gives its
parent up only when no ConnectOk is in its receive queue. The code has no such guard; it
stands for time. `last_seen` is set with the parent (layout.hpp:27-30), so a node has a
parent for 3 s at least (NeighborCheck) or 10 s (UnreachableTimeout, but for the race of
finding 1, which may give a parent up at once and is left out here); its last request
was made before, and `Waited` says that this request and its answer take less time than
that, through both receive queues (the runner handles one packet in each turn). A reset
takes no such time and needs no such guard. Answers that are later than CONNECT_TIMEOUT,
which counts from the request, are modelled: the node has asked another candidate by
then, or has a parent for a while. Without `Waited`, a child that was dropped while its
ConnectOk was under way would be accepted as a parent by its own parent; TLC finds that
with receive queues of two places or more. The other assumption: no packet waits for as
long as its sender takes to boot.

### Fragments

The way of frames from `transmit()` of any sender to the IP stack of one node.
`Nums` and `Size` are the sender's loop; the receiver computes the number of
fragments by a division (`NumFragments`), and `frag_num` has 3 bits. The network
between them may lose a fragment, repeat it (a retried broadcast goes to
everybody again, see Send) or let others overtake it (a retry goes to
the end of the send queue): `AddFragment` receives any fragment of any frame
at any time, up to `MAX_COPIES` times.

`AddOnly`, `AddFirst` and `AddNext` are the three ways through `addFragment`. A
buffer is the sequence of its pieces, each named by the frame it comes from, and
`NoFrame` where the bit of `fragment_mask` is clear. As with events, the push that
waits with the Lock held is the element `FINISHED_SIZE + 1` of
`finished_queue`; until the io task has popped one, the runner neither adds nor
collects (`RunnerFree`). `stale` is the set of keys whose last fragment is
older than FRAGMENT_TIMEOUT; the collector removes all of them.

`UniqueAssumption` says what fragments.cpp:70 says in quotation marks, that a
sender's frames differ in the 16 bits of the id that the key holds. The ids are
random, so it is probable and not certain; without it two frames are mixed.

### Routing

`Mesh` leaves the routing tables out, and this module is about nothing else:
`table[n][c]` is the table that `n` keeps for its child `c`, the sequence it is in
the code, for entries may be listed twice and are removed as the code does it.
How parents are found is not repeated: `Attach` is the
whole exchange, whose answer may be lost, so that a node can be the child of two
others for a while. `DropParent` and `DropChild` are the keep-alive timeouts.

Every packet is learned from when it is handled (`Learn`): the table of the child
it came over gets its sender, the tables of the other children lose it. That
the child's own table comes to hold the child itself is so in the code.
`HandleRoutingTableAdd` appends without a look and stops there;
`HandleRoutingTableRemove` calls `std::remove_if` without an `erase` (`RemoveIf`)
and passes the news on. `Resolve` is `FullyResolve`; data fragments are the
traffic, from the nodes in `Askers` to the root and back.

Packets are lost at full receive queues, and those that are not keep their order,
hop by hop. The send queue, which may put a refused packet back behind later
ones, is `Send`'s. That its reordering does not matter here is an assumption: a
refused RoutingTableAdd is tried again, or dropped for want of a parent,
before its node has another parent.

### Packets and Custom

`Packets` has no state. A payload is a record, its data a length and a name; a buffer
is the payload as `Written` (the bit fields cut `frag_num` to 3 bits and `total_size`
to 11) and its size. `Readable` is `deserialize`: the magic, the `validateRead` of the
extensions, and the test that the reader took all of the buffer, where it takes
as many bytes of a fragment as it computes from those fields (`ToRead`, with its
subtraction of 16 bits). The bytes themselves are bitsery's.

`Custom` follows a payload through `meshnow_send` (`Send`), the send worker (`Accept`,
`Refuse`), the air and the receiver (`Receive`) to the runner. The callbacks are a
doubly linked list with its cells given out again after they were freed. The
application changes it without the Lock, while the runner walks it with the
Lock held: each write of `createCBHandle` and `destroyCBHandle` is an action of
its own (`Register`, `LinkFirst`, `PublishFirst`; `Unregister`, `Unlink`, `Free`), and
so is each call and each read of the walk (`BeginWalk`, `Call`, `Advance`,
`EndWalk`). One task of the application makes one such call at a time; a callback
that registers or unregisters is such a call as well. When the cell the runner is at
is freed (`astray`), what it reads next may be anything.

### Lifecycle

`call` is the next step of `meshnow_init`, `_start`, `_stop` or `_deinit`; the tasks run
between any two steps. A step in `Fails` may fail; the call returns there, as
`ESP_RETURN_ON_ERROR` does, and nothing that was done is undone: a start that failed
after the runner was created leaves it running. `broken` remembers that start, stop or
deinit was left half way, and is not in the code; the properties except what happens
afterwards, until the node resets.

Of a task the model keeps whether it is in its loop, in a turn, or holds the Lock, and
its end: the runner and the worker set their bits when they see `stop_tasks_`
(`RunnerFinishes`, `WorkerFinishes`), `stop()` waits for both without a timeout
(`WaitForTasks`) and deletes them, the io task it deletes at once, wherever it is.
A turn of the runner may complete a frame and then wait for room in
`finished_queue`, its Lock held (`RunnerPush`). `RunnerReturns` is the end of its
function, where the jobs' destructors unregister their handlers; if it is deleted before,
they stay registered, and the event task calls the handler of a job that is no more.
`Crash` has that, an `ESP_ERROR_CHECK` that fails, and the use of queues that are
gone. `handlers` are the Wi-Fi event handlers of a root with a router: `held` while
their instances are known, `lost` after they were overwritten by a second registration.
`uplink` is its connection to the router.

## The runs

| Run | Module, cfg | Question | Result |
|---|---|---|---|
| `node` | MCMeshNode, MeshNode.cfg | do phase, state, layout, link, timer and children agree, whatever the interleaving? does the node implement `Attachment`? does it always go on searching, connecting, giving up? | pass; the last one as long as the event queue is not overrun |
| `unreachable_race` | MCMeshNode, MeshNodeUnreachableRace.cfg | keep_alive.cpp:21, "disconnect from parent if the root was unreachable for 10s" | violated |
| `mesh` | MCMesh, Mesh.cfg | do two nodes become each other's parents, is a parent ever a child, does a node that is cut off notice? | pass, the last one for two nodes beside the root |
| `mesh_island` | MCMesh, MeshIsland.cfg | the last one for three, docs/source/sdkconfig.rst:82 | violated |
| `routing` | MCRouting, Routing.cfg | is a node below one child only, and does the answer to its packet go back where the packet came from? | pass |
| `routing_mesh_size` | MCRouting, RoutingMeshSize.cfg | include/meshnow.h:269, "obtain the total number of nodes in the mesh" | violated |
| `send` | MCSend, Send.cfg | are retried packets kept, and sent once? is every packet tried? does a full queue stop the node? | pass |
| `fragments` | MCFragments, Fragments.cfg | is what the IP stack gets what was sent? does anything stay for ever? | pass |
| `custom` | MCCustom, Custom.cfg | is what was sent read as it was sent, and does it reach every callback once, whatever is registered meanwhile? | pass |
| `custom_size` | MCCustom, CustomSize.cfg | include/meshnow.h:227, a message "cannot exceed MESHNOW_MAX_CUSTOM_MESSAGE_SIZE": is one that does not ever sent? | violated |
| `lifecycle` | MCLifecycle, Lifecycle.cfg | does stop return, and leave no task, no lost Lock, nobody without queues? | pass |
| `restart_router` | MCLifecycle, LifecycleRouter.cfg | include/meshnow.h:186, a root "will connect to the router" | violated |

The properties:

- `PhaseFollowsState`: ConnectJob's phase is right for the node's state, up to one
  disconnection still on its way through the event queue.
- `AssertionsHold`: the `assert`s of packet_handler.cpp and state.cpp.
- `LinkFollowsState`, `TimerFollowsState`: with the events handled, the network
  interface and the unreachable timer are what the state says.
- `StateFollowsParent`, `ParentIsNoChild`, `NoMutualParents`: what neighbours think of
  each other. `node` asks whether the parent can be a child although the candidates are
  of an earlier search and the answer waited in the event queue meanwhile; `mesh`
  whether it can when the requests of two nodes cross. Answers may be later than
  CONNECT_TIMEOUT, but not later than `Waited` says.
- `NoParentSwap`, `AttachmentSpec`, `EachAttached`: one parent at a time, the one
  asked, and no claim to the root without one.
- `SearchResumes`, `ConnectingEnds`, `CutOffEnds`: nothing is waited for for ever.
- `CutOffDisconnects`: a node with no path to the root disconnects, whichever news of
  the root is lost, overtaken or wrong. That the last word a child hears is true is not
  claimed, for it is not so: besides drops and overtaking retries, a node that hears
  RootReachable tells its children, and then forwards the packet to them as
  RootUnreachable, a slip at packet_handler.cpp:376; they believe the root is gone until
  its next beacon.
- `OneRoute`, `AnswersGoBack`: a node that was never taken as a child twice is in the table
  of one child of each node at most, and each node answers it over the child its packet came
  from. This is so in trees and in cycles, which nothing in the code excludes (see finding
  2); in a cycle a packet may come from below although its sender is the parent or another
  child, and then the answer goes to that neighbour itself. For a
  node that was taken twice neither holds: RoutingTableAdd lists it below its new
  ancestor without a look at the other children's tables, learning then finds it where
  it should be and never looks at those either, and `remove_if` may leave it where
  it was. Packets to it then go the old way until that child is dropped.
- `UnicastOnce`: a packet for one destination is accepted by one hop at most, and
  once, although the hop may change between two tries. (A retry to all children
  goes to everybody again.)
- `RetryKept`: a retried packet leaves the node when the hops it resolves to, of which
  there is one at least, have accepted it. There are two exceptions, both of which the
  code has: the send queue is full when it is enqueued or put back, or it is tried when
  the layout has nobody for it, no parent or no children (`NobodyFor`; def.cpp:34, 47,
  137, 147): such a packet is lost, in silence.
- `EveryItemTried`, `LockReturned`: nobody starves behind retries or a full queue.
- `DeliveredWhole`, `NoMoreThanReceived`, `NoneWithheld`: frames come out whole,
  no more often than they came in, and at once when they are complete.
- `EntriesLeave`, `RunnerGoesOn`: an incomplete frame is collected or completed,
  and the runner does not wait for ever for room.
- `ReadAsSent`: what the radio takes, the reader accepts, and reads as it was written.
- `ListKept`: between its changes the list is the registered callbacks, newest
  first, in both directions.
- `CalledOnce`: a message reaches each callback that is registered while it is handled,
  once, whatever is registered and unregistered between any two reads of the walk; but
  not if the callback the runner is at is freed.
- `LockComesBack`: the Lock belongs to one task at most, and one that runs.
- `TasksHaveQueues`: who uses the queues and the event loop finds them, and "started"
  tells the truth about the tasks.
- `StopReturns`: stop returns, but for one case that it really has: the io task, which
  is deleted first, no longer empties `finished_queue`, and the runner waits for room in
  it (networking.cpp:104). These last three except what follows a start, stop or deinit
  that failed half way.

### Findings

1. **A parent is dropped although the root is reachable** (`unreachable_race`).
   UnreachableTimeoutJob's handler sets `awaiting_reachable` before
   `mesh_unreachable_since_`, and both without the Lock (keep_alive.cpp:111-112):
   a job between the two takes the 0 of the last wait for the start of
   this one. And it disarms only when the event is handled: a job that runs
   between setState and the handler drops a parent through which the root is
   reachable again.
2. **Islands** (`mesh_island`). A node that loses its link keeps its children, and a
   descendant that still claims to reach the root may take it as a child. Each node of
   the cycle then hears REACHES_ROOT from the one before it, for ever. TLC needs three
   nodes beside the root for it and one link that fails, with all news of the root
   delivered at once. What stands in the way is that a node ignores the answer of a node
   it knows (packet_handler.cpp:302). It knows a grandchild once its child's
   RoutingTableAdd has come (line 295), or a packet of the grandchild has passed; so the
   announcement has to be lost or late here, and nothing resends one. It goes up one hop
   only (the forwarding at lines 326-329 is commented out): of descendants further
   below, a node hears by the packets they send up, if they send any.
3. **The mesh is counted too large** (`routing_mesh_size`). The size adds the lengths
   of the root's routing tables to the number of its children (meshnow.cpp:428),
   but a child that sent a packet of its own, such as its beacon, is in its own
   table as well, and is counted twice.
4. **Messages of 229 and 230 bytes are never sent** (`custom_size`). They are legal for
   `meshnow_send`, but `MAX_CUSTOM_PAYLOAD_SIZE` (constants.hpp:14) leaves out the
   length that is written before the data: their packets are longer than ESP-NOW
   takes, each hop refuses them, and they go back to the send queue for ever.
5. **A root that was stopped does not connect to its router again**
   (`restart_router`). wifi::stop unregisters the handlers (wifi.cpp:122) that only
   wifi::init registers.

### Bounds

- `MeshNode`: two neighbours suffice for a parent and another candidate, an answer of
  the wrong one, and a child beside the parent. Both may be candidates, so that one of
  them is left over from a search and asked in the next, when it has become a child.
  With one signal strength there is no replacement by strength in the run, and none in
  its properties; that the list keeps its bound then, too, is the theorem
  `CandidatesBoundedCorrect`. One channel, as nothing but `NextChannel` depends on their
  number; its wrap is exercised at every switch. Three places in the event queue hold an
  answer, the loss before it and what comes after, and the fourth is the post that
  waits; the queue is full and overrun in this instance. `unreachable_race` needs less
  of everything.
- `Mesh`: two nodes beside the root are the fewest that can be each other's parents,
  three the fewest for an island through a node that is not known. The receive queues
  are of size 1; an overflow is only one more way to lose a packet. One packet of news
  is put back at a time, which suffices for it to come after newer news. The theorems
  have queues of any size and any `MAX_LATE`.
- `Routing`: a root, a node `p` below it, a node `x` that may attach to either and moves
  once, with a child `y` that moves along with it: the fewest where a subtree changes
  its place in the tables of a node that stays. `p` may also attach to `y`, so that the
  three form a cycle when `x` then attaches to `p`. `MaxJoins` lets the one that moves
  be taken twice and its child once, so that the properties are about the child, whose
  way changes although it never does anything. Queues of two overflow.
- `Send`: one item of each behavior that is retried, in a queue of two, so that
  it is full with two waiting behind it; one parent or child each, and a far node.
  The root's own resolution differs by one early return (`IsRoot`).
- `Fragments`: frames of three, two and one fragments of two bytes, the last
  piece full or not; two senders with one id, so that a key without its address is
  wrong; each fragment twice, so that a duplicate can begin an entry after its frame
  was complete and even complete a second one; a queue of one frame, so that the
  runner waits. The run may stop (`CHECK_DEADLOCK FALSE`) when every copy was received
  and handled.
- `Custom`: three handles, any two of them in the list while the third comes or goes,
  interchangeable (`SYMMETRY`; the run has no liveness). The last and the first piece of
  a frame of 1500 bytes, where `frag_num` and the number of bytes to read are at their
  ends, and the longest message the radio takes. `custom_size` has the shortest with a
  prefix of two bytes, and the longest that is legal.
- `Lifecycle`: `MCFails`, so that every step that can fails, and a root with a router; a
  queue of one frame, so that the runner waits. The rounds of init, start, stop and
  deinit are not bounded. `restart_router` has no failures: it needs none. The runs may
  stop (`CHECK_DEADLOCK FALSE`) where the node does: `stop()` waits for the runner, and
  the runner for room in `finished_queue`.

The other runs check for deadlock too, but a state of a single node in which its tasks
wait for each other, as at the overrun event queue of `MeshNode`, is none for TLC while
the node can still reset or its layout change; that is what the liveness properties are
for.

Nothing is bounded by a state constraint; every instance is finite by its
constants, as counters that are only compared saturate.

### Fairness

- `MeshNode`: the event task runs (its priority is above all others of the node);
  the runner performs every due job in each turn of its loop, so `StartConnecting`,
  the connect requests and `UnreachableTimeout` are weakly fair; clocks run.
  Nothing is assumed of the peers: no packet is ever required to arrive.
- `Send`: the worker loops, and a post ends, if only by its timeout. The radio
  may refuse for ever.
- `Fragments`: the runner performs the collector's job when it is due, clocks
  run, the io task loops. Nothing is assumed of the network.
- `Custom`: the send worker goes on, and the radio takes, time and again, a packet
  that is short enough for it. Only `custom_size` uses it.
- `Lifecycle`: a call goes on, and so does each task (weak); the Lock is given to each
  task that asks for it over and over (strong: FreeRTOS wakes the waiter with the
  highest priority, and every holder gives it back at each turn); the worker waits
  for an item no longer than its timeout. Nothing is assumed of the
  application, the router and of steps that may fail.
- `Routing`: none, as nothing is claimed to happen. That an asker is answered again and
  again is not so: a node that was lost may still be in the table of an ancestor, and
  the node that no longer finds it below sends the packet up again (FullyResolve falls
  back to the parent, and packets carry no hop count: the TODOs at
  packet_handler.cpp:39 and 41), back and forth, while others are dropped at full queues.
- `Mesh`: each node handles its packets (weak); a node whose parent beacons to it hears
  it (weak; if it does not, NeighborCheck gives the parent up, and that action is always
  possible); a node that hears no beacons, or that is CONNECTED_TO_PARENT, gives the
  parent up (strong, because `Waited` may be interrupted by an answer in its receive
  queue, which does not postpone the job in the code). That is more than the code does
  for a node that goes between CONNECTED_TO_PARENT and REACHES_ROOT for ever, whose
  timer starts anew each time. In the runs no node that is cut off does that: with all
  its ancestors below the root without parents or silent, the news they have left to
  send comes to an end. It would need a parent with several children one of which
  refuses a packet again and again, while the others hear it each time. Nothing is
  assumed of `SendAgain`.

## The proofs

Each theorem holds for all values of the constants that satisfy the named
assumptions of its module. Nothing else is assumed but what the actions of the models
do: `Waited` (Mesh) and queues that keep their order (Routing), see above.

| Module | Constants | Theorem | Statement |
|---|---|---|---|
| `MeshNode_proofs` | any neighbours, channels, candidates, event queue | `TypeCorrect` | `Spec => []TypeOK` |
| | | `PhaseCorrect` | `Spec => []PhaseFollowsState` |
| | | `AssertionsCorrect` | `Spec => []AssertionsHold` |
| | | `ParentIsNoChildCorrect` | `Spec => []ParentIsNoChild` |
| | | `AttachmentCorrect` | `Spec => AttachmentSpec` (refinement) |
| | | `NoParentSwapCorrect` | `Spec => NoParentSwap` |
| `MeshNodeEvents_proofs` | the same | `LinkFollowsStateCorrect` | `Spec => []LinkFollowsState` |
| | | `TimerFollowsStateCorrect` | `Spec => []TimerFollowsState` |
| | | `CandidatesBoundedCorrect` | `Spec => []CandidatesBounded` |
| `Mesh_proofs` | any nodes, ranges, receive queues, children | `TypeCorrect` | `Spec => []TypeOK` |
| | | `StateFollowsParentCorrect` | `Spec => []StateFollowsParent` |
| | | `ParentIsNoChildCorrect` | `Spec => []ParentIsNoChild` |
| | | `NoMutualParentsCorrect` | `Spec => []NoMutualParents` |
| | | `EachAttachedCorrect` | `Spec => EachAttached` (refinement, of each node) |
| `Send_proofs` | any neighbours, items, queue; a root or not | `TypeCorrect` | `Spec => []TypeOK` |
| | | `UnicastOnceCorrect` | `Spec => []UnicastOnce` |
| | | `RetryKeptCorrect` | `Spec => RetryKept` |
| `Fragments_proofs` | frames of any number and length that three bits can count, any fragment size, any queue | `TypeCorrect` | `Spec => []TypeOK` |
| | | `DeliveredWholeCorrect` | `Spec => []DeliveredWhole` |
| | | `NoneWithheldCorrect` | `Spec => []NoneWithheld` |
| | | `NoMoreThanReceivedCorrect` | `Spec => []NoMoreThanReceived` |
| `Custom_proofs` | any messages, any pieces of any frames of 1 to 1568 bytes, any handles | `ReadAsSentCorrect` | `Spec => []ReadAsSent` |
| | | `TypeCorrect` | `Spec => []TypeOK` |
| | | `ListKeptCorrect` | `Spec => []ListKept` |
| | | `CalledOnceCorrect` | `Spec => []CalledOnce` |
| `Routing_proofs` | any nodes, links, receive queues, children, number of moves | `TypeCorrect` | `Spec => []TypeOK` |
| | | `OneRouteCorrect` | `Spec => []OneRoute` |
| | | `AnswersGoBackCorrect` | `Spec => AnswersGoBack` |
| `Lifecycle_proofs` | any set of steps that fail, any queue, a router or none | `TypeCorrect` | `Spec => []TypeOK` |
| | | `LockComesBackCorrect` | `Spec => []LockComesBack` |
| | | `TasksHaveQueuesCorrect` | `Spec => []TasksHaveQueues` |

**`MeshNode_proofs`.** The inductive invariant is `IInv == TypeOK /\ PhaseFollowsState
/\ AssertionsHold`. Neither of its last two parts is inductive alone. That a node that
connects has no parent (`AssertionsHold`) needs that the phase is not behind the state
when an answer is taken (`PhaseFollowsState`); that at most one loss is pending needs
that a node is disconnected only by a step that removes a parent, and a node with a
parent is not disconnected. The lemmas `PhaseQuiet`, `PhasePost`, `PhaseLoss` and
`PhaseSetState` say what the four kinds of step do to it: nothing, an event that is no
loss, a loss, a change that is none; `LossesAfterAppend` and `LossesAfterTail` what a
queue operation does to the losses queued. Each action is then a case. `ParentIsNoChild`
needs to know of the answers that wait in the event queue: `NoChildAnswers` says that
none that ConnectJob may yet take is a child's, that is, while it connects, or behind
the loss with which the next search will begin (`BehindLoss`). An answer is queued only
while the node is disconnected and its sender no child, and children are taken only
while the node reaches the root. `AttachmentCorrect` maps each action to a step of
`Attachment` or a stutter, from `IInv`; `NoParentSwap` follows from it.

**`MeshNodeEvents_proofs`.** What a handler has been told of is a state of the past.
`Follow` says that the queue leads from there to the present: there is a `History`, a
state for each place of the queue, in which every event of a change continues the state
before it and the last one is the node's. `HandlersFollow` has the link and the timer
right for the first of these, or, while an event is in hand, for the side of it on which
`pc` is; the timer may be off early, but only with a change still to come. A post
extends the history (`HistoryPost`), an event taken shortens it (`HistoryTake`), and
with nothing queued the past is the present (`FollowDrained`). `CandidatesBounded` is
inductive with the finiteness of the set; the work is the cardinality of a replacement.

**`Mesh_proofs`.** No two nodes are each other's parents because no two answers cross:
`AnswersApart` says that the node that sent a ConnectOk has not taken its receiver as
its parent since, and that no two nodes without parents hold each other's. It rests on
the assumption on time of the module (`Waited`): a node does not lose its parent with an
answer in its queue. `FitIsPrefix`, `FitOfConcat` and `SentAdds` say what a receive
queue is after a handler has sent its packets, whatever is dropped; `Quiet`, `Detached`,
`AttachedTo` and `Answered` what the four kinds of step do to the invariant.
`EachAttached` needs `AsksAlone` besides: a node that has a parent waits for no answer.

**`Send_proofs`.** `Held` says who holds the Lock, `Alone` that an item is in one place
(left to enqueue, posted, queued or in the worker's hand), and `Fresh` that an item for
one hop that is still anywhere was accepted by nobody, since it would have gone
otherwise. `UnicastOnce` follows as at most one hop is tried (`OneHop`), and a try that
is refused adds none (`OneRetry`). That no hop at all is tried only if the layout has
nobody is `NoHop`. `RetryKept` counts places, so that `PlacesCounted` turns `Alone` into
cardinalities, and `LeavesOnly` says which steps let an item go.

**`Fragments_proofs`.** The invariant adds to `TypeOK` and `DeliveredWhole` that the
entry of a frame's key holds pieces of that frame only and misses one (`EntryOf`). The
pieces stay apart because keys do (`KeysDiffer`, from `UniqueAssumption`); the
arithmetic is in `NumsAreAll`, that the sender's loop and the receiver's division agree,
and in `OnlyMeansOne`, that the short circuit takes exactly the frames of one fragment,
without which a complete frame would wait in the map.

`NoMoreThanReceived` needs `Paid`: of each fragment of a frame, the receptions are at
least the times the frame came out, and one more if its entry holds that fragment. A
reception pays for one or the other; an entry that is completed turns into a delivery,
one that is collected forfeits what it held. The lemmas on `Count` say how often a
sequence has an element after an append and after a pop.

**`Custom_proofs`.** `OnItsWay` is the invariant, that the air holds serialized items that
fit. The arithmetic is in `FragmentRead`: neither 3 bits for the number of a piece
nor 11 for the size of its frame lose anything of a frame of up to 1568 bytes, and the
reader's subtraction yields the sender's piece; and in `MessageRead`, that a message the
radio takes is one the reader allows.

Of the callbacks, `List` says where each write of a registration or an unregistration
has got to: the links forward are right at every moment, and those back but for the one
to the handle that comes or leaves (`Coming`, `Leaving`, `PrevOf`). `Walk` has the
runner between two places of the list, or at the handle that is leaving there; what is
before that place and was registered from the beginning was called once, what is behind
was not. An unregistration moves the places behind it (`NthRemoved`), a registration all
of them (`NthPushed`). The runner may be at the handle that is leaving, and goes on
along the link that it still has: that this link leads to the place behind is the part
of `List` that `Walk` rests on.

**`Routing_proofs`.** What may list a node below a second child is not learning, which
removes a sender from the other tables when it adds it to one, but RoutingTableAdd,
which looks at none. `Announced` is what prevents it: a node that was taken once is
announced once, and the announcement waits only at a node that does not know it and
before anything it sent itself (queues keep their order). `Queues` says of each packet
that its sender, and whom it announces, has been taken as a child, and that news goes
one hop (`Fits`); `Fresh`, that nobody has heard of a node that was not taken. None of
this looks at the shape of the mesh, so that cycles need no case of their own. The
lemmas `LearnFacts`, `RemoveIfFacts`, `SentFacts` and `ResolveFacts` say what the
operators do; `Learned` and `Moved` are what all handlers do to the tables and to the
queues, so that the steps come down to two kinds: one that takes a child (`Grows`) and
one that takes none (`Shrinks`). `AnswersGoBack` needs the invariant before and after
the step. `Without` is a recursive function (as is a loop in the code): what it yields
is proved by an induction over the *set* of the numbers for which it is right (`NatSet`,
from the well-foundedness of <), so that no operator has to be passed to a theorem.

**`Lifecycle_proofs`.** `Kept` is what holds as long as no call failed half way:
`InOrder` says between which steps of the calls each task, the queues and the loop are
there; `Finished`, that a task that set its bit no longer holds the Lock, that no bits
are left over from an earlier stop, and that tasks see `stop_tasks_` only late in a
stop; `LockHeld`, that the Lock is where its holder is. That stop deletes no task with
the Lock needs all three.

Every invariant and every action property that a passing run checks is also a theorem.
Only model-checked are the liveness properties, as TLAPS does not reason about `ENABLED` and
fairness here: `SearchResumes`, `ConnectingEnds`, `CutOffEnds`, `EveryItemTried`,
`LockReturned`, `EntriesLeave`, `RunnerGoesOn`, `CutOffDisconnects` and `StopReturns`.

## The plan

In this order, with the most important behaviour first. All of it is done.

1. `Attachment` and `MeshNode`, one node under an arbitrary environment, and
   `MeshNode_proofs`.
2. `Send`.
3. `Mesh`, which composes nodes through their queues.
4. `Fragments` and `Fragments_proofs`.
5. `Routing`.
6. `Packets` and `Custom`.
7. `Lifecycle`.
8. The proofs of the other safety properties.

## Not modelled

- The bytes of a packet (bitsery writes them), the six bytes of an address
  (util/mac.cpp), and the wrappers around FreeRTOS but for what the tasks wait for.
- Wi-Fi, DHCP, DNS and NAPT set-up, calls into ESP-IDF; of Wi-Fi, Lifecycle has the event
  handlers and their instances.
- The arithmetic of ticks: a timer is running or over, and its wrap after 49 days is not
  there.
- The getters of the layout but `meshnow_visible_mesh_size`: they copy, under the Lock.
- Two tasks of the application that call the API at once: the code has no lock for its
  flags and its list of callbacks, and its documentation promises none.
- The creation of the Lock's mutex by whoever takes it first (lock.cpp:12).
- What a reader sees of a routing table that is moved under it (packet_handler.cpp:84):
  `Send` takes the tables as sets that change at any time.
- The examples and the documentation.
