------------------------------ MODULE Lifecycle ------------------------------
(***************************************************************************)
(* init, start, stop and deinit of the library (meshnow.cpp), and the      *)
(* tasks that come and go with them (networking.cpp, netif.cpp, wifi.cpp,  *)
(* event.cpp, job/runner.cpp, send/worker.cpp, util/task.hpp,              *)
(* util/waitbits.hpp).                                                     *)
(*                                                                         *)
(* One task of the application calls the API; a call in the wrong state    *)
(* returns an error at once and is left out.  Each call is a sequence of   *)
(* steps, and the tasks run between any two of them.  A step in Fails may  *)
(* fail, and the call returns there; nothing that it did is undone.        *)
(*                                                                         *)
(* Of the tasks the model keeps when they hold the Lock and when they look *)
(* at stop_tasks_.  A turn of the runner, which takes the Lock several     *)
(* times, has it once here; so does a turn of the event task, in which     *)
(* ConnectJob's handler takes it.  A task that was deleted stays where it  *)
(* was: it never gives back what it held.                                  *)
(***************************************************************************)
EXTENDS Integers

CONSTANTS
    Router,         \* this node is a root that shall connect to a router
    Fails,          \* the steps that may fail
    FINISHED_SIZE   \* of the queue of reassembled frames (32 in fragments.cpp)

MayFail == {"event_loop", "wifi_init", "queues", "netif", "wifi_start",
            "job_runner", "send_worker", "io_receive", "wifi_stop",
            "wifi_deinit"}

ASSUME RouterAssumption == Router \in BOOLEAN
ASSUME FailsAssumption == Fails \subseteq MayFail
ASSUME SizeAssumption == FINISHED_SIZE \in Nat \ {0}

VARIABLES
    initialized, started,  \* the flags of meshnow.cpp
    call,           \* what the application's call does next
    wifi,           \* Wi-Fi was started
    handlers,       \* the Wi-Fi event handlers: who holds their instance
    uplink,         \* the root and its router
    loop,           \* the internal event loop exists
    queues,         \* the queues and the wait bits exist
    netif,          \* the interface: none, attached, or started
    stop_tasks,     \* stop_tasks_
    bits,           \* task_waitbits_
    runner, worker, io,  \* the tasks
    event,          \* the event loop's task
    registered,     \* the loop has the handlers of the runner's jobs
    lock,           \* the task that holds the Lock
    finished,       \* the frames in finished_queue
    broken          \* start, stop or deinit has failed half way

apiVars  == <<initialized, started, call, broken>>
wifiVars == <<wifi, handlers, uplink>>
netVars  == <<loop, queues, netif>>
eventVars == <<event, registered>>
taskVars == <<runner, worker, io, eventVars>>
stopVars == <<stop_tasks, bits>>
vars == <<initialized, started, call, wifi, handlers, uplink, loop, queues,
          netif, stop_tasks, bits, runner, worker, io, event, registered, lock,
          finished, broken>>

Init ==
    /\ initialized = FALSE /\ started = FALSE
    /\ call = "none" /\ broken = FALSE
    /\ wifi = FALSE /\ handlers = {} /\ uplink = "off"
    /\ loop = FALSE /\ queues = FALSE /\ netif = "none"
    /\ stop_tasks = FALSE /\ bits = {}
    /\ runner = "none" /\ worker = "none" /\ io = "none"
    /\ event = "idle" /\ registered = FALSE
    /\ lock = "free" /\ finished = 0

(* A step of a call goes on to the next, or fails where it may.             *)
Goes(from, to) == call = from /\ call' = to
FailsAt(from, step) ==
    /\ step \in Fails
    /\ call = from /\ call' = "none"

-----------------------------------------------------------------------------
(* meshnow_init.  A part that was there is made anew. *)

BeginInit ==
    /\ ~initialized /\ Goes("none", "init_loop")
    /\ UNCHANGED <<initialized, started, broken, wifiVars, netVars, taskVars,
                   stopVars, lock, finished>>

InitLoop ==
    /\ \/ Goes("init_loop", "init_wifi") /\ loop' = TRUE
       \/ FailsAt("init_loop", "event_loop") /\ UNCHANGED loop
    /\ UNCHANGED <<initialized, started, broken, wifiVars, queues, netif,
                   taskVars, stopVars, lock, finished>>

(* A root registers its handlers, in wifi::init; the instance of those that *)
(* were registered before is overwritten.                                   *)
Registered ==
    IF Router THEN {"lost" : h \in handlers} \cup {"held"} ELSE handlers

InitWifi ==
    /\ \/ /\ Goes("init_wifi", "init_networking")
          /\ handlers' = Registered
       \/ /\ FailsAt("init_wifi", "wifi_init")
          /\ handlers' \in {handlers, Registered}
    /\ UNCHANGED <<initialized, started, broken, wifi, uplink, netVars,
                   taskVars, stopVars, lock, finished>>

(* Networking::init: send, receive, wait bits, fragments ... *)
InitQueues ==
    /\ \/ /\ Goes("init_networking", "init_netif")
          /\ queues' = TRUE /\ bits' = {} /\ finished' = 0
       \/ /\ FailsAt("init_networking", "queues")
          /\ UNCHANGED <<queues, bits, finished>>
    /\ UNCHANGED <<initialized, started, broken, wifiVars, loop, netif,
                   taskVars, stop_tasks, lock>>

(* ... and the interface, whose handler registers with the loop.            *)
InitNetif ==
    /\ \/ Goes("init_netif", "none") /\ netif' = "attached" /\ initialized' = TRUE
       \/ FailsAt("init_netif", "netif") /\ UNCHANGED <<netif, initialized>>
    /\ UNCHANGED <<started, broken, wifiVars, loop, queues, taskVars,
                   stopVars, lock, finished>>

-----------------------------------------------------------------------------
(* meshnow_start *)

BeginStart ==
    /\ initialized /\ ~started /\ Goes("none", "start_wifi")
    /\ UNCHANGED <<initialized, started, broken, wifiVars, netVars, taskVars,
                   stopVars, lock, finished>>

(* WIFI_EVENT_STA_START is for whoever handles it, if Wi-Fi was not on.     *)
StartWifi ==
    /\ \/ /\ Goes("start_wifi", "start_runner")
          /\ wifi' = TRUE
          /\ uplink' = IF ~wifi /\ handlers # {} THEN "connecting" ELSE uplink
       \/ FailsAt("start_wifi", "wifi_start") /\ UNCHANGED <<wifi, uplink>>
    /\ UNCHANGED <<initialized, started, broken, handlers, netVars, taskVars,
                   stopVars, lock, finished>>

(* Task::init: a task at the head of its loop.  One that is still there, as *)
(* an earlier start failed, is deleted.                                     *)
NewTask == "loop"

StartRunner ==
    /\ \/ /\ Goes("start_runner", "start_worker")
          /\ runner' = NewTask /\ registered' = TRUE /\ UNCHANGED broken
       \/ /\ FailsAt("start_runner", "job_runner")
          /\ broken' = TRUE /\ UNCHANGED <<runner, registered>>
    /\ stop_tasks' = FALSE
    /\ UNCHANGED <<initialized, started, wifiVars, netVars, worker, io, event,
                   bits, lock, finished>>

StartWorker ==
    /\ \/ /\ Goes("start_worker", "start_netif")
          /\ worker' = NewTask /\ UNCHANGED broken
       \/ /\ FailsAt("start_worker", "send_worker")
          /\ broken' = TRUE /\ UNCHANGED worker
    /\ UNCHANGED <<initialized, started, wifiVars, netVars, runner, io, eventVars,
                   stopVars, lock, finished>>

StartNetif ==
    /\ Goes("start_netif", "none")
    /\ io' = NewTask /\ netif' = "started"
    /\ started' = TRUE
    /\ UNCHANGED <<initialized, broken, wifiVars, loop, queues, runner, worker,
                   eventVars, stopVars, lock, finished>>

-----------------------------------------------------------------------------
(* meshnow_stop *)

BeginStop ==
    /\ started /\ Goes("none", "stop_netif")
    /\ UNCHANGED <<initialized, started, broken, wifiVars, netVars, taskVars,
                   stopVars, lock, finished>>

(* NowNetif::stop: the io task is deleted wherever it is. *)
StopNetif ==
    /\ Goes("stop_netif", "stop_tasks")
    /\ io' = "none" /\ netif' = "attached"
    /\ UNCHANGED <<initialized, started, broken, wifiVars, loop, queues,
                   runner, worker, eventVars, stopVars, lock, finished>>

StopTasks ==
    /\ Goes("stop_tasks", "stop_wait")
    /\ stop_tasks' = TRUE
    /\ UNCHANGED <<initialized, started, broken, wifiVars, netVars, taskVars,
                   bits, lock, finished>>

(* WaitBits::wait, for all bits, which it clears, without a timeout.        *)
AnyBit == bits # {}
AllBits == bits = {"runner", "worker"}
NoneCleared == bits
Cleared == {}

WaitForTasks ==
    /\ Goes("stop_wait", "stop_runner") /\ AllBits
    /\ bits' = Cleared
    /\ UNCHANGED <<initialized, started, broken, wifiVars, netVars, taskVars,
                   stop_tasks, lock, finished>>

DeleteRunner ==
    /\ Goes("stop_runner", "stop_worker") /\ runner' = "none"
    /\ UNCHANGED <<initialized, started, broken, wifiVars, netVars, worker, io,
                   eventVars, stopVars, lock, finished>>

DeleteWorker ==
    /\ Goes("stop_worker", "stop_wifi") /\ worker' = "none"
    /\ UNCHANGED <<initialized, started, broken, wifiVars, netVars, runner, io,
                   eventVars, stopVars, lock, finished>>

(* wifi::stop takes the handlers out, if their instance is known.           *)
Unregistered == handlers \ {"held"}

StopWifi ==
    /\ \/ /\ Goes("stop_wifi", "none")
          /\ handlers' = Unregistered
          /\ wifi' = FALSE /\ uplink' = "off" /\ started' = FALSE
          /\ UNCHANGED broken
       \/ /\ FailsAt("stop_wifi", "wifi_stop")
          /\ handlers' \in {handlers, Unregistered}
          /\ broken' = TRUE /\ UNCHANGED <<wifi, uplink, started>>
    /\ UNCHANGED <<initialized, netVars, taskVars, stopVars, lock, finished>>

-----------------------------------------------------------------------------
(* meshnow_deinit *)

StartedUnchecked == initialized
MayDeinit == initialized /\ ~started

BeginDeinit ==
    /\ MayDeinit /\ Goes("none", "deinit_networking")
    /\ UNCHANGED <<initialized, started, broken, wifiVars, netVars, taskVars,
                   stopVars, lock, finished>>

DeinitNetworking ==
    /\ Goes("deinit_networking", "deinit_loop")
    /\ netif' = "none" /\ queues' = FALSE /\ finished' = 0
    /\ UNCHANGED <<initialized, started, broken, wifiVars, loop, taskVars,
                   stopVars, lock>>

(* The loop is deleted between two events.                                  *)
DeinitLoop ==
    /\ loop /\ event = "idle"
    /\ Goes("deinit_loop", "deinit_wifi")
    /\ loop' = FALSE /\ registered' = FALSE
    /\ UNCHANGED <<initialized, started, broken, wifiVars, queues, netif,
                   runner, worker, io, event, stopVars, lock, finished>>

DeinitWifi ==
    /\ \/ /\ Goes("deinit_wifi", "none")
          /\ handlers' = Unregistered
          /\ initialized' = FALSE /\ UNCHANGED broken
       \/ /\ "held" \in handlers /\ FailsAt("deinit_wifi", "wifi_deinit")
          /\ handlers' \in {handlers, Unregistered}
          /\ broken' = TRUE /\ UNCHANGED initialized
    /\ UNCHANGED <<started, wifi, uplink, netVars, taskVars, stopVars, lock,
                   finished>>

-----------------------------------------------------------------------------
(* The job runner: a turn, unless it shall stop ... *)
RunnerTurn ==
    /\ runner = "loop" /\ ~stop_tasks
    /\ runner' = "turn"
    /\ UNCHANGED <<apiVars, wifiVars, netVars, worker, io, eventVars, stopVars,
                   lock, finished>>

RunnerLock ==
    /\ runner = "turn" /\ lock = "free"
    /\ lock' = "runner" /\ runner' = "locked"
    /\ UNCHANGED <<apiVars, wifiVars, netVars, worker, io, eventVars, stopVars,
                   finished>>

(* ... in which a frame may be complete, and waits for room ... *)
RunnerFrame ==
    /\ runner = "locked" /\ runner' = "frame"
    /\ UNCHANGED <<apiVars, wifiVars, netVars, worker, io, eventVars, stopVars,
                   lock, finished>>

HasRoomForOneMore == finished <= FINISHED_SIZE
HasRoom == finished < FINISHED_SIZE

RunnerPush ==
    /\ runner = "frame" /\ HasRoom
    /\ finished' = finished + 1 /\ runner' = "unlock"
    /\ UNCHANGED <<apiVars, wifiVars, netVars, worker, io, eventVars, stopVars, lock>>

RunnerUnlock ==
    /\ runner \in {"locked", "unlock"}
    /\ lock' = "free" /\ runner' = "loop"
    /\ UNCHANGED <<apiVars, wifiVars, netVars, worker, io, eventVars, stopVars,
                   finished>>

(* ... and its end.  It returns from the jobs' destructors later, if it is  *)
(* not deleted before.                                                      *)
RunnerFinishes ==
    /\ runner = "loop" /\ stop_tasks
    /\ bits' = bits \cup {"runner"} /\ runner' = "returns"
    /\ UNCHANGED <<apiVars, wifiVars, netVars, worker, io, eventVars, stop_tasks,
                   lock, finished>>

RunnerReturns ==
    /\ runner = "returns" /\ event # "locked"
    /\ runner' = "suspended" /\ registered' = FALSE
    /\ UNCHANGED <<apiVars, wifiVars, netVars, worker, io, event, stopVars,
                   lock, finished>>

(* The send worker: an item, or none in time ... *)
WorkerTurn ==
    /\ worker = "loop" /\ ~stop_tasks
    /\ worker' = "turn"
    /\ UNCHANGED <<apiVars, wifiVars, netVars, runner, io, eventVars, stopVars,
                   lock, finished>>

WorkerTimesOutNever == FALSE
WorkerTimesOut == worker = "turn"
WorkerSkips ==
    /\ WorkerTimesOut
    /\ worker' = "loop"
    /\ UNCHANGED <<apiVars, wifiVars, netVars, runner, io, eventVars, stopVars,
                   lock, finished>>

WorkerLock ==
    /\ worker = "turn" /\ lock = "free"
    /\ lock' = "worker" /\ worker' = "locked"
    /\ UNCHANGED <<apiVars, wifiVars, netVars, runner, io, eventVars, stopVars,
                   finished>>

WorkerUnlock ==
    /\ worker = "locked"
    /\ lock' = "free" /\ worker' = "loop"
    /\ UNCHANGED <<apiVars, wifiVars, netVars, runner, io, eventVars, stopVars,
                   finished>>

WorkerFinishes ==
    /\ worker = "loop" /\ stop_tasks
    /\ bits' = bits \cup {"worker"} /\ worker' = "suspended"
    /\ UNCHANGED <<apiVars, wifiVars, netVars, runner, io, eventVars, stop_tasks,
                   lock, finished>>

(* The io task. *)
IoPop ==
    /\ io = "loop" /\ finished > 0
    /\ finished' = finished - 1
    /\ UNCHANGED <<apiVars, wifiVars, netVars, taskVars, stopVars, lock>>

(* The event task: ConnectJob's handler. *)
EventTurn ==
    /\ loop /\ registered /\ event = "idle"
    /\ event' = "turn"
    /\ UNCHANGED <<apiVars, wifiVars, netVars, runner, worker, io, registered,
                   stopVars, lock, finished>>

EventLock ==
    /\ event = "turn" /\ lock = "free"
    /\ lock' = "event" /\ event' = "locked"
    /\ UNCHANGED <<apiVars, wifiVars, netVars, runner, worker, io, registered,
                   stopVars, finished>>

EventUnlock ==
    /\ event = "locked"
    /\ lock' = "free" /\ event' = "idle"
    /\ UNCHANGED <<apiVars, wifiVars, netVars, runner, worker, io, registered,
                   stopVars, finished>>

(* The node resets: ESP_ERROR_CHECK of the io task, an assertion on a loop  *)
(* that is gone, a queue that is gone is used, or a handler's job is gone,  *)
(* which may also pass unnoticed.                                           *)
Crash ==
    /\ \/ call = "start_netif" /\ "io_receive" \in Fails
       \/ call = "deinit_loop" /\ ~loop
       \/ ~queues /\ (runner # "none" \/ worker # "none")
       \/ event = "locked" /\ runner = "none"
    /\ initialized' = FALSE /\ started' = FALSE
    /\ call' = "none" /\ broken' = FALSE
    /\ wifi' = FALSE /\ handlers' = {} /\ uplink' = "off"
    /\ loop' = FALSE /\ queues' = FALSE /\ netif' = "none"
    /\ stop_tasks' = FALSE /\ bits' = {}
    /\ runner' = "none" /\ worker' = "none" /\ io' = "none"
    /\ event' = "idle" /\ registered' = FALSE
    /\ lock' = "free" /\ finished' = 0

(* The Wi-Fi event handler connects again when the connection is lost.      *)
RouterConnects ==
    /\ uplink = "connecting" /\ uplink' = "up"
    /\ UNCHANGED <<apiVars, wifi, handlers, netVars, taskVars, stopVars, lock,
                   finished>>

RouterLost ==
    /\ uplink \in {"connecting", "up"}
    /\ uplink' = IF handlers # {} THEN "connecting" ELSE "off"
    /\ UNCHANGED <<apiVars, wifi, handlers, netVars, taskVars, stopVars, lock,
                   finished>>

-----------------------------------------------------------------------------
Call ==
    \/ InitLoop \/ InitWifi \/ InitQueues \/ InitNetif
    \/ StartWifi \/ StartRunner \/ StartWorker \/ StartNetif
    \/ StopNetif \/ StopTasks \/ WaitForTasks \/ DeleteRunner \/ DeleteWorker
    \/ StopWifi
    \/ DeinitNetworking \/ DeinitLoop \/ DeinitWifi

Application == BeginInit \/ BeginStart \/ BeginStop \/ BeginDeinit

Runner ==
    \/ RunnerTurn \/ RunnerFrame \/ RunnerPush \/ RunnerUnlock
    \/ RunnerFinishes \/ RunnerReturns
Worker == WorkerTurn \/ WorkerSkips \/ WorkerUnlock \/ WorkerFinishes
Event == EventTurn \/ EventUnlock

Next ==
    \/ Call \/ Application
    \/ Runner \/ RunnerLock
    \/ Worker \/ WorkerLock
    \/ IoPop
    \/ Event \/ EventLock
    \/ Crash
    \/ RouterConnects \/ RouterLost

Spec == Init /\ [][Next]_vars

(* A call goes on, and so do the tasks; the Lock is given to a task that    *)
(* waits for it again and again; the worker waits for an item no longer     *)
(* than its timeout.                                                        *)
Fairness ==
    /\ WF_vars(Call)
    /\ WF_vars(Runner) /\ SF_vars(RunnerLock)
    /\ WF_vars(Worker)
    /\ WF_vars(IoPop)
    /\ WF_vars(EventUnlock) /\ SF_vars(EventLock)

FairSpec == Spec /\ Fairness

-----------------------------------------------------------------------------
Calls ==
    {"none", "init_loop", "init_wifi", "init_networking", "init_netif",
     "start_wifi", "start_runner", "start_worker", "start_netif",
     "stop_netif", "stop_tasks", "stop_wait", "stop_runner", "stop_worker",
     "stop_wifi", "deinit_networking", "deinit_loop", "deinit_wifi"}

ApiTyped ==
    /\ initialized \in BOOLEAN /\ started \in BOOLEAN /\ broken \in BOOLEAN
    /\ call \in Calls
WifiTyped ==
    /\ wifi \in BOOLEAN /\ handlers \subseteq {"held", "lost"}
    /\ uplink \in {"off", "connecting", "up"}
NetTyped ==
    /\ loop \in BOOLEAN /\ queues \in BOOLEAN
    /\ netif \in {"none", "attached", "started"}
StopTyped == stop_tasks \in BOOLEAN /\ bits \subseteq {"runner", "worker"}
TasksTyped ==
    /\ runner \in {"none", "loop", "turn", "locked", "frame", "unlock",
                   "returns", "suspended"}
    /\ worker \in {"none", "loop", "turn", "locked", "suspended"}
    /\ io \in {"none", "loop"}
    /\ event \in {"idle", "turn", "locked"} /\ registered \in BOOLEAN
    /\ lock \in {"free", "runner", "worker", "event"}
FinishedTyped == finished \in 0..FINISHED_SIZE

(* Every variable has its type; the queue of frames is within its bound.    *)
TypeOK ==
    ApiTyped /\ WifiTyped /\ NetTyped /\ StopTyped /\ TasksTyped /\ FinishedTyped

Holds(task) ==
    CASE task = "runner" -> runner \in {"locked", "frame", "unlock"}
      [] task = "worker" -> worker = "locked"
      [] task = "event" -> event = "locked"

(* Unless start, stop or deinit failed half way: a task that is deleted     *)
(* does not hold the Lock, in whichever of the rounds of start and stop,    *)
(* and one task holds it at a time.                                         *)
LockComesBack ==
    ~broken => \A task \in {"runner", "worker", "event"} :
                 lock = task <=> Holds(task)

(* Unless one of them failed half way: a task that still runs has the       *)
(* queues and the loop that it uses, packets that arrive have the receive   *)
(* queue, and whoever is told that the mesh is started, or not, finds the   *)
(* tasks running, or gone.                                                  *)
TasksHaveQueues ==
    ~broken =>
      /\ runner # "none" \/ worker # "none" \/ io # "none" \/ wifi =>
           queues /\ loop /\ initialized
      /\ call = "none" => \A task \in {runner, worker, io} :
                            started <=> task # "none"

(* "It may take a few seconds to return" (include/meshnow.h:210): stop does *)
(* return, unless the runner has a frame for a full queue, which nobody     *)
(* empties any more, or an earlier call failed half way.                    *)
FrameStuck == runner = "frame" /\ finished = FINISHED_SIZE
StopReturns ==
    call = "stop_wait" ~> (call # "stop_wait" \/ FrameStuck \/ broken)

(* "Root: if configured, will connect to the router"                        *)
(* (include/meshnow.h:186): a root that was started connects.               *)
RootConnects == started /\ call = "none" /\ Router => uplink # "off"
=============================================================================
