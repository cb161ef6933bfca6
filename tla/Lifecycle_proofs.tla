-------------------------- MODULE Lifecycle_proofs --------------------------
(***************************************************************************)
(* Theorems about Lifecycle for any number of rounds of init, start, stop  *)
(* and deinit, any set of steps that fail, and any size of the queue.      *)
(***************************************************************************)
EXTENDS Lifecycle, TLAPS

InitCalls == {"init_loop", "init_wifi", "init_networking", "init_netif"}
StartCalls == {"start_wifi", "start_runner", "start_worker", "start_netif"}
StopCalls ==
    {"stop_netif", "stop_tasks", "stop_wait", "stop_runner", "stop_worker", "stop_wifi"}
DeinitCalls == {"deinit_networking", "deinit_loop", "deinit_wifi"}

(* The tasks run between these steps, ...                                   *)
RunnerThere ==
    \/ call = "none" /\ started
    \/ call \in {"start_worker", "start_netif", "stop_netif", "stop_tasks", "stop_wait",
                 "stop_runner"}
WorkerThere ==
    \/ call = "none" /\ started
    \/ call \in {"start_netif", "stop_netif", "stop_tasks", "stop_wait", "stop_runner",
                 "stop_worker"}
IoThere == (call = "none" /\ started) \/ call = "stop_netif"
WifiThere ==
    \/ call = "none" /\ started
    \/ call \in StopCalls
    \/ call \in {"start_runner", "start_worker", "start_netif"}

(* ... and what the calls find when none has failed half way. *)
InOrder ==
    /\ call \in InitCalls => ~initialized /\ ~started
    /\ call \in StartCalls => initialized /\ ~started
    /\ call \in StopCalls => initialized /\ started
    /\ call \in DeinitCalls => initialized /\ ~started
    /\ started => initialized
    /\ call \in {"init_wifi", "init_networking", "init_netif"} => loop
    /\ call = "init_netif" => queues
    /\ initialized /\ call \notin DeinitCalls => queues /\ loop
    /\ RunnerThere <=> runner # "none"
    /\ WorkerThere <=> worker # "none"
    /\ IoThere <=> io # "none"
    /\ wifi => WifiThere

(* A task that set its bit, or that is past it, does not hold the Lock any  *)
(* more; before stop() nobody did.                                          *)
Finished ==
    /\ "runner" \in bits => runner \in {"returns", "suspended"}
    /\ "worker" \in bits => worker = "suspended"
    /\ call \in {"stop_runner", "stop_worker", "stop_wifi"} => bits = {}
    /\ call = "stop_runner" => runner \in {"returns", "suspended"}
    /\ call \in {"stop_runner", "stop_worker"} => worker = "suspended"
    /\ call \in {"stop_wait", "stop_runner", "stop_worker", "stop_wifi"} \/ bits = {}
    /\ stop_tasks /\ (runner # "none" \/ worker # "none") =>
         call \in {"stop_wait", "stop_runner", "stop_worker", "stop_wifi"}

LockHeld ==
    /\ lock = "runner" <=> runner \in {"locked", "frame", "unlock"}
    /\ lock = "worker" <=> worker = "locked"
    /\ lock = "event" <=> event = "locked"

Kept == ~broken => InOrder /\ Finished /\ LockHeld

IInv == TypeOK /\ Kept

-----------------------------------------------------------------------------
LEMMA TypeInit == Init => TypeOK
  <1>1. Init => FinishedTyped
    BY SizeAssumption DEF Init, FinishedTyped
  <1>2. Init => ApiTyped /\ WifiTyped /\ NetTyped /\ StopTyped /\ TasksTyped
    BY DEF Init, ApiTyped, WifiTyped, NetTyped, StopTyped, TasksTyped, Calls
  <1> QED BY <1>1, <1>2 DEF TypeOK

(* What each step leaves of the flags and the call ... *)
LEMMA ApiNext == TypeOK /\ [Next]_vars => ApiTyped'
  <1> SUFFICES ASSUME ApiTyped, [Next]_vars PROVE ApiTyped'
    BY DEF TypeOK
  <1> USE DEF ApiTyped, Calls, Goes, FailsAt, apiVars
  <1>1. CASE InitLoop \/ InitWifi \/ InitQueues \/ InitNetif
    BY <1>1 DEF InitLoop, InitWifi, InitQueues, InitNetif
  <1>2. CASE StartWifi \/ StartRunner \/ StartWorker \/ StartNetif
    BY <1>2 DEF StartWifi, StartRunner, StartWorker, StartNetif
  <1>3. CASE StopNetif \/ StopTasks \/ WaitForTasks \/ DeleteRunner \/ DeleteWorker
    BY <1>3 DEF StopNetif, StopTasks, WaitForTasks, DeleteRunner, DeleteWorker
  <1>4. CASE StopWifi \/ DeinitNetworking \/ DeinitLoop \/ DeinitWifi
    BY <1>4 DEF StopWifi, DeinitNetworking, DeinitLoop, DeinitWifi
  <1>5. CASE BeginInit \/ BeginStart \/ BeginStop \/ BeginDeinit \/ Crash
    BY <1>5 DEF BeginInit, BeginStart, BeginStop, BeginDeinit, Crash
  <1>6. CASE UNCHANGED apiVars
    BY <1>6
  <1> QED
    BY <1>1, <1>2, <1>3, <1>4, <1>5, <1>6
    DEF Next, Call, Application, Runner, Worker, Event, RunnerTurn, RunnerFrame, RunnerPush,
        RunnerUnlock, RunnerFinishes, RunnerReturns, RunnerLock, WorkerTurn, WorkerSkips,
        WorkerUnlock, WorkerFinishes, WorkerLock, IoPop, EventTurn, EventUnlock, EventLock,
        RouterConnects, RouterLost, vars

(* ... of Wi-Fi, ... *)
LEMMA WifiNext == TypeOK /\ [Next]_vars => WifiTyped'
  <1> SUFFICES ASSUME WifiTyped, [Next]_vars PROVE WifiTyped'
    BY DEF TypeOK
  <1> USE DEF WifiTyped, wifiVars
  <1>1. CASE InitWifi \/ StartWifi
    BY <1>1 DEF InitWifi, StartWifi, Registered
  <1>2. CASE StopWifi \/ DeinitWifi
    BY <1>2 DEF StopWifi, DeinitWifi, Unregistered
  <1>3. CASE Crash \/ RouterConnects \/ RouterLost
    BY <1>3 DEF Crash, RouterConnects, RouterLost
  <1>4. CASE UNCHANGED wifiVars
    BY <1>4
  <1> QED
    BY <1>1, <1>2, <1>3, <1>4
    DEF Next, Call, Application, Runner, Worker, Event, InitLoop, InitQueues, InitNetif,
        StartRunner, StartWorker, StartNetif, StopNetif, StopTasks, WaitForTasks,
        DeleteRunner, DeleteWorker, DeinitNetworking, DeinitLoop, BeginInit, BeginStart,
        BeginStop, BeginDeinit, RunnerTurn, RunnerFrame, RunnerPush, RunnerUnlock,
        RunnerFinishes, RunnerReturns, RunnerLock, WorkerTurn, WorkerSkips, WorkerUnlock,
        WorkerFinishes, WorkerLock, IoPop, EventTurn, EventUnlock, EventLock, vars

(* ... of what init() makes, ... *)
LEMMA NetNext == TypeOK /\ [Next]_vars => NetTyped'
  <1> SUFFICES ASSUME NetTyped, [Next]_vars PROVE NetTyped'
    BY DEF TypeOK
  <1> USE DEF NetTyped, netVars
  <1>1. CASE InitLoop \/ InitQueues \/ InitNetif \/ StartNetif
    BY <1>1 DEF InitLoop, InitQueues, InitNetif, StartNetif
  <1>2. CASE StopNetif \/ DeinitNetworking \/ DeinitLoop \/ Crash
    BY <1>2 DEF StopNetif, DeinitNetworking, DeinitLoop, Crash
  <1>3. CASE UNCHANGED netVars
    BY <1>3
  <1> QED
    BY <1>1, <1>2, <1>3
    DEF Next, Call, Application, Runner, Worker, Event, InitWifi, StartWifi, StartRunner,
        StartWorker, StopTasks, WaitForTasks, DeleteRunner, DeleteWorker, StopWifi,
        DeinitWifi, BeginInit, BeginStart, BeginStop, BeginDeinit, RunnerTurn, RunnerFrame,
        RunnerPush, RunnerUnlock, RunnerFinishes, RunnerReturns, RunnerLock, WorkerTurn,
        WorkerSkips, WorkerUnlock, WorkerFinishes, WorkerLock, IoPop, EventTurn,
        EventUnlock, EventLock, RouterConnects, RouterLost, vars

(* ... of what stop() waits for, ... *)
LEMMA StopNext == TypeOK /\ [Next]_vars => StopTyped'
  <1> SUFFICES ASSUME StopTyped, [Next]_vars PROVE StopTyped'
    BY DEF TypeOK
  <1> USE DEF StopTyped, stopVars
  <1>1. CASE InitQueues \/ StartRunner \/ StopTasks \/ WaitForTasks
    BY <1>1 DEF InitQueues, StartRunner, StopTasks, WaitForTasks, Cleared
  <1>2. CASE RunnerFinishes \/ WorkerFinishes \/ Crash
    BY <1>2 DEF RunnerFinishes, WorkerFinishes, Crash
  <1>3. CASE UNCHANGED stopVars
    BY <1>3
  <1> QED
    BY <1>1, <1>2, <1>3
    DEF Next, Call, Application, Runner, Worker, Event, InitLoop, InitWifi, InitNetif,
        StartWifi, StartWorker, StartNetif, StopNetif, DeleteRunner, DeleteWorker, StopWifi,
        DeinitNetworking, DeinitLoop, DeinitWifi, BeginInit, BeginStart, BeginStop,
        BeginDeinit, RunnerTurn, RunnerFrame, RunnerPush, RunnerUnlock, RunnerReturns,
        RunnerLock, WorkerTurn, WorkerSkips, WorkerUnlock, WorkerLock, IoPop, EventTurn,
        EventUnlock, EventLock, RouterConnects, RouterLost, vars

(* ... of the tasks, ... *)
LEMMA TasksNext == TypeOK /\ [Next]_vars => TasksTyped'
  <1> SUFFICES ASSUME TasksTyped, [Next]_vars PROVE TasksTyped'
    BY DEF TypeOK
  <1> USE DEF TasksTyped, taskVars, eventVars
  <1>1. CASE StartRunner \/ StartWorker \/ StartNetif
    BY <1>1 DEF StartRunner, StartWorker, StartNetif, NewTask
  <1>2. CASE StopNetif \/ DeleteRunner \/ DeleteWorker \/ DeinitLoop
    BY <1>2 DEF StopNetif, DeleteRunner, DeleteWorker, DeinitLoop
  <1>3. CASE RunnerTurn \/ RunnerFrame \/ RunnerPush \/ RunnerUnlock
    BY <1>3 DEF RunnerTurn, RunnerFrame, RunnerPush, RunnerUnlock
  <1>4. CASE RunnerFinishes \/ RunnerReturns \/ RunnerLock
    BY <1>4 DEF RunnerFinishes, RunnerReturns, RunnerLock
  <1>5. CASE WorkerTurn \/ WorkerSkips \/ WorkerUnlock \/ WorkerFinishes \/ WorkerLock
    BY <1>5 DEF WorkerTurn, WorkerSkips, WorkerUnlock, WorkerFinishes, WorkerLock
  <1>6. CASE EventTurn \/ EventUnlock \/ EventLock \/ Crash
    BY <1>6 DEF EventTurn, EventUnlock, EventLock, Crash
  <1>7. CASE UNCHANGED <<taskVars, lock>>
    BY <1>7
  <1> QED
    BY <1>1, <1>2, <1>3, <1>4, <1>5, <1>6, <1>7
    DEF Next, Call, Application, Runner, Worker, Event, InitLoop, InitWifi, InitQueues,
        InitNetif, StartWifi, StopTasks, WaitForTasks, StopWifi, DeinitNetworking,
        DeinitWifi, BeginInit, BeginStart, BeginStop, BeginDeinit, IoPop, RouterConnects,
        RouterLost, vars

(* ... and of the queue of frames. *)
LEMMA FinishedNext == TypeOK /\ [Next]_vars => FinishedTyped'
  <1> SUFFICES ASSUME FinishedTyped, [Next]_vars PROVE FinishedTyped'
    BY DEF TypeOK
  <1> USE SizeAssumption DEF FinishedTyped
  <1>1. CASE InitQueues \/ DeinitNetworking \/ Crash
    BY <1>1 DEF InitQueues, DeinitNetworking, Crash
  <1>2. CASE RunnerPush \/ IoPop
    BY <1>2 DEF RunnerPush, IoPop, HasRoom
  <1>3. CASE UNCHANGED finished
    BY <1>3
  <1> QED
    BY <1>1, <1>2, <1>3
    DEF Next, Call, Application, Runner, Worker, Event, InitLoop, InitWifi, InitNetif,
        StartWifi, StartRunner, StartWorker, StartNetif, StopNetif, StopTasks, WaitForTasks,
        DeleteRunner, DeleteWorker, StopWifi, DeinitLoop, DeinitWifi, BeginInit, BeginStart,
        BeginStop, BeginDeinit, RunnerTurn, RunnerFrame, RunnerUnlock, RunnerFinishes,
        RunnerReturns, RunnerLock, WorkerTurn, WorkerSkips, WorkerUnlock, WorkerFinishes,
        WorkerLock, EventTurn, EventUnlock, EventLock, RouterConnects, RouterLost, vars

LEMMA TypeNext == TypeOK /\ [Next]_vars => TypeOK'
  BY ApiNext, WifiNext, NetNext, StopNext, TasksNext, FinishedNext DEF TypeOK

(* Every variable keeps its type, and the queue of frames its bound, however *)
(* often the tasks that fill and empty it come and go.                      *)
THEOREM TypeCorrect == Spec => []TypeOK
  BY TypeInit, TypeNext, PTL DEF Spec

-----------------------------------------------------------------------------
LEMMA KeptInit == Init => Kept
  BY DEF Init, Kept, InOrder, Finished, LockHeld, RunnerThere, WorkerThere, IoThere,
         WifiThere, InitCalls, StartCalls, StopCalls, DeinitCalls

(* The calls: a step that fails half way says so; the others go on. *)
LEMMA KeptInOrder ==
    ASSUME IInv, ~broken, ~broken', Call \/ Application
    PROVE  InOrder'
  <1>a. TypeOK /\ InOrder /\ Finished
    BY DEF IInv, Kept
  <1> USE DEF Goes, FailsAt, wifiVars, netVars, eventVars, taskVars, stopVars,
          TypeOK, InOrder, RunnerThere, WorkerThere, IoThere, WifiThere,
          InitCalls, StartCalls, StopCalls, DeinitCalls
  <1>1. CASE InitLoop \/ InitWifi \/ InitQueues \/ InitNetif
    <2>1. CASE InitLoop
      BY <1>a, <2>1 DEF InitLoop
    <2>2. CASE InitWifi
      BY <1>a, <2>2 DEF InitWifi
    <2>3. CASE InitQueues
      BY <1>a, <2>3 DEF InitQueues
    <2>4. CASE InitNetif
      BY <1>a, <2>4 DEF InitNetif
    <2> QED BY <1>1, <2>1, <2>2, <2>3, <2>4
  <1>2. CASE StartWifi \/ StartRunner \/ StartWorker \/ StartNetif
    <2>1. CASE StartWifi
      BY <1>a, <2>1 DEF StartWifi
    <2>2. CASE StartRunner
      BY <1>a, <2>2 DEF StartRunner, NewTask
    <2>3. CASE StartWorker
      BY <1>a, <2>3 DEF StartWorker, NewTask
    <2>4. CASE StartNetif
      BY <1>a, <2>4 DEF StartNetif, NewTask
    <2> QED BY <1>2, <2>1, <2>2, <2>3, <2>4
  <1>3. CASE StopNetif \/ StopTasks \/ WaitForTasks
    BY <1>a, <1>3 DEF StopNetif, StopTasks, WaitForTasks
  <1>4. CASE DeleteRunner \/ DeleteWorker \/ StopWifi
    BY <1>a, <1>4 DEF DeleteRunner, DeleteWorker, StopWifi
  <1>5. CASE DeinitNetworking \/ DeinitLoop \/ DeinitWifi
    BY <1>a, <1>5 DEF DeinitNetworking, DeinitLoop, DeinitWifi
  <1>6. CASE Application
    BY <1>a, <1>6 DEF Application, BeginInit, BeginStart, BeginStop, BeginDeinit, MayDeinit
  <1> QED BY <1>1, <1>2, <1>3, <1>4, <1>5, <1>6 DEF Call

LEMMA KeptFinished ==
    ASSUME IInv, ~broken, ~broken', Call \/ Application
    PROVE  Finished' /\ LockHeld'
  <1>a. TypeOK /\ InOrder /\ Finished /\ LockHeld
    BY DEF IInv, Kept
  <1> USE DEF Goes, FailsAt, wifiVars, netVars, eventVars, taskVars, stopVars, Finished,
          LockHeld
  <1>1. CASE InitLoop \/ InitWifi \/ InitQueues \/ InitNetif
    BY <1>a, <1>1 DEF InitLoop, InitWifi, InitQueues, InitNetif
  <1>2. CASE StartWifi
    BY <1>a, <1>2 DEF StartWifi
  <1>3. CASE StartRunner \/ StartWorker \/ StartNetif
    <2>1. bits = {} /\ call \notin StopCalls
      BY <1>a, <1>3 DEF StartRunner, StartWorker, StartNetif, StopCalls
    <2>2. CASE StartRunner
      <3>1. runner = "none" /\ worker = "none"
        BY <1>a, <2>2 DEF StartRunner, InOrder, RunnerThere, WorkerThere
      <3> QED BY <1>a, <2>1, <2>2, <3>1 DEF StartRunner, NewTask
    <2>3. CASE StartWorker
      <3>1. worker = "none" /\ runner # "none"
        BY <1>a, <2>3 DEF StartWorker, InOrder, RunnerThere, WorkerThere
      <3>2. ~stop_tasks
        BY <1>a, <2>3, <3>1 DEF StartWorker
      <3> QED BY <1>a, <2>1, <2>3, <3>1, <3>2 DEF StartWorker, NewTask
    <2>4. CASE StartNetif
      BY <1>a, <2>1, <2>4 DEF StartNetif, NewTask
    <2> QED BY <1>3, <2>2, <2>3, <2>4
  <1>4. CASE StopNetif \/ StopTasks
    BY <1>a, <1>4 DEF StopNetif, StopTasks
  <1>5. CASE WaitForTasks
    BY <1>a, <1>5 DEF WaitForTasks, AllBits, Cleared
  <1>6. CASE DeleteRunner \/ DeleteWorker
    BY <1>a, <1>6 DEF DeleteRunner, DeleteWorker
  <1>7. CASE StopWifi \/ DeinitNetworking \/ DeinitWifi
    <2>1. CASE StopWifi
      <3>1. runner = "none" /\ worker = "none"
        BY <1>a, <2>1 DEF StopWifi, InOrder, RunnerThere, WorkerThere
      <3> QED BY <1>a, <2>1, <3>1 DEF StopWifi
    <2>2. CASE DeinitNetworking
      BY <1>a, <2>2 DEF DeinitNetworking
    <2>3. CASE DeinitWifi
      BY <1>a, <2>3 DEF DeinitWifi
    <2> QED BY <1>7, <2>1, <2>2, <2>3
  <1>8. CASE DeinitLoop
    BY <1>a, <1>8 DEF DeinitLoop
  <1>9. CASE Application
    BY <1>a, <1>9 DEF Application, BeginInit, BeginStart, BeginStop, BeginDeinit
  <1> QED BY <1>1, <1>2, <1>3, <1>4, <1>5, <1>6, <1>7, <1>8, <1>9 DEF Call

(* The tasks, between the steps of the calls. *)
LEMMA KeptTasks ==
    ASSUME IInv, ~broken, Runner \/ RunnerLock \/ Worker \/ WorkerLock \/ IoPop
                            \/ Event \/ EventLock \/ RouterConnects \/ RouterLost
    PROVE  InOrder' /\ Finished' /\ LockHeld'
  <1>a. TypeOK /\ InOrder /\ Finished /\ LockHeld
    BY DEF IInv, Kept
  <1>b. UNCHANGED <<apiVars, netVars, wifi, stop_tasks>>
    BY DEF Runner, RunnerTurn, RunnerFrame, RunnerPush, RunnerUnlock, RunnerFinishes,
           RunnerReturns, RunnerLock, Worker, WorkerTurn, WorkerSkips, WorkerUnlock,
           WorkerFinishes, WorkerLock, IoPop, Event, EventTurn, EventUnlock, EventLock,
           RouterConnects, RouterLost, wifiVars, stopVars
  <1> USE DEF apiVars, wifiVars, netVars, eventVars, taskVars, stopVars
  <1>c. ASSUME runner' = "none" <=> runner = "none", worker' = "none" <=> worker = "none",
               UNCHANGED io
        PROVE  InOrder'
    BY <1>a, <1>b, <1>c DEF InOrder, RunnerThere, WorkerThere, IoThere, WifiThere
  <1>s. ASSUME stop_tasks, runner # "none" \/ worker # "none"
        PROVE  call \in {"stop_wait", "stop_runner", "stop_worker", "stop_wifi"}
    BY <1>a, <1>s DEF Finished
  <1>1. CASE Runner \/ RunnerLock
    <2>1. InOrder'
      BY <1>c, <1>1 DEF Runner, RunnerTurn, RunnerFrame, RunnerPush, RunnerUnlock,
         RunnerFinishes, RunnerReturns, RunnerLock
    <2>2. CASE RunnerFinishes
      BY <1>a, <1>b, <1>s, <2>1, <2>2 DEF RunnerFinishes, Finished, LockHeld, InOrder, RunnerThere,
         TypeOK
    <2>3. CASE RunnerReturns
      BY <1>a, <1>b, <2>1, <2>3 DEF RunnerReturns, Finished, LockHeld
    <2>4. CASE RunnerTurn \/ RunnerFrame \/ RunnerPush \/ RunnerUnlock \/ RunnerLock
      BY <1>a, <1>b, <2>1, <2>4
      DEF RunnerTurn, RunnerFrame, RunnerPush, RunnerUnlock, RunnerLock, Finished, LockHeld
    <2> QED BY <1>1, <2>1, <2>2, <2>3, <2>4 DEF Runner
  <1>2. CASE Worker \/ WorkerLock
    <2>1. InOrder'
      BY <1>c, <1>2 DEF Worker, WorkerTurn, WorkerSkips, WorkerUnlock, WorkerFinishes,
         WorkerLock, WorkerTimesOut
    <2>2. CASE WorkerFinishes
      BY <1>a, <1>b, <1>s, <2>1, <2>2 DEF WorkerFinishes, Finished, LockHeld, InOrder, WorkerThere,
         TypeOK
    <2>3. CASE WorkerTurn \/ WorkerSkips \/ WorkerUnlock \/ WorkerLock
      BY <1>a, <1>b, <2>1, <2>3
      DEF WorkerTurn, WorkerSkips, WorkerUnlock, WorkerLock, WorkerTimesOut, Finished, LockHeld
    <2> QED BY <1>2, <2>1, <2>2, <2>3 DEF Worker
  <1>3. CASE IoPop \/ RouterConnects \/ RouterLost
    BY <1>a, <1>b, <1>c, <1>3 DEF IoPop, RouterConnects, RouterLost, Finished, LockHeld
  <1>4. CASE Event \/ EventLock
    BY <1>a, <1>b, <1>c, <1>4 DEF Event, EventTurn, EventUnlock, EventLock, Finished, LockHeld
  <1> QED BY <1>1, <1>2, <1>3, <1>4

LEMMA KeptNext == IInv /\ [Next]_vars => IInv'
  <1> SUFFICES ASSUME IInv, [Next]_vars PROVE IInv'
    OBVIOUS
  <1>1. TypeOK'
    BY TypeNext DEF IInv
  <1>2. SUFFICES ASSUME ~broken' PROVE InOrder' /\ Finished' /\ LockHeld'
    BY <1>1 DEF IInv, Kept
  <1>3. CASE Crash
    BY <1>3 DEF Crash, InOrder, Finished, LockHeld, RunnerThere, WorkerThere, IoThere,
       WifiThere, InitCalls, StartCalls, StopCalls, DeinitCalls
  <1>4. CASE UNCHANGED vars
    BY <1>2, <1>4 DEF vars, IInv, Kept, InOrder, Finished, LockHeld, RunnerThere,
       WorkerThere, IoThere, WifiThere
  <1>5. CASE Next /\ ~Crash
    <2>1. ~broken
      BY <1>2, <1>5 DEF Next, Call, Application, InitLoop, InitWifi, InitQueues, InitNetif,
         StartWifi, StartRunner, StartWorker, StartNetif, StopNetif, StopTasks,
         WaitForTasks, DeleteRunner, DeleteWorker, StopWifi, DeinitNetworking, DeinitLoop,
         DeinitWifi, BeginInit, BeginStart, BeginStop, BeginDeinit,
         Runner, RunnerTurn, RunnerFrame, RunnerPush, RunnerUnlock, RunnerFinishes,
         RunnerReturns, RunnerLock, Worker, WorkerTurn, WorkerSkips, WorkerUnlock,
         WorkerFinishes, WorkerLock, IoPop, Event, EventTurn, EventUnlock, EventLock,
         RouterConnects, RouterLost, apiVars
    <2> QED BY <1>2, <1>5, <2>1, KeptInOrder, KeptFinished, KeptTasks DEF Next
  <1> QED BY <1>3, <1>4, <1>5

LEMMA Invariant == Spec => []IInv
  <1>1. Init => IInv
    BY TypeInit, KeptInit DEF IInv
  <1> QED BY <1>1, KeptNext, PTL DEF Spec

(* Whatever the interleaving of the calls with the tasks: the Lock belongs  *)
(* to one task that runs, and stop() deletes none that holds it, as a task  *)
(* sets its bit only once it has given it back.                             *)
THEOREM LockComesBackCorrect == Spec => []LockComesBack
  <1>1. IInv => LockComesBack
    BY DEF IInv, Kept, LockHeld, LockComesBack, Holds
  <1> QED BY <1>1, Invariant, PTL

(* Between init and deinit: whoever uses the queues and the event loop      *)
(* finds them, and "started" tells the truth about the tasks.               *)
THEOREM TasksHaveQueuesCorrect == Spec => []TasksHaveQueues
  <1>1. ASSUME IInv, ~broken PROVE TasksHaveQueues
    <2>1. TypeOK /\ InOrder
      BY <1>1 DEF IInv, Kept
    <2>2. ASSUME runner # "none" \/ worker # "none" \/ io # "none" \/ wifi
          PROVE  initialized /\ call \notin DeinitCalls
      BY <2>1, <2>2 DEF InOrder, RunnerThere, WorkerThere, IoThere, WifiThere, StartCalls,
         StopCalls, DeinitCalls
    <2>3. ASSUME call = "none"
          PROVE  \A task \in {runner, worker, io} : started <=> task # "none"
      BY <2>1, <2>3 DEF InOrder, RunnerThere, WorkerThere, IoThere
    <2> QED BY <2>1, <2>2, <2>3 DEF InOrder, TasksHaveQueues
  <1>2. IInv => TasksHaveQueues
    BY <1>1 DEF TasksHaveQueues
  <1> QED BY <1>2, Invariant, PTL
=============================================================================
