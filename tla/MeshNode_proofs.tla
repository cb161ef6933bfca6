--------------------------- MODULE MeshNode_proofs ---------------------------
(***************************************************************************)
(* Theorems about MeshNode for every set of peers, every signal strength,  *)
(* every channel range and every size of the event queue and lists.        *)
(***************************************************************************)
EXTENDS MeshNode, TLAPS

(* What an event of each kind carries. *)
LEMMA EventFields ==
    \A e \in Events \cup {NoEvent} :
      /\ e.kind = "STATE_CHANGED" => e \in Events /\ e.old \in States /\ e.new \in States
      /\ e.kind = "PARENT_FOUND" => e \in Events /\ e.mac \in Nodes /\ e.rssi \in Rssi
      /\ e.kind = "GOT_CONNECT_RESPONSE" =>
           e \in Events /\ e.mac \in Nodes /\ e.root \in Roots
  BY DEF Events, NoEvent, States

(* What the three constructors build. *)
LEMMA EventTypes ==
    /\ \A old, new \in States : StateChanged(old, new) \in Events
    /\ \A m \in Nodes, r \in Rssi : ParentFound(m, r) \in Events
    /\ \A m \in Nodes, r \in Roots : GotConnectResponse(m, r) \in Events
  BY DEF Events, StateChanged, ParentFound, GotConnectResponse, States

(* A changed state, new or kept, keeps the types. *)
LEMMA SetStateType ==
    ASSUME TypeOK, NEW new \in States,
           SetState(new)
    PROVE  /\ state' \in States /\ queue' \in Seq(Events)
  BY EventTypes DEF SetState, TypeOK

LEMMA DropParentType ==
    ASSUME TypeOK, DropParent
    PROVE  /\ parent' \in Nodes \cup {NoNode}
           /\ state' \in States /\ queue' \in Seq(Events)
  <1>1. CASE parent # NoNode
    BY <1>1, SetStateType DEF DropParent, RemoveParent, States, DISC
  <1>2. CASE parent = NoNode
    BY <1>2 DEF DropParent, TypeOK
  <1> QED BY <1>1, <1>2

LEMMA ReadChannelType == TypeOK => ReadChannelFromNVS \in Channels
  BY ChannelAssumption DEF ReadChannelFromNVS, Channels, TypeOK

LEMMA ConsideredType ==
    ASSUME TypeOK, NEW m \in Nodes, NEW r \in Rssi,
           NEW infos \in Considered(m, r)
    PROVE  infos \in [Nodes -> Rssi \cup {NoRssi}]
  BY DEF TypeOK, Considered, Candidates

-----------------------------------------------------------------------------
(* Every variable keeps its type. *)
LEMMA TypeInit == Init => TypeOK
  <1> SUFFICES ASSUME Init PROVE TypeOK
    OBVIOUS
  <1>1. ReadChannelFromNVS \in Channels /\ MinChannel \in Channels
    BY ChannelAssumption DEF Init, ReadChannelFromNVS, Channels
  <1>2. 0 \in 0..PROBES_PER_CHANNEL
    BY SizeAssumption
  <1>3. parent_infos \in [Nodes -> Rssi \cup {NoRssi}]
    BY DEF Init
  <1>4. /\ awaiting_reachable \in BOOLEAN /\ link \in BOOLEAN
        /\ probed \in BOOLEAN
    BY DEF Init
  <1> QED BY <1>1, <1>2, <1>3, <1>4 DEF Init, TypeOK, States

LEMMA PacketType == TypeOK /\ Packet => TypeOK'
  <1> SUFFICES ASSUME TypeOK, NEW m \in Nodes,
                      \/ \E s \in States, r \in Roots : HandleStatus(m, s, r)
                      \/ \E r \in Rssi : HandleSearchReply(m, r)
                      \/ \E r \in Roots : HandleConnectOk(m, r)
                      \/ HandleConnectRequest(m)
                      \/ HandleRootUnreachable(m)
                      \/ HandleRootReachable(m)
               PROVE  TypeOK'
    BY DEF Packet
  <1> USE DEF layoutVars, stateVars, searchVars, connectVars, radioVars, eventVars,
              timerVars, airVars
  <1>1. ASSUME NEW s \in States, NEW r \in Roots, HandleStatus(m, s, r)
        PROVE  TypeOK'
    <2>1. SetState(IF s = REACHES THEN REACHES ELSE CONN)
      BY <1>1 DEF HandleStatus
    <2>2. state' \in States /\ queue' \in Seq(Events)
      BY <2>1, SetStateType DEF States
    <2> QED BY <1>1, <2>2 DEF HandleStatus, TypeOK
  <1>2. ASSUME NEW r \in Rssi, HandleSearchReply(m, r)
        PROVE  TypeOK'
    BY <1>2, EventTypes DEF HandleSearchReply, TypeOK
  <1>3. ASSUME NEW r \in Roots, HandleConnectOk(m, r)
        PROVE  TypeOK'
    BY <1>3, EventTypes DEF HandleConnectOk, TypeOK
  <1>4. CASE HandleConnectRequest(m)
    BY <1>4 DEF HandleConnectRequest, TypeOK
  <1>5. CASE HandleRootUnreachable(m)
    <2>1. SetState(CONN)
      BY <1>5 DEF HandleRootUnreachable
    <2>2. state' \in States /\ queue' \in Seq(Events)
      BY <2>1, SetStateType DEF States
    <2> QED BY <1>5, <2>2 DEF HandleRootUnreachable, TypeOK
  <1>6. CASE HandleRootReachable(m)
    <2>1. SetState(REACHES)
      BY <1>6 DEF HandleRootReachable
    <2>2. state' \in States /\ queue' \in Seq(Events)
      BY <2>1, SetStateType DEF States
    <2> QED BY <1>6, <2>2 DEF HandleRootReachable, TypeOK
  <1> QED BY <1>1, <1>2, <1>3, <1>4, <1>5, <1>6

LEMMA JobType == TypeOK /\ Job => TypeOK'
  <1> SUFFICES ASSUME TypeOK, Job PROVE TypeOK'
    OBVIOUS
  <1> USE DEF layoutVars, stateVars, searchVars, connectVars, radioVars, eventVars,
              timerVars, airVars
  <1>1. CASE SearchProbe
    BY <1>1, SizeAssumption DEF SearchProbe, CountProbe, TypeOK
  <1>2. CASE SwitchChannel
    BY <1>2, SizeAssumption, ChannelAssumption
    DEF SwitchChannel, CountProbe, NextChannel, Channels, TypeOK
  <1>3. CASE StartConnecting
    BY <1>3 DEF StartConnecting, TypeOK
  <1>4. CASE RequestNextParent
    BY <1>4 DEF RequestNextParent, EraseCandidate, Candidates, TypeOK
  <1>5. CASE ParentsExhausted
    BY <1>5, ReadChannelType, SizeAssumption DEF ParentsExhausted, EnterSearch, TypeOK
  <1>6. CASE UnreachableTimeout
    <2>1. DropParent
      BY <1>6 DEF UnreachableTimeout
    <2>2. awaiting_reachable' \in BOOLEAN
      BY <1>6 DEF UnreachableTimeout
    <2>3. /\ parent' \in Nodes \cup {NoNode}
          /\ state' \in States /\ queue' \in Seq(Events)
         
      BY <2>1, DropParentType
    <2>4. UNCHANGED <<rootMac, children, connectVars, searchVars, radioVars,
                      eventVars, unreachable_timer, link, airVars>>
      BY <1>6 DEF UnreachableTimeout
    <2> QED BY <2>2, <2>3, <2>4 DEF TypeOK
  <1>7. ASSUME NEW lost \in SUBSET children, NEW gone \in BOOLEAN,
               NeighborCheck(lost, gone)
        PROVE  TypeOK'
    <2>1. CASE gone
      <3>1. DropParent
        BY <1>7, <2>1 DEF NeighborCheck
      <3> QED BY <1>7, <3>1, DropParentType DEF NeighborCheck, TypeOK
    <2>2. CASE ~gone
      BY <1>7, <2>2 DEF NeighborCheck, TypeOK
    <2> QED BY <2>1, <2>2
  <1> QED BY <1>1, <1>2, <1>3, <1>4, <1>5, <1>6, <1>7 DEF Job

LEMMA RebootType == TypeOK /\ Reboot => TypeOK'
  <1> SUFFICES ASSUME TypeOK, Reboot PROVE TypeOK'
    OBVIOUS
  <1> USE DEF airVars
  <1>1. ReadChannelFromNVS \in Channels /\ MinChannel \in Channels
    BY ReadChannelType, ChannelAssumption DEF Channels
  <1>2. 0 \in 0..PROBES_PER_CHANNEL
    BY SizeAssumption
  <1>3. parent_infos' \in [Nodes -> Rssi \cup {NoRssi}]
    BY DEF Reboot
  <1>4. /\ awaiting_reachable' \in BOOLEAN /\ link' \in BOOLEAN
        /\ probed' \in BOOLEAN
    BY DEF Reboot, TypeOK
  <1> QED BY <1>1, <1>2, <1>3, <1>4 DEF Reboot, TypeOK, States

(* What the end of ConnectJob's handler leaves in the event task's hands.   *)
LEMMA EndConnectHandlerType ==
    ASSUME TypeOK, EndConnectHandler
    PROVE  /\ pc' \in {"idle", "netif", "connect", "unreachable", "since"}
           /\ ev' \in Events \cup {NoEvent}
  BY DEF TypeOK, EndConnectHandler

LEMMA ConnectHandlerType == TypeOK /\ ConnectHandler => TypeOK'
  <1> SUFFICES ASSUME TypeOK, ConnectHandler PROVE TypeOK'
    OBVIOUS
  <1> USE DEF layoutVars, stateVars, searchVars, connectVars, radioVars, eventVars,
              timerVars, airVars
  <1>1. CASE IgnoreEvent
    <2>1. EndConnectHandler
      BY <1>1 DEF IgnoreEvent
    <2> QED BY <1>1, <2>1, EndConnectHandlerType DEF IgnoreEvent, TypeOK
  <1>2. CASE RecordParent
    <2>1. EndConnectHandler
      BY <1>2 DEF RecordParent
    <2>2. ev.mac \in Nodes /\ ev.rssi \in Rssi
      BY <1>2, EventFields DEF RecordParent, TypeOK
    <2>3. parent_infos' \in [Nodes -> Rssi \cup {NoRssi}]
      BY <1>2, <2>2, ConsideredType DEF RecordParent
    <2>4. /\ parent_wait' \in {"none", "running", "over"}
          /\ nvs' \in Channels \cup {NoChannel}
      BY <1>2 DEF RecordParent, TypeOK
    <2> QED BY <1>2, <2>1, <2>3, <2>4, EndConnectHandlerType DEF RecordParent, TypeOK
  <1>3. CASE AdoptParent
    <2>1. EndConnectHandler /\ SetState(REACHES)
      BY <1>3 DEF AdoptParent
    <2>2. ev.mac \in Nodes /\ ev.root \in Roots
      BY <1>3, EventFields DEF AdoptParent, AcceptsResponse, TypeOK
    <2>3. state' \in States /\ queue' \in Seq(Events)
      BY <2>1, SetStateType DEF States
    <2> QED BY <1>3, <2>1, <2>2, <2>3, EndConnectHandlerType DEF AdoptParent, TypeOK
  <1>4. CASE AbortOnFullQueue
    BY <1>4, RebootType DEF AbortOnFullQueue
  <1>5. CASE ResumeSearch
    <2>1. EndConnectHandler /\ EnterSearch
      BY <1>5 DEF ResumeSearch
    <2> QED BY <1>5, <2>1, EndConnectHandlerType, ReadChannelType, SizeAssumption
            DEF ResumeSearch, EnterSearch, TypeOK
  <1> QED BY <1>1, <1>2, <1>3, <1>4, <1>5 DEF ConnectHandler

LEMMA EventTaskType == TypeOK /\ EventTask => TypeOK'
  <1> SUFFICES ASSUME TypeOK, EventTask PROVE TypeOK'
    OBVIOUS
  <1> USE DEF layoutVars, stateVars, searchVars, connectVars, radioVars, eventVars,
              timerVars, airVars
  <1>1. CASE TakeEvent
    <2>1. Head(queue) \in Events /\ Tail(queue) \in Seq(Events)
      BY <1>1 DEF TakeEvent, TypeOK
    <2> QED BY <1>1, <2>1 DEF TakeEvent, TypeOK
  <1>2. CASE NetifHandler
    <2>1. link' \in BOOLEAN
      BY <1>2 DEF NetifHandler, LinkAfter, TypeOK
    <2> QED BY <1>2, <2>1 DEF NetifHandler, TypeOK
  <1>3. CASE ConnectHandler
    BY <1>3, ConnectHandlerType
  <1>4. CASE EndUnreachableWait
    BY <1>4 DEF EndUnreachableWait, TypeOK
  <1>5. CASE BeginUnreachableWait
    BY <1>5 DEF BeginUnreachableWait, TypeOK
  <1>6. CASE StampUnreachableWait
    BY <1>6 DEF StampUnreachableWait, TypeOK
  <1>7. CASE SkipUnreachableWait
    BY <1>7 DEF SkipUnreachableWait, TypeOK
  <1> QED BY <1>1, <1>2, <1>3, <1>4, <1>5, <1>6, <1>7 DEF EventTask, UnreachableHandler

LEMMA TimeType == TypeOK /\ Time => TypeOK'
  BY DEF Time, FirstParentWaitElapses, UnreachableTimerElapses, TypeOK, layoutVars,
         stateVars, searchVars, connectVars, radioVars, eventVars, timerVars, airVars

LEMMA TypeNext == TypeOK /\ [Next]_vars => TypeOK'
  <1>1. TypeOK /\ Next => TypeOK'
    BY PacketType, JobType, EventTaskType, TimeType, RebootType DEF Next
  <1>2. TypeOK /\ UNCHANGED vars => TypeOK'
    BY DEF TypeOK, vars
  <1> QED BY <1>1, <1>2

(* Every variable of every reachable state has its type: no event carries a *)
(* field its handlers do not expect, and the radio stays on the country's   *)
(* channels (connect.cpp, SearchPhase::performAction).                      *)
THEOREM TypeCorrect == Spec => []TypeOK
  BY TypeInit, TypeNext, PTL DEF Spec

-----------------------------------------------------------------------------
(* The inductive invariant.  PhaseFollowsState needs AssertionsHold, since  *)
(* a handler that finds a parent concludes that the state is not DISC, and  *)
(* AssertionsHold needs PhaseFollowsState, since AdoptParent relies on the  *)
(* phase to find no parent.                                                 *)
IInv == TypeOK /\ PhaseFollowsState /\ AssertionsHold

(* The losses in the queue after a post, ... *)
LEMMA LossesAfterAppend ==
    ASSUME TypeOK, NEW e \in Events, queue' = Append(queue, e)
    PROVE  LossesQueued' =
             IF IsLoss(e) THEN LossesQueued \cup {Len(queue) + 1} ELSE LossesQueued
  <1>1. queue \in Seq(Events) /\ Len(queue) \in Nat /\ Len(queue') = Len(queue) + 1
    BY DEF TypeOK
  <1>2. \A i \in 1..Len(queue) : queue'[i] = queue[i]
    BY <1>1
  <1>3. queue'[Len(queue) + 1] = e
    BY <1>1
  <1>4. \A i \in 1..Len(queue) : IsLoss(queue'[i]) <=> IsLoss(queue[i])
    BY <1>2
  <1>5. IsLoss(queue'[Len(queue) + 1]) <=> IsLoss(e)
    BY <1>3
  <1>6. LossesQueued' = {i \in 1..Len(queue') : IsLoss(queue'[i])}
    BY DEF LossesQueued, IsLoss, IsChange
  <1>7. 1..Len(queue') = 1..Len(queue) \cup {Len(queue) + 1}
    BY <1>1
  <1>8. Len(queue) + 1 \notin 1..Len(queue)
    BY <1>1
  <1> QED BY <1>4, <1>5, <1>6, <1>7, <1>8 DEF LossesQueued

(* ... and after the event task took the first event.                       *)
LEMMA LossesAfterTail ==
    ASSUME TypeOK, queue # <<>>, queue' = Tail(queue)
    PROVE  /\ \A i \in LossesQueued' : i + 1 \in LossesQueued /\ i >= 1 /\ i \in Int
           /\ \A i \in LossesQueued : i = 1 \/ i - 1 \in LossesQueued'
           /\ 1 \in LossesQueued <=> IsLoss(Head(queue))
           /\ LossesQueued \in SUBSET Int
  <1>1. /\ queue \in Seq(Events) /\ Len(queue) \in Nat /\ Len(queue) >= 1
        /\ Len(queue') = Len(queue) - 1
    BY DEF TypeOK
  <1>2. \A i \in 1..Len(queue') : queue'[i] = queue[i + 1]
    BY <1>1
  <1>3. Head(queue) = queue[1]
    BY <1>1
  <1>4. LossesQueued' = {i \in 1..Len(queue') : IsLoss(queue'[i])}
    BY DEF LossesQueued, IsLoss, IsChange
  <1>5. \A i \in 1..Len(queue') : IsLoss(queue'[i]) <=> IsLoss(queue[i + 1])
    BY <1>2
  <1>6. \A i \in LossesQueued' : i + 1 \in LossesQueued /\ i >= 1 /\ i \in Int
    BY <1>1, <1>4, <1>5 DEF LossesQueued
  <1>7. ASSUME NEW i \in LossesQueued, i # 1
        PROVE  i - 1 \in LossesQueued'
    <2>1. i \in 1..Len(queue) /\ IsLoss(queue[i])
      BY <1>7 DEF LossesQueued
    <2>2. i - 1 \in 1..Len(queue') /\ (i - 1) + 1 = i
      BY <1>1, <1>7, <2>1
    <2> QED BY <1>4, <1>5, <2>1, <2>2
  <1>8. 1 \in LossesQueued <=> IsLoss(Head(queue))
    BY <1>1, <1>3 DEF LossesQueued
  <1> QED BY <1>6, <1>7, <1>8 DEF LossesQueued

(* A step that touches none of what PhaseFollowsState is about keeps it.    *)
LEMMA PhaseQuiet ==
    ASSUME PhaseFollowsState, UNCHANGED <<phase, current_parent, state, eventVars, queue>>
    PROVE  PhaseFollowsState'
  BY DEF PhaseFollowsState, LossPending, LossInHand, LossesQueued, IsLoss, IsChange,
         eventVars

(* So does one that posts an event which is not a loss ...                  *)
LEMMA PhasePost ==
    ASSUME TypeOK, PhaseFollowsState, NEW e \in Events, ~IsLoss(e),
           queue' = Append(queue, e), state' = DISC <=> state = DISC,
           UNCHANGED <<phase, current_parent, eventVars>>
    PROVE  PhaseFollowsState'
  <1>1. LossesQueued' = LossesQueued
    BY LossesAfterAppend
  <1>2. LossInHand' = LossInHand
    BY DEF LossInHand, IsLoss, IsChange, eventVars
  <1> QED BY <1>1, <1>2 DEF PhaseFollowsState, LossPending, eventVars

(* ... and one that loses the parent and posts that.                        *)
LEMMA PhaseLoss ==
    ASSUME TypeOK, PhaseFollowsState, state # DISC, state' = DISC,
           queue' = Append(queue, StateChanged(state, DISC)),
           UNCHANGED <<phase, current_parent, eventVars>>
    PROVE  PhaseFollowsState'
  <1>1. StateChanged(state, DISC) \in Events /\ IsLoss(StateChanged(state, DISC))
    BY EventTypes DEF TypeOK, States, StateChanged, IsLoss, IsChange
  <1>2. phase = "Done" /\ ~LossPending
    BY DEF PhaseFollowsState
  <1>3. LossesQueued' = {Len(queue) + 1}
    BY <1>1, <1>2, LossesAfterAppend DEF LossPending
  <1>4. ~LossInHand'
    BY <1>2 DEF LossPending, LossInHand, IsLoss, IsChange, eventVars
  <1> QED BY <1>2, <1>3, <1>4 DEF PhaseFollowsState, LossPending

(* A change of state in a connected node, to another connected state.       *)
LEMMA PhaseSetState ==
    ASSUME TypeOK, PhaseFollowsState, state # DISC, NEW new \in {CONN, REACHES},
           SetState(new),
           UNCHANGED <<phase, current_parent, eventVars>>
    PROVE  PhaseFollowsState'
  <1>1. CASE new = state
    BY <1>1, PhaseQuiet DEF SetState
  <1>2. CASE new # state
    <2>1. queue' = Append(queue, StateChanged(state, new)) /\ state' = new
      BY <1>2 DEF SetState
    <2>2. StateChanged(state, new) \in Events /\ ~IsLoss(StateChanged(state, new))
      BY EventTypes DEF TypeOK, States, StateChanged, IsLoss, IsChange, DISC, CONN, REACHES
    <2>3. state' = DISC <=> state = DISC
      BY <2>1 DEF DISC, CONN, REACHES
    <2> QED BY <2>1, <2>2, <2>3, PhasePost
  <1> QED BY <1>1, <1>2

(* Giving up the parent, if there is one. *)
LEMMA DropParentInv ==
    ASSUME IInv, DropParent, UNCHANGED <<rootMac, connectVars, eventVars>>
    PROVE  PhaseFollowsState' /\ AssertionsHold'
  <1>1. CASE parent # NoNode
    <2>1. state # DISC
      BY <1>1 DEF IInv, AssertionsHold
    <2>2. /\ state' = DISC /\ parent' = NoNode
          /\ queue' = Append(queue, StateChanged(state, DISC))
      BY <1>1, <2>1 DEF DropParent, RemoveParent, SetState
    <2>3. PhaseFollowsState'
      BY <2>1, <2>2, PhaseLoss DEF IInv, connectVars
    <2>4. AssertionsHold'
      BY <2>2 DEF AssertionsHold, DISC, REACHES
    <2> QED BY <2>3, <2>4
  <1>2. CASE parent = NoNode
    <2>1. UNCHANGED <<parent, state, queue>>
      BY <1>2 DEF DropParent
    <2>2. PhaseFollowsState'
      BY <2>1, PhaseQuiet DEF IInv, connectVars
    <2>3. AssertionsHold'
      BY <2>1 DEF IInv, AssertionsHold
    <2> QED BY <2>2, <2>3
  <1> QED BY <1>1, <1>2

-----------------------------------------------------------------------------
LEMMA IInvInit == Init => IInv
  <1> SUFFICES ASSUME Init PROVE PhaseFollowsState /\ AssertionsHold
    BY TypeInit DEF IInv
  <1>1. LossesQueued = {}
    BY DEF Init, LossesQueued
  <1>2. ~LossInHand
    BY DEF Init, LossInHand
  <1> QED BY <1>1, <1>2 DEF Init, PhaseFollowsState, LossPending, AssertionsHold,
                            DISC, REACHES

LEMMA RebootInv == IInv /\ Reboot => PhaseFollowsState' /\ AssertionsHold'
  <1> SUFFICES ASSUME Reboot PROVE PhaseFollowsState' /\ AssertionsHold'
    OBVIOUS
  <1>1. LossesQueued' = {}
    BY DEF Reboot, LossesQueued
  <1>2. ~LossInHand'
    BY DEF Reboot, LossInHand
  <1> QED BY <1>1, <1>2 DEF Reboot, PhaseFollowsState, LossPending, AssertionsHold,
                            DISC, REACHES

LEMMA PacketInv == IInv /\ Packet => PhaseFollowsState' /\ AssertionsHold'
  <1> SUFFICES ASSUME IInv, NEW m \in Nodes,
                      \/ \E s \in States, r \in Roots : HandleStatus(m, s, r)
                      \/ \E r \in Rssi : HandleSearchReply(m, r)
                      \/ \E r \in Roots : HandleConnectOk(m, r)
                      \/ HandleConnectRequest(m)
                      \/ HandleRootUnreachable(m)
                      \/ HandleRootReachable(m)
               PROVE  PhaseFollowsState' /\ AssertionsHold'
    BY DEF Packet
  <1>a. TypeOK /\ PhaseFollowsState /\ AssertionsHold
    BY DEF IInv
  <1>p. m = parent => state # DISC
    BY <1>a, NodesAssumption DEF AssertionsHold
  <1> USE DEF layoutVars, stateVars, connectVars
  <1>1. ASSUME NEW s \in States, NEW r \in Roots, HandleStatus(m, s, r)
        PROVE  PhaseFollowsState' /\ AssertionsHold'
    <2> DEFINE new == IF s = REACHES THEN REACHES ELSE CONN
    <2>1. new \in {CONN, REACHES} /\ SetState(new) /\ m = parent
      BY <1>1 DEF HandleStatus
    <2>2. PhaseFollowsState'
      BY <1>1, <1>a, <1>p, <2>1, PhaseSetState DEF HandleStatus
    <2>3. state' = new /\ rootMac' = IF s = REACHES THEN r ELSE rootMac
      BY <1>1, <2>1 DEF HandleStatus, SetState
    <2>4. AssertionsHold'
      BY <1>1, <1>a, <1>p, <2>1, <2>3, NodesAssumption
      DEF HandleStatus, AssertionsHold, DISC, CONN, REACHES
    <2> QED BY <2>2, <2>4
  <1>2. ASSUME NEW r \in Rssi, HandleSearchReply(m, r)
        PROVE  PhaseFollowsState' /\ AssertionsHold'
    <2>1. ParentFound(m, r) \in Events /\ ~IsLoss(ParentFound(m, r))
      BY EventTypes DEF ParentFound, IsLoss, IsChange
    <2>2. PhaseFollowsState'
      BY <1>2, <1>a, <2>1, PhasePost DEF HandleSearchReply
    <2> QED BY <1>2, <1>a, <2>2 DEF HandleSearchReply, AssertionsHold
  <1>3. ASSUME NEW r \in Roots, HandleConnectOk(m, r)
        PROVE  PhaseFollowsState' /\ AssertionsHold'
    <2>1. GotConnectResponse(m, r) \in Events /\ ~IsLoss(GotConnectResponse(m, r))
      BY EventTypes DEF GotConnectResponse, IsLoss, IsChange
    <2>2. PhaseFollowsState'
      BY <1>3, <1>a, <2>1, PhasePost DEF HandleConnectOk
    <2> QED BY <1>3, <1>a, <2>2 DEF HandleConnectOk, AssertionsHold
  <1>4. CASE HandleConnectRequest(m)
    BY <1>4, <1>a, PhaseQuiet DEF HandleConnectRequest, AssertionsHold
  <1>5. CASE HandleRootUnreachable(m)
    <2>1. SetState(CONN) /\ state # DISC
      BY <1>5, <1>p DEF HandleRootUnreachable
    <2>2. PhaseFollowsState'
      BY <1>5, <1>a, <2>1, PhaseSetState DEF HandleRootUnreachable
    <2>3. AssertionsHold'
      BY <1>5, <1>a, <2>1
      DEF HandleRootUnreachable, AssertionsHold, SetState, DISC, CONN, REACHES
    <2> QED BY <2>2, <2>3
  <1>6. CASE HandleRootReachable(m)
    <2>1. SetState(REACHES) /\ state # DISC
      BY <1>6, <1>p DEF HandleRootReachable
    <2>2. PhaseFollowsState'
      BY <1>6, <1>a, <2>1, PhaseSetState DEF HandleRootReachable
    <2>3. AssertionsHold'
      BY <1>6, <1>a, <2>1
      DEF HandleRootReachable, AssertionsHold, SetState, DISC, CONN, REACHES
    <2> QED BY <2>2, <2>3
  <1> QED BY <1>1, <1>2, <1>3, <1>4, <1>5, <1>6

LEMMA JobInv == IInv /\ Job => PhaseFollowsState' /\ AssertionsHold'
  <1> SUFFICES ASSUME IInv, Job PROVE PhaseFollowsState' /\ AssertionsHold'
    OBVIOUS
  <1>a. TypeOK /\ PhaseFollowsState /\ AssertionsHold
    BY DEF IInv
  <1> USE DEF layoutVars, stateVars, connectVars
  <1>1. CASE SearchProbe \/ SwitchChannel
    <2>1. UNCHANGED <<phase, current_parent, state, eventVars, queue, parent, rootMac>>
      BY <1>1 DEF SearchProbe, SwitchChannel
    <2> QED BY <1>a, <2>1, PhaseQuiet DEF AssertionsHold
  <1>2. CASE StartConnecting \/ RequestNextParent \/ ParentsExhausted
    <2>1. /\ UNCHANGED <<state, eventVars, queue, parent, rootMac>>
          /\ phase # "Done" /\ phase' # "Done"
          /\ phase' # "Connect" => current_parent' = NoNode
      BY <1>2 DEF StartConnecting, RequestNextParent, ParentsExhausted, EnterSearch
    <2>2. LossesQueued' = LossesQueued /\ LossInHand' = LossInHand
      BY <2>1 DEF LossesQueued, LossInHand, IsLoss, IsChange, eventVars
    <2> QED BY <1>a, <2>1, <2>2 DEF PhaseFollowsState, LossPending, AssertionsHold
  <1>3. CASE UnreachableTimeout
    BY <1>3, DropParentInv DEF UnreachableTimeout
  <1>4. ASSUME NEW lost \in SUBSET children, NEW gone \in BOOLEAN,
               NeighborCheck(lost, gone)
        PROVE  PhaseFollowsState' /\ AssertionsHold'
    <2>1. CASE gone
      BY <1>4, <2>1, DropParentInv DEF NeighborCheck
    <2>2. CASE ~gone
      BY <1>4, <1>a, <2>2, PhaseQuiet DEF NeighborCheck, AssertionsHold
    <2> QED BY <2>1, <2>2
  <1> QED BY <1>1, <1>2, <1>3, <1>4 DEF Job

LEMMA ConnectHandlerInv ==
    IInv /\ ConnectHandler => PhaseFollowsState' /\ AssertionsHold'
  <1> SUFFICES ASSUME IInv, ConnectHandler PROVE PhaseFollowsState' /\ AssertionsHold'
    OBVIOUS
  <1>a. TypeOK /\ PhaseFollowsState /\ AssertionsHold
    BY DEF IInv
  <1>e. EndConnectHandler => ~LossInHand'
    BY DEF EndConnectHandler, LossInHand
  <1> USE DEF layoutVars, stateVars, connectVars
  <1>1. CASE IgnoreEvent \/ RecordParent
    <2>1. /\ UNCHANGED <<phase, current_parent, state, queue, parent, rootMac>>
          /\ EndConnectHandler
      BY <1>1 DEF IgnoreEvent, RecordParent
    <2>2. ~LossInHand
      BY <1>1, <1>a
      DEF IgnoreEvent, RecordParent, PhaseFollowsState, LossPending, LossInHand,
          IsLoss, IsChange, Lost, TypeOK
    <2>3. LossesQueued' = LossesQueued
      BY <2>1 DEF LossesQueued, IsLoss, IsChange
    <2> QED BY <1>a, <1>e, <2>1, <2>2, <2>3
            DEF PhaseFollowsState, LossPending, AssertionsHold
  <1>2. CASE AdoptParent
    <2>1. state = DISC /\ ~LossPending /\ EndConnectHandler
      BY <1>2, <1>a DEF AdoptParent, AcceptsResponse, PhaseFollowsState
    <2>2. /\ state' = REACHES /\ phase' = "Done" /\ current_parent' = NoNode
          /\ queue' = Append(queue, StateChanged(DISC, REACHES))
      BY <1>2, <2>1 DEF AdoptParent, SetState, DISC, REACHES
    <2>3. /\ StateChanged(DISC, REACHES) \in Events
          /\ ~IsLoss(StateChanged(DISC, REACHES))
      BY EventTypes DEF States, StateChanged, IsLoss, IsChange, DISC, REACHES
    <2>4. LossesQueued' = {}
      BY <1>a, <2>1, <2>2, <2>3, LossesAfterAppend DEF LossPending
    <2>5. PhaseFollowsState'
      BY <1>e, <2>1, <2>2, <2>4 DEF PhaseFollowsState, LossPending, DISC, REACHES
    <2>6. parent' \in Nodes /\ rootMac' \in Roots
      BY <1>2, <1>a, EventFields DEF AdoptParent, AcceptsResponse, TypeOK
    <2> QED BY <2>2, <2>5, <2>6, NodesAssumption DEF AssertionsHold, DISC, REACHES
  <1>3. CASE AbortOnFullQueue
    BY <1>3, RebootInv DEF AbortOnFullQueue
  <1>4. CASE ResumeSearch
    <2>1. /\ UNCHANGED <<state, queue, parent, rootMac>>
          /\ phase' = "Search" /\ current_parent' = NoNode /\ EndConnectHandler
      BY <1>4 DEF ResumeSearch, EnterSearch
    <2>2. LossInHand /\ phase = "Done"
      BY <1>4 DEF ResumeSearch, LossInHand, IsLoss, IsChange, Lost
    <2>3. state = DISC /\ LossesQueued = {}
      BY <1>a, <2>2 DEF PhaseFollowsState, LossPending
    <2>4. LossesQueued' = {}
      BY <2>1, <2>3 DEF LossesQueued, IsLoss, IsChange
    <2> QED BY <1>a, <1>e, <2>1, <2>3, <2>4
            DEF PhaseFollowsState, LossPending, AssertionsHold
  <1> QED BY <1>1, <1>2, <1>3, <1>4 DEF ConnectHandler

LEMMA TakeEventInv == IInv /\ TakeEvent => PhaseFollowsState' /\ AssertionsHold'
  <1> SUFFICES ASSUME IInv, TakeEvent PROVE PhaseFollowsState' /\ AssertionsHold'
    OBVIOUS
  <1>a. TypeOK /\ PhaseFollowsState /\ AssertionsHold
    BY DEF IInv
  <1>1. /\ UNCHANGED <<phase, current_parent, state, parent, rootMac>>
        /\ pc = "idle" /\ queue # <<>> /\ queue' = Tail(queue) /\ ev' = Head(queue)
        /\ pc' = IF Head(queue).kind = "STATE_CHANGED" THEN "netif" ELSE "connect"
    BY DEF TakeEvent, stateVars, layoutVars, connectVars
  <1>2. /\ \A i \in LossesQueued' : i + 1 \in LossesQueued /\ i >= 1 /\ i \in Int
        /\ \A i \in LossesQueued : i = 1 \/ i - 1 \in LossesQueued'
        /\ 1 \in LossesQueued <=> IsLoss(Head(queue))
        /\ LossesQueued \in SUBSET Int
    BY <1>a, <1>1, LossesAfterTail
  <1>3. ~LossInHand
    BY <1>1 DEF LossInHand
  <1>4. LossInHand' <=> IsLoss(Head(queue))
    BY <1>1 DEF LossInHand, IsLoss, IsChange
  <1>5. LossInHand' => LossesQueued' = {}
    <2> SUFFICES ASSUME LossInHand', NEW i \in LossesQueued' PROVE FALSE
      OBVIOUS
    <2>1. 1 \in LossesQueued /\ i + 1 \in LossesQueued /\ i + 1 # 1
      BY <1>2, <1>4
    <2> QED BY <1>a, <2>1 DEF PhaseFollowsState
  <1>6. \A i, j \in LossesQueued' : i = j
    <2> TAKE i, j \in LossesQueued'
    <2>1. i + 1 = j + 1 /\ i \in Int /\ j \in Int
      BY <1>a, <1>2 DEF PhaseFollowsState
    <2> QED BY <2>1
  <1>7. LossPending' <=> LossPending
    <2>1. ASSUME LossPending PROVE LossPending'
      <3>1. PICK i \in LossesQueued : TRUE
        BY <1>3, <2>1 DEF LossPending
      <3> QED BY <1>2, <1>4, <3>1 DEF LossPending
    <2>2. ASSUME LossPending' PROVE LossPending
      BY <1>2, <1>4, <2>2 DEF LossPending
    <2> QED BY <2>1, <2>2
  <1> QED BY <1>a, <1>1, <1>5, <1>6, <1>7 DEF PhaseFollowsState, AssertionsHold

LEMMA EventTaskInv == IInv /\ EventTask => PhaseFollowsState' /\ AssertionsHold'
  <1> SUFFICES ASSUME IInv, EventTask PROVE PhaseFollowsState' /\ AssertionsHold'
    OBVIOUS
  <1>a. TypeOK /\ PhaseFollowsState /\ AssertionsHold
    BY DEF IInv
  <1> USE DEF layoutVars, stateVars, connectVars
  <1>1. CASE TakeEvent
    BY <1>1, TakeEventInv
  <1>2. CASE ConnectHandler
    BY <1>2, ConnectHandlerInv
  <1>3. CASE NetifHandler \/ UnreachableHandler
    <2>1. /\ UNCHANGED <<phase, current_parent, state, queue, parent, rootMac>>
          /\ LossInHand' <=> LossInHand
      BY <1>3
      DEF NetifHandler, UnreachableHandler, EndUnreachableWait, BeginUnreachableWait,
          StampUnreachableWait, SkipUnreachableWait, LossInHand, IsLoss, IsChange
    <2>2. LossesQueued' = LossesQueued
      BY <2>1 DEF LossesQueued, IsLoss, IsChange
    <2> QED BY <1>a, <2>1, <2>2 DEF PhaseFollowsState, LossPending, AssertionsHold
  <1> QED BY <1>1, <1>2, <1>3 DEF EventTask

LEMMA IInvNext == IInv /\ [Next]_vars => IInv'
  <1> SUFFICES ASSUME IInv, [Next]_vars PROVE PhaseFollowsState' /\ AssertionsHold'
    BY TypeNext DEF IInv
  <1>a. TypeOK /\ PhaseFollowsState /\ AssertionsHold
    BY DEF IInv
  <1>1. CASE Packet
    BY <1>1, PacketInv
  <1>2. CASE Job
    BY <1>2, JobInv
  <1>3. CASE EventTask
    BY <1>3, EventTaskInv
  <1>4. CASE Reboot
    BY <1>4, RebootInv
  <1>5. CASE Time \/ UNCHANGED vars
    <2>1. UNCHANGED <<phase, current_parent, state, eventVars, queue, parent, rootMac>>
      BY <1>5 DEF Time, FirstParentWaitElapses, UnreachableTimerElapses, vars,
                  stateVars, layoutVars, connectVars, eventVars
    <2> QED BY <1>a, <2>1, PhaseQuiet DEF AssertionsHold
  <1> QED BY <1>1, <1>2, <1>3, <1>4, <1>5 DEF Next

LEMMA Invariant == Spec => []IInv
  BY IInvInit, IInvNext, PTL DEF Spec

(* ConnectJob's phase and the node's state agree, up to the one event on    *)
(* its way, for queues of every size and whatever the peers send.           *)
THEOREM PhaseCorrect == Spec => []PhaseFollowsState
  <1>1. IInv => PhaseFollowsState
    BY DEF IInv
  <1> QED BY <1>1, Invariant, PTL

(* No assertion of packet_handler.cpp and state.cpp on the state, the       *)
(* parent and the root's address can fail.                                  *)
THEOREM AssertionsCorrect == Spec => []AssertionsHold
  <1>1. IInv => AssertionsHold
    BY DEF IInv
  <1> QED BY <1>1, Invariant, PTL

-----------------------------------------------------------------------------
(* An answer that waits in the queue was no child's when it was handled.    *)
(* Its sender may become a child as soon as the node is connected again,    *)
(* and then the answer may be found in the queue, but only before the loss  *)
(* that the next search begins with: a node takes children while it reaches *)
(* the root, and answers while it is disconnected.                          *)
OfChild(e) == e.kind = "GOT_CONNECT_RESPONSE" /\ e.mac \in children

BehindLoss(i) ==
    phase # "Done" \/ LossInHand \/ \E j \in LossesQueued : j < i

NoChildAnswers ==
    /\ \A i \in 1..Len(queue) : BehindLoss(i) => ~OfChild(queue[i])
    /\ phase # "Done" /\ pc \in {"netif", "connect"} => ~OfChild(ev)

(* Steps that leave the queue and the event in hand alone, ...              *)
LEMMA NoChildQuiet ==
    ASSUME NoChildAnswers, children' \subseteq children,
           UNCHANGED <<queue, eventVars>>,
           phase' # "Done" => phase # "Done"
    PROVE  NoChildAnswers'
  <1>1. /\ LossInHand' = LossInHand /\ LossesQueued' = LossesQueued
        /\ UNCHANGED <<queue, pc, ev>>
    BY DEF LossInHand, LossesQueued, IsLoss, IsChange, eventVars
  <1> QED BY <1>1 DEF NoChildAnswers, BehindLoss, OfChild

(* ... and posts. *)
LEMMA NoChildPost ==
    ASSUME TypeOK, NoChildAnswers, children' \subseteq children,
           NEW e \in Events, ~OfChild(e), queue' = Append(queue, e),
           UNCHANGED <<phase, eventVars>>
    PROVE  NoChildAnswers'
  <1> DEFINE n == Len(queue)
  <1>1. queue \in Seq(Events) /\ n \in Nat /\ Len(queue') = n + 1
    BY DEF TypeOK
  <1>2. (\A i \in 1..n : queue'[i] = queue[i]) /\ queue'[n + 1] = e
    BY <1>1
  <1>3. LossInHand' = LossInHand /\ UNCHANGED <<pc, ev>>
    BY DEF LossInHand, IsLoss, IsChange, eventVars
  <1>4. \A j \in LossesQueued' : j \in LossesQueued \/ j = n + 1
    BY LossesAfterAppend
  <1>5. \A x : OfChild(x)' => OfChild(x)
    BY DEF OfChild
  <1> HIDE DEF n
  <1>6. ASSUME NEW i \in 1..(n + 1), BehindLoss(i)'
        PROVE  ~OfChild(queue[i])'
    <2>1. CASE i = n + 1
      BY <1>2, <2>1 DEF OfChild
    <2>2. CASE i # n + 1
      <3>1. i \in 1..n
        BY <1>1, <2>2
      <3>2. \A j \in LossesQueued' : j < i => j \in LossesQueued
        BY <1>1, <1>4, <3>1
      <3>3. BehindLoss(i)
        BY <1>3, <1>6, <3>2 DEF BehindLoss
      <3>4. ~OfChild(queue[i])
        BY <3>1, <3>3 DEF NoChildAnswers, n
      <3> QED BY <1>2, <3>1, <3>4 DEF OfChild
    <2> QED BY <2>1, <2>2
  <1>7. ~(phase' # "Done" /\ pc' \in {"netif", "connect"} /\ OfChild(ev)')
    BY <1>3 DEF NoChildAnswers, OfChild
  <1> QED BY <1>1, <1>6, <1>7 DEF NoChildAnswers, OfChild

(* A change of state is no answer. *)
LEMMA NoChildSetState ==
    ASSUME TypeOK, NoChildAnswers, children' \subseteq children,
           NEW new \in States, SetState(new), UNCHANGED <<phase, eventVars>>
    PROVE  NoChildAnswers'
  <1>1. CASE new = state
    BY <1>1, NoChildQuiet DEF SetState
  <1>2. CASE new # state
    <2>1. /\ queue' = Append(queue, StateChanged(state, new))
          /\ StateChanged(state, new) \in Events /\ ~OfChild(StateChanged(state, new))
      BY <1>2, EventTypes DEF SetState, TypeOK, StateChanged, OfChild
    <2> QED BY <2>1, NoChildPost
  <1> QED BY <1>1, <1>2

LEMMA NoChildDropParent ==
    ASSUME TypeOK, NoChildAnswers, ParentIsNoChild, children' \subseteq children,
           DropParent, UNCHANGED <<phase, eventVars>>
    PROVE  NoChildAnswers' /\ ParentIsNoChild'
  <1>1. CASE parent # NoNode
    BY <1>1, NoChildSetState, NodesAssumption
    DEF DropParent, RemoveParent, ParentIsNoChild, TypeOK, States
  <1>2. CASE parent = NoNode
    BY <1>2, NoChildQuiet DEF DropParent, ParentIsNoChild
  <1> QED BY <1>1, <1>2

LEMMA NoChildPacket ==
    IInv /\ NoChildAnswers /\ ParentIsNoChild /\ Packet
      => NoChildAnswers' /\ ParentIsNoChild'
  <1> SUFFICES ASSUME IInv, NoChildAnswers, ParentIsNoChild, NEW m \in Nodes,
                      \/ \E s \in States, r \in Roots : HandleStatus(m, s, r)
                      \/ \E r \in Rssi : HandleSearchReply(m, r)
                      \/ \E r \in Roots : HandleConnectOk(m, r)
                      \/ HandleConnectRequest(m)
                      \/ HandleRootUnreachable(m)
                      \/ HandleRootReachable(m)
               PROVE  NoChildAnswers' /\ ParentIsNoChild'
    BY DEF Packet
  <1>a. TypeOK /\ PhaseFollowsState
    BY DEF IInv
  <1> USE DEF layoutVars, connectVars
  <1>1. ASSUME NEW s \in States, NEW r \in Roots, HandleStatus(m, s, r)
        PROVE  NoChildAnswers' /\ ParentIsNoChild'
    <2> DEFINE new == IF s = REACHES THEN REACHES ELSE CONN
    <2>1. /\ new \in States /\ SetState(new)
          /\ UNCHANGED <<phase, eventVars, parent, children>>
      BY <1>1 DEF HandleStatus, States
    <2> QED BY <1>a, <2>1, NoChildSetState DEF ParentIsNoChild
  <1>2. ASSUME NEW r \in Rssi, HandleSearchReply(m, r)
        PROVE  NoChildAnswers' /\ ParentIsNoChild'
    <2>1. ParentFound(m, r) \in Events /\ ~OfChild(ParentFound(m, r))
      BY EventTypes DEF ParentFound, OfChild
    <2> QED BY <1>2, <1>a, <2>1, NoChildPost DEF HandleSearchReply, ParentIsNoChild
  <1>3. ASSUME NEW r \in Roots, HandleConnectOk(m, r)
        PROVE  NoChildAnswers' /\ ParentIsNoChild'
    <2>1. GotConnectResponse(m, r) \in Events /\ ~OfChild(GotConnectResponse(m, r))
      BY <1>3, EventTypes
      DEF HandleConnectOk, TakesAnswer, Knows, GotConnectResponse, OfChild
    <2> QED BY <1>3, <1>a, <2>1, NoChildPost DEF HandleConnectOk, ParentIsNoChild
  <1>4. CASE HandleConnectRequest(m)
    <2>1. /\ state = REACHES /\ m # parent /\ children' = children \cup {m}
          /\ UNCHANGED <<phase, queue, eventVars, parent>>
      BY <1>4 DEF HandleConnectRequest, Knows
    <2>2. phase = "Done" /\ ~LossPending
      BY <1>a, <2>1 DEF PhaseFollowsState, DISC, REACHES
    <2>3. phase' = "Done" /\ ~LossInHand' /\ LossesQueued' = {}
      BY <2>1, <2>2
      DEF LossPending, LossInHand, LossesQueued, IsLoss, IsChange, eventVars
    <2> QED BY <2>1, <2>3 DEF NoChildAnswers, BehindLoss, ParentIsNoChild
  <1>5. CASE HandleRootUnreachable(m)
    <2>1. /\ SetState(CONN) /\ CONN \in States
          /\ UNCHANGED <<phase, eventVars, parent, children>>
      BY <1>5 DEF HandleRootUnreachable, States
    <2> QED BY <1>a, <2>1, NoChildSetState DEF ParentIsNoChild
  <1>6. CASE HandleRootReachable(m)
    <2>1. /\ SetState(REACHES) /\ REACHES \in States
          /\ UNCHANGED <<phase, eventVars, parent, children>>
      BY <1>6 DEF HandleRootReachable, States
    <2> QED BY <1>a, <2>1, NoChildSetState DEF ParentIsNoChild
  <1> QED BY <1>1, <1>2, <1>3, <1>4, <1>5, <1>6

LEMMA NoChildJob ==
    IInv /\ NoChildAnswers /\ ParentIsNoChild /\ Job
      => NoChildAnswers' /\ ParentIsNoChild'
  <1> SUFFICES ASSUME IInv, NoChildAnswers, ParentIsNoChild, Job
               PROVE  NoChildAnswers' /\ ParentIsNoChild'
    OBVIOUS
  <1>a. TypeOK
    BY DEF IInv
  <1>1. CASE SearchProbe \/ SwitchChannel \/ StartConnecting \/ RequestNextParent
               \/ ParentsExhausted
    <2>1. /\ UNCHANGED <<queue, eventVars, parent, children>>
          /\ phase' # "Done" => phase # "Done"
      BY <1>1 DEF SearchProbe, SwitchChannel, StartConnecting, RequestNextParent,
                  ParentsExhausted, layoutVars, connectVars
    <2> QED BY <2>1, NoChildQuiet DEF ParentIsNoChild
  <1>2. CASE UnreachableTimeout
    BY <1>2, <1>a, NoChildDropParent DEF UnreachableTimeout, connectVars
  <1>3. ASSUME NEW lost \in SUBSET children, NEW gone \in BOOLEAN,
               NeighborCheck(lost, gone)
        PROVE  NoChildAnswers' /\ ParentIsNoChild'
    <2>1. children' \subseteq children /\ UNCHANGED <<phase, eventVars>>
      BY <1>3 DEF NeighborCheck, connectVars
    <2>2. CASE gone
      BY <1>3, <1>a, <2>1, <2>2, NoChildDropParent DEF NeighborCheck
    <2>3. CASE ~gone
      BY <1>3, <2>1, <2>3, NoChildQuiet DEF NeighborCheck, ParentIsNoChild
    <2> QED BY <2>2, <2>3
  <1> QED BY <1>1, <1>2, <1>3 DEF Job

LEMMA NoChildTake ==
    IInv /\ NoChildAnswers /\ TakeEvent => NoChildAnswers'
  <1> SUFFICES ASSUME IInv, NoChildAnswers, TakeEvent PROVE NoChildAnswers'
    OBVIOUS
  <1> DEFINE n == Len(queue)
  <1>1. /\ UNCHANGED <<phase, children>> /\ pc = "idle" /\ queue # <<>>
        /\ ev' = Head(queue) /\ queue' = Tail(queue)
    BY DEF TakeEvent, layoutVars, connectVars
  <1>2. /\ queue \in Seq(Events) /\ n \in Nat /\ n >= 1 /\ Len(queue') = n - 1
        /\ Head(queue) = queue[1] /\ \A i \in 1..(n - 1) : queue'[i] = queue[i + 1]
    BY <1>1 DEF IInv, TypeOK
  <1>3. /\ \A j \in LossesQueued' : j + 1 \in LossesQueued /\ j >= 1 /\ j \in Int
        /\ 1 \in LossesQueued <=> IsLoss(Head(queue))
    BY <1>1, LossesAfterTail DEF IInv
  <1>4. LossInHand' => 1 \in LossesQueued
    BY <1>1, <1>3 DEF LossInHand, IsLoss, IsChange
  <1> HIDE DEF n
  <1>5. ASSUME NEW i \in 1..(n - 1), BehindLoss(i)'
        PROVE  ~OfChild(queue[i + 1])
    <2>1. i + 1 \in 1..n /\ 1 < i + 1 /\ i \in Int
      BY <1>2
    <2>2. \A j \in LossesQueued' : j < i => j + 1 < i + 1 /\ j + 1 \in LossesQueued
      BY <1>3, <2>1
    <2>3. BehindLoss(i + 1)
      BY <1>1, <1>4, <1>5, <2>1, <2>2 DEF BehindLoss
    <2> QED BY <2>1, <2>3 DEF NoChildAnswers, n
  <1>6. phase # "Done" => ~OfChild(queue[1])
    <2>1. 1 \in 1..n
      BY <1>2
    <2> QED BY <2>1 DEF NoChildAnswers, BehindLoss, n
  <1> QED BY <1>1, <1>2, <1>5, <1>6 DEF NoChildAnswers, OfChild

LEMMA NoChildEventTask ==
    IInv /\ NoChildAnswers /\ ParentIsNoChild /\ EventTask
      => NoChildAnswers' /\ ParentIsNoChild'
  <1> SUFFICES ASSUME IInv, NoChildAnswers, ParentIsNoChild, EventTask
               PROVE  NoChildAnswers' /\ ParentIsNoChild'
    OBVIOUS
  <1>a. TypeOK /\ PhaseFollowsState
    BY DEF IInv
  <1> USE DEF layoutVars, connectVars
  <1>1. CASE TakeEvent
    BY <1>1, NoChildTake DEF TakeEvent, ParentIsNoChild
  <1>2. ASSUME UNCHANGED <<phase, queue, parent, children>>,
               LossInHand' => LossInHand,
               pc' \in {"netif", "connect"} => pc \in {"netif", "connect"} /\ ev' = ev
        PROVE  NoChildAnswers' /\ ParentIsNoChild'
    <2>1. LossesQueued' = LossesQueued
      BY <1>2 DEF LossesQueued, IsLoss, IsChange
    <2> QED BY <1>2, <2>1 DEF NoChildAnswers, BehindLoss, OfChild, ParentIsNoChild
  <1>3. CASE NetifHandler \/ UnreachableHandler
    <2>1. UNCHANGED <<phase, queue, parent, children>>
      BY <1>3 DEF NetifHandler, UnreachableHandler, EndUnreachableWait,
         BeginUnreachableWait, StampUnreachableWait, SkipUnreachableWait
    <2>2. pc' \in {"netif", "connect"} => pc \in {"netif", "connect"} /\ ev' = ev
      BY <1>3 DEF NetifHandler, UnreachableHandler, EndUnreachableWait,
         BeginUnreachableWait, StampUnreachableWait, SkipUnreachableWait
    <2>3. LossInHand' => LossInHand
      BY <2>2 DEF LossInHand, IsLoss, IsChange
    <2> QED BY <1>2, <2>1, <2>2, <2>3
  <1>4. CASE IgnoreEvent \/ RecordParent
    <2>1. /\ UNCHANGED <<phase, queue, parent, children>>
          /\ pc = "connect" /\ EndConnectHandler
      BY <1>4 DEF IgnoreEvent, RecordParent
    <2>2. pc' \notin {"netif", "connect"}
      BY <2>1 DEF EndConnectHandler
    <2> QED BY <1>2, <2>1, <2>2 DEF LossInHand
  <1>5. CASE AdoptParent
    <2>1. /\ pc = "connect" /\ phase = "Connect" /\ ev.kind = "GOT_CONNECT_RESPONSE"
          /\ parent' = ev.mac /\ SetState(REACHES) /\ phase' = "Done"
          /\ pc' = "idle" /\ UNCHANGED children
      BY <1>5 DEF AdoptParent, AcceptsResponse, EndConnectHandler
    <2>2. ParentIsNoChild'
      BY <2>1 DEF NoChildAnswers, OfChild, ParentIsNoChild
    <2>3. state = DISC /\ LossesQueued = {}
      BY <1>a, <2>1 DEF PhaseFollowsState, LossPending
    <2>4. /\ queue' = Append(queue, StateChanged(DISC, REACHES))
          /\ StateChanged(DISC, REACHES) \in Events
          /\ ~IsLoss(StateChanged(DISC, REACHES))
      BY <2>1, <2>3, EventTypes
      DEF SetState, States, StateChanged, IsLoss, IsChange, DISC, REACHES
    <2>5. LossesQueued' = {}
      BY <1>a, <2>3, <2>4, LossesAfterAppend
    <2> QED BY <2>1, <2>2, <2>5 DEF NoChildAnswers, BehindLoss, LossInHand
  <1>6. CASE AbortOnFullQueue
    <2>1. children' = {} /\ queue' = <<>> /\ pc' = "idle"
      BY <1>6 DEF AbortOnFullQueue, Reboot
    <2> QED BY <2>1 DEF NoChildAnswers, ParentIsNoChild
  <1>7. CASE ResumeSearch
    <2>1. /\ LossInHand /\ pc' \notin {"netif", "connect"}
          /\ UNCHANGED <<queue, parent, children>>
      BY <1>7 DEF ResumeSearch, LossInHand, IsLoss, IsChange, Lost, EndConnectHandler
    <2> QED BY <2>1 DEF NoChildAnswers, BehindLoss, OfChild, ParentIsNoChild
  <1> QED BY <1>1, <1>3, <1>4, <1>5, <1>6, <1>7 DEF EventTask, ConnectHandler

(* No node ends a search as the child of its own child, however old its     *)
(* list of candidates, and whoever became a child while it was connected or *)
(* while an answer waited in the event queue.                               *)
THEOREM ParentIsNoChildCorrect == Spec => []ParentIsNoChild
  <1>1. Init => NoChildAnswers /\ ParentIsNoChild
    BY DEF Init, NoChildAnswers, ParentIsNoChild
  <1>2. IInv /\ NoChildAnswers /\ ParentIsNoChild /\ [Next]_vars
          => NoChildAnswers' /\ ParentIsNoChild'
    <2>1. NoChildAnswers /\ ParentIsNoChild /\ (Time \/ UNCHANGED vars)
            => NoChildAnswers' /\ ParentIsNoChild'
      BY NoChildQuiet DEF Time, FirstParentWaitElapses, UnreachableTimerElapses, vars,
         ParentIsNoChild, layoutVars, connectVars, eventVars
    <2>2. Reboot => NoChildAnswers' /\ ParentIsNoChild'
      BY DEF Reboot, NoChildAnswers, ParentIsNoChild
    <2> QED BY <2>1, <2>2, NoChildPacket, NoChildJob, NoChildEventTask DEF Next
  <1> QED BY <1>1, <1>2, Invariant, PTL DEF Spec

-----------------------------------------------------------------------------
(* Every step of the node is a step of Attachment, or none.                 *)
LEMMA AttachedInit == Init => Attached!Init
  BY DEF Init, Attached!Init, DISC, REACHES

LEMMA DropParentAttached ==
    ASSUME IInv, DropParent, UNCHANGED connectVars
    PROVE  [Attached!Next]_(Attached!vars)
  <1>1. CASE parent # NoNode
    <2>1. parent' = NoNode /\ state' = DISC /\ current_parent' = current_parent
      BY <1>1 DEF DropParent, RemoveParent, SetState, connectVars
    <2>2. current_parent = NoNode
      BY <1>1 DEF IInv, AssertionsHold, PhaseFollowsState
    <2> QED BY <2>1, <2>2 DEF Attached!Next, Attached!Detach, DISC, REACHES
  <1>2. CASE parent = NoNode
    BY <1>2 DEF DropParent, connectVars, Attached!vars
  <1> QED BY <1>1, <1>2

LEMMA AttachedNext == IInv /\ [Next]_vars => [Attached!Next]_(Attached!vars)
  <1> SUFFICES ASSUME IInv, [Next]_vars PROVE [Attached!Next]_(Attached!vars)
    OBVIOUS
  <1>a. TypeOK /\ PhaseFollowsState /\ AssertionsHold
    BY DEF IInv
  <1>r. Reboot => Attached!Detach
    BY DEF Reboot, Attached!Detach, DISC, REACHES
  <1> USE DEF stateVars, layoutVars, connectVars
  <1>1. CASE Packet
    <2> SUFFICES ASSUME NEW m \in Nodes,
                        \/ \E s \in States, r \in Roots : HandleStatus(m, s, r)
                        \/ \E r \in Rssi : HandleSearchReply(m, r)
                        \/ \E r \in Roots : HandleConnectOk(m, r)
                        \/ HandleConnectRequest(m)
                        \/ HandleRootUnreachable(m)
                        \/ HandleRootReachable(m)
                 PROVE  [Attached!Next]_(Attached!vars)
      BY <1>1 DEF Packet
    <2>1. /\ UNCHANGED <<parent, current_parent>>
          /\ m # NoNode
      BY NodesAssumption DEF HandleStatus, HandleSearchReply, HandleConnectOk,
         HandleConnectRequest, HandleRootUnreachable, HandleRootReachable
    <2>2. m = parent \/ UNCHANGED state
      BY DEF HandleStatus, HandleSearchReply, HandleConnectOk,
         HandleConnectRequest, HandleRootUnreachable, HandleRootReachable
    <2> QED BY <2>1, <2>2 DEF Attached!Next, Attached!Hear, Attached!vars
  <1>2. CASE Job
    <2>1. CASE SearchProbe \/ SwitchChannel
      BY <2>1 DEF SearchProbe, SwitchChannel, Attached!vars
    <2>2. CASE StartConnecting \/ ParentsExhausted
      BY <2>2 DEF StartConnecting, ParentsExhausted, EnterSearch,
                  Attached!Next, Attached!GiveUp
    <2>3. CASE RequestNextParent
      <3>1. parent = NoNode
        BY <1>a, <2>3 DEF RequestNextParent, PhaseFollowsState, AssertionsHold
      <3>2. \E m \in Nodes : current_parent' = m
        BY <2>3 DEF RequestNextParent, Candidates
      <3> QED BY <2>3, <3>1, <3>2 DEF RequestNextParent, Attached!Next, Attached!Ask
    <2>4. CASE UnreachableTimeout
      BY <2>4, DropParentAttached DEF UnreachableTimeout
    <2>5. ASSUME NEW lost \in SUBSET children, NEW gone \in BOOLEAN,
                 NeighborCheck(lost, gone)
          PROVE  [Attached!Next]_(Attached!vars)
      <3>1. CASE gone
        BY <2>5, <3>1, DropParentAttached DEF NeighborCheck
      <3>2. CASE ~gone
        BY <2>5, <3>2 DEF NeighborCheck, Attached!vars
      <3> QED BY <3>1, <3>2
    <2> QED BY <1>2, <2>1, <2>2, <2>3, <2>4, <2>5 DEF Job
  <1>3. CASE EventTask
    <2>1. CASE AdoptParent
      <3>1. phase = "Connect" /\ ev.mac = current_parent /\ ev.mac \in Nodes
        BY <1>a, <2>1, EventFields DEF AdoptParent, AcceptsResponse, Answers, TypeOK
      <3>2. parent = NoNode
        BY <1>a, <3>1 DEF PhaseFollowsState, AssertionsHold
      <3>3. parent' = current_parent /\ current_parent' = NoNode /\ state' = REACHES
        BY <2>1, <3>1 DEF AdoptParent, SetState
      <3> QED BY <3>1, <3>2, <3>3, NodesAssumption DEF Attached!Next, Attached!Attach
    <2>2. CASE AbortOnFullQueue
      BY <1>r, <2>2 DEF AbortOnFullQueue, Attached!Next
    <2>3. CASE ResumeSearch
      BY <2>3 DEF ResumeSearch, EnterSearch, Attached!Next, Attached!GiveUp
    <2>4. CASE TakeEvent \/ NetifHandler \/ IgnoreEvent \/ RecordParent
                 \/ UnreachableHandler
      BY <2>4 DEF TakeEvent, NetifHandler, IgnoreEvent, RecordParent,
                  UnreachableHandler, EndUnreachableWait, BeginUnreachableWait,
                  StampUnreachableWait, SkipUnreachableWait, Attached!vars
    <2> QED BY <1>3, <2>1, <2>2, <2>3, <2>4 DEF EventTask, ConnectHandler
  <1>4. CASE Time \/ UNCHANGED vars
    BY <1>4 DEF Time, FirstParentWaitElapses, UnreachableTimerElapses, vars, Attached!vars
  <1>5. CASE Reboot
    BY <1>5, <1>r DEF Attached!Next
  <1> QED BY <1>1, <1>2, <1>3, <1>4, <1>5 DEF Next

(* The connection of a node, as three jobs, four handlers and the event     *)
(* task maintain it, implements Attachment.                                 *)
THEOREM AttachmentCorrect == Spec => AttachmentSpec
  BY AttachedInit, AttachedNext, Invariant, PTL
  DEF Spec, AttachmentSpec, Attached!Spec

(* A parent is given up before another is taken: a corollary, since each    *)
(* action of Attachment does so.                                            *)
THEOREM NoParentSwapCorrect == Spec => NoParentSwap
  <1>1. [Attached!Next]_(Attached!vars)
          => [parent # NoNode => parent' \in {parent, NoNode}]_vars
    BY DEF Attached!Next, Attached!vars, Attached!Ask, Attached!GiveUp,
           Attached!Attach, Attached!Hear, Attached!Detach
  <1> QED BY <1>1, AttachedNext, Invariant, PTL DEF Spec, NoParentSwap

=============================================================================
