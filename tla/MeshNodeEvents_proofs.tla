------------------------ MODULE MeshNodeEvents_proofs ------------------------
(***************************************************************************)
(* Theorems about MeshNode that follow the changes of state through the    *)
(* event queue to their handlers, for a queue of any size.                 *)
(***************************************************************************)
EXTENDS MeshNode_proofs, FiniteSetTheorems

(* The changes a node's state makes. *)
Legal(e) == e.old # e.new /\ (e.old = DISC => e.new = REACHES)

(* s[i] is the state the event task knows of after the first i events of    *)
(* the queue: each change in the queue continues the one before, and the    *)
(* last one leads to the state.  Where a change is behind, s differs.       *)
History(s) ==
    /\ s \in [0..Len(queue) -> States]
    /\ s[Len(queue)] = state
    /\ \A i \in 1..Len(queue) :
         IF IsChange(queue[i])
           THEN queue[i].old = s[i - 1] /\ queue[i].new = s[i] /\ Legal(queue[i])
           ELSE s[i] = s[i - 1]
    /\ \A i \in 0..Len(queue) :
         s[i] # state => \E j \in (i + 1)..Len(queue) : IsChange(queue[j])

ChangeQueued == \E j \in 1..Len(queue) : IsChange(queue[j])

(* The change in the event task's hand, not yet handled by the interface or *)
(* by the timer.                                                            *)
InHand == pc \in {"netif", "connect", "unreachable"} /\ IsChange(ev)

(* What the timer has been told of: v, or what was before the change.       *)
TimersView(v) == IF InHand THEN ev.old ELSE v

(* The handlers are right for what they have been told of, v being the last *)
(* state they all will have been told of after this event.  The job may     *)
(* have disarmed the timer before.                                          *)
HandlersFollow(v) ==
    /\ pc \in {"netif", "unreachable"} => IsChange(ev)
    /\ InHand => ev.new = v /\ Legal(ev)
    /\ link <=> (IF pc = "netif" THEN ev.old ELSE v) = REACHES
    /\ awaiting_reachable => TimersView(v) = CONN
    /\ TimersView(v) = CONN /\ ~awaiting_reachable => InHand \/ ChangeQueued

Follow == \E s : History(s) /\ HandlersFollow(s[0])

-----------------------------------------------------------------------------
(* The history after a post ... *)
LEMMA HistoryPost ==
    ASSUME TypeOK, NEW s, History(s), NEW e \in Events, queue' = Append(queue, e),
           state' \in States,
           IF IsChange(e) THEN e.old = state /\ e.new = state' /\ Legal(e)
                          ELSE state' = state
    PROVE  /\ \E t : History(t)' /\ t[0] = s[0]
           /\ ChangeQueued \/ IsChange(e) => ChangeQueued'
  <1> DEFINE n == Len(queue)
  <1>1. queue \in Seq(Events) /\ n \in Nat /\ Len(queue') = n + 1
    BY DEF TypeOK
  <1>2. (\A i \in 1..n : queue'[i] = queue[i]) /\ queue'[n + 1] = e
    BY <1>1
  <1>3. PICK t : t = [i \in 0..(n + 1) |-> IF i <= n THEN s[i] ELSE state']
    OBVIOUS
  <1>4. s \in [0..n -> States] /\ s[n] = state
    BY DEF History
  <1> HIDE DEF n
  <1>5. /\ t \in [0..(n + 1) -> States] /\ t[n + 1] = state' /\ t[0] = s[0]
        /\ \A i \in 0..n : t[i] = s[i]
    BY <1>1, <1>3, <1>4
  <1>6. ASSUME NEW i \in 1..(n + 1)
        PROVE  IF IsChange(queue'[i])
                 THEN /\ queue'[i].old = t[i - 1] /\ queue'[i].new = t[i]
                      /\ Legal(queue'[i])
                 ELSE t[i] = t[i - 1]
    <2>1. CASE i = n + 1
      <3>1. queue'[i] = e /\ t[i] = state' /\ t[i - 1] = state
        BY <1>1, <1>2, <1>4, <1>5, <2>1
      <3> QED BY <3>1
    <2>2. CASE i # n + 1
      <3>1. i \in 1..n /\ i \in 0..n /\ i - 1 \in 0..n
        BY <1>1, <2>2
      <3>2. queue'[i] = queue[i] /\ t[i] = s[i] /\ t[i - 1] = s[i - 1]
        BY <1>2, <1>5, <3>1
      <3>3. IF IsChange(queue[i])
              THEN queue[i].old = s[i - 1] /\ queue[i].new = s[i] /\ Legal(queue[i])
              ELSE s[i] = s[i - 1]
        BY <3>1 DEF History, n
      <3> QED BY <3>2, <3>3
    <2> QED BY <2>1, <2>2
  <1>7. ASSUME NEW i \in 0..(n + 1), t[i] # state'
        PROVE  \E j \in (i + 1)..(n + 1) : IsChange(queue'[j])
    <2>1. i \in 0..n /\ t[i] = s[i]
      BY <1>1, <1>5, <1>7
    <2>2. CASE IsChange(e)
      <3>1. n + 1 \in (i + 1)..(n + 1)
        BY <1>1, <2>1
      <3> QED BY <1>2, <2>2, <3>1
    <2>3. CASE ~IsChange(e)
      <3>1. s[i] # state
        BY <1>7, <2>1, <2>3
      <3>2. PICK j \in (i + 1)..n : IsChange(queue[j])
        BY <2>1, <3>1 DEF History, n
      <3>3. j \in 1..n /\ j \in (i + 1)..(n + 1)
        BY <1>1, <2>1, <3>2
      <3> QED BY <1>2, <3>2, <3>3
    <2> QED BY <2>2, <2>3
  <1>8. History(t)'
    BY <1>1, <1>5, <1>6, <1>7 DEF History
  <1>9. ChangeQueued \/ IsChange(e) => ChangeQueued'
    <2>1. n + 1 \in 1..Len(queue') /\ \A j \in 1..n : j \in 1..Len(queue')
      BY <1>1
    <2> QED BY <1>2, <2>1 DEF ChangeQueued, n
  <1> QED BY <1>5, <1>8, <1>9

(* ... and after the event task took an event. *)
LEMMA HistoryTake ==
    ASSUME TypeOK, NEW s, History(s), queue # <<>>, queue' = Tail(queue), state' = state
    PROVE  /\ ChangeQueued => IsChange(Head(queue)) \/ ChangeQueued'
           /\ \E t : /\ History(t)'
                     /\ IF IsChange(Head(queue))
                          THEN /\ Head(queue).old = s[0] /\ Head(queue).new = t[0]
                               /\ Legal(Head(queue))
                          ELSE t[0] = s[0]
  <1> DEFINE n == Len(queue)
  <1>1. queue \in Seq(Events) /\ n \in Nat /\ n >= 1 /\ Len(queue') = n - 1
    BY DEF TypeOK
  <1>2. (\A i \in 1..(n - 1) : queue'[i] = queue[i + 1]) /\ Head(queue) = queue[1]
    BY <1>1
  <1>3. PICK t : t = [i \in 0..(n - 1) |-> s[i + 1]]
    OBVIOUS
  <1>4. s \in [0..n -> States] /\ s[n] = state
    BY DEF History
  <1> HIDE DEF n
  <1>5. t \in [0..(n - 1) -> States] /\ \A i \in 0..(n - 1) : t[i] = s[i + 1]
    BY <1>1, <1>3, <1>4
  <1>6. t[n - 1] = state' /\ t[0] = s[1]
    BY <1>1, <1>4, <1>5
  <1>7. ASSUME NEW i \in 1..(n - 1)
        PROVE  IF IsChange(queue'[i])
                 THEN /\ queue'[i].old = t[i - 1] /\ queue'[i].new = t[i]
                      /\ Legal(queue'[i])
                 ELSE t[i] = t[i - 1]
    <2>1. i + 1 \in 1..n /\ i \in 0..(n - 1) /\ i - 1 \in 0..(n - 1)
          /\ (i + 1) - 1 = i /\ (i - 1) + 1 = i
      BY <1>1
    <2>2. queue'[i] = queue[i + 1] /\ t[i] = s[i + 1] /\ t[i - 1] = s[i]
      BY <1>2, <1>5, <2>1
    <2>3. IF IsChange(queue[i + 1])
            THEN /\ queue[i + 1].old = s[(i + 1) - 1] /\ queue[i + 1].new = s[i + 1]
                 /\ Legal(queue[i + 1])
            ELSE s[i + 1] = s[(i + 1) - 1]
      BY <2>1 DEF History, n
    <2> QED BY <2>1, <2>2, <2>3
  <1>8. ASSUME NEW i \in 0..(n - 1), t[i] # state'
        PROVE  \E j \in (i + 1)..(n - 1) : IsChange(queue'[j])
    <2>1. i + 1 \in 0..n /\ s[i + 1] # state
      BY <1>1, <1>5, <1>8
    <2>2. PICK j \in (i + 1 + 1)..n : IsChange(queue[j])
      BY <2>1 DEF History, n
    <2>3. j - 1 \in (i + 1)..(n - 1) /\ j - 1 \in 1..(n - 1) /\ (j - 1) + 1 = j
      BY <1>1, <2>2
    <2> QED BY <1>2, <2>2, <2>3
  <1>9. History(t)'
    BY <1>1, <1>5, <1>6, <1>7, <1>8 DEF History
  <1>10. IF IsChange(queue[1])
           THEN queue[1].old = s[0] /\ queue[1].new = s[1] /\ Legal(queue[1])
           ELSE s[1] = s[0]
    <2>1. 1 \in 1..n /\ 1 - 1 = 0
      BY <1>1
    <2> QED BY <2>1 DEF History, n
  <1>11. ChangeQueued => IsChange(Head(queue)) \/ ChangeQueued'
    <2> SUFFICES ASSUME NEW j \in 1..n, IsChange(queue[j]), ~IsChange(Head(queue))
                 PROVE  ChangeQueued'
      BY DEF ChangeQueued, n
    <2>1. j - 1 \in 1..(n - 1) /\ (j - 1) + 1 = j
      BY <1>1, <1>2
    <2> QED BY <1>1, <1>2, <2>1 DEF ChangeQueued
  <1> QED BY <1>2, <1>6, <1>9, <1>10, <1>11

-----------------------------------------------------------------------------
(* Steps that leave the queue alone, and what its handlers maintain. *)
LEMMA FollowQuiet ==
    ASSUME Follow, UNCHANGED <<state, queue, eventVars, link, awaiting_reachable>>
    PROVE  Follow'
  <1>1. PICK s : History(s) /\ HandlersFollow(s[0])
    BY DEF Follow
  <1>2. History(s)' /\ HandlersFollow(s[0])'
    BY <1>1 DEF History, HandlersFollow, InHand, TimersView, ChangeQueued, IsChange,
       Legal, eventVars
  <1> QED BY <1>2 DEF Follow

(* A post.  With a change, the job may disarm the timer. *)
LEMMA FollowPost ==
    ASSUME TypeOK, Follow, NEW e \in Events, queue' = Append(queue, e),
           state' \in States, UNCHANGED <<eventVars, link>>,
           awaiting_reachable' \in BOOLEAN,
           awaiting_reachable' => awaiting_reachable,
           awaiting_reachable => awaiting_reachable' \/ IsChange(e),
           IF IsChange(e) THEN e.old = state /\ e.new = state' /\ Legal(e)
                          ELSE state' = state
    PROVE  Follow'
  <1>1. PICK s : History(s) /\ HandlersFollow(s[0])
    BY DEF Follow
  <1>2. /\ \E t : History(t)' /\ t[0] = s[0]
        /\ ChangeQueued \/ IsChange(e) => ChangeQueued'
    BY <1>1, HistoryPost
  <1>3. PICK t : History(t)' /\ t[0] = s[0]
    BY <1>2
  <1>4. InHand' = InHand /\ TimersView(s[0])' = TimersView(s[0])
    BY DEF InHand, TimersView, IsChange, eventVars
  <1>5. HandlersFollow(s[0])'
    BY <1>1, <1>2, <1>4 DEF HandlersFollow, eventVars, Legal, IsChange, TypeOK
  <1>6. HandlersFollow(t[0])'
    BY <1>3, <1>5 DEF HandlersFollow, TimersView
  <1> QED BY <1>3, <1>6 DEF Follow

LEMMA FollowSetState ==
    ASSUME TypeOK, Follow, NEW new \in States, SetState(new),
           state = DISC => new # CONN,
           UNCHANGED <<eventVars, link, awaiting_reachable>>
    PROVE  Follow'
  <1>1. CASE new = state
    BY <1>1, FollowQuiet DEF SetState
  <1>2. CASE new # state
    <2> DEFINE e == StateChanged(state, new)
    <2>1. queue' = Append(queue, e) /\ state' = new
      BY <1>2 DEF SetState
    <2>2. /\ e \in Events /\ IsChange(e) /\ e.old = state /\ e.new = new
          /\ Legal(e)
      BY <1>2, EventTypes
      DEF TypeOK, States, StateChanged, IsChange, Legal, DISC, CONN, REACHES
    <2> HIDE DEF e
    <2>3. awaiting_reachable' \in BOOLEAN
      BY DEF TypeOK
    <2> QED BY <2>1, <2>2, <2>3, FollowPost
  <1> QED BY <1>1, <1>2

(* Giving up the parent, by the job that disarms the timer or another.      *)
LEMMA FollowDropParent ==
    ASSUME IInv, Follow, DropParent, UNCHANGED <<eventVars, link>>,
           \/ UNCHANGED awaiting_reachable
           \/ awaiting_reachable /\ awaiting_reachable' = FALSE
    PROVE  Follow'
  <1>0. TypeOK /\ AssertionsHold /\ awaiting_reachable' \in BOOLEAN
    BY DEF IInv, TypeOK
  <1>1. CASE parent # NoNode
    <2> DEFINE e == StateChanged(state, DISC)
    <2>1. state # DISC /\ queue' = Append(queue, e) /\ state' = DISC
      BY <1>0, <1>1 DEF AssertionsHold, DropParent, RemoveParent, SetState
    <2>2. e \in Events /\ IsChange(e) /\ e.old = state /\ e.new = DISC /\ Legal(e)
      BY <1>0, <2>1, EventTypes DEF TypeOK, States, StateChanged, IsChange, Legal
    <2> HIDE DEF e
    <2>3. state' \in States /\ (awaiting_reachable' => awaiting_reachable)
      BY <2>1 DEF States
    <2> QED BY <1>0, <2>1, <2>2, <2>3, FollowPost
  <1>2. CASE parent = NoNode
    <2>1. state = DISC /\ UNCHANGED <<state, queue>>
      BY <1>0, <1>2 DEF AssertionsHold, DropParent
    <2>2. CASE UNCHANGED awaiting_reachable
      BY <2>1, <2>2, FollowQuiet
    <2>3. CASE awaiting_reachable /\ awaiting_reachable' = FALSE
      <3>1. PICK s : History(s) /\ HandlersFollow(s[0])
        BY DEF Follow
      <3>2. InHand \/ ChangeQueued
        <4>1. CASE ~InHand
          <5>1. s[0] = CONN /\ s[0] # state
            BY <2>1, <2>3, <3>1, <4>1 DEF HandlersFollow, TimersView, DISC, CONN
          <5>2. 0 \in 0..Len(queue) /\ 0 + 1 = 1
            BY <1>0 DEF TypeOK
          <5> QED BY <3>1, <5>1, <5>2 DEF History, ChangeQueued
        <4> QED BY <4>1
      <3>3. History(s)'
        BY <2>1, <3>1 DEF History, Legal, IsChange
      <3>4. /\ InHand' = InHand /\ ChangeQueued' = ChangeQueued
            /\ TimersView(s[0])' = TimersView(s[0])
        BY <2>1 DEF InHand, ChangeQueued, TimersView, IsChange, eventVars
      <3>5. HandlersFollow(s[0])'
        BY <2>3, <3>1, <3>2, <3>4 DEF HandlersFollow, eventVars, Legal, IsChange
      <3> QED BY <3>3, <3>5 DEF Follow
    <2> QED BY <2>2, <2>3
  <1> QED BY <1>1, <1>2

-----------------------------------------------------------------------------
LEMMA FollowInit == Init => Follow
  <1> SUFFICES ASSUME Init PROVE Follow
    OBVIOUS
  <1>1. PICK s : s = [i \in 0..0 |-> DISC]
    OBVIOUS
  <1>2. History(s)
    BY <1>1 DEF Init, History, States
  <1>3. HandlersFollow(s[0])
    BY <1>1 DEF Init, HandlersFollow, InHand, TimersView, DISC, CONN, REACHES
  <1> QED BY <1>2, <1>3 DEF Follow

LEMMA FollowReboot == Reboot => Follow'
  <1> SUFFICES ASSUME Reboot PROVE Follow'
    OBVIOUS
  <1>1. PICK s : s = [i \in 0..0 |-> DISC]
    OBVIOUS
  <1>2. History(s)'
    BY <1>1 DEF Reboot, History, States
  <1>3. HandlersFollow(s[0])'
    BY <1>1 DEF Reboot, HandlersFollow, InHand, TimersView, DISC, CONN, REACHES
  <1> QED BY <1>2, <1>3 DEF Follow

LEMMA FollowPacket == IInv /\ Follow /\ Packet => Follow'
  <1> SUFFICES ASSUME IInv, Follow, NEW m \in Nodes,
                      \/ \E s \in States, r \in Roots : HandleStatus(m, s, r)
                      \/ \E r \in Rssi : HandleSearchReply(m, r)
                      \/ \E r \in Roots : HandleConnectOk(m, r)
                      \/ HandleConnectRequest(m)
                      \/ HandleRootUnreachable(m)
                      \/ HandleRootReachable(m)
               PROVE  Follow'
    BY DEF Packet
  <1>a. TypeOK /\ AssertionsHold
    BY DEF IInv
  <1>p. m = parent => state # DISC
    BY <1>a, NodesAssumption DEF AssertionsHold
  <1>w. awaiting_reachable \in BOOLEAN /\ state \in States
    BY <1>a DEF TypeOK
  <1>1. ASSUME NEW s \in States, NEW r \in Roots, HandleStatus(m, s, r)
        PROVE  Follow'
    <2> DEFINE new == IF s = REACHES THEN REACHES ELSE CONN
    <2>1. /\ new \in States /\ SetState(new) /\ m = parent
          /\ UNCHANGED <<eventVars, link, awaiting_reachable>>
      BY <1>1 DEF HandleStatus, States, timerVars
    <2> QED BY <1>a, <1>p, <2>1, FollowSetState
  <1>2. ASSUME NEW e \in Events, ~IsChange(e), queue' = Append(queue, e),
               UNCHANGED <<state, eventVars, link, awaiting_reachable>>
        PROVE  Follow'
    BY <1>2, <1>a, <1>w, FollowPost
  <1>3. ASSUME NEW r \in Rssi, HandleSearchReply(m, r)
        PROVE  Follow'
    <2>1. ParentFound(m, r) \in Events /\ ~IsChange(ParentFound(m, r))
      BY EventTypes DEF ParentFound, IsChange
    <2>2. /\ queue' = Append(queue, ParentFound(m, r))
          /\ UNCHANGED <<state, eventVars, link, awaiting_reachable>>
      BY <1>3 DEF HandleSearchReply, stateVars, timerVars
    <2> QED BY <1>2, <2>1, <2>2
  <1>4. ASSUME NEW r \in Roots, HandleConnectOk(m, r)
        PROVE  Follow'
    <2>1. GotConnectResponse(m, r) \in Events /\ ~IsChange(GotConnectResponse(m, r))
      BY EventTypes DEF GotConnectResponse, IsChange
    <2>2. /\ queue' = Append(queue, GotConnectResponse(m, r))
          /\ UNCHANGED <<state, eventVars, link, awaiting_reachable>>
      BY <1>4 DEF HandleConnectOk, stateVars, timerVars
    <2> QED BY <1>2, <2>1, <2>2
  <1>5. CASE HandleConnectRequest(m)
    BY <1>5, FollowQuiet DEF HandleConnectRequest, stateVars, timerVars
  <1>6. CASE HandleRootUnreachable(m)
    <2>1. /\ SetState(CONN) /\ CONN \in States /\ m = parent
          /\ UNCHANGED <<eventVars, link, awaiting_reachable>>
      BY <1>6 DEF HandleRootUnreachable, States, timerVars
    <2> QED BY <1>a, <1>p, <2>1, FollowSetState
  <1>7. CASE HandleRootReachable(m)
    <2>1. /\ SetState(REACHES) /\ REACHES \in States /\ m = parent
          /\ UNCHANGED <<eventVars, link, awaiting_reachable>>
      BY <1>7 DEF HandleRootReachable, States, timerVars
    <2> QED BY <1>a, <1>p, <2>1, FollowSetState
  <1> QED BY <1>1, <1>3, <1>4, <1>5, <1>6, <1>7

LEMMA FollowJob == IInv /\ Follow /\ Job => Follow'
  <1> SUFFICES ASSUME IInv, Follow, Job PROVE Follow'
    OBVIOUS
  <1>1. CASE SearchProbe \/ SwitchChannel \/ StartConnecting \/ RequestNextParent
               \/ ParentsExhausted
    <2>1. UNCHANGED <<state, queue, eventVars, link, awaiting_reachable>>
      BY <1>1 DEF SearchProbe, SwitchChannel, StartConnecting, RequestNextParent,
         ParentsExhausted, stateVars, timerVars
    <2> QED BY <2>1, FollowQuiet
  <1>2. CASE UnreachableTimeout
    BY <1>2, FollowDropParent DEF UnreachableTimeout
  <1>3. ASSUME NEW lost \in SUBSET children, NEW gone \in BOOLEAN,
               NeighborCheck(lost, gone)
        PROVE  Follow'
    <2>1. UNCHANGED <<eventVars, link, awaiting_reachable>>
      BY <1>3 DEF NeighborCheck, timerVars
    <2>2. CASE gone
      BY <1>3, <2>1, <2>2, FollowDropParent DEF NeighborCheck
    <2>3. CASE ~gone
      BY <1>3, <2>1, <2>3, FollowQuiet DEF NeighborCheck
    <2> QED BY <2>2, <2>3
  <1> QED BY <1>1, <1>2, <1>3 DEF Job

(* The event task: what it has in hand goes from handler to handler. *)
LEMMA FollowTake == IInv /\ Follow /\ TakeEvent => Follow'
  <1> SUFFICES ASSUME IInv, Follow, TakeEvent PROVE Follow'
    OBVIOUS
  <1>a. TypeOK
    BY DEF IInv
  <1>1. PICK s : History(s) /\ HandlersFollow(s[0])
    BY DEF Follow
  <1>2. /\ pc = "idle" /\ queue # <<>> /\ ev' = Head(queue) /\ queue' = Tail(queue)
        /\ pc' = (IF IsChange(Head(queue)) THEN "netif" ELSE "connect")
        /\ UNCHANGED <<state, link, awaiting_reachable>>
    BY DEF TakeEvent, IsChange, stateVars, timerVars
  <1>3. PICK t : /\ History(t)'
                 /\ IF IsChange(Head(queue))
                      THEN /\ Head(queue).old = s[0] /\ Head(queue).new = t[0]
                           /\ Legal(Head(queue))
                      ELSE t[0] = s[0]
    BY <1>a, <1>1, <1>2, HistoryTake
  <1>4. ChangeQueued => IsChange(Head(queue)) \/ ChangeQueued'
    BY <1>a, <1>1, <1>2, HistoryTake
  <1>5. ~InHand /\ (InHand' <=> IsChange(Head(queue)))
    BY <1>2 DEF InHand, IsChange
  <1>6. TimersView(s[0]) = s[0] /\ TimersView(t[0])' = s[0]
    BY <1>2, <1>3, <1>5 DEF TimersView
  <1>7. HandlersFollow(t[0])'
    BY <1>1, <1>2, <1>3, <1>4, <1>5, <1>6 DEF HandlersFollow, IsChange, Legal
  <1> QED BY <1>3, <1>7 DEF Follow

LEMMA FollowHandlers ==
    IInv /\ Follow /\ (NetifHandler \/ ConnectHandler \/ UnreachableHandler) => Follow'
  <1> SUFFICES ASSUME IInv, Follow, NetifHandler \/ ConnectHandler \/ UnreachableHandler
               PROVE  Follow'
    OBVIOUS
  <1>a. TypeOK /\ PhaseFollowsState /\ awaiting_reachable \in BOOLEAN /\ state \in States
    BY DEF IInv, TypeOK
  <1>1. PICK s : History(s) /\ HandlersFollow(s[0])
    BY DEF Follow
  <1>h. UNCHANGED <<state, queue>> => History(s)' /\ ChangeQueued' = ChangeQueued
    BY <1>1 DEF History, ChangeQueued, Legal, IsChange
  <1>v. s[0] \in States
    BY <1>1, <1>a DEF History, TypeOK
  <1>c. InHand => ev.old # ev.new /\ (ev.old = DISC => ev.new = REACHES)
    BY <1>1 DEF HandlersFollow, Legal
  <1>2. CASE NetifHandler
    <2>1. /\ pc = "netif" /\ pc' = "connect" /\ link' = LinkAfter(ev)
          /\ UNCHANGED <<state, queue, ev, awaiting_reachable>>
      BY <1>2 DEF NetifHandler, stateVars, timerVars
    <2>2. InHand /\ InHand' /\ IsChange(ev)
      BY <1>1, <2>1 DEF HandlersFollow, InHand, IsChange
    <2>3. TimersView(s[0])' = TimersView(s[0])
      BY <2>1, <2>2 DEF TimersView
    <2>4. link' <=> s[0] = REACHES
      BY <1>1, <2>1, <2>2 DEF HandlersFollow, LinkAfter, Legal
    <2>5. HandlersFollow(s[0])'
      BY <1>1, <1>h, <2>1, <2>2, <2>3, <2>4 DEF HandlersFollow, Legal, IsChange
    <2> QED BY <1>h, <2>1, <2>5 DEF Follow
  <1>3. ASSUME pc = "connect", EndConnectHandler,
               UNCHANGED <<state, queue, link, awaiting_reachable>>
        PROVE  Follow'
    <2>1. CASE IsChange(ev)
      <3>1. pc' = "unreachable" /\ ev' = ev
        BY <1>3, <2>1 DEF EndConnectHandler, IsChange
      <3>2. InHand /\ InHand'
        BY <1>3, <2>1, <3>1 DEF InHand, IsChange
      <3>3. TimersView(s[0])' = TimersView(s[0])
        BY <3>1, <3>2 DEF TimersView
      <3>4. HandlersFollow(s[0])'
        BY <1>1, <1>h, <1>3, <2>1, <3>1, <3>2, <3>3 DEF HandlersFollow, Legal, IsChange
      <3> QED BY <1>h, <1>3, <3>4 DEF Follow
    <2>2. CASE ~IsChange(ev)
      <3>1. pc' = "idle" /\ ~InHand /\ ~InHand'
        BY <1>3, <2>2 DEF EndConnectHandler, IsChange, InHand
      <3>2. TimersView(s[0])' = TimersView(s[0])
        BY <3>1 DEF TimersView
      <3>3. HandlersFollow(s[0])'
        BY <1>1, <1>h, <1>3, <3>1, <3>2 DEF HandlersFollow, Legal, IsChange
      <3> QED BY <1>h, <1>3, <3>3 DEF Follow
    <2> QED BY <2>1, <2>2
  <1>4. CASE ConnectHandler
    <2>1. CASE IgnoreEvent \/ RecordParent \/ ResumeSearch
      <3>1. /\ pc = "connect" /\ EndConnectHandler
            /\ UNCHANGED <<state, queue, link, awaiting_reachable>>
        BY <2>1 DEF IgnoreEvent, RecordParent, ResumeSearch, stateVars, timerVars
      <3> QED BY <1>3, <3>1
    <2>2. CASE AdoptParent
      <3> DEFINE e == StateChanged(state, REACHES)
      <3>1. /\ pc = "connect" /\ ~IsChange(ev) /\ pc' = "idle" /\ state = DISC
            /\ UNCHANGED <<link, awaiting_reachable>>
        BY <1>a, <2>2
        DEF AdoptParent, AcceptsResponse, EndConnectHandler, PhaseFollowsState,
            IsChange, timerVars
      <3>2. queue' = Append(queue, e) /\ state' = REACHES
        BY <2>2, <3>1 DEF AdoptParent, SetState, DISC, REACHES
      <3>3. /\ e \in Events /\ IsChange(e) /\ e.old = state /\ e.new = REACHES
            /\ Legal(e) /\ REACHES \in States
        BY <3>1, EventTypes DEF States, StateChanged, IsChange, Legal, DISC, REACHES
      <3> HIDE DEF e
      <3>4. /\ \E t : History(t)' /\ t[0] = s[0]
            /\ ChangeQueued'
        BY <1>a, <1>1, <3>2, <3>3, HistoryPost
      <3>5. PICK t : History(t)' /\ t[0] = s[0]
        BY <3>4
      <3>6. ~InHand /\ ~InHand' /\ TimersView(s[0]) = s[0] /\ TimersView(t[0])' = s[0]
        BY <3>1, <3>5 DEF InHand, TimersView
      <3>7. HandlersFollow(t[0])'
        BY <1>1, <3>1, <3>4, <3>5, <3>6 DEF HandlersFollow, Legal, IsChange
      <3> QED BY <3>5, <3>7 DEF Follow
    <2>3. CASE AbortOnFullQueue
      BY <2>3, FollowReboot DEF AbortOnFullQueue
    <2> QED BY <1>4, <2>1, <2>2, <2>3 DEF ConnectHandler
  <1>5. CASE UnreachableHandler
    <2>1. UNCHANGED <<state, queue, link>>
      BY <1>5 DEF UnreachableHandler, EndUnreachableWait, BeginUnreachableWait,
         StampUnreachableWait, SkipUnreachableWait, stateVars
    <2>2. CASE StampUnreachableWait
      <3>1. pc = "since" /\ pc' = "idle" /\ UNCHANGED awaiting_reachable
        BY <2>2 DEF StampUnreachableWait
      <3>2. ~InHand /\ ~InHand' /\ TimersView(s[0])' = TimersView(s[0])
        BY <3>1 DEF InHand, TimersView
      <3>3. HandlersFollow(s[0])'
        BY <1>1, <1>h, <2>1, <3>1, <3>2 DEF HandlersFollow, Legal, IsChange
      <3> QED BY <1>h, <2>1, <3>3 DEF Follow
    <2>3. CASE ~StampUnreachableWait
      <3>1. /\ pc = "unreachable" /\ pc' \in {"idle", "since"}
            /\ \/ awaiting_reachable /\ ~awaiting_reachable'
               \/ ~awaiting_reachable /\ Arms(ev) /\ awaiting_reachable'
               \/ ~awaiting_reachable /\ ~Arms(ev) /\ ~awaiting_reachable'
        BY <1>5, <2>3 DEF UnreachableHandler, EndUnreachableWait, BeginUnreachableWait,
           SkipUnreachableWait, timerVars
      <3>2. IsChange(ev) /\ InHand /\ ~InHand' /\ ev.new = s[0] /\ TimersView(s[0]) = ev.old
        BY <1>1, <3>1 DEF HandlersFollow, InHand, TimersView
      <3>3. TimersView(s[0])' = s[0]
        BY <3>2 DEF TimersView
      <3>4. ev.old \in States /\ ev.new \in States
        BY <1>a, <3>2, EventFields DEF TypeOK, IsChange
      <3>5. awaiting_reachable' <=> s[0] = CONN
        BY <1>1, <1>c, <3>1, <3>2, <3>4
        DEF HandlersFollow, Arms, States, DISC, CONN, REACHES
      <3>6. HandlersFollow(s[0])'
        BY <1>1, <2>1, <3>1, <3>2, <3>3, <3>5 DEF HandlersFollow, Legal, IsChange
      <3> QED BY <1>h, <2>1, <3>6 DEF Follow
    <2> QED BY <2>2, <2>3
  <1> QED BY <1>2, <1>4, <1>5

LEMMA FollowNext == IInv /\ Follow /\ [Next]_vars => Follow'
  <1>1. Follow /\ Time => Follow'
    BY FollowQuiet DEF Time, FirstParentWaitElapses, UnreachableTimerElapses,
       stateVars, timerVars
  <1>2. Follow /\ UNCHANGED vars => Follow'
    BY FollowQuiet DEF vars, eventVars
  <1> QED BY <1>1, <1>2, FollowPacket, FollowJob, FollowTake, FollowHandlers, FollowReboot
          DEF Next, EventTask

LEMMA FollowInvariant == Spec => [](IInv /\ Follow)
  <1>1. Init => IInv /\ Follow
    BY IInvInit, FollowInit
  <1>2. Spec => []IInv
    BY Invariant
  <1> QED BY <1>1, <1>2, FollowNext, PTL DEF Spec

(* Whatever the runner and the event task interleave, once the queue is     *)
(* drained each of the two has the last word on the state.                  *)
LEMMA FollowDrained ==
    ASSUME TypeOK, Follow, Drained
    PROVE  (link <=> state = REACHES) /\ (awaiting_reachable <=> state = CONN)
  <1>1. PICK s : History(s) /\ HandlersFollow(s[0])
    BY DEF Follow
  <1>2. pc = "idle" /\ Len(queue) = 0
    BY DEF Drained
  <1>3. s[0] = state /\ ~InHand /\ ~ChangeQueued
    BY <1>1, <1>2 DEF History, InHand, ChangeQueued
  <1> QED BY <1>1, <1>2, <1>3 DEF HandlersFollow, TimersView, TypeOK

(* The network interface carries traffic exactly if the root is reached,    *)
(* once the events are handled, although NowNetif::event_handler learns of  *)
(* the state by events only and leaves the link alone in some of them.      *)
THEOREM LinkFollowsStateCorrect == Spec => []LinkFollowsState
  <1>1. IInv /\ Follow => LinkFollowsState
    BY FollowDrained DEF IInv, LinkFollowsState
  <1> QED BY <1>1, FollowInvariant, PTL

(* The unreachable-root timer is armed exactly in a node that has a parent  *)
(* and no root, once the events are handled, although the job disarms it    *)
(* behind the back of the handler that arms it.                             *)
THEOREM TimerFollowsStateCorrect == Spec => []TimerFollowsState
  <1>1. IInv /\ Follow => TimerFollowsState
    BY FollowDrained DEF IInv, TimerFollowsState
  <1> QED BY <1>1, FollowInvariant, PTL

-----------------------------------------------------------------------------
(* parent_infos_ over all the searches of a node. *)
Bounded == IsFiniteSet(Candidates) /\ CandidatesBounded

(* A reply adds its sender, or takes it for another, or is dropped. *)
LEMMA ConsideredBounded ==
    ASSUME TypeOK, Bounded, NEW m \in Nodes, NEW r \in Rssi,
           parent_infos' \in Considered(m, r)
    PROVE  Bounded'
  <1> DEFINE C == Candidates
  <1>1. /\ IsFiniteSet(C) /\ Cardinality(C) \in Nat
        /\ Cardinality(C) <= MAX_PARENTS_TO_CONSIDER
    BY FS_CardinalityType DEF Bounded, CandidatesBounded
  <1>2. r # NoRssi /\ parent_infos \in [Nodes -> Rssi \cup {NoRssi}]
    BY RssiAssumption DEF TypeOK
  <1>3. CASE m \in C \/ ~ListFull
    <2>1. parent_infos' = [parent_infos EXCEPT ![m] = r]
      BY <1>3 DEF Considered
    <2>2. C' = C \cup {m}
      BY <1>2, <2>1 DEF Candidates
    <2>3. /\ IsFiniteSet(C \cup {m})
          /\ Cardinality(C \cup {m}) = IF m \in C THEN Cardinality(C) ELSE Cardinality(C) + 1
      BY <1>1, FS_AddElement
    <2>4. ~ListFull => Cardinality(C) < MAX_PARENTS_TO_CONSIDER
      BY <1>1, SizeAssumption DEF ListFull
    <2>5. Cardinality(C \cup {m}) <= MAX_PARENTS_TO_CONSIDER
      BY <1>1, <1>3, <2>3, <2>4, SizeAssumption
    <2> QED BY <2>2, <2>3, <2>5 DEF Bounded, CandidatesBounded
  <1>4. CASE m \notin C /\ ListFull
    <2>1. PICK w \in C : parent_infos' = IF r < parent_infos[w] THEN parent_infos
                                    ELSE [parent_infos EXCEPT ![w] = NoRssi, ![m] = r]
      BY <1>4 DEF Considered
    <2>2. CASE r < parent_infos[w]
      BY <2>1, <2>2 DEF Bounded, CandidatesBounded, Candidates
    <2>3. CASE ~(r < parent_infos[w])
      <3>1. w # m /\ C' = (C \ {w}) \cup {m} /\ m \notin C \ {w}
        BY <1>2, <1>4, <2>1, <2>3 DEF Candidates
      <3>2. IsFiniteSet(C \ {w}) /\ Cardinality(C \ {w}) = Cardinality(C) - 1
        BY <1>1, FS_RemoveElement
      <3>3. /\ IsFiniteSet((C \ {w}) \cup {m})
            /\ Cardinality((C \ {w}) \cup {m}) = Cardinality(C)
        BY <1>1, <3>1, <3>2, FS_AddElement
      <3> QED BY <1>1, <3>1, <3>3 DEF Bounded, CandidatesBounded
    <2> QED BY <2>2, <2>3
  <1> QED BY <1>3, <1>4

LEMMA NoneBounded ==
    ASSUME parent_infos' = [m \in Nodes |-> NoRssi]
    PROVE  Bounded'
  <1>1. Candidates' = {}
    BY DEF Candidates
  <1> QED BY <1>1, FS_EmptySet, SizeAssumption DEF Bounded, CandidatesBounded

LEMMA EraseBounded ==
    ASSUME TypeOK, Bounded, NEW m \in Nodes, parent_infos' = EraseCandidate(m)
    PROVE  Bounded'
  <1>1. Candidates' = Candidates \ {m}
    BY DEF TypeOK, Candidates, EraseCandidate
  <1>2. /\ IsFiniteSet(Candidates) /\ Cardinality(Candidates) \in Nat
        /\ Cardinality(Candidates) <= MAX_PARENTS_TO_CONSIDER
    BY FS_CardinalityType DEF Bounded, CandidatesBounded
  <1>3. /\ IsFiniteSet(Candidates \ {m})
        /\ Cardinality(Candidates \ {m}) =
             IF m \in Candidates THEN Cardinality(Candidates) - 1 ELSE Cardinality(Candidates)
    BY <1>2, FS_RemoveElement
  <1> QED BY <1>1, <1>2, <1>3, SizeAssumption DEF Bounded, CandidatesBounded

LEMMA BoundedNext == TypeOK /\ Bounded /\ [Next]_vars => Bounded'
  <1> SUFFICES ASSUME TypeOK, Bounded, [Next]_vars PROVE Bounded'
    OBVIOUS
  <1>1. CASE UNCHANGED parent_infos
    BY <1>1 DEF Bounded, CandidatesBounded, Candidates
  <1>2. CASE RecordParent
    <2>1. ev.mac \in Nodes /\ ev.rssi \in Rssi /\ parent_infos' \in Considered(ev.mac, ev.rssi)
      BY <1>2, EventFields DEF RecordParent, TypeOK
    <2> QED BY <2>1, ConsideredBounded
  <1>3. CASE RequestNextParent
    BY <1>3, EraseBounded DEF RequestNextParent, Candidates
  <1>4. CASE Reboot
    BY <1>4, NoneBounded DEF Reboot
  <1>5. Packet => UNCHANGED parent_infos
    BY DEF Packet, HandleStatus, HandleSearchReply, HandleConnectOk,
       HandleConnectRequest, HandleRootUnreachable, HandleRootReachable, searchVars
  <1>6. Job => UNCHANGED parent_infos \/ RequestNextParent
    BY DEF Job, SearchProbe, SwitchChannel, StartConnecting, ParentsExhausted,
       UnreachableTimeout, NeighborCheck, searchVars
  <1>7. EventTask => UNCHANGED parent_infos \/ RecordParent \/ Reboot
    BY DEF EventTask, TakeEvent, NetifHandler, ConnectHandler, IgnoreEvent, AdoptParent,
       AbortOnFullQueue, ResumeSearch, UnreachableHandler, EndUnreachableWait,
       BeginUnreachableWait, StampUnreachableWait, SkipUnreachableWait, searchVars
  <1>8. Time \/ UNCHANGED vars => UNCHANGED parent_infos
    BY DEF Time, FirstParentWaitElapses, UnreachableTimerElapses, searchVars, vars
  <1> QED BY <1>1, <1>2, <1>3, <1>4, <1>5, <1>6, <1>7, <1>8 DEF Next

(* The list of candidates outlives searches and connections, and no order   *)
(* of replies, late or not, makes it longer than MAX_PARENTS_TO_CONSIDER.   *)
THEOREM CandidatesBoundedCorrect == Spec => []CandidatesBounded
  <1>1. Init => Bounded
    <2>1. Init => Candidates = {}
      BY DEF Init, Candidates
    <2> QED BY <2>1, FS_EmptySet, SizeAssumption DEF Bounded, CandidatesBounded
  <1>2. Bounded => CandidatesBounded
    BY DEF Bounded
  <1> QED BY <1>1, <1>2, BoundedNext, TypeCorrect, PTL DEF Spec
=============================================================================
