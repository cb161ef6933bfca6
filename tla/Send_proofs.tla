----------------------------- MODULE Send_proofs -----------------------------
(***************************************************************************)
(* Theorems about Send for any number of neighbours, items and places in   *)
(* the queue.                                                              *)
(***************************************************************************)
EXTENDS Send, SequenceTheorems, FiniteSetTheorems, TLAPS

(* The Lock belongs to whoever has an item for the queue in its hands.      *)
Held ==
    /\ lock = "poster" <=> posting # NoItem
    /\ worker = "pop" <=> hand = NoItem
    /\ lock = "worker" <=> worker = "requeue"

(* An item is in one place. *)
Alone ==
    /\ \A k \in 1..Len(queue) :
         /\ queue[k] \notin left /\ queue[k] # posting /\ queue[k] # hand
         /\ \A j \in 1..Len(queue) : queue[j] = queue[k] => j = k
    /\ posting \notin left /\ hand \notin left
    /\ posting = hand => hand = NoItem

(* An item that goes to one hop, and that is still in some place, was       *)
(* accepted by nobody.                                                      *)
Unicast(i) == i.behavior # "DownstreamRetry" /\ i.to # Broadcast
There(i) == i \in left \/ i \in Queued \/ posting = i \/ hand = i
Fresh == \A i \in Items : Unicast(i) /\ There(i) => accepted[i] = {}

IInv == TypeOK /\ Held /\ Alone /\ Fresh /\ UnicastOnce

-----------------------------------------------------------------------------
(* The two ways in which the queue changes. *)
LEMMA Pushed ==
    ASSUME NEW q \in Seq(Items), NEW i \in Items
    PROVE  /\ Append(q, i) \in Seq(Items) /\ Len(Append(q, i)) = Len(q) + 1
           /\ \A k \in 1..Len(q) : Append(q, i)[k] = q[k]
           /\ Append(q, i)[Len(q) + 1] = i
  BY AppendProperties

LEMMA Popped ==
    ASSUME NEW q \in Seq(Items), q # <<>>
    PROVE  /\ Head(q) \in Items /\ Head(q) = q[1] /\ Len(q) \in Nat \ {0}
           /\ Tail(q) \in Seq(Items) /\ Len(Tail(q)) = Len(q) - 1
           /\ \A k \in 1..Len(q) - 1 : Tail(q)[k] = q[k + 1]
  BY HeadTailProperties, EmptySeq

(* Where a packet may go. *)
LEMMA TargetsAddresses ==
    ASSUME TypeOK, NEW i \in Items, NEW hops \in Targets(i)
    PROVE  hops \in SUBSET Addresses
  <1>1. i.behavior \in Behaviors /\ i.to \in Addresses
    BY ItemsAssumption DEF Addresses
  <1>2. Parent \in SUBSET Addresses /\ children \in SUBSET Addresses
        /\ Towards(i.to) \in SUBSET Addresses
    BY DEF TypeOK, Parent, Towards, Addresses
  <1>3. CASE i.behavior = "DirectOnce"
    BY <1>1, <1>3 DEF Targets
  <1>4. CASE i.behavior \in {"NeighborsOnce", "UpstreamRetry", "DownstreamRetry"}
    BY <1>2, <1>4 DEF Targets
  <1>5. CASE i.behavior = "FullyResolve"
    <2>1. hops \in Resolve(i)
      BY <1>5 DEF Targets
    <2>2. CASE hops \in Downstream(i.to)
      BY <1>2, <2>2 DEF Downstream
    <2> QED BY <1>2, <2>1, <2>2 DEF Resolve
  <1> QED BY <1>1, <1>3, <1>4, <1>5 DEF Behaviors

(* A packet for one destination has one next hop, or none, ... *)
LEMMA OneHop ==
    ASSUME NEW i \in Items, ForOneHop(i), NEW hops \in Targets(i),
           NEW g \in hops, NEW h \in hops
    PROVE  g = h
  <1>1. \A a, b \in Parent : a = b
    BY DEF Parent
  <1>2. CASE i.behavior = "DirectOnce"
    BY <1>2 DEF Targets
  <1>3. CASE i.behavior = "UpstreamRetry"
    BY <1>1, <1>3 DEF Targets
  <1>4. CASE i.behavior = "FullyResolve"
    <2>1. hops \in Resolve(i)
      BY <1>4 DEF Targets
    <2>2. CASE hops \in Downstream(i.to)
      BY <1>1, <2>2 DEF Downstream
    <2>3. CASE hops = {} \/ hops = Parent
      BY <1>1, <2>3
    <2> QED BY <2>1, <2>2, <2>3 DEF Resolve, ForOneHop
  <1> QED BY <1>2, <1>3, <1>4 DEF ForOneHop

(* ... so that it is retried only if nobody accepted it. *)
LEMMA OneRetry ==
    ASSUME NEW i \in Items, Unicast(i), Retries(i), NEW hops \in Targets(i),
           NEW ok \in SUBSET hops, ok # hops
    PROVE  ok = {}
  <1>1. ForOneHop(i)
    BY ItemsAssumption DEF Retries, Unicast, ForOneHop, Behaviors
  <1> QED BY <1>1, OneHop

(* A packet that may go to no hop has nobody. *)
LEMMA NoHop ==
    ASSUME NEW i \in Items, {} \in Targets(i),
           i.behavior \in {"UpstreamRetry", "DownstreamRetry", "FullyResolve"}
    PROVE  NobodyFor(i)
  <1>1. Parent = {} => parent = NoNode
    BY DEF Parent
  <1>2. CASE i.behavior = "UpstreamRetry"
    BY <1>1, <1>2 DEF Targets, NobodyFor
  <1>3. CASE i.behavior = "DownstreamRetry"
    BY <1>3 DEF Targets, NobodyFor
  <1>4. CASE i.behavior = "FullyResolve"
    <2>1. {} \in Resolve(i)
      BY <1>4 DEF Targets
    <2>2. CASE i.to = Self
      BY <1>4, <2>2 DEF NobodyFor
    <2>3. CASE i.to = Broadcast /\ i.to # Self
      BY <1>4, <2>1, <2>3 DEF Resolve, NobodyFor
    <2>4. CASE i.to = RootAddr /\ i.to \notin {Self, Broadcast}
      BY <1>1, <1>4, <2>1, <2>4 DEF Resolve, NobodyFor
    <2>5. CASE i.to \notin {Self, RootAddr, Broadcast}
      <3>1. i.to \notin Parent /\ {} \in Downstream(i.to)
        BY <2>1, <2>5 DEF Resolve
      <3>2. Towards(i.to) = {} /\ Parent = {}
        BY <3>1 DEF Downstream
      <3> QED BY <1>1, <1>4, <2>5, <3>2 DEF NobodyFor
    <2> QED BY <2>2, <2>3, <2>4, <2>5
  <1> QED BY <1>2, <1>3, <1>4

-----------------------------------------------------------------------------
LEMMA TypeInit == Init => TypeOK /\ Held
  <1> SUFFICES ASSUME Init PROVE TypeOK /\ Held
    OBVIOUS
  <1> USE AddressAssumption, QueueAssumption
  <1>1. parent \in Neighbors \cup {NoNode} /\ children \in SUBSET (Neighbors \ {parent})
    BY DEF Init, Parent
  <1>2. table \in [Neighbors -> SUBSET Far] /\ accepted \in [Items -> SUBSET Addresses]
    BY DEF Init
  <1>3. queue \in Seq(Items) /\ Len(queue) <= QUEUE_SIZE
    BY DEF Init
  <1> QED BY <1>1, <1>2, <1>3, ItemsAssumption DEF Init, TypeOK, Held

LEMMA TypeQueue ==
    ASSUME TypeOK, Held,
           (\E i \in Items : BeginPost(i) \/ PostUnlocked(i)) \/ EndPost \/ PopItem \/ Requeue
    PROVE  TypeOK' /\ Held'
  <1> USE ItemsAssumption, QueueAssumption DEF layoutVars, airVars
  <1>0. Len(queue) \in Nat
    BY LenProperties DEF TypeOK
  <1>1. ASSUME NEW i \in Items, BeginPost(i) PROVE TypeOK' /\ Held'
    BY <1>1 DEF BeginPost, TypeOK, Held
  <1>2. ASSUME NEW i \in Items, (HasRoom /\ Push(i)) \/ UNCHANGED queue
        PROVE  queue' \in Seq(Items) /\ Len(queue') <= QUEUE_SIZE
    <2>1. CASE HasRoom /\ Push(i)
      BY <1>0, <2>1, Pushed DEF HasRoom, Push, TypeOK
    <2> QED BY <1>2, <2>1 DEF TypeOK
  <1>3. ASSUME NEW i \in Items, PostUnlocked(i) PROVE TypeOK' /\ Held'
    <2>1. queue' \in Seq(Items) /\ Len(queue') <= QUEUE_SIZE
      BY <1>2, <1>3 DEF PostUnlocked
    <2> QED BY <1>3, <2>1 DEF PostUnlocked, TypeOK, Held
  <1>4. CASE EndPost
    <2>1. posting \in Items
      BY <1>4 DEF EndPost, TypeOK, Held
    <2>2. queue' \in Seq(Items) /\ Len(queue') <= QUEUE_SIZE
      BY <1>2, <1>4, <2>1 DEF EndPost
    <2> QED BY <1>4, <2>2 DEF EndPost, TypeOK, Held
  <1>5. CASE PopItem
    <2>1. Head(queue) \in Items /\ Tail(queue) \in Seq(Items)
          /\ Len(Tail(queue)) <= QUEUE_SIZE
      BY <1>0, <1>5, Popped DEF PopItem, TypeOK
    <2> QED BY <1>5, <2>1 DEF PopItem, TypeOK, Held
  <1>6. CASE Requeue
    <2>1. hand \in Items
      BY <1>6 DEF Requeue, TypeOK, Held
    <2>2. queue' \in Seq(Items) /\ Len(queue') <= QUEUE_SIZE
      BY <1>2, <1>6, <2>1 DEF Requeue
    <2> QED BY <1>6, <2>2 DEF Requeue, TypeOK, Held
  <1> QED BY <1>1, <1>3, <1>4, <1>5, <1>6

(* What a try does to its item. *)
LEMMA Tried ==
    ASSUME TypeOK, Held, SendItem
    PROVE  /\ hand \in Items
           /\ \E hops \in Targets(hand) : \E ok \in SUBSET hops :
                /\ ok \in SUBSET Addresses
                /\ accepted' = [accepted EXCEPT ![hand] = @ \cup ok]
                /\ doubled' = IF ok \cap accepted[hand] = {} THEN doubled
                                                           ELSE doubled \cup {hand}
                /\ hand' = IF Retries(hand) /\ ok # hops THEN hand ELSE NoItem
  <1>1. hand \in Items
    BY DEF SendItem, TypeOK, Held
  <1>h. PICK hops \in Targets(hand) : \E ok \in SUBSET hops :
          /\ accepted' = [accepted EXCEPT ![hand] = @ \cup ok]
          /\ doubled' = IF ok \cap accepted[hand] = {} THEN doubled
                                                     ELSE doubled \cup {hand}
          /\ IF Retries(hand) /\ ok # hops
               THEN worker' = "requeue" /\ lock' = "worker" /\ UNCHANGED hand
               ELSE worker' = "pop" /\ hand' = NoItem /\ UNCHANGED lock
    BY DEF SendItem
  <1>2. PICK ok \in SUBSET hops :
          /\ accepted' = [accepted EXCEPT ![hand] = @ \cup ok]
          /\ doubled' = IF ok \cap accepted[hand] = {} THEN doubled
                                                     ELSE doubled \cup {hand}
          /\ IF Retries(hand) /\ ok # hops
               THEN worker' = "requeue" /\ lock' = "worker" /\ UNCHANGED hand
               ELSE worker' = "pop" /\ hand' = NoItem /\ UNCHANGED lock
    BY <1>h
  <1>3. ok \in SUBSET Addresses
    BY <1>1, TargetsAddresses
  <1>4. hand' = IF Retries(hand) /\ ok # hops THEN hand ELSE NoItem
    BY <1>2
  <1> QED BY <1>1, <1>2, <1>3, <1>4

LEMMA TypeSend == ASSUME TypeOK, Held, SendItem PROVE TypeOK' /\ Held'
  <1>1. hand \in Items /\ hand # NoItem
    BY Tried, ItemsAssumption
  <1>2. accepted' \in [Items -> SUBSET Addresses] /\ doubled' \in SUBSET Items
    BY <1>1, Tried DEF TypeOK
  <1>3. UNCHANGED <<parent, children, table, left, queue, posting>> /\ lock = "free"
        /\ worker = "send"
    BY DEF SendItem, layoutVars
  <1>4. \/ worker' = "requeue" /\ lock' = "worker" /\ UNCHANGED hand
        \/ worker' = "pop" /\ hand' = NoItem /\ UNCHANGED lock
    BY DEF SendItem
  <1> QED BY <1>1, <1>2, <1>3, <1>4 DEF TypeOK, Held

LEMMA TypeNext == TypeOK /\ Held /\ [Next]_vars => TypeOK' /\ Held'
  <1> SUFFICES ASSUME TypeOK, Held, [Next]_vars PROVE TypeOK' /\ Held'
    OBVIOUS
  <1>1. CASE ChangeLayout
    <2>1. parent' \in Neighbors \cup {NoNode} /\ children' \in SUBSET (Neighbors \ {parent'})
      BY <1>1 DEF ChangeLayout
    <2>2. table' \in [Neighbors -> SUBSET Far]
      BY <1>1 DEF ChangeLayout, TypeOK
    <2>3. UNCHANGED <<left, queue, lock, posting, hand, worker, airVars>>
      BY <1>1 DEF ChangeLayout
    <2> QED BY <2>1, <2>2, <2>3 DEF TypeOK, Held, airVars
  <1>2. ASSUME NEW c \in Neighbors, NEW f \in Far, LearnRoute(c, f) PROVE TypeOK' /\ Held'
    <2>1. table' \in [Neighbors -> SUBSET Far]
      BY <1>2 DEF LearnRoute, TypeOK
    <2>2. UNCHANGED <<parent, children, left, queue, lock, posting, hand, worker, airVars>>
      BY <1>2 DEF LearnRoute
    <2> QED BY <2>1, <2>2 DEF TypeOK, Held, airVars
  <1>3. CASE UNCHANGED vars
    BY <1>3 DEF vars, TypeOK, Held
  <1> QED BY <1>1, <1>2, <1>3, TypeQueue, TypeSend DEF Next, Worker

(* Every variable keeps its type; the queue never holds more than its size, *)
(* whoever pushes, with the Lock or without it.                             *)
THEOREM TypeCorrect == Spec => []TypeOK
  <1>1. Spec => [](TypeOK /\ Held)
    BY TypeInit, TypeNext, PTL DEF Spec
  <1> QED BY <1>1, PTL

-----------------------------------------------------------------------------
(* An item moves from one place to the next, or leaves the node. *)

(* The queue with an item of another place at its end. *)
LEMMA PushAlone ==
    ASSUME TypeOK, Alone, NEW i \in Items, queue' = Append(queue, i) \/ queue' = queue,
           i \notin Queued, i \notin left', i # posting', i # hand',
           left' \subseteq left, posting' \in {posting, NoItem}, hand' \in {hand, NoItem}
    PROVE  Alone'
  <1>0. Len(queue) \in Nat
    BY LenProperties DEF TypeOK
  <1>1. \A k \in 1..Len(queue) : queue[k] \in Items /\ queue[k] # i
    BY <1>0 DEF TypeOK, Queued
  <1>2. CASE queue' = Append(queue, i)
    <2>1. /\ Len(queue') = Len(queue) + 1
          /\ \A k \in 1..Len(queue) : queue'[k] = queue[k]
          /\ queue'[Len(queue) + 1] = i
      BY <1>2, Pushed DEF TypeOK
    <2>2. \A k \in 1..Len(queue') : k \in 1..Len(queue) \/ k = Len(queue) + 1
      BY <1>0, <2>1
    <2>3. ASSUME NEW k \in 1..Len(queue')
          PROVE  queue'[k] \notin left' /\ queue'[k] # posting' /\ queue'[k] # hand'
      BY <1>1, <2>1, <2>2, ItemsAssumption DEF Alone
    <2>4. ASSUME NEW k \in 1..Len(queue'), NEW j \in 1..Len(queue'), queue'[j] = queue'[k]
          PROVE  j = k
      BY <1>1, <2>1, <2>2, <2>4 DEF Alone
    <2> QED BY <2>3, <2>4, ItemsAssumption DEF Alone, TypeOK
  <1>3. CASE queue' = queue
    BY <1>1, <1>3, ItemsAssumption DEF Alone, TypeOK
  <1> QED BY <1>2, <1>3

LEMMA PushQueued ==
    ASSUME TypeOK, NEW i \in Items, Push(i)
    PROVE  Queued' = Queued \cup {i}
  <1>0. Len(queue) \in Nat
    BY LenProperties DEF TypeOK
  <1>1. /\ Len(queue') = Len(queue) + 1
        /\ \A k \in 1..Len(queue) : queue'[k] = queue[k]
        /\ queue'[Len(queue) + 1] = i
    BY Pushed DEF TypeOK, Push
  <1>2. 1..Len(queue') = (1..Len(queue)) \cup {Len(queue) + 1}
    BY <1>0, <1>1
  <1> QED BY <1>0, <1>1, <1>2 DEF Queued

LEMMA PopQueued ==
    ASSUME TypeOK, PopItem
    PROVE  Queued = Queued' \cup {hand'}
  <1>1. /\ hand' = queue[1] /\ Len(queue) \in Nat \ {0} /\ Len(queue') = Len(queue) - 1
        /\ \A k \in 1..Len(queue) - 1 : queue'[k] = queue[k + 1]
    BY Popped DEF TypeOK, PopItem
  <1>2. ASSUME NEW k \in 1..Len(queue) PROVE queue[k] \in Queued' \cup {hand'}
    <2>1. CASE k = 1
      BY <1>1, <2>1
    <2>2. CASE k # 1
      <3>1. k - 1 \in 1..Len(queue') /\ queue'[k - 1] = queue[k]
        BY <1>1, <2>2
      <3> QED BY <3>1 DEF Queued
    <2> QED BY <2>1, <2>2
  <1>3. ASSUME NEW k \in 1..Len(queue') PROVE queue'[k] \in Queued
    <2>1. k + 1 \in 1..Len(queue) /\ queue'[k] = queue[k + 1]
      BY <1>1
    <2> QED BY <2>1 DEF Queued
  <1>4. hand' \in Queued
    BY <1>1 DEF Queued
  <1> QED BY <1>2, <1>3, <1>4 DEF Queued

(* The places of an item are left, or are followed by the next one.  What   *)
(* makes an item leave: the queue is full, or it was tried.                 *)
LeavesOnly ==
    \A i \in Items :
      /\ There(i)' => There(i)
      /\ There(i) /\ ~There(i)' => \/ Len(queue) = QUEUE_SIZE /\ ~BeingTried(i)
                                   \/ SendItem /\ hand = i

LEMMA LeavesFull == TypeOK /\ TimesOut => Len(queue) = QUEUE_SIZE
  <1> SUFFICES ASSUME TypeOK, TimesOut PROVE Len(queue) = QUEUE_SIZE
    OBVIOUS
  <1>1. Len(queue) \in Nat
    BY LenProperties DEF TypeOK
  <1> QED BY <1>1, QueueAssumption DEF TimesOut, HasRoom, TypeOK

LEMMA AloneQueue ==
    ASSUME TypeOK, Held, Alone,
           (\E i \in Items : BeginPost(i) \/ PostUnlocked(i)) \/ EndPost \/ PopItem \/ Requeue
    PROVE  Alone' /\ LeavesOnly
  <1> USE ItemsAssumption
  <1>0. /\ Len(queue) \in Nat /\ \A k \in 1..Len(queue) : queue[k] \in Items
        /\ \A i \in Items : i \in Queued <=> \E k \in 1..Len(queue) : queue[k] = i
    BY LenProperties DEF TypeOK, Queued
  <1>1. ASSUME NEW i \in Items, BeginPost(i) PROVE Alone' /\ LeavesOnly
    <2>1. /\ i \in left /\ left' = left \ {i} /\ posting' = i /\ posting = NoItem
          /\ UNCHANGED <<queue, hand>>
      BY <1>1 DEF BeginPost, Held
    <2>2. Alone'
      BY <2>1 DEF Alone, TypeOK
    <2>3. Queued' = Queued
      BY <2>1 DEF Queued
    <2> QED BY <2>1, <2>2, <2>3 DEF LeavesOnly, There
  <1>2. ASSUME NEW i \in Items, PostUnlocked(i) PROVE Alone' /\ LeavesOnly
    <2>1. i \in left /\ left' = left \ {i} /\ UNCHANGED <<posting, hand>>
      BY <1>2 DEF PostUnlocked
    <2>2. i \notin Queued /\ posting # i /\ hand # i
      BY <1>0, <2>1 DEF Alone
    <2>3. \/ Push(i)
          \/ UNCHANGED queue /\ Len(queue) = QUEUE_SIZE
      BY <1>2, LeavesFull DEF PostUnlocked
    <2>4. Alone'
      BY <2>1, <2>2, <2>3, PushAlone DEF Push
    <2>5. CASE Push(i)
      BY <2>1, <2>4, <2>5, PushQueued DEF LeavesOnly, There
    <2>6. CASE UNCHANGED queue /\ Len(queue) = QUEUE_SIZE
      <3>1. Queued' = Queued
        BY <2>6 DEF Queued
      <3> QED BY <2>1, <2>2, <2>4, <2>6, <3>1 DEF LeavesOnly, There, BeingTried
    <2> QED BY <2>3, <2>5, <2>6
  <1>3. CASE EndPost
    <2>1. /\ posting \in Items /\ posting' = NoItem /\ UNCHANGED <<left, hand>>
      BY <1>3 DEF EndPost, TypeOK, Held
    <2>2. posting \notin Queued /\ posting \notin left /\ posting # hand
      BY <1>0, <2>1 DEF Alone
    <2>3. \/ Push(posting)
          \/ UNCHANGED queue /\ Len(queue) = QUEUE_SIZE
      BY <1>3, LeavesFull DEF EndPost
    <2>4. Alone'
      BY <2>1, <2>2, <2>3, PushAlone DEF Push
    <2>5. CASE Push(posting)
      <3>1. Queued' = Queued \cup {posting}
        BY <2>1, <2>5, PushQueued
      <3> QED BY <2>1, <2>4, <3>1 DEF LeavesOnly, There
    <2>6. CASE UNCHANGED queue /\ Len(queue) = QUEUE_SIZE
      <3>1. Queued' = Queued
        BY <2>6 DEF Queued
      <3> QED BY <2>1, <2>2, <2>4, <2>6, <3>1 DEF LeavesOnly, There, BeingTried
    <2> QED BY <2>3, <2>5, <2>6
  <1>4. CASE Requeue
    <2>1. /\ hand \in Items /\ hand' = NoItem /\ UNCHANGED <<left, posting>>
          /\ worker # "send"
      BY <1>4 DEF Requeue, TypeOK, Held
    <2>2. hand \notin Queued /\ hand \notin left /\ posting # hand
      BY <1>0, <2>1 DEF Alone
    <2>3. \/ Push(hand)
          \/ UNCHANGED queue /\ Len(queue) = QUEUE_SIZE
      BY <1>4, LeavesFull DEF Requeue
    <2>4. Alone'
      BY <2>1, <2>2, <2>3, PushAlone DEF Push
    <2>5. CASE Push(hand)
      <3>1. Queued' = Queued \cup {hand}
        BY <2>1, <2>5, PushQueued
      <3> QED BY <2>1, <2>4, <3>1 DEF LeavesOnly, There
    <2>6. CASE UNCHANGED queue /\ Len(queue) = QUEUE_SIZE
      <3>1. Queued' = Queued
        BY <2>6 DEF Queued
      <3> QED BY <2>1, <2>2, <2>4, <2>6, <3>1 DEF LeavesOnly, There, BeingTried
    <2> QED BY <2>3, <2>5, <2>6
  <1>5. CASE PopItem
    <2>1. /\ hand' = queue[1] /\ Len(queue) \in Nat \ {0} /\ Len(queue') = Len(queue) - 1
          /\ \A k \in 1..Len(queue) - 1 : queue'[k] = queue[k + 1]
          /\ UNCHANGED <<left, posting>> /\ hand = NoItem
      BY <1>5, Popped DEF TypeOK, PopItem, Held
    <2>2. \A k \in 1..Len(queue') : k + 1 \in 1..Len(queue) /\ queue'[k] = queue[k + 1]
      BY <2>1
    <2>3. \A k \in 1..Len(queue') : /\ queue'[k] \notin left' /\ queue'[k] # posting'
                                    /\ queue'[k] # hand'
      BY <2>1, <2>2 DEF Alone
    <2>4. ASSUME NEW k \in 1..Len(queue'), NEW j \in 1..Len(queue'), queue'[j] = queue'[k]
          PROVE  j = k
      <3>1. j + 1 = k + 1
        BY <2>2, <2>4 DEF Alone
      <3> QED BY <2>1, <3>1
    <2>5. posting' \notin left' /\ hand' \notin left' /\ posting' # hand'
      BY <2>1 DEF Alone
    <2>6. Alone'
      BY <2>3, <2>4, <2>5 DEF Alone
    <2> QED BY <1>5, <2>1, <2>6, PopQueued DEF LeavesOnly, There
  <1> QED BY <1>1, <1>2, <1>3, <1>4, <1>5

LEMMA AloneSend ==
    ASSUME TypeOK, Held, Alone, SendItem
    PROVE  Alone' /\ LeavesOnly
  <1> USE ItemsAssumption
  <1>1. UNCHANGED <<left, queue, posting>> /\ hand' \in {hand, NoItem} /\ hand \in Items
    BY Tried DEF SendItem
  <1>2. Len(queue) \in Nat /\ \A k \in 1..Len(queue) : queue[k] \in Items
    BY LenProperties DEF TypeOK
  <1>3. Alone'
    BY <1>1, <1>2 DEF Alone, TypeOK
  <1>4. Queued' = Queued
    BY <1>1 DEF Queued
  <1> QED BY <1>1, <1>3, <1>4 DEF LeavesOnly, There

LEMMA AloneNext == TypeOK /\ Held /\ Alone /\ [Next]_vars => Alone' /\ LeavesOnly
  <1> SUFFICES ASSUME TypeOK, Held, Alone, [Next]_vars PROVE Alone' /\ LeavesOnly
    OBVIOUS
  <1>1. CASE UNCHANGED <<left, queue, posting, hand>>
    <2>1. Queued' = Queued
      BY <1>1 DEF Queued
    <2> QED BY <1>1, <2>1 DEF Alone, LeavesOnly, There
  <1> QED BY <1>1, AloneQueue, AloneSend DEF Next, Worker, ChangeLayout, LearnRoute, vars

LEMMA AloneInit == Init => Alone
  <1> SUFFICES ASSUME Init PROVE Alone
    OBVIOUS
  <1>1. queue = <<>> /\ Len(queue) = 0
    BY DEF Init
  <1> QED BY <1>1, ItemsAssumption DEF Init, Alone

(* A try leaves an item for one hop only if nobody accepted it. *)
LEMMA FreshNext == IInv /\ [Next]_vars => Fresh' /\ UnicastOnce'
  <1> SUFFICES ASSUME IInv, [Next]_vars PROVE Fresh' /\ UnicastOnce'
    OBVIOUS
  <1>1. \A i \in Items : There(i)' => There(i)
    BY AloneNext DEF IInv, LeavesOnly
  <1>2. CASE SendItem
    <2>1. hand \in Items
      BY <1>2, Tried DEF IInv
    <2>2. PICK hops \in Targets(hand) : \E ok \in SUBSET hops :
            /\ ok \in SUBSET Addresses
            /\ accepted' = [accepted EXCEPT ![hand] = @ \cup ok]
            /\ doubled' = IF ok \cap accepted[hand] = {} THEN doubled
                                                       ELSE doubled \cup {hand}
            /\ hand' = IF Retries(hand) /\ ok # hops THEN hand ELSE NoItem
      BY <1>2, Tried DEF IInv
    <2>3. PICK ok \in SUBSET hops :
            /\ ok \in SUBSET Addresses
            /\ accepted' = [accepted EXCEPT ![hand] = @ \cup ok]
            /\ doubled' = IF ok \cap accepted[hand] = {} THEN doubled
                                                       ELSE doubled \cup {hand}
            /\ hand' = IF Retries(hand) /\ ok # hops THEN hand ELSE NoItem
      BY <2>2
    <2>4. \A i \in Items \ {hand} : accepted'[i] = accepted[i]
      BY <2>3 DEF IInv, TypeOK
    <2>5. accepted'[hand] = accepted[hand] \cup ok
      BY <2>1, <2>3 DEF IInv, TypeOK
    <2>6. ASSUME Unicast(hand) PROVE accepted[hand] = {}
      BY <2>1, <2>6 DEF IInv, Fresh, There
    <2>7. ASSUME NEW i \in Items, i = hand, Unicast(i), There(i)' PROVE ok = {}
      <3>1. i \notin left' /\ i \notin Queued' /\ posting' # i
        <4>1. Queued' = Queued /\ hand \notin Queued
          BY <1>2, <2>1 DEF SendItem, Queued, IInv, Alone
        <4> QED BY <1>2, <2>1, <2>7, <4>1, ItemsAssumption DEF SendItem, IInv, Alone
      <3>2. hand' = hand
        BY <2>7, <3>1 DEF There
      <3>3. Retries(hand) /\ ok # hops
        BY <2>1, <2>3, <3>2, ItemsAssumption
      <3> QED BY <2>1, <2>7, <3>3, OneRetry
    <2>8. Fresh'
      <3> SUFFICES ASSUME NEW i \in Items, Unicast(i), There(i)' PROVE accepted'[i] = {}
        BY DEF Fresh, Unicast
      <3>1. CASE i = hand
        BY <2>5, <2>6, <2>7, <3>1
      <3>2. CASE i # hand
        BY <1>1, <2>4, <3>2 DEF IInv, Fresh
      <3> QED BY <3>1, <3>2
    <2>9. UnicastOnce'
      <3> SUFFICES ASSUME NEW i \in Items, ForOneHop(i)
                   PROVE  i \notin doubled' /\ \A g, h \in accepted'[i] : g = h
        BY DEF UnicastOnce, ForOneHop
      <3>1. CASE i = hand
        <4>1. accepted[hand] = {}
          BY <2>6, <3>1 DEF ForOneHop, Unicast
        <4>2. accepted'[hand] = ok /\ doubled' = doubled
          BY <2>3, <2>5, <4>1
        <4>3. \A g, h \in ok : g = h
          BY <2>1, <3>1, OneHop
        <4>4. i \notin doubled
          BY DEF IInv, UnicastOnce
        <4> QED BY <3>1, <4>2, <4>3, <4>4
      <3>2. CASE i # hand
        BY <2>3, <2>4, <3>2 DEF IInv, UnicastOnce
      <3> QED BY <3>1, <3>2
    <2> QED BY <2>8, <2>9
  <1>3. CASE UNCHANGED airVars
    BY <1>1, <1>3 DEF IInv, Fresh, UnicastOnce, airVars, Unicast, ForOneHop
  <1> QED
    BY <1>2, <1>3
    DEF Next, Worker, BeginPost, EndPost, PostUnlocked, PopItem, Requeue, ChangeLayout,
        LearnRoute, vars, airVars

LEMMA Invariant == Spec => []IInv
  <1>1. Init => IInv
    BY TypeInit, AloneInit DEF IInv, Init, Fresh, UnicastOnce
  <1>2. IInv /\ [Next]_vars => IInv'
    BY TypeNext, AloneNext, FreshNext DEF IInv
  <1> QED BY <1>1, <1>2, PTL DEF Spec

(* Whatever is retried and however the layout changes in between, a packet  *)
(* for one destination is accepted by one hop and once: at most one hop is  *)
(* tried at a time, and the try that it accepts is the last.                *)
THEOREM UnicastOnceCorrect == Spec => []UnicastOnce
  BY Invariant, PTL DEF IInv

-----------------------------------------------------------------------------
(* Of the four places, an item is in one or in none. *)
LEMMA PlacesCounted ==
    ASSUME TypeOK, Alone, NEW i \in Items
    PROVE  Places(i) = IF There(i) THEN 1 ELSE 0
  <1> DEFINE Spots == {k \in 1..Len(queue) : queue[k] = i}
             InHand == {x \in {hand} : x = i}
             Posted == {x \in {posting} : x = i}
             Kept == left \cap {i}
  <1>1. Places(i) = Cardinality(Spots) + Cardinality(InHand) + Cardinality(Posted)
                      + Cardinality(Kept)
    BY DEF Places
  <1>2. i # NoItem
    BY ItemsAssumption
  <1>3. Cardinality({}) = 0 /\ \A x : Cardinality({x}) = 1
    BY FS_EmptySet, FS_Singleton
  <1>4. Cardinality(Spots) = IF i \in Queued THEN 1 ELSE 0
    <2>1. CASE i \in Queued
      <3>1. PICK k \in 1..Len(queue) : queue[k] = i
        BY <2>1 DEF Queued
      <3>2. Spots = {k}
        BY <3>1 DEF Alone
      <3> QED BY <1>3, <2>1, <3>2
    <2>2. CASE i \notin Queued
      <3>1. Spots = {}
        BY <2>2 DEF Queued
      <3> QED BY <1>3, <2>2, <3>1
    <2> QED BY <2>1, <2>2
  <1>5. Cardinality(InHand) = IF hand = i THEN 1 ELSE 0
    <2>1. InHand = IF hand = i THEN {i} ELSE {}
      OBVIOUS
    <2> QED BY <1>3, <2>1
  <1>6. Cardinality(Posted) = IF posting = i THEN 1 ELSE 0
    <2>1. Posted = IF posting = i THEN {i} ELSE {}
      OBVIOUS
    <2> QED BY <1>3, <2>1
  <1>7. Cardinality(Kept) = IF i \in left THEN 1 ELSE 0
    <2>1. Kept = IF i \in left THEN {i} ELSE {}
      OBVIOUS
    <2> QED BY <1>3, <2>1
  <1>8. /\ i \in Queued => hand # i /\ posting # i /\ i \notin left
        /\ hand = i => posting # i /\ i \notin left
        /\ posting = i => i \notin left
    BY <1>2 DEF Queued, Alone
  <1> HIDE DEF Spots, InHand, Posted, Kept
  <1> QED BY <1>1, <1>4, <1>5, <1>6, <1>7, <1>8 DEF There

Counted == \A i \in Items : Places(i) = IF There(i) THEN 1 ELSE 0

(* A packet that is retried is not multiplied, and leaves the node only     *)
(* when the hops it is for, and there is one, have accepted it, when it     *)
(* finds the queue full, or when the layout has nobody for it: for every    *)
(* kind of packet and however the tasks that share the queue and the layout *)
(* interleave.                                                              *)
THEOREM RetryKeptCorrect == Spec => RetryKept
  <1> DEFINE Retried(i) ==
        i.behavior \in {"UpstreamRetry", "DownstreamRetry", "FullyResolve"}
  <1>1. ASSUME IInv, Counted, Counted', [Next]_vars, NEW i \in Items
        PROVE  /\ Places(i)' <= 1
               /\ Places(i) = 1 /\ Places(i)' = 0 /\ Retried(i)
                  => \/ Len(queue) = QUEUE_SIZE /\ ~BeingTried(i)
                     \/ \E hops \in Targets(i) \ {{}} : hops \subseteq accepted[i]'
                     \/ NobodyFor(i)
    <2>1. Places(i) = IF There(i) THEN 1 ELSE 0
      BY <1>1 DEF Counted
    <2>2. Places(i)' = IF There(i)' THEN 1 ELSE 0
      BY <1>1 DEF Counted
    <2>3. ASSUME There(i), ~There(i)', Retried(i),
                 ~(Len(queue) = QUEUE_SIZE /\ ~BeingTried(i))
          PROVE  \/ \E hops \in Targets(i) \ {{}} : hops \subseteq accepted[i]'
                 \/ NobodyFor(i)
      <3>1. SendItem /\ hand = i
        BY <1>1, <2>3, AloneNext DEF IInv, LeavesOnly
      <3>2. PICK hops \in Targets(hand) : \E ok \in SUBSET hops :
              /\ accepted' = [accepted EXCEPT ![hand] = @ \cup ok]
              /\ hand' = IF Retries(hand) /\ ok # hops THEN hand ELSE NoItem
        BY <1>1, <3>1, Tried DEF IInv
      <3>3. PICK ok \in SUBSET hops :
              /\ accepted' = [accepted EXCEPT ![hand] = @ \cup ok]
              /\ hand' = IF Retries(hand) /\ ok # hops THEN hand ELSE NoItem
        BY <3>2
      <3>4. Retries(hand)
        BY <2>3, <3>1 DEF Retries
      <3>5. ok = hops
        BY <2>3, <3>1, <3>3, <3>4 DEF There
      <3>6. hops \subseteq accepted[i]'
        BY <1>1, <3>1, <3>3, <3>5 DEF IInv, TypeOK
      <3>7. hops = {} => NobodyFor(i)
        BY <2>3, <3>1, NoHop
      <3> QED BY <3>1, <3>6, <3>7
    <2> QED BY <2>1, <2>2, <2>3
  <1>2. IInv /\ Counted /\ Counted' /\ [Next]_vars =>
          \A i \in Items :
            /\ Places(i)' <= 1
            /\ /\ Places(i) = 1 /\ Places(i)' = 0
               /\ i.behavior \in {"UpstreamRetry", "DownstreamRetry", "FullyResolve"}
               => \/ Len(queue) = QUEUE_SIZE /\ ~BeingTried(i)
                  \/ \E hops \in Targets(i) \ {{}} : hops \subseteq accepted[i]'
                  \/ NobodyFor(i)
    BY <1>1
  <1>3. IInv => Counted
    BY PlacesCounted DEF IInv, Counted
  <1> QED BY <1>2, <1>3, Invariant, PTL DEF Spec, RetryKept
=============================================================================
