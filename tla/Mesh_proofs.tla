----------------------------- MODULE Mesh_proofs -----------------------------
(***************************************************************************)
(* Theorems about Mesh for every set of nodes, every reach of their        *)
(* radios, and every size of the receive queues and number of children.    *)
(***************************************************************************)
EXTENDS Mesh, SequenceTheorems, TLAPS

(* p is somewhere in m's queue. *)
In(r, m, p) == \E k \in 1..Len(r[m]) : r[m][k] = p

(* m's ConnectOk has not yet reached n's handler. *)
OkOnItsWay(m, n) == In(rx, n, Packet("ConnectOk", m))

Queues == {r \in [Nodes -> Seq(Packets)] : \A n \in Nodes : Len(r[n]) <= RX_SIZE}
Kinds == {"ConnectRequest", "ConnectOk", "RootUnreachable", "RootReachable"}

-----------------------------------------------------------------------------
(* Fit returns a beginning of what it is given. *)
LEMMA FitIsPrefix ==
    ASSUME NEW T, NEW q \in Seq(T)
    PROVE  /\ Fit(q) \in Seq(T) /\ Len(Fit(q)) <= RX_SIZE /\ Len(Fit(q)) <= Len(q)
           /\ \A k \in 1..Len(Fit(q)) : Fit(q)[k] = q[k]
  <1> DEFINE j == IF Len(q) <= RX_SIZE THEN Len(q) ELSE RX_SIZE
  <1>1. j \in 0..Len(q) /\ j <= RX_SIZE
    BY SizeAssumption, LenProperties
  <1>2. Fit(q) = SubSeq(q, 1, j)
    BY DEF Fit
  <1>3. /\ SubSeq(q, 1, j) \in Seq(T) /\ Len(SubSeq(q, 1, j)) = j
        /\ \A k \in 1..j : SubSeq(q, 1, j)[k] = q[k]
    BY <1>1, SubSeqProperties
  <1> QED BY <1>1, <1>2, <1>3

(* What Fit keeps of a queue and what is added to it. *)
LEMMA FitOfConcat ==
    ASSUME NEW T, NEW q \in Seq(T), NEW out \in Seq(T)
    PROVE  /\ Fit(q \o out) \in Seq(T) /\ Len(Fit(q \o out)) <= RX_SIZE
           /\ \A k \in 1..Len(Fit(q \o out)) :
                \/ k \in 1..Len(q) /\ Fit(q \o out)[k] = q[k]
                \/ \E i \in 1..Len(out) : Fit(q \o out)[k] = out[i]
  <1>1. /\ q \o out \in Seq(T) /\ Len(q \o out) = Len(q) + Len(out)
        /\ \A k \in 1..Len(q) + Len(out) :
             (q \o out)[k] = IF k <= Len(q) THEN q[k] ELSE out[k - Len(q)]
    BY ConcatProperties
  <1> DEFINE c == q \o out
  <1> HIDE DEF c
  <1>2. c \in Seq(T) /\ Len(c) = Len(q) + Len(out)
    BY <1>1 DEF c
  <1>3. /\ Fit(c) \in Seq(T) /\ Len(Fit(c)) <= RX_SIZE /\ Len(Fit(c)) <= Len(c)
        /\ \A k \in 1..Len(Fit(c)) : Fit(c)[k] = c[k]
    BY <1>2, FitIsPrefix
  <1>4. Len(q) \in Nat /\ Len(out) \in Nat /\ Len(Fit(c)) \in Nat
    BY <1>3, LenProperties
  <1>5. ASSUME NEW k \in 1..Len(Fit(c))
        PROVE  \/ k \in 1..Len(q) /\ Fit(c)[k] = q[k]
               \/ \E i \in 1..Len(out) : Fit(c)[k] = out[i]
    <2>1. k \in 1..Len(q) + Len(out)
      BY <1>2, <1>3, <1>4
    <2>2. Fit(c)[k] = IF k <= Len(q) THEN q[k] ELSE out[k - Len(q)]
      BY <1>1, <1>3, <2>1 DEF c
    <2>3. CASE k <= Len(q)
      BY <1>4, <2>1, <2>2, <2>3
    <2>4. CASE ~(k <= Len(q))
      <3>1. k - Len(q) \in 1..Len(out)
        BY <1>4, <2>1, <2>4
      <3> QED BY <2>2, <2>4, <3>1
    <2> QED BY <2>3, <2>4
  <1> QED BY <1>3, <1>5 DEF c

(* After n sent packets of some kinds, a queue has what it had before, and  *)
(* those.                                                                   *)
LEMMA SentAdds ==
    ASSUME NEW r \in Queues, NEW n \in Nodes, NEW dests,
           NEW kinds \in Seq(Kinds)
    PROVE  /\ Sent(r, n, dests, kinds) \in Queues
           /\ \A m \in Nodes, p \in Packets :
                In(Sent(r, n, dests, kinds), m, p) =>
                  \/ In(r, m, p)
                  \/ m \in dests /\ \E i \in 1..Len(kinds) : p = Packet(kinds[i], n)
  <1> DEFINE out == [k \in 1..Len(kinds) |-> Packet(kinds[k], n)]
             s == Sent(r, n, dests, kinds)
  <1>1. /\ out \in Seq(Packets) /\ Len(out) = Len(kinds)
        /\ \A k \in 1..Len(out) : out[k] = Packet(kinds[k], n)
    <2>1. \A k \in 1..Len(kinds) : kinds[k] \in Kinds
      BY ElementOfSeq
    <2>2. \A k \in 1..Len(kinds) : Packet(kinds[k], n) \in Packets
      BY <2>1 DEF Packets, Packet, Kinds
    <2>3. Len(kinds) \in Nat
      BY LenProperties
    <2> QED BY <2>2, <2>3, IsASeq
  <1>2. ASSUME NEW m \in Nodes
        PROVE  /\ s[m] \in Seq(Packets) /\ Len(s[m]) <= RX_SIZE
               /\ \A k \in 1..Len(s[m]) :
                    \/ k \in 1..Len(r[m]) /\ s[m][k] = r[m][k]
                    \/ m \in dests /\ \E i \in 1..Len(kinds) : s[m][k] = Packet(kinds[i], n)
    <2> r[m] \in Seq(Packets) /\ Len(r[m]) <= RX_SIZE
      BY DEF Queues
    <2>1. CASE m \notin dests
      BY <2>1 DEF Sent
    <2>2. CASE m \in dests
      <3>1. s[m] = Fit(r[m] \o out)
        BY <2>2 DEF Sent
      <3> HIDE DEF s, out
      <3>2. /\ s[m] \in Seq(Packets) /\ Len(s[m]) <= RX_SIZE
            /\ \A k \in 1..Len(s[m]) :
                 \/ k \in 1..Len(r[m]) /\ s[m][k] = r[m][k]
                 \/ \E i \in 1..Len(out) : s[m][k] = out[i]
        BY <1>1, <3>1, FitOfConcat
      <3> QED BY <1>1, <2>2, <3>2
    <2> QED BY <2>1, <2>2
  <1>3. s \in Queues
    <2>1. s = [m \in Nodes |-> s[m]]
      BY DEF Sent
    <2> HIDE DEF s
    <2> QED BY <1>2, <2>1 DEF Queues
  <1>4. ASSUME NEW m \in Nodes, NEW p \in Packets, In(s, m, p)
        PROVE  \/ In(r, m, p)
               \/ m \in dests /\ \E i \in 1..Len(kinds) : p = Packet(kinds[i], n)
    <2>1. PICK k \in 1..Len(s[m]) : s[m][k] = p
      BY <1>4 DEF In
    <2>2. CASE k \in 1..Len(r[m]) /\ s[m][k] = r[m][k]
      BY <2>1, <2>2 DEF In
    <2>3. CASE m \in dests /\ \E i \in 1..Len(kinds) : s[m][k] = Packet(kinds[i], n)
      BY <2>1, <2>3
    <2> HIDE DEF s
    <2> QED BY <1>2, <2>2, <2>3
  <1> QED BY <1>3, <1>4

(* Taking the first packet adds none. *)
LEMMA HandledType ==
    ASSUME rx \in Queues, NEW n \in Nodes, rx[n] # <<>>
    PROVE  /\ Handled(n) \in Queues
           /\ \A m \in Nodes, p \in Packets : In(Handled(n), m, p) => In(rx, m, p)
  <1>1. rx[n] \in Seq(Packets) /\ Len(rx[n]) <= RX_SIZE
    BY DEF Queues
  <1>2. /\ Tail(rx[n]) \in Seq(Packets) /\ Len(Tail(rx[n])) = Len(rx[n]) - 1
        /\ \A k \in 1..Len(rx[n]) - 1 : Tail(rx[n])[k] = rx[n][k + 1]
    BY <1>1, HeadTailProperties
  <1>3. Len(rx[n]) \in Nat /\ RX_SIZE \in Nat
    BY <1>1, LenProperties, SizeAssumption
  <1>4. Handled(n) \in Queues
    BY <1>2, <1>3, <1>1 DEF Handled, Queues
  <1>5. ASSUME NEW m \in Nodes, NEW p \in Packets, In(Handled(n), m, p)
        PROVE  In(rx, m, p)
    <2>1. CASE m = n
      <3>1. Handled(n)[m] = Tail(rx[n])
        BY <2>1 DEF Handled, Queues
      <3>2. PICK k \in 1..Len(Tail(rx[n])) : Tail(rx[n])[k] = p
        BY <1>5, <3>1 DEF In
      <3>3. k + 1 \in 1..Len(rx[n]) /\ rx[n][k + 1] = p
        BY <1>2, <1>3, <3>2
      <3> QED BY <2>1, <3>3 DEF In
    <2>2. CASE m # n
      BY <1>5, <2>2 DEF Handled, In, Queues
    <2> QED BY <2>1, <2>2
  <1> QED BY <1>4, <1>5

(* A packet of news to n's children is no answer. *)
LEMMA NewsSends ==
    ASSUME NEW n \in Nodes, NEW dests, NEW r \in Queues, NEW out \in Seq(NewsKinds)
    PROVE  /\ Sent(r, n, dests, out) \in Queues
           /\ \A m, k \in Nodes :
                In(Sent(r, n, dests, out), m, Packet("ConnectOk", k))
                  => In(r, m, Packet("ConnectOk", k))
  <1>1. out \in Seq(Kinds)
    BY SeqMonotonic DEF NewsKinds, Kinds
  <1>2. \A i \in 1..Len(out) : out[i] \in NewsKinds
    BY ElementOfSeq
  <1>3. \A m, k \in Nodes : Packet("ConnectOk", k) \in Packets
    BY DEF Packets, Packet
  <1>4. \A k \in Nodes, i \in 1..Len(out) : Packet("ConnectOk", k) # Packet(out[i], n)
    BY <1>2 DEF Packet, NewsKinds
  <1> QED BY <1>1, <1>3, <1>4, SentAdds

(* The news of a state, and what is sent after it, are no answers, and only *)
(* news is put back.                                                        *)
LEMMA SetStateSends ==
    ASSUME NEW n \in Nodes, NEW new, NEW r \in Queues, NEW more \in Seq(NewsKinds),
           late \in [Nodes -> SUBSET NewsKinds], SetState(n, new, r, more)
    PROVE  /\ rx' \in Queues /\ late' \in [Nodes -> SUBSET NewsKinds]
           /\ \A m, k \in Nodes :
                In(rx', m, Packet("ConnectOk", k)) => In(r, m, Packet("ConnectOk", k))
  <1> DEFINE news == News(n, new) \o more
  <1>0. /\ \A x \in NewsKinds : <<x>> \in Seq(NewsKinds)
        /\ <<>> \in Seq(NewsKinds)
    BY EmptySeq
  <1>1. News(n, new) \in Seq(NewsKinds)
    <2>1. \/ News(n, new) = <<>>
          \/ \E x \in NewsKinds : News(n, new) = <<x>>
      BY DEF News, NewsKinds
    <2> QED BY <1>0, <2>1
  <1>2. news \in Seq(NewsKinds)
    BY <1>1, ConcatProperties
  <1>3. SendNews(n, news, r)
    BY DEF SetState
  <1> HIDE DEF news
  <1>4. \A i \in 1..Len(news) : news[i] \in NewsKinds
    BY <1>2, ElementOfSeq
  <1>5. CASE children[n] = {}
    BY <1>3, <1>5 DEF SendNews
  <1>6. CASE children[n] # {}
    <2>1. PICK out \in {<<>>, news} \cup {<<news[k]>> : k \in 1..Len(news)},
               refused \in SUBSET {news[k] : k \in 1..Len(news)} :
            /\ rx' = Sent(r, n, children[n], out)
            /\ late' = [late EXCEPT ![n] = @ \cup refused]
      BY <1>3, <1>6 DEF SendNews
    <2>2. out \in Seq(NewsKinds) /\ refused \in SUBSET NewsKinds
      BY <1>0, <1>2, <1>4
    <2>3. late' \in [Nodes -> SUBSET NewsKinds]
      BY <2>1, <2>2
    <2> QED BY <2>1, <2>2, <2>3, NewsSends
  <1> QED BY <1>5, <1>6

-----------------------------------------------------------------------------
(* Every variable keeps its type, and the root stays the root. *)

(* TypeOK, its part about the queues folded into one set. *)
Types ==
    /\ state \in [Nodes -> {DISC, CONN, REACHES}]
    /\ parent \in [Nodes -> Nodes \cup {NoNode}]
    /\ children \in [Nodes -> SUBSET Nodes]
    /\ asked \in [Nodes -> Nodes \cup {NoNode}]
    /\ rx \in Queues
    /\ late \in [Nodes -> SUBSET NewsKinds]
    /\ state[Root] = REACHES /\ parent[Root] = NoNode /\ asked[Root] = NoNode

LEMMA TypeParts == (TypeOK <=> Types) /\ (TypeOK <=> Types)'
  <1>1. TypeOK <=> Types
    BY DEF TypeOK, Types, Queues
  <1> QED BY <1>1, PTL

LEMMA TypeInit == Init => TypeOK
  <1> SUFFICES ASSUME Init PROVE TypeOK
    OBVIOUS
  <1>1. rx \in Queues
    BY SizeAssumption DEF Init, Queues
  <1> QED BY <1>1, TypeParts, NodesAssumption DEF Init, Types

(* What a step of HandlePacket does to the queues. *)
LEMMA GetsType ==
    ASSUME TypeOK, NEW n \in Nodes, NEW m, NEW kind, Gets(n, kind, m)
    PROVE  /\ Handled(n) \in Queues
           /\ \A k \in Nodes, p \in Packets : In(Handled(n), k, p) => In(rx, k, p)
  BY HandledType, TypeParts DEF Gets, Types

(* A ConnectOk joins the others in m's queue, whose sender is n.            *)
LEMMA AnswerSends ==
    ASSUME NEW n \in Nodes, NEW m \in Nodes, NEW r \in Queues,
           NEW kind \in Kinds
    PROVE  /\ Sent(r, n, {m}, <<kind>>) \in Queues
           /\ \A k \in Nodes, p \in Packets :
                In(Sent(r, n, {m}, <<kind>>), k, p) =>
                  In(r, k, p) \/ (k = m /\ p = Packet(kind, n))
  <1> DEFINE kinds == <<kind>>
  <1>1. kinds \in Seq(Kinds) /\ \A i \in 1..Len(kinds) : kinds[i] = kind
    OBVIOUS
  <1> HIDE DEF kinds
  <1>2. /\ Sent(r, n, {m}, kinds) \in Queues
        /\ \A k \in Nodes, p \in Packets :
                In(Sent(r, n, {m}, kinds), k, p) =>
                  \/ In(r, k, p)
                  \/ k \in {m} /\ \E i \in 1..Len(kinds) : p = Packet(kinds[i], n)
    BY <1>1, SentAdds
  <1>3. \A k \in Nodes, p \in Packets :
                In(Sent(r, n, {m}, kinds), k, p) =>
                  In(r, k, p) \/ (k = m /\ p = Packet(kind, n))
    BY <1>1, <1>2
  <1> QED BY <1>2, <1>3 DEF kinds

(* Every step of n keeps the types. *)
LEMMA TypeNext == TypeOK /\ [Next]_vars => TypeOK'
  <1> SUFFICES ASSUME TypeOK, [Next]_vars PROVE Types'
    BY TypeParts
  <1>s. <<>> \in Seq(NewsKinds) /\ <<"RootUnreachable">> \in Seq(NewsKinds)
    BY DEF NewsKinds
  <1>q. Types /\ rx \in Queues
    BY TypeParts DEF Types
  <1>1. ASSUME NEW n \in Nodes, NEW m \in Nodes, HandleConnectRequest(n, m)
        PROVE  Types'
    <2>1. rx' \in Queues
      BY <1>1, GetsType, AnswerSends DEF HandleConnectRequest, Kinds
    <2> QED BY <1>1, <2>1, <1>q, NodesAssumption DEF HandleConnectRequest, Types
  <1>2. ASSUME NEW n \in Nodes, NEW m \in Nodes, IgnoreConnectRequest(n, m)
        PROVE  Types'
    BY <1>2, GetsType, <1>q, NodesAssumption DEF IgnoreConnectRequest, Types
  <1>3. ASSUME NEW n \in Nodes, NEW m \in Nodes, HandleConnectOk(n, m)
        PROVE  Types'
    <2>0. Handled(n) \in Queues
      BY <1>3, GetsType DEF HandleConnectOk
    <2>1. /\ parent' = [parent EXCEPT ![n] = m] /\ asked' = [asked EXCEPT ![n] = NoNode]
          /\ SetState(n, REACHES, Handled(n), <<>>) /\ children' = children
      BY <1>3 DEF HandleConnectOk
    <2>2. /\ rx' \in Queues /\ state' = [state EXCEPT ![n] = REACHES]
          /\ late' \in [Nodes -> SUBSET NewsKinds]
      BY <1>s, <1>q, <2>0, <2>1, SetStateSends DEF SetState, Types
    <2>3. n # Root
      BY <1>3, <1>q DEF HandleConnectOk, AcceptsConnectOk, DISC, REACHES, Types
    <2> QED BY <2>1, <2>2, <2>3, <1>q, NodesAssumption DEF Types
  <1>3a. ASSUME NEW n \in Nodes, NEW m \in Nodes, IgnoreConnectOk(n, m)
         PROVE  Types'
    BY <1>3a, GetsType, <1>q, NodesAssumption DEF IgnoreConnectOk, Types
  <1>3b. ASSUME NEW n \in Nodes, NEW kind \in NewsKinds, SendAgain(n, kind)
         PROVE  Types'
    <2>1. <<kind>> \in Seq(NewsKinds)
      OBVIOUS
    <2>2. rx' \in Queues
      BY <1>3b, <1>q, <2>1, NewsSends DEF SendAgain
    <2> QED BY <1>3b, <2>2, <1>q, NodesAssumption DEF SendAgain, Types
  <1>4. ASSUME NEW n \in Nodes, NEW m \in Nodes,
               HandleRootUnreachable(n, m) \/ HandleRootReachable(n, m)
        PROVE  Types'
    <2>0. Handled(n) \in Queues /\ UNCHANGED <<parent, children, asked>>
      BY <1>4, GetsType DEF HandleRootUnreachable, HandleRootReachable
    <2>1. CASE rx' = Handled(n) /\ UNCHANGED <<state, late>>
      BY <2>0, <2>1, <1>q, NodesAssumption DEF Types
    <2>2. ASSUME NEW s \in {CONN, REACHES}, m = parent[n],
                 SetState(n, s, Handled(n), <<"RootUnreachable">>)
          PROVE  Types'
      <3>1. /\ rx' \in Queues /\ state' = [state EXCEPT ![n] = s]
            /\ late' \in [Nodes -> SUBSET NewsKinds]
        BY <1>s, <1>q, <2>0, <2>2, SetStateSends DEF SetState, Types
      <3>2. n # Root
        BY <2>2, <1>q, NodesAssumption DEF Types
      <3> QED BY <2>0, <3>1, <3>2, <1>q, NodesAssumption DEF Types
    <2> QED BY <1>4, <2>1, <2>2 DEF HandleRootUnreachable, HandleRootReachable
  <1>5. ASSUME NEW n \in Nodes, HandleStatus(n)
        PROVE  Types'
    <2> DEFINE s == HeardState(state[parent[n]])
    <2>1. s \in {CONN, REACHES} /\ n # Root /\ SetState(n, s, rx, <<>>)
          /\ UNCHANGED <<parent, children, asked>>
      BY <1>5, <1>q DEF HandleStatus, HeardState, OnlyToChildren, Types
    <2> HIDE DEF s
    <2>2. /\ rx' \in Queues /\ state' = [state EXCEPT ![n] = s]
          /\ late' \in [Nodes -> SUBSET NewsKinds]
      BY <1>s, <1>q, <2>1, SetStateSends DEF SetState, Types
    <2> QED BY <2>1, <2>2, <1>q, NodesAssumption DEF Types
  <1>6. ASSUME NEW n \in Nodes, NEW m \in Nodes, Ask(n, m)
        PROVE  Types'
    <2>1. rx' \in Queues
      BY <1>6, <1>q, AnswerSends DEF Ask, Kinds, Types
    <2> QED BY <1>6, <2>1, <1>q, NodesAssumption DEF Ask, Types
  <1>7. ASSUME NEW n \in Nodes, NEW m \in Nodes, DropChild(n, m)
        PROVE  Types'
    BY <1>7, <1>q, NodesAssumption DEF DropChild, Types
  <1>8. ASSUME NEW n \in Nodes, GiveUp(n)
        PROVE  Types'
    BY <1>8, <1>q, NodesAssumption DEF GiveUp, Types
  <1>9. ASSUME NEW n \in Nodes, DropParent(n)
        PROVE  Types'
    <2>1. /\ n # Root /\ parent' = [parent EXCEPT ![n] = NoNode]
          /\ SetState(n, DISC, rx, <<>>) /\ UNCHANGED <<children, asked>>
      BY <1>9, <1>q DEF DropParent, WithoutParent, Types
    <2>2. /\ rx' \in Queues /\ state' = [state EXCEPT ![n] = DISC]
          /\ late' \in [Nodes -> SUBSET NewsKinds]
      BY <1>s, <1>q, <2>1, SetStateSends DEF SetState, Types
    <2> QED BY <2>1, <2>2, <1>q, NodesAssumption DEF Types
  <1>10. ASSUME NEW n \in Nodes, Lose(n)
         PROVE  Types'
    BY <1>10, <1>q, HandledType, NodesAssumption DEF Lose, Types
  <1>11. ASSUME NEW n \in Nodes, Reboot(n)
         PROVE  Types'
    <2>1. rx' \in Queues
      BY <1>11, <1>q, SizeAssumption DEF Reboot, Queues, Types
    <2> QED BY <1>11, <1>q, <2>1, NodesAssumption DEF Reboot, Types
  <1>12. CASE UNCHANGED vars
    BY <1>12, <1>q DEF vars, Types
  <1> QED BY <1>1, <1>2, <1>3, <1>3a, <1>3b, <1>4, <1>5, <1>6, <1>7, <1>8, <1>9,
             <1>10, <1>11, <1>12
          DEF Next, HandlePacket

(* Every variable keeps its type, and nothing a neighbour sends makes the   *)
(* root look for a parent: no guard of the handlers says so by itself.      *)
THEOREM TypeCorrect == Spec => []TypeOK
  BY TypeInit, TypeNext, PTL DEF Spec

-----------------------------------------------------------------------------
(* The node that sent n a ConnectOk has not taken n for its parent since,   *)
(* and no two answers cross between nodes that both could take them: a node *)
(* answers while it has a parent, and does not lose it with an answer in    *)
(* its queue (Waited).                                                      *)
AnswersApart ==
    \A m, n \in Nodes :
      state[n] = DISC /\ OkOnItsWay(m, n) =>
        /\ parent[m] # n
        /\ ~(state[m] = DISC /\ OkOnItsWay(n, m))

(* A node that has a parent waits for no answer. *)
AsksAlone == \A n \in Nodes : parent[n] # NoNode => asked[n] = NoNode

Neighbours == StateFollowsParent /\ ParentIsNoChild /\ NoMutualParents /\ AnswersApart

IInv == TypeOK /\ Neighbours /\ AsksAlone

NoNewAnswer == \A m, n \in Nodes : OkOnItsWay(m, n)' => OkOnItsWay(m, n)
NoNewChild == \A n \in Nodes : children'[n] \subseteq children[n]

LEMMA NeighboursInit == Init => Neighbours
  BY NodesAssumption DEF Init, Neighbours, StateFollowsParent, ParentIsNoChild,
     NoMutualParents, AnswersApart, OkOnItsWay, In, Others, DISC, REACHES

(* A step after which everybody has the parent he had. *)
LEMMA Quiet ==
    ASSUME IInv, UNCHANGED parent, NoNewAnswer, NoNewChild,
           \A n \in Nodes : state'[n] = DISC <=> state[n] = DISC
    PROVE  Neighbours'
  <1>1. StateFollowsParent' /\ ParentIsNoChild' /\ NoMutualParents'
    BY DEF IInv, Neighbours, NoNewChild, StateFollowsParent, ParentIsNoChild,
           NoMutualParents, Others
  <1>2. AnswersApart'
    BY DEF IInv, Neighbours, NoNewAnswer, AnswersApart
  <1> QED BY <1>1, <1>2 DEF Neighbours

(* n loses its parent, and no answer waits in its queue. *)
LEMMA Detached ==
    ASSUME IInv, NEW n \in Nodes, n # Root, NoNewAnswer, NoNewChild,
           \A m \in Nodes : ~OkOnItsWay(m, n)',
           state' = [state EXCEPT ![n] = DISC], parent' = [parent EXCEPT ![n] = NoNode]
    PROVE  Neighbours'
  <1>0. Types
    BY TypeParts DEF IInv
  <1>1. StateFollowsParent' /\ ParentIsNoChild' /\ NoMutualParents'
    BY <1>0, NodesAssumption DEF IInv, Neighbours, NoNewChild, StateFollowsParent,
       ParentIsNoChild, NoMutualParents, Others, Types
  <1>2. AnswersApart'
    BY <1>0, NodesAssumption DEF IInv, Neighbours, NoNewAnswer, AnswersApart, Types
  <1> QED BY <1>1, <1>2 DEF Neighbours

(* n takes m, whose answer it has, for its parent. *)
LEMMA AttachedTo ==
    ASSUME IInv, NEW n \in Nodes, NEW m \in Nodes, n # Root,
           state[n] = DISC, ~Knows(n, m), OkOnItsWay(m, n),
           NoNewAnswer, NoNewChild,
           state' = [state EXCEPT ![n] = REACHES], parent' = [parent EXCEPT ![n] = m]
    PROVE  Neighbours'
  <1>0. Types
    BY TypeParts DEF IInv
  <1>1. StateFollowsParent' /\ ParentIsNoChild'
    BY <1>0, NodesAssumption DEF IInv, Neighbours, NoNewChild, StateFollowsParent,
       ParentIsNoChild, Others, Types, Knows, DISC, REACHES
  <1>2. parent[m] # n /\ ~(state[m] = DISC /\ OkOnItsWay(n, m))
    BY DEF IInv, Neighbours, AnswersApart
  <1>3. m # n
    BY DEF IInv, Neighbours, AnswersApart
  <1>4. NoMutualParents'
    BY <1>0, <1>2, <1>3, NodesAssumption DEF IInv, Neighbours, NoMutualParents, Types
  <1>5. AnswersApart'
    <2> SUFFICES ASSUME NEW k \in Nodes, NEW l \in Nodes,
                        state'[l] = DISC, OkOnItsWay(k, l)'
                 PROVE  parent'[k] # l /\ ~(state'[k] = DISC /\ OkOnItsWay(l, k)')
      BY DEF AnswersApart
    <2>1. l # n /\ state[l] = DISC
      BY <1>0 DEF Types, DISC, REACHES
    <2>2. OkOnItsWay(k, l) /\ (OkOnItsWay(l, k)' => OkOnItsWay(l, k))
      BY DEF NoNewAnswer
    <2>3. parent[k] # l /\ ~(state[k] = DISC /\ OkOnItsWay(l, k))
      BY <2>1, <2>2 DEF IInv, Neighbours, AnswersApart
    <2>4. CASE k = n
      BY <1>0, <1>2, <2>1, <2>2, <2>4 DEF Types, DISC, REACHES
    <2>5. CASE k # n
      BY <1>0, <2>2, <2>3, <2>5 DEF Types
    <2> QED BY <2>4, <2>5
  <1> QED BY <1>1, <1>4, <1>5 DEF Neighbours

(* n takes m, which it did not know, as a child, and answers. *)
LEMMA Answered ==
    ASSUME IInv, NEW n \in Nodes, NEW m \in Nodes,
           state[n] = REACHES, ~Knows(n, m), UNCHANGED <<state, parent>>,
           children' = [children EXCEPT ![n] = @ \cup {m}],
           \A k, l \in Nodes : OkOnItsWay(k, l)' => OkOnItsWay(k, l) \/ (k = n /\ l = m)
    PROVE  Neighbours'
  <1>0. Types
    BY TypeParts DEF IInv
  <1>1. StateFollowsParent' /\ ParentIsNoChild' /\ NoMutualParents'
    BY <1>0 DEF IInv, Neighbours, StateFollowsParent, ParentIsNoChild,
       NoMutualParents, Knows, Types
  <1>2. AnswersApart'
    BY DEF IInv, Neighbours, AnswersApart, Knows, DISC, REACHES
  <1> QED BY <1>1, <1>2 DEF Neighbours

(* The packet kinds that are no answers leave the answers as they are. *)
LEMMA FewerAnswers ==
    ASSUME TypeOK, NEW r \in Queues,
           \A k \in Nodes, p \in Packets : In(r, k, p) => In(rx, k, p),
           \A k, l \in Nodes :
             In(rx', k, Packet("ConnectOk", l)) => In(r, k, Packet("ConnectOk", l))
    PROVE  NoNewAnswer
  <1>1. \A l \in Nodes : Packet("ConnectOk", l) \in Packets
    BY DEF Packet, Packets
  <1> QED BY <1>1 DEF NoNewAnswer, OkOnItsWay

LEMMA NeighboursNext == IInv /\ [Next]_vars => Neighbours'
  <1> SUFFICES ASSUME IInv, [Next]_vars PROVE Neighbours'
    OBVIOUS
  <1>s. <<>> \in Seq(NewsKinds) /\ <<"RootUnreachable">> \in Seq(NewsKinds)
    BY DEF NewsKinds
  <1>q. TypeOK /\ Types /\ rx \in Queues
    BY TypeParts DEF IInv, Types
  <1>k. \A m \in Nodes : Packet("ConnectOk", m) \in Packets
    BY DEF Packet, Packets
  <1>1. ASSUME NEW n \in Nodes, NEW m \in Nodes, HandleConnectRequest(n, m)
        PROVE  Neighbours'
    <2>1. state[n] = REACHES /\ ~Knows(n, m) /\ UNCHANGED <<state, parent>>
          /\ children' = [children EXCEPT ![n] = @ \cup {m}]
      BY <1>1 DEF HandleConnectRequest, AcceptsConnectRequest
    <2>2. \A k \in Nodes, p \in Packets :
            In(rx', k, p) => In(rx, k, p) \/ (k = m /\ p = Packet("ConnectOk", n))
      <3>1. Gets(n, "ConnectRequest", m) /\ rx' = Sent(Handled(n), n, {m}, <<"ConnectOk">>)
        BY <1>1 DEF HandleConnectRequest
      <3>2. "ConnectOk" \in Kinds
        BY DEF Kinds
      <3>3. /\ Handled(n) \in Queues
            /\ \A k \in Nodes, p \in Packets : In(Handled(n), k, p) => In(rx, k, p)
        BY <1>q, <3>1, GetsType
      <3>4. \A k \in Nodes, p \in Packets :
              In(rx', k, p) => In(Handled(n), k, p) \/ (k = m /\ p = Packet("ConnectOk", n))
        BY <3>1, <3>2, <3>3, AnswerSends
      <3> QED BY <3>3, <3>4
    <2>3. \A k, l \in Nodes : OkOnItsWay(k, l)' => OkOnItsWay(k, l) \/ (k = n /\ l = m)
      BY <1>k, <2>2 DEF OkOnItsWay, Packet
    <2> QED BY <2>1, <2>3, Answered
  <1>2. ASSUME NEW n \in Nodes, NEW m \in Nodes, IgnoreConnectRequest(n, m)
        PROVE  Neighbours'
    <2>1. NoNewAnswer
      BY <1>2, <1>q, GetsType, FewerAnswers DEF IgnoreConnectRequest
    <2> QED BY <1>2, <2>1, Quiet DEF IgnoreConnectRequest, NoNewChild
  <1>3. ASSUME NEW n \in Nodes, NEW m \in Nodes, HandleConnectOk(n, m)
        PROVE  Neighbours'
    <2>0. /\ Handled(n) \in Queues
          /\ \A k \in Nodes, p \in Packets : In(Handled(n), k, p) => In(rx, k, p)
          /\ children' = children
      BY <1>3, <1>q, GetsType DEF HandleConnectOk
    <2>1. /\ AcceptsConnectOk(n, m) /\ parent' = [parent EXCEPT ![n] = m]
          /\ SetState(n, REACHES, Handled(n), <<>>)
      BY <1>3 DEF HandleConnectOk
    <2>2. state' = [state EXCEPT ![n] = REACHES] /\ NoNewAnswer
      BY <1>s, <1>q, <2>0, <2>1, SetStateSends, FewerAnswers DEF SetState, Types
    <2>3. state[n] = DISC /\ ~Knows(n, m) /\ n # Root
      BY <1>q, <2>1 DEF AcceptsConnectOk, Types, DISC, REACHES
    <2>4. OkOnItsWay(m, n)
      <3>1. rx[n] # <<>> /\ Head(rx[n]) = Packet("ConnectOk", m)
        BY <1>3 DEF HandleConnectOk, Gets
      <3>2. 1 \in 1..Len(rx[n]) /\ rx[n][1] = Packet("ConnectOk", m)
        BY <1>q, <3>1, EmptySeq DEF Queues
      <3> QED BY <3>2 DEF OkOnItsWay, In
    <2> QED BY <2>0, <2>1, <2>2, <2>3, <2>4, AttachedTo DEF NoNewChild
  <1>3a. ASSUME NEW n \in Nodes, NEW m \in Nodes, IgnoreConnectOk(n, m)
         PROVE  Neighbours'
    <2>1. NoNewAnswer
      BY <1>3a, <1>q, GetsType, FewerAnswers DEF IgnoreConnectOk
    <2> QED BY <1>3a, <2>1, Quiet DEF IgnoreConnectOk, NoNewChild
  <1>3b. ASSUME NEW n \in Nodes, NEW kind \in NewsKinds, SendAgain(n, kind)
         PROVE  Neighbours'
    <2>1. <<kind>> \in Seq(NewsKinds)
      OBVIOUS
    <2>2. NoNewAnswer
      BY <1>3b, <1>q, <2>1, NewsSends DEF SendAgain, NoNewAnswer, OkOnItsWay
    <2> QED BY <1>3b, <2>2, Quiet DEF SendAgain, NoNewChild
  <1>4. ASSUME NEW n \in Nodes, NEW m \in Nodes,
               HandleRootUnreachable(n, m) \/ HandleRootReachable(n, m)
        PROVE  Neighbours'
    <2>0. /\ Handled(n) \in Queues /\ UNCHANGED <<parent, children>>
          /\ \A k \in Nodes, p \in Packets : In(Handled(n), k, p) => In(rx, k, p)
      BY <1>4, <1>q, GetsType DEF HandleRootUnreachable, HandleRootReachable
    <2>1. CASE rx' = Handled(n) /\ UNCHANGED <<state, late>>
      <3>1. NoNewAnswer
        BY <1>q, <2>0, <2>1, FewerAnswers
      <3> QED BY <2>0, <2>1, <3>1, Quiet DEF NoNewChild
    <2>2. ASSUME NEW s \in {CONN, REACHES}, m = parent[n],
                 SetState(n, s, Handled(n), <<"RootUnreachable">>)
          PROVE  Neighbours'
      <3>1. NoNewAnswer /\ state' = [state EXCEPT ![n] = s]
        BY <1>s, <1>q, <2>0, <2>2, SetStateSends, FewerAnswers DEF SetState, Types
      <3>2. n # Root /\ parent[n] # NoNode
        BY <2>2, <1>q, NodesAssumption DEF Types
      <3>3. state[n] # DISC
        BY <3>2 DEF IInv, Neighbours, StateFollowsParent, Others
      <3>4. \A k \in Nodes : state'[k] = DISC <=> state[k] = DISC
        BY <1>q, <3>1, <3>3 DEF Types, DISC, CONN, REACHES
      <3> QED BY <2>0, <3>1, <3>4, Quiet DEF NoNewChild
    <2> QED BY <1>4, <2>1, <2>2 DEF HandleRootUnreachable, HandleRootReachable
  <1>5. ASSUME NEW n \in Nodes, HandleStatus(n)
        PROVE  Neighbours'
    <2> DEFINE s == HeardState(state[parent[n]])
    <2>1. /\ s \in {CONN, REACHES} /\ n # Root /\ parent[n] # NoNode
          /\ SetState(n, s, rx, <<>>) /\ UNCHANGED <<parent, children>>
      BY <1>5, <1>q DEF HandleStatus, HeardState, OnlyToChildren, Types
    <2> HIDE DEF s
    <2>2. NoNewAnswer /\ state' = [state EXCEPT ![n] = s]
      BY <1>s, <1>q, <2>1, SetStateSends, FewerAnswers DEF SetState, Types
    <2>3. state[n] # DISC
      BY <2>1 DEF IInv, Neighbours, StateFollowsParent, Others
    <2>4. \A k \in Nodes : state'[k] = DISC <=> state[k] = DISC
      BY <1>q, <2>1, <2>2, <2>3 DEF Types, DISC, CONN, REACHES
    <2> QED BY <2>1, <2>2, <2>4, Quiet DEF NoNewChild
  <1>6. ASSUME NEW n \in Nodes, NEW m \in Nodes, Ask(n, m)
        PROVE  Neighbours'
    <2>1. \A k \in Nodes, p \in Packets :
            In(rx', k, p) => In(rx, k, p) \/ (k = m /\ p = Packet("ConnectRequest", n))
      <3>1. rx' = Sent(rx, n, {m}, <<"ConnectRequest">>)
        BY <1>6 DEF Ask
      <3>2. "ConnectRequest" \in Kinds
        BY DEF Kinds
      <3> QED BY <1>q, <3>1, <3>2, AnswerSends
    <2>2. NoNewAnswer
      BY <1>k, <2>1 DEF NoNewAnswer, OkOnItsWay, Packet
    <2> QED BY <1>6, <2>2, Quiet DEF Ask, NoNewChild
  <1>7. ASSUME NEW n \in Nodes, NEW m \in Nodes, DropChild(n, m)
        PROVE  Neighbours'
    <2>1. NoNewAnswer
      BY <1>7 DEF DropChild, NoNewAnswer, OkOnItsWay
    <2>2. NoNewChild
      BY <1>7, <1>q DEF DropChild, NoNewChild, Types
    <2> QED BY <1>7, <2>1, <2>2, Quiet DEF DropChild
  <1>8. ASSUME NEW n \in Nodes, GiveUp(n)
        PROVE  Neighbours'
    BY <1>8, Quiet DEF GiveUp, NoNewAnswer, NoNewChild, OkOnItsWay
  <1>9. ASSUME NEW n \in Nodes, DropParent(n)
        PROVE  Neighbours'
    <2>1. /\ n # Root /\ parent' = [parent EXCEPT ![n] = NoNode] /\ Waited(n)
          /\ SetState(n, DISC, rx, <<>>) /\ children' = children
      BY <1>9, <1>q DEF DropParent, WithoutParent, Types
    <2>2. NoNewAnswer /\ state' = [state EXCEPT ![n] = DISC]
      BY <1>s, <1>q, <2>1, SetStateSends, FewerAnswers DEF SetState, Types
    <2>3. \A m \in Nodes : ~OkOnItsWay(m, n)'
      BY <2>1, <2>2 DEF NoNewAnswer, Waited, OkOnItsWay, In
    <2> QED BY <2>1, <2>2, <2>3, Detached DEF NoNewChild
  <1>10. ASSUME NEW n \in Nodes, Lose(n)
         PROVE  Neighbours'
    <2>1. NoNewAnswer
      BY <1>10, <1>q, HandledType, FewerAnswers DEF Lose
    <2> QED BY <1>10, <2>1, Quiet DEF Lose, NoNewChild
  <1>11. ASSUME NEW n \in Nodes, Reboot(n)
         PROVE  Neighbours'
    <2>1. \A m \in Nodes : ~OkOnItsWay(m, n)'
      BY <1>11, <1>q DEF Reboot, OkOnItsWay, In, Queues
    <2>2. NoNewAnswer
      BY <1>11, <1>q, <2>1 DEF Reboot, NoNewAnswer, OkOnItsWay, In, Queues
    <2>3. NoNewChild
      BY <1>11, <1>q DEF Reboot, NoNewChild, Types
    <2> QED BY <1>11, <2>1, <2>2, <2>3, Detached DEF Reboot
  <1>12. CASE UNCHANGED vars
    BY <1>12, Quiet DEF vars, NoNewAnswer, NoNewChild, OkOnItsWay
  <1> QED BY <1>1, <1>2, <1>3, <1>3a, <1>3b, <1>4, <1>5, <1>6, <1>7, <1>8, <1>9,
             <1>10, <1>11, <1>12
          DEF Next, HandlePacket

LEMMA AsksAloneNext == IInv /\ [Next]_vars => AsksAlone'
  <1> SUFFICES ASSUME IInv, [Next]_vars, NEW n \in Nodes, parent'[n] # NoNode
               PROVE  asked'[n] = NoNode
    BY DEF AsksAlone
  <1>q. Types /\ AsksAlone /\ (n \in Others => (parent[n] = NoNode <=> state[n] = DISC))
    BY TypeParts DEF IInv, Neighbours, StateFollowsParent
  <1>1. CASE \E k, m \in Nodes : HandlePacket(k) \/ HandleStatus(k) \/ DropChild(k, m)
    BY <1>1, <1>q
    DEF HandlePacket, HandleConnectRequest, IgnoreConnectRequest, HandleConnectOk,
        IgnoreConnectOk, HandleRootUnreachable, HandleRootReachable, HandleStatus, DropChild,
        AsksAlone, Types
  <1>2. CASE \E k, m \in Nodes : Ask(k, m)
    BY <1>2, <1>q DEF Ask, AsksAlone, Types, Others
  <1>3. CASE \E k \in Nodes, kind \in NewsKinds :
               GiveUp(k) \/ DropParent(k) \/ Lose(k) \/ Reboot(k) \/ SendAgain(k, kind)
    BY <1>3, <1>q
    DEF GiveUp, DropParent, WithoutParent, Lose, Reboot, SendAgain, AsksAlone, Types
  <1>4. CASE UNCHANGED vars
    BY <1>4, <1>q DEF vars, AsksAlone
  <1> QED BY <1>1, <1>2, <1>3, <1>4 DEF Next, NewsKinds

LEMMA Invariant == Spec => []IInv
  <1>1. Init => IInv
    BY TypeInit, NeighboursInit DEF IInv, AsksAlone, Init
  <1>2. IInv /\ [Next]_vars => IInv'
    BY TypeNext, NeighboursNext, AsksAloneNext DEF IInv
  <1> QED BY <1>1, <1>2, PTL DEF Spec

(* A node is disconnected exactly while it has no parent, whichever of its  *)
(* handlers and keep-alive jobs changed the two last.                       *)
THEOREM StateFollowsParentCorrect == Spec => []StateFollowsParent
  BY Invariant, PTL DEF IInv, Neighbours

(* In meshes of any size no neighbour is both the parent and a child. *)
THEOREM ParentIsNoChildCorrect == Spec => []ParentIsNoChild
  BY Invariant, PTL DEF IInv, Neighbours

(* In meshes of any size, with queues of any length, answers as late as     *)
(* Waited lets them be and any losses, no two nodes become each other's     *)
(* parents.                                                                 *)
THEOREM NoMutualParentsCorrect == Spec => []NoMutualParents
  BY Invariant, PTL DEF IInv, Neighbours

-----------------------------------------------------------------------------
(* The connection of each node implements Attachment.                       *)
LEMMA AttachedNext ==
    ASSUME IInv, [Next]_vars, NEW n \in Others
    PROVE  [Attached(n)!Next]_(Attached(n)!vars)
  <1>q. TypeOK /\ Types
    BY TypeParts DEF IInv
  <1>d. n \in Nodes /\ n # Root /\ (parent[n] = NoNode <=> state[n] = DISC)
    BY DEF IInv, Neighbours, StateFollowsParent, Others
  <1>1. ASSUME NEW k \in Nodes, NEW m \in Nodes, HandleConnectOk(k, m)
        PROVE  [Attached(n)!Next]_(Attached(n)!vars)
    <2>1. CASE k = n
      <3>1. /\ parent[n] = NoNode /\ asked[n] = m /\ asked[n] # NoNode
            /\ parent'[n] = m /\ asked'[n] = NoNode /\ state'[n] = REACHES
        BY <1>1, <1>d, <1>q, <2>1, NodesAssumption
        DEF HandleConnectOk, AcceptsConnectOk, SetState, Types
      <3> QED BY <3>1 DEF Attached!Next, Attached!Attach
    <2>2. CASE k # n
      <3>1. parent'[n] = parent[n] /\ asked'[n] = asked[n] /\ state'[n] = state[n]
        BY <1>1, <1>q, <1>d, <2>2 DEF HandleConnectOk, SetState, Types
      <3> QED BY <3>1 DEF Attached!vars
    <2> QED BY <2>1, <2>2
  <1>2. ASSUME NEW k \in Nodes, NEW m \in Nodes,
               HandleRootUnreachable(k, m) \/ HandleRootReachable(k, m)
        PROVE  [Attached(n)!Next]_(Attached(n)!vars)
    <2>1. UNCHANGED <<parent, asked>>
      BY <1>2 DEF HandleRootUnreachable, HandleRootReachable
    <2>2. state'[n] = state[n] \/ parent[n] # NoNode
      BY <1>2, <1>q, <1>d, NodesAssumption
      DEF HandleRootUnreachable, HandleRootReachable, SetState, Types
    <2> QED BY <2>1, <2>2 DEF Attached!Next, Attached!Hear, Attached!vars
  <1>3. ASSUME NEW k \in Nodes, HandleStatus(k)
        PROVE  [Attached(n)!Next]_(Attached(n)!vars)
    <2>1. UNCHANGED <<parent, asked>>
      BY <1>3 DEF HandleStatus
    <2>2. state'[n] = state[n] \/ parent[n] # NoNode
      BY <1>3, <1>q, <1>d DEF HandleStatus, OnlyToChildren, SetState, Types
    <2> QED BY <2>1, <2>2 DEF Attached!Next, Attached!Hear, Attached!vars
  <1>4. ASSUME NEW k \in Nodes, NEW m \in Nodes, Ask(k, m)
        PROVE  [Attached(n)!Next]_(Attached(n)!vars)
    <2>1. CASE k = n
      BY <1>4, <1>q, <1>d, <2>1 DEF Ask, Attached!Next, Attached!Ask, Types
    <2>2. CASE k # n
      BY <1>4, <1>q, <1>d, <2>2 DEF Ask, Attached!vars, Types
    <2> QED BY <2>1, <2>2
  <1>5. ASSUME NEW k \in Nodes, GiveUp(k)
        PROVE  [Attached(n)!Next]_(Attached(n)!vars)
    <2>1. CASE k = n
      BY <1>5, <1>q, <1>d, <2>1 DEF GiveUp, Attached!Next, Attached!GiveUp, Types
    <2>2. CASE k # n
      BY <1>5, <1>q, <1>d, <2>2 DEF GiveUp, Attached!vars, Types
    <2> QED BY <2>1, <2>2
  <1>6. ASSUME NEW k \in Nodes, DropParent(k)
        PROVE  [Attached(n)!Next]_(Attached(n)!vars)
    <2>1. CASE k = n
      <3>1. parent'[n] = NoNode /\ asked'[n] = asked[n] /\ state'[n] = DISC
        BY <1>6, <1>q, <1>d, <2>1 DEF DropParent, WithoutParent, SetState, Types
      <3>2. asked[n] = NoNode
        BY <1>6, <1>d, <2>1 DEF DropParent, IInv, AsksAlone
      <3> QED BY <3>1, <3>2 DEF Attached!Next, Attached!Detach, DISC, REACHES
    <2>2. CASE k # n
      BY <1>6, <1>q, <1>d, <2>2 DEF DropParent, WithoutParent, SetState, Attached!vars, Types
    <2> QED BY <2>1, <2>2
  <1>7. ASSUME NEW k \in Nodes, Reboot(k)
        PROVE  [Attached(n)!Next]_(Attached(n)!vars)
    <2>1. CASE k = n
      BY <1>7, <1>q, <1>d, <2>1
      DEF Reboot, Attached!Next, Attached!Detach, Types, DISC, REACHES
    <2>2. CASE k # n
      BY <1>7, <1>q, <1>d, <2>2 DEF Reboot, Attached!vars, Types
    <2> QED BY <2>1, <2>2
  <1>8. ASSUME NEW k \in Nodes, NEW m \in Nodes,
               \/ HandleConnectRequest(k, m) \/ IgnoreConnectRequest(k, m)
               \/ IgnoreConnectOk(k, m) \/ DropChild(k, m) \/ Lose(k)
               \/ \E kind \in NewsKinds : SendAgain(k, kind)
        PROVE  [Attached(n)!Next]_(Attached(n)!vars)
    BY <1>8 DEF HandleConnectRequest, IgnoreConnectRequest, IgnoreConnectOk, DropChild,
                Lose, SendAgain, Attached!vars
  <1>9. CASE UNCHANGED vars
    BY <1>9 DEF vars, Attached!vars
  <1>10. CASE Next
    <2>1. PICK k \in Nodes :
            \/ HandlePacket(k) \/ HandleStatus(k)
            \/ \E kind \in NewsKinds : SendAgain(k, kind)
            \/ \E m \in Nodes : Ask(k, m) \/ DropChild(k, m)
            \/ GiveUp(k) \/ DropParent(k) \/ Lose(k) \/ Reboot(k)
      BY <1>10 DEF Next
    <2>2. CASE HandlePacket(k)
      BY <1>1, <1>2, <1>8, <2>2 DEF HandlePacket
    <2> QED BY <1>3, <1>4, <1>5, <1>6, <1>7, <1>8, <1>d, <2>1, <2>2
  <1> QED BY <1>9, <1>10

(* However its neighbours behave, each node has one parent at a time, which *)
(* it asked and which answered, and claims to reach the root only through   *)
(* one.                                                                     *)
THEOREM EachAttachedCorrect == Spec => EachAttached
  <1>1. IInv /\ [Next]_vars
          => [\A n \in Others : [Attached(n)!Next]_(Attached(n)!vars)]_vars
    BY AttachedNext
  <1> QED BY <1>1, Invariant, PTL DEF Spec, EachAttached
=============================================================================
