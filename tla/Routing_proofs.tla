---------------------------- MODULE Routing_proofs ----------------------------
(***************************************************************************)
(* Routes are unique, and answers go back, in every mesh, whichever nodes  *)
(* may become parents of which.                                            *)
(*                                                                         *)
(* First what the operators on tables and queues yield, then what every    *)
(* handler does to them (Learned, Moved), the types, and the invariant     *)
(* (RouteInv): the steps that take no child keep it (Shrinks), those in    *)
(* which a node learns, and those that take one (Grows).                   *)
(***************************************************************************)
EXTENDS Routing, SequenceTheorems, WellFoundedInduction, TLAPS

(* Induction over the numbers, as a fact about a set of them. *)
LEMMA NatSet ==
    ASSUME NEW S, 0 \in S, \A n \in Nat : n \in S => n + 1 \in S
    PROVE  Nat \subseteq S
  <1> DEFINE T == Nat \ S
             R == OpToRel(<, Nat)
  <1> SUFFICES ASSUME T # {} PROVE FALSE
    OBVIOUS
  <1>1. IsWellFoundedOn(R, Nat)
    BY NatLessThanWellFounded
  <1>2. T \subseteq Nat
    OBVIOUS
  <1> HIDE DEF T, R
  <1>3. PICK x \in T : \A y \in T : ~(<<y, x>> \in R)
    BY <1>1, <1>2, WFMin
  <1>4. \A a, b \in Nat : <<a, b>> \in R <=> a < b
    BY DEF R, OpToRel
  <1>5. x \in Nat /\ x # 0
    BY <1>2 DEF T
  <1>6. x - 1 \in Nat /\ x - 1 < x /\ (x - 1) + 1 = x
    BY <1>5
  <1>7. x - 1 \in T
    BY <1>5, <1>6 DEF T
  <1> QED BY <1>3, <1>4, <1>5, <1>6, <1>7

(* What is not empty has a least element. *)
LEMMA Least ==
    ASSUME NEW T \in SUBSET Nat, T # {}
    PROVE  \E x \in T : \A y \in T : x <= y
  <1> DEFINE R == OpToRel(<, Nat)
  <1>1. IsWellFoundedOn(R, Nat)
    BY NatLessThanWellFounded
  <1> HIDE DEF R
  <1>2. PICK x \in T : \A y \in T : ~(<<y, x>> \in R)
    BY <1>1, WFMin
  <1>3. \A a, b \in Nat : <<a, b>> \in R <=> a < b
    BY DEF R, OpToRel
  <1>4. ASSUME NEW y \in T PROVE x <= y
    <2>1. x \in Nat /\ y \in Nat /\ ~(y < x)
      BY <1>2, <1>3
    <2> QED BY <2>1
  <1> QED BY <1>4

-----------------------------------------------------------------------------
(* The operators on tables. *)
LEMMA AppendSet ==
    ASSUME NEW S, NEW s \in Seq(S), NEW e \in S
    PROVE  /\ \A x : x \in ToSet(Append(s, e)) <=> x \in ToSet(s) \/ x = e
           /\ ToSet(Append(s, e)) = ToSet(s) \cup {e}
  <1> DEFINE t == Append(s, e)
  <1>1. Len(s) \in Nat /\ DOMAIN s = 1..Len(s)
    OBVIOUS
  <1>2. /\ t \in Seq(S) /\ Len(t) = Len(s) + 1 /\ t[Len(s) + 1] = e
        /\ \A i \in 1..Len(s) : t[i] = s[i]
    BY <1>1, AppendProperties
  <1> HIDE DEF t
  <1>3. DOMAIN t = 1..Len(s) + 1
    BY <1>2
  <1>4. \A i \in 1..Len(s) + 1 : i \in 1..Len(s) \/ i = Len(s) + 1
    BY <1>1
  <1>5. \A i \in 1..Len(s) : i \in 1..Len(s) + 1
    BY <1>1
  <1>6. Len(s) + 1 \in 1..Len(s) + 1
    BY <1>1
  <1>7. \A x : x \in ToSet(t) <=> \E i \in 1..Len(s) + 1 : t[i] = x
    BY <1>3 DEF ToSet
  <1>8. \A x : x \in ToSet(s) <=> \E i \in 1..Len(s) : s[i] = x
    BY <1>1 DEF ToSet
  <1>9. \A x : x \in ToSet(t) <=> x \in ToSet(s) \/ x = e
    BY <1>2, <1>4, <1>5, <1>6, <1>7, <1>8
  <1> QED BY <1>9 DEF t

LEMMA WithoutFacts ==
    ASSUME NEW S, NEW s \in Seq(S), NEW m
    PROVE  /\ Without(s, m) \in Seq(S) /\ Len(Without(s, m)) <= Len(s)
           /\ ToSet(Without(s, m)) = ToSet(s) \ {m}
  <1> DEFINE Keeps(f, n) ==
               f = [i \in 0..n |->
                      IF i = 0 THEN <<>>
                      ELSE IF s[i] = m THEN f[i - 1] ELSE Append(f[i - 1], s[i])]
             kept == CHOOSE f : Keeps(f, Len(s))
             Made == {n \in Nat : \E f : Keeps(f, n)}
  <1>0. Len(s) \in Nat /\ DOMAIN s = 1..Len(s)
    OBVIOUS
  <1>1. Without(s, m) = kept[Len(s)]
    BY DEF Without
  <1>2. Nat \subseteq Made
    <2>1. 0 \in Made
      <3>1. Keeps([i \in 0..0 |-> <<>>], 0)
        <4>1. \A i \in 0..0 : i = 0
          OBVIOUS
        <4> QED BY <4>1
      <3> QED BY <3>1
    <2>2. ASSUME NEW n \in Nat, n \in Made PROVE n + 1 \in Made
      <3>1. PICK f : Keeps(f, n)
        BY <2>2
      <3> DEFINE last == IF s[n + 1] = m THEN f[n] ELSE Append(f[n], s[n + 1])
                 g == [i \in 0..n + 1 |-> IF i <= n THEN f[i] ELSE last]
      <3>2. \A i \in 0..n : f[i] = IF i = 0 THEN <<>>
                                   ELSE IF s[i] = m THEN f[i - 1] ELSE Append(f[i - 1], s[i])
        BY <3>1
      <3>3. \A i \in 0..n + 1 : i <= n \/ i = n + 1
        OBVIOUS
      <3>4. \A i \in 0..n : g[i] = f[i]
        OBVIOUS
      <3>5. g[n + 1] = last
        OBVIOUS
      <3> HIDE DEF Keeps, g
      <3>6. ASSUME NEW i \in 0..n + 1
            PROVE  g[i] = IF i = 0 THEN <<>>
                          ELSE IF s[i] = m THEN g[i - 1] ELSE Append(g[i - 1], s[i])
        <4>1. CASE i = 0
          BY <3>2, <3>4, <4>1
        <4>2. CASE i # 0 /\ i <= n
          <5>1. i \in 0..n /\ i - 1 \in 0..n
            BY <4>2
          <5>2. g[i] = f[i] /\ g[i - 1] = f[i - 1]
            BY <3>4, <5>1
          <5> QED BY <3>2, <4>2, <5>1, <5>2
        <4>3. CASE i = n + 1
          <5>1. i - 1 = n /\ n \in 0..n /\ i # 0
            BY <4>3
          <5>2. g[i - 1] = f[n]
            BY <3>4, <5>1
          <5> QED BY <3>5, <4>3, <5>1, <5>2
        <4> QED BY <4>1, <4>2, <4>3, <3>3
      <3>7. Keeps(g, n + 1)
        BY <3>6 DEF Keeps, g
      <3> QED BY <3>7
    <2> HIDE DEF Made
    <2> QED BY <2>1, <2>2, NatSet
  <1> HIDE DEF Made
  <1>3. \E f : Keeps(f, Len(s))
    BY <1>0, <1>2 DEF Made
  <1>4. Keeps(kept, Len(s))
    BY <1>3
  <1> HIDE DEF kept
  <1>5. kept[0] = <<>>
        /\ \A n \in 0..Len(s) - 1 :
             kept[n + 1] = IF s[n + 1] = m THEN kept[n] ELSE Append(kept[n], s[n + 1])
    <2>1. \A i \in 0..Len(s) :
            kept[i] = IF i = 0 THEN <<>>
                      ELSE IF s[i] = m THEN kept[i - 1] ELSE Append(kept[i - 1], s[i])
      BY <1>4
    <2>2. ASSUME NEW n \in 0..Len(s) - 1
          PROVE  n + 1 \in 0..Len(s) /\ n + 1 # 0 /\ (n + 1) - 1 = n
      BY <1>0
    <2>3. 0 \in 0..Len(s)
      BY <1>0
    <2> QED BY <2>1, <2>2, <2>3
  <1> DEFINE Good(n) ==
               /\ kept[n] \in Seq(S) /\ Len(kept[n]) <= n
               /\ \A e : e \in ToSet(kept[n]) <=> e # m /\ \E i \in 1..n : s[i] = e
             Done == {n \in Nat : n <= Len(s) => Good(n)}
  <1>6. Nat \subseteq Done
    <2>1. Good(0)
      <3>1. kept[0] \in Seq(S) /\ Len(kept[0]) <= 0 /\ DOMAIN kept[0] = {}
        BY <1>5
      <3>2. \A e : e \notin ToSet(kept[0]) /\ ~ \E i \in 1..0 : s[i] = e
        BY <3>1 DEF ToSet
      <3> QED BY <3>1, <3>2
    <2>2. ASSUME NEW n \in Nat, n \in Done, n + 1 <= Len(s) PROVE Good(n + 1)
      <3>1. n \in 0..Len(s) - 1 /\ n + 1 \in 1..Len(s) /\ s[n + 1] \in S
        BY <1>0, <2>2
      <3>2. Good(n)
        BY <2>2, <3>1
      <3>3. kept[n + 1] = IF s[n + 1] = m THEN kept[n] ELSE Append(kept[n], s[n + 1])
        BY <1>5, <3>1
      <3>4. \A i \in 1..n + 1 : i \in 1..n \/ i = n + 1
        OBVIOUS
      <3>5. \A i \in 1..n : i \in 1..n + 1
        OBVIOUS
      <3>6. n + 1 \in 1..n + 1
        OBVIOUS
      <3> HIDE DEF Done
      <3>7. CASE s[n + 1] = m
        BY <3>2, <3>3, <3>4, <3>5, <3>7
      <3>8. CASE s[n + 1] # m
        <4>1. kept[n + 1] = Append(kept[n], s[n + 1])
          BY <3>3, <3>8
        <4>2. kept[n + 1] \in Seq(S) /\ Len(kept[n + 1]) = Len(kept[n]) + 1 /\ Len(kept[n]) \in Nat
          BY <3>1, <3>2, <4>1, AppendProperties
        <4>3. \A e : e \in ToSet(kept[n + 1]) <=> e \in ToSet(kept[n]) \/ e = s[n + 1]
          BY <3>1, <3>2, <4>1, AppendSet
        <4> QED BY <3>2, <3>4, <3>5, <3>6, <3>8, <4>2, <4>3
      <3> QED BY <3>7, <3>8
    <2> HIDE DEF Good
    <2>3. 0 \in Done
      BY <2>1
    <2>4. ASSUME NEW n \in Nat, n \in Done PROVE n + 1 \in Done
      BY <2>2, <2>4
    <2> HIDE DEF Done
    <2> QED BY <2>3, <2>4, NatSet
  <1> HIDE DEF Good
  <1>7. Good(Len(s))
    BY <1>0, <1>6
  <1> USE DEF Good
  <1>8. \A e : e \in ToSet(s) <=> \E i \in 1..Len(s) : s[i] = e
    BY <1>0 DEF ToSet
  <1> QED BY <1>1, <1>7, <1>8

LEMMA WithoutEmpty == ASSUME NEW m PROVE Without(<<>>, m) = <<>>
  <1>1. Without(<<>>, m) \in Seq({}) /\ Len(Without(<<>>, m)) <= 0
    BY WithoutFacts, EmptySeq
  <1> QED BY <1>1, EmptySeq

LEMMA RemoveIfFacts ==
    ASSUME NEW S, NEW s \in Seq(S), NEW m
    PROVE  RemoveIf(s, m) \in Seq(S) /\ ToSet(RemoveIf(s, m)) \subseteq ToSet(s)
  <1> DEFINE a == Without(s, m)
             b == SubSeq(s, Len(a) + 1, Len(s))
             T == ToSet(s)
  <1>0. Len(s) \in Nat /\ DOMAIN s = 1..Len(s) /\ \A i \in 1..Len(s) : s[i] \in S
    OBVIOUS
  <1>1. a \in Seq(S) /\ ToSet(a) = T \ {m}
    BY WithoutFacts
  <1>2. RemoveIf(s, m) = a \o b
    BY DEF RemoveIf
  <1>3. Len(a) \in Nat /\ DOMAIN a = 1..Len(a)
    BY <1>1
  <1> HIDE DEF a
  <1>4. \A i \in Len(a) + 1..Len(s) : s[i] \in S /\ s[i] \in T
    BY <1>0, <1>3 DEF ToSet
  <1>5. b \in Seq(S) /\ b \in Seq(T)
    BY <1>0, <1>3, <1>4, SubSeqProperties
  <1>6. a \in Seq(T)
    <2>1. \A i \in 1..Len(a) : a[i] \in T
      BY <1>1, <1>3 DEF ToSet
    <2> QED BY <1>1, <1>3, <2>1
  <1> HIDE DEF b
  <1>7. a \o b \in Seq(S) /\ a \o b \in Seq(T)
    BY <1>1, <1>5, <1>6, ConcatProperties
  <1>8. \A t \in Seq(T) : ToSet(t) \subseteq T
    BY DEF ToSet
  <1> QED BY <1>2, <1>7, <1>8

(* What a node's tables are after it learned that f is behind its child h.  *)
Knows(n, f, h, new) ==
    /\ new \in [Nodes -> Seq(Nodes)]
    /\ \A c \in Nodes : c \notin Children(n) => new[c] = <<>>
    /\ \A c, e \in Nodes : e \in ToSet(new[c]) =>
         e \in ToSet(table[n][c]) \/ (e = f /\ c = h /\ h \in Children(n))
    /\ h \in Children(n) => f \in ToSet(new[h])
    /\ h \in Children(n) =>
         \/ f \in ToSet(table[n][h]) /\ new = table[n]
         \/ \A c \in Nodes : f \in ToSet(new[c]) => c = h

LEMMA LearnFacts ==
    ASSUME TypeOK, NEW n \in Nodes, NEW f \in Nodes, NEW h \in Nodes
    PROVE  Knows(n, f, h, Learn(n, f, h))
  <1> DEFINE new == Learn(n, f, h)
  <1>1. table[n] \in [Nodes -> Seq(Nodes)]
        /\ \A c \in Nodes : c \notin Children(n) => table[n][c] = <<>>
    BY DEF TypeOK
  <1>2. CASE h \notin Children(n) \/ f \in ToSet(table[n][h])
    <2>1. new = table[n]
      BY <1>2 DEF Learn
    <2> HIDE DEF new
    <2> QED BY <1>1, <1>2, <2>1 DEF new, Knows
  <1>3. CASE ~(h \notin Children(n) \/ f \in ToSet(table[n][h]))
    <2>1. new = [c \in Nodes |-> IF c = h THEN Append(table[n][c], f)
                                          ELSE Without(table[n][c], f)]
      BY <1>3 DEF Learn
    <2> HIDE DEF new
    <2>2. new[h] = Append(table[n][h], f)
          /\ \A c \in Nodes : c # h => new[c] = Without(table[n][c], f)
      BY <2>1
    <2>3. \A c \in Nodes : table[n][c] \in Seq(Nodes)
      BY <1>1
    <2>4. new[h] \in Seq(Nodes)
          /\ \A e : e \in ToSet(new[h]) <=> e \in ToSet(table[n][h]) \/ e = f
      BY <2>2, <2>3, AppendProperties, AppendSet
    <2>5. ASSUME NEW c \in Nodes, c # h
          PROVE  new[c] \in Seq(Nodes) /\ ToSet(new[c]) = ToSet(table[n][c]) \ {f}
      BY <2>2, <2>3, <2>5, WithoutFacts
    <2>6. \A c \in Nodes : new[c] \in Seq(Nodes)
      BY <2>4, <2>5
    <2>7. new \in [Nodes -> Seq(Nodes)]
      BY <2>1, <2>6
    <2>8. ASSUME NEW c \in Nodes, c \notin Children(n) PROVE new[c] = <<>>
      BY <1>1, <1>3, <2>2, <2>8, WithoutEmpty
    <2>9. ASSUME NEW c \in Nodes, NEW e \in Nodes, e \in ToSet(new[c])
          PROVE  e \in ToSet(table[n][c]) \/ (e = f /\ c = h /\ h \in Children(n))
      BY <1>3, <2>4, <2>5, <2>9
    <2>10. \A c \in Nodes : f \in ToSet(new[c]) => c = h
      BY <2>5
    <2> QED BY <2>4, <2>7, <2>8, <2>9, <2>10 DEF new, Knows
  <1> QED BY <1>2, <1>3

-----------------------------------------------------------------------------
(* The queues. *)
Bounded(q) == q \in [Nodes -> Seq(Packets)] /\ \A k \in Nodes : Len(q[k]) <= RX_SIZE
AtEnd(q, s, m, p) ==
    \A k \in Nodes : \A i \in DOMAIN s[k] :
      \/ i \in DOMAIN q[k] /\ s[k][i] = q[k][i]
      \/ k = m /\ i = Len(q[k]) + 1 /\ s[k][i] = p

LEMMA SentFacts ==
    ASSUME NEW q, Bounded(q), NEW m \in Nodes \cup {NoNode}, NEW p,
           m # NoNode => p \in Packets
    PROVE  Bounded(Sent(q, m, p)) /\ AtEnd(q, Sent(q, m, p), m, p)
  <1> DEFINE s == Sent(q, m, p)
  <1>0. q \in [Nodes -> Seq(Packets)] /\ \A k \in Nodes : Len(q[k]) <= RX_SIZE
    BY DEF Bounded
  <1>1. CASE ~(m # NoNode /\ HasRoom(q[m]))
    <2>1. s = q
      BY <1>1 DEF Sent
    <2> HIDE DEF s
    <2>2. Bounded(s) /\ AtEnd(q, s, m, p)
      BY <2>1 DEF AtEnd
    <2> QED BY <2>2 DEF s
  <1>2. CASE m # NoNode /\ HasRoom(q[m])
    <2>1. s = [q EXCEPT ![m] = Append(@, p)] /\ m \in Nodes /\ p \in Packets
      BY <1>2 DEF Sent
    <2> HIDE DEF s
    <2>2. q[m] \in Seq(Packets) /\ Len(q[m]) \in Nat /\ Len(q[m]) < RX_SIZE
      BY <1>0, <1>2, <2>1 DEF HasRoom
    <2>3. /\ s[m] \in Seq(Packets) /\ Len(s[m]) = Len(q[m]) + 1
          /\ s[m][Len(q[m]) + 1] = p /\ \A i \in 1..Len(q[m]) : s[m][i] = q[m][i]
      BY <1>0, <2>1, <2>2, AppendProperties
    <2>4. \A k \in Nodes : k # m => s[k] = q[k]
      BY <1>0, <2>1
    <2>5. s \in [Nodes -> Seq(Packets)]
      BY <1>0, <2>1, <2>3
    <2>6. Len(s[m]) <= RX_SIZE
      BY <2>2, <2>3, SizeAssumption
    <2>7. ASSUME NEW i \in DOMAIN s[m]
          PROVE  \/ i \in DOMAIN q[m] /\ s[m][i] = q[m][i]
                 \/ i = Len(q[m]) + 1 /\ s[m][i] = p
      <3>1. i \in 1..Len(q[m]) + 1
        BY <2>3
      <3>2. i \in 1..Len(q[m]) \/ i = Len(q[m]) + 1
        BY <2>2, <3>1
      <3> QED BY <2>2, <2>3, <3>2
    <2>8. Bounded(s)
      BY <1>0, <2>1, <2>4, <2>5, <2>6 DEF Bounded
    <2>9. AtEnd(q, s, m, p)
      BY <2>4, <2>7 DEF AtEnd
    <2> QED BY <2>8, <2>9 DEF s
  <1> QED BY <1>1, <1>2

LEMMA HandledFacts ==
    ASSUME TypeOK, NEW n \in Nodes, rx[n] # <<>>
    PROVE  /\ Bounded(Handled(n))
           /\ Head(rx[n]) \in Packets /\ 1 \in DOMAIN rx[n] /\ Head(rx[n]) = rx[n][1]
           /\ \A k \in Nodes : k # n => Handled(n)[k] = rx[k]
           /\ Len(Handled(n)[n]) + 1 = Len(rx[n])
           /\ \A i \in DOMAIN Handled(n)[n] :
                i + 1 \in DOMAIN rx[n] /\ Handled(n)[n][i] = rx[n][i + 1]
  <1>1. rx \in [Nodes -> Seq(Packets)] /\ \A k \in Nodes : Len(rx[k]) <= RX_SIZE
    BY DEF TypeOK
  <1>2. /\ Head(rx[n]) \in Packets /\ Tail(rx[n]) \in Seq(Packets)
        /\ Len(Tail(rx[n])) = Len(rx[n]) - 1
        /\ \A i \in 1..Len(Tail(rx[n])) : Tail(rx[n])[i] = rx[n][i + 1]
    BY <1>1, HeadTailProperties
  <1>3. Len(rx[n]) \in Nat \ {0} /\ DOMAIN rx[n] = 1..Len(rx[n]) /\ Head(rx[n]) = rx[n][1]
    BY <1>1, EmptySeq
  <1>4. Handled(n)[n] = Tail(rx[n]) /\ \A k \in Nodes : k # n => Handled(n)[k] = rx[k]
    BY <1>1 DEF Handled
  <1>5. Handled(n) \in [Nodes -> Seq(Packets)]
    BY <1>1, <1>2 DEF Handled
  <1>6. \A k \in Nodes : Len(Handled(n)[k]) <= RX_SIZE
    <2>1. Len(Tail(rx[n])) <= RX_SIZE
      BY <1>1, <1>2, <1>3, SizeAssumption
    <2> QED BY <1>1, <1>4, <2>1
  <1>7. ASSUME NEW i \in DOMAIN Handled(n)[n]
        PROVE  i + 1 \in DOMAIN rx[n] /\ Handled(n)[n][i] = rx[n][i + 1]
    <2>1. i \in 1..Len(Tail(rx[n])) /\ DOMAIN Tail(rx[n]) = 1..Len(Tail(rx[n]))
      BY <1>2, <1>4
    <2>2. i + 1 \in 1..Len(rx[n])
      BY <1>2, <1>3, <2>1
    <2> QED BY <1>2, <1>3, <1>4, <2>1, <2>2
  <1>8. Len(Handled(n)[n]) + 1 = Len(rx[n]) /\ 1 \in DOMAIN rx[n]
    BY <1>2, <1>3, <1>4
  <1>9. Bounded(Handled(n))
    BY <1>5, <1>6 DEF Bounded
  <1> QED BY <1>2, <1>3, <1>4, <1>7, <1>8, <1>9

(* A step took the first packet of a queue, or of none, and put one at the  *)
(* end of a queue, or of none; what else is in the queues was there before. *)
Moved(took, dest, p) ==
    \A k \in Nodes : \A i \in DOMAIN rx'[k] :
      LET j == IF k = took THEN i + 1 ELSE i
      IN  \/ j \in DOMAIN rx[k] /\ rx'[k][i] = rx[k][j]
          \/ k = dest /\ j = Len(rx[k]) + 1 /\ rx'[k][i] = p

LEMMA MovedSent ==
    ASSUME TypeOK, NEW m \in Nodes \cup {NoNode}, NEW p, m # NoNode => p \in Packets,
           rx' = Sent(rx, m, p)
    PROVE  Bounded(rx') /\ Moved(NoNode, m, p)
  <1>1. Bounded(rx)
    BY DEF TypeOK, Bounded
  <1>2. Bounded(rx') /\ AtEnd(rx, rx', m, p)
    BY <1>1, SentFacts
  <1>3. \A k \in Nodes : k # NoNode
    BY NodesAssumption
  <1> QED BY <1>2, <1>3 DEF Moved, AtEnd

LEMMA MovedHandled ==
    ASSUME TypeOK, NEW n \in Nodes, rx[n] # <<>>,
           NEW m \in Nodes \cup {NoNode}, NEW p, m # NoNode => p \in Packets,
           rx' = Sent(Handled(n), m, p) \/ rx' = Handled(n)
    PROVE  Bounded(rx') /\ Moved(n, m, p)
  <1>1. Bounded(rx') /\ AtEnd(Handled(n), rx', m, p)
    <2>1. CASE rx' = Handled(n)
      BY <2>1, HandledFacts DEF AtEnd
    <2>2. CASE rx' = Sent(Handled(n), m, p)
      BY <2>2, HandledFacts, SentFacts
    <2> QED BY <2>1, <2>2
  <1>2. ASSUME NEW i \in DOMAIN rx'[n]
        PROVE  \/ i + 1 \in DOMAIN rx[n] /\ rx'[n][i] = rx[n][i + 1]
               \/ n = m /\ i + 1 = Len(rx[n]) + 1 /\ rx'[n][i] = p
    <2>1. CASE i \in DOMAIN Handled(n)[n] /\ rx'[n][i] = Handled(n)[n][i]
      BY <2>1, HandledFacts
    <2>2. CASE n = m /\ i = Len(Handled(n)[n]) + 1 /\ rx'[n][i] = p
      BY <2>2, HandledFacts
    <2> QED BY <1>1, <2>1, <2>2 DEF AtEnd
  <1>3. ASSUME NEW k \in Nodes, k # n, NEW i \in DOMAIN rx'[k]
        PROVE  \/ i \in DOMAIN rx[k] /\ rx'[k][i] = rx[k][i]
               \/ k = m /\ i = Len(rx[k]) + 1 /\ rx'[k][i] = p
    BY <1>1, <1>3, HandledFacts DEF AtEnd
  <1> QED BY <1>1, <1>2, <1>3 DEF Moved

-----------------------------------------------------------------------------
(* What a node does with a packet. *)
LEMMA PacketFacts ==
    ASSUME NEW kind \in {"DataFragment", "RoutingTableAdd", "RoutingTableRemove"},
           NEW from \in Nodes, NEW to \in Nodes \cup {ROOT}, NEW hop \in Nodes,
           NEW entry \in Nodes \cup {NoNode}
    PROVE  Packet(kind, from, to, hop, entry) \in Packets
  BY DEF Packet, Packets

LEMMA PacketFields ==
    ASSUME NEW p \in Packets
    PROVE  /\ p.kind \in {"DataFragment", "RoutingTableAdd", "RoutingTableRemove"}
           /\ p.from \in Nodes /\ p.to \in Nodes \cup {ROOT} /\ p.hop \in Nodes
           /\ p.entry \in Nodes \cup {NoNode}
  BY DEF Packets

LEMMA PacketLearned ==
    ASSUME TypeOK, NEW n \in Nodes, NEW p \in Packets
    PROVE  Knows(n, p.from, p.hop, Learn(n, p.from, p.hop))
  BY PacketFields, LearnFacts

LEMMA HopSet ==
    ASSUME NEW p \in Packets, NEW n \in Nodes
    PROVE  /\ [p EXCEPT !.hop = n] \in Packets
           /\ [p EXCEPT !.hop = n] = Packet(p.kind, p.from, p.to, n, p.entry)
  BY DEF Packets, Packet

LEMMA ResolveFacts ==
    ASSUME TypeOK, NEW n \in Nodes, NEW to, NEW tables
    PROVE  /\ Resolve(n, to, tables) \in Nodes \cup {NoNode}
           /\ to = ROOT => Resolve(n, to, tables) = parent[n]
           /\ \A h \in Children(n) :
                /\ to # ROOT /\ to # parent[n] /\ Leads(n, h, to, tables)
                /\ \A c \in Children(n) : Leads(n, c, to, tables) => c = h
                => Resolve(n, to, tables) = h
  <1> DEFINE leading == {i \in DOMAIN children[n] : Leads(n, children[n][i], to, tables)}
             k == CHOOSE i \in leading : \A j \in leading : i <= j
  <1>1. children[n] \in Seq(Nodes) /\ parent[n] \in Nodes \cup {NoNode}
    BY DEF TypeOK
  <1>2. leading \in SUBSET Nat
    BY <1>1
  <1>3. Resolve(n, to, tables) = IF to = ROOT \/ to = parent[n] \/ leading = {}
                                   THEN parent[n] ELSE children[n][k]
    BY DEF Resolve
  <1> HIDE DEF k
  <1>4. leading # {} => k \in leading
    <2> HIDE DEF leading
    <2>1. leading # {} => \E i \in leading : \A j \in leading : i <= j
      BY <1>2, Least
    <2> QED BY <2>1 DEF k
  <1>5. leading # {} => /\ children[n][k] \in Nodes /\ children[n][k] \in Children(n)
                        /\ Leads(n, children[n][k], to, tables)
    BY <1>1, <1>4 DEF Children, ToSet
  <1>6. ASSUME NEW h \in Children(n), Leads(n, h, to, tables) PROVE leading # {}
    <2>1. PICK i \in DOMAIN children[n] : h = children[n][i]
      BY <1>1 DEF Children, ToSet
    <2> QED BY <1>6, <2>1
  <1> HIDE DEF leading
  <1>7. ASSUME to # ROOT, to # parent[n],
               NEW h \in Children(n), Leads(n, h, to, tables),
               \A c \in Children(n) : Leads(n, c, to, tables) => c = h
        PROVE  Resolve(n, to, tables) = h
    BY <1>3, <1>5, <1>6, <1>7
  <1> QED BY <1>1, <1>3, <1>5, <1>7

(* A packet that n sent to m: of its own, or one that it received as p. *)
FromRoot(new) == new.from = Root /\ new.kind = "DataFragment"
Withdrawal(n, m, new) ==
    new.from = n /\ new.kind = "RoutingTableRemove" /\ m = parent[n]
PassedOn(n, m, p, new) ==
    /\ p.kind = "DataFragment" /\ new.kind = "DataFragment"
    /\ new.from = p.from /\ new.to = p.to /\ (p.to = ROOT => m = parent[n])
SentOn(n, m, p, new) ==
    m # NoNode =>
      /\ new \in Packets /\ new.hop = n
      /\ FromRoot(new) \/ Withdrawal(n, m, new) \/ PassedOn(n, m, p, new)

(* What its tables are then. *)
Learned(n, p) ==
    /\ table' \in [Nodes -> [Nodes -> Seq(Nodes)]]
    /\ \A k \in Nodes \ {n} : table'[k] = table[k]
    /\ \A c \in Nodes : c \notin Children(n) => table'[n][c] = <<>>
    /\ \A c, e \in Nodes : e \in ToSet(table'[n][c]) =>
         \/ e \in ToSet(Learn(n, p.from, p.hop)[c])
         \/ p.kind = "RoutingTableAdd" /\ p.hop \in Children(n) /\ c = p.hop /\ e = p.entry
    /\ p.hop \in Children(n) =>
         p.kind = "RoutingTableRemove" \/ p.from \in ToSet(table'[n][p.hop])

LEMMA LearnedPlain ==
    ASSUME TypeOK, NEW n \in Nodes, NEW p \in Packets,
           table' = [table EXCEPT ![n] = Learn(n, p.from, p.hop)]
    PROVE  Learned(n, p)
  <1> DEFINE new == Learn(n, p.from, p.hop)
  <1>0. Knows(n, p.from, p.hop, new)
    BY PacketLearned
  <1> HIDE DEF new
  <1>1. /\ new \in [Nodes -> Seq(Nodes)]
        /\ \A c \in Nodes : c \notin Children(n) => new[c] = <<>>
        /\ p.hop \in Children(n) => p.from \in ToSet(new[p.hop])
    BY <1>0 DEF Knows
  <1>2. table \in [Nodes -> [Nodes -> Seq(Nodes)]]
    BY DEF TypeOK
  <1>3. table' = [table EXCEPT ![n] = new]
    BY DEF new
  <1>4. table'[n] = new /\ \A k \in Nodes \ {n} : table'[k] = table[k]
    BY <1>2, <1>3
  <1>5. table' \in [Nodes -> [Nodes -> Seq(Nodes)]]
    BY <1>1, <1>2, <1>3
  <1> QED BY <1>1, <1>4, <1>5 DEF Learned, new

LEMMA AddLearned ==
    ASSUME TypeOK, NEW n \in Nodes, HandleRoutingTableAdd(n), NEW p \in Packets,
           p = Head(rx[n]), p.kind = "RoutingTableAdd" => p.entry \in Nodes
    PROVE  Learned(n, p)
  <1>0. p.kind = "RoutingTableAdd"
    BY DEF HandleRoutingTableAdd, Gets
  <1> DEFINE new == Learn(n, p.from, p.hop)
             all == [new EXCEPT ![p.hop] = Append(@, p.entry)]
  <1>1. table' = [table EXCEPT ![n] = IF p.hop \in Children(n) THEN all ELSE new]
    BY DEF HandleRoutingTableAdd
  <1>2. CASE p.hop \notin Children(n)
    BY <1>1, <1>2, LearnedPlain
  <1>3. CASE p.hop \in Children(n)
    <2>1. table' = [table EXCEPT ![n] = all] /\ p.hop \in Nodes
      BY <1>1, <1>3, PacketFields
    <2>0. Knows(n, p.from, p.hop, new)
      BY PacketLearned
    <2> HIDE DEF new
    <2>2. /\ new \in [Nodes -> Seq(Nodes)]
          /\ \A c \in Nodes : c \notin Children(n) => new[c] = <<>>
          /\ p.from \in ToSet(new[p.hop])
      BY <1>3, <2>0 DEF Knows
    <2>3. all[p.hop] = Append(new[p.hop], p.entry) /\ \A c \in Nodes : c # p.hop => all[c] = new[c]
      BY <2>1, <2>2
    <2>4. all[p.hop] \in Seq(Nodes)
          /\ \A e : e \in ToSet(all[p.hop]) <=> e \in ToSet(new[p.hop]) \/ e = p.entry
      BY <1>0, <2>1, <2>2, <2>3, AppendProperties, AppendSet
    <2>5. all \in [Nodes -> Seq(Nodes)]
      BY <2>1, <2>2, <2>4
    <2> HIDE DEF all
    <2>6. table \in [Nodes -> [Nodes -> Seq(Nodes)]]
      BY DEF TypeOK
    <2>7. table'[n] = all /\ \A k \in Nodes \ {n} : table'[k] = table[k]
      BY <2>1, <2>6
    <2>8. table' \in [Nodes -> [Nodes -> Seq(Nodes)]]
      BY <2>1, <2>5, <2>6
    <2>9. \A c \in Nodes : c \notin Children(n) => all[c] = <<>>
      BY <1>3, <2>2, <2>3
    <2>10. \A c, e \in Nodes : e \in ToSet(all[c]) =>
             e \in ToSet(new[c]) \/ (c = p.hop /\ e = p.entry)
      BY <2>3, <2>4
    <2> QED BY <1>0, <1>3, <2>2, <2>4, <2>7, <2>8, <2>9, <2>10 DEF Learned, new
  <1> QED BY <1>2, <1>3

LEMMA RemoveLearned ==
    ASSUME TypeOK, NEW n \in Nodes, HandleRoutingTableRemove(n), NEW p \in Packets,
           p = Head(rx[n])
    PROVE  Learned(n, p)
  <1>0. p.kind = "RoutingTableRemove"
    BY DEF HandleRoutingTableRemove, Gets
  <1> DEFINE new == Learn(n, p.from, p.hop)
             all == [new EXCEPT ![p.hop] = RemoveIf(@, p.entry)]
  <1>1. table' = [table EXCEPT ![n] = IF p.hop \in Children(n) THEN all ELSE new]
    BY DEF HandleRoutingTableRemove
  <1>2. CASE p.hop \notin Children(n)
    BY <1>1, <1>2, LearnedPlain
  <1>3. CASE p.hop \in Children(n)
    <2>1. table' = [table EXCEPT ![n] = all] /\ p.hop \in Nodes
      BY <1>1, <1>3, PacketFields
    <2>0. Knows(n, p.from, p.hop, new)
      BY PacketLearned
    <2> HIDE DEF new
    <2>2. /\ new \in [Nodes -> Seq(Nodes)]
          /\ \A c \in Nodes : c \notin Children(n) => new[c] = <<>>
      BY <2>0 DEF Knows
    <2>3. all[p.hop] = RemoveIf(new[p.hop], p.entry) /\ \A c \in Nodes : c # p.hop => all[c] = new[c]
      BY <2>1, <2>2
    <2>4. all[p.hop] \in Seq(Nodes) /\ ToSet(all[p.hop]) \subseteq ToSet(new[p.hop])
      BY <2>1, <2>2, <2>3, RemoveIfFacts
    <2>5. all \in [Nodes -> Seq(Nodes)]
      BY <2>1, <2>2, <2>4
    <2> HIDE DEF all
    <2>6. table \in [Nodes -> [Nodes -> Seq(Nodes)]]
      BY DEF TypeOK
    <2>7. table'[n] = all /\ \A k \in Nodes \ {n} : table'[k] = table[k]
      BY <2>1, <2>6
    <2>8. table' \in [Nodes -> [Nodes -> Seq(Nodes)]]
      BY <2>1, <2>5, <2>6
    <2>9. \A c \in Nodes : c \notin Children(n) => all[c] = <<>>
      BY <1>3, <2>2, <2>3
    <2>10. \A c, e \in Nodes : e \in ToSet(all[c]) => e \in ToSet(new[c])
      BY <2>3, <2>4
    <2> QED BY <1>0, <2>7, <2>8, <2>9, <2>10 DEF Learned, new
  <1> QED BY <1>2, <1>3

LEMMA HandleStep ==
    ASSUME TypeOK, NEW n \in Nodes, HandlePacket(n), NEW p, p = Head(rx[n]),
           p.kind = "RoutingTableAdd" => p.entry \in Nodes
    PROVE  /\ p \in Packets /\ 1 \in DOMAIN rx[n] /\ p = rx[n][1] /\ rx[n] # <<>>
           /\ UNCHANGED <<parent, children, joins>> /\ Bounded(rx') /\ Learned(n, p)
           /\ \E m \in Nodes \cup {NoNode} : \E new : Moved(n, m, new) /\ SentOn(n, m, p, new)
  <1> DEFINE tables == Learn(n, p.from, p.hop)
             Result == /\ UNCHANGED <<parent, children, joins>> /\ Bounded(rx') /\ Learned(n, p)
                       /\ \E m \in Nodes \cup {NoNode} : \E new :
                            Moved(n, m, new) /\ SentOn(n, m, p, new)
  <1>1. rx[n] # <<>>
    BY DEF HandlePacket, Forward, HandleDataFragment, HandleRoutingTableAdd,
           HandleRoutingTableRemove, Gets
  <1>2. p \in Packets /\ 1 \in DOMAIN rx[n] /\ p = rx[n][1]
    BY <1>1, HandledFacts
  <1>3. ASSUME Forward(n) PROVE Result
    <2> DEFINE m == Resolve(n, p.to, tables)
               new == [p EXCEPT !.hop = n]
    <2>1. /\ p.kind = "DataFragment" /\ table' = [table EXCEPT ![n] = tables]
          /\ rx' = Sent(Handled(n), m, new) /\ UNCHANGED <<parent, children, joins>>
      BY <1>3 DEF Forward, Gets, Forwarded
    <2>2. m \in Nodes \cup {NoNode} /\ (p.to = ROOT => m = parent[n])
      BY ResolveFacts
    <2>3. new \in Packets /\ new = Packet(p.kind, p.from, p.to, n, p.entry)
      BY <1>2, HopSet
    <2> HIDE DEF m, new
    <2>4. Bounded(rx') /\ Moved(n, m, new)
      BY <1>1, <2>1, <2>2, <2>3, MovedHandled
    <2>5. SentOn(n, m, p, new)
      BY <2>1, <2>2, <2>3 DEF SentOn, PassedOn, Packet
    <2>6. Learned(n, p)
      BY <1>2, <2>1, LearnedPlain
    <2> QED BY <2>1, <2>2, <2>4, <2>5, <2>6
  <1>4. ASSUME HandleDataFragment(n) PROVE Result
    <2> DEFINE m == Resolve(n, p.from, tables)
               new == Packet("DataFragment", n, p.from, n, NoNode)
               to == [new EXCEPT !.hop = n]
    <2>1. /\ table' = [table EXCEPT ![n] = tables] /\ UNCHANGED <<parent, children, joins>>
          /\ \/ n = Root /\ rx' = Sent(Handled(n), Resolve(n, new.to, tables), to)
             \/ rx' = Handled(n)
      BY <1>4 DEF HandleDataFragment, Forwarded
    <2>2. Learned(n, p)
      BY <1>2, <2>1, LearnedPlain
    <2>3. new \in Packets /\ new.to = p.from /\ new.from = n /\ new.kind = "DataFragment"
      <3>1. p.from \in Nodes
        BY <1>2, PacketFields
      <3> QED BY <3>1, PacketFacts DEF Packet
    <2> HIDE DEF new
    <2>4. to \in Packets /\ to.from = n /\ to.kind = "DataFragment" /\ to.hop = n
      <3>1. to \in Packets /\ to = Packet(new.kind, new.from, new.to, n, new.entry)
        BY <2>3, HopSet
      <3> HIDE DEF to
      <3> QED BY <2>3, <3>1 DEF Packet
    <2>5. m \in Nodes \cup {NoNode}
      BY ResolveFacts
    <2> HIDE DEF m, to
    <2>6. CASE n = Root /\ rx' = Sent(Handled(n), m, to)
      <3>1. Bounded(rx') /\ Moved(n, m, to)
        BY <1>1, <2>4, <2>5, <2>6, MovedHandled
      <3>2. SentOn(n, m, p, to)
        BY <2>4, <2>6 DEF SentOn, FromRoot
      <3> QED BY <2>1, <2>2, <2>5, <3>1, <3>2
    <2>7. CASE rx' = Handled(n)
      <3>1. Bounded(rx') /\ Moved(n, NoNode, to)
        BY <1>1, <2>4, <2>7, MovedHandled
      <3> QED BY <2>1, <2>2, <3>1 DEF SentOn
    <2> QED BY <2>1, <2>3, <2>6, <2>7 DEF m
  <1>5. ASSUME HandleRoutingTableAdd(n) PROVE Result
    <2>1. rx' = Handled(n) /\ UNCHANGED <<parent, children, joins>>
      BY <1>5 DEF HandleRoutingTableAdd
    <2>2. Learned(n, p)
      BY <1>2, <1>5, AddLearned
    <2>3. Bounded(rx') /\ Moved(n, NoNode, p)
      BY <1>1, <1>2, <2>1, MovedHandled
    <2> QED BY <2>1, <2>2, <2>3 DEF SentOn
  <1>6. ASSUME HandleRoutingTableRemove(n) PROVE Result
    <2> DEFINE m == parent[n]
               new == Packet(p.kind, n, parent[n], n, p.entry)
    <2>1. /\ p.kind = "RoutingTableRemove" /\ UNCHANGED <<parent, children, joins>>
          /\ rx' = Sent(Handled(n), m, new) \/ rx' = Handled(n)
      BY <1>6 DEF HandleRoutingTableRemove, Gets, SentUpstream
    <2>2. Learned(n, p)
      BY <1>2, <1>6, RemoveLearned
    <2>3. m \in Nodes \cup {NoNode}
      BY DEF TypeOK
    <2>4. m # NoNode => new \in Packets
      BY <1>2, <2>3, PacketFields, PacketFacts
    <2>5. new.from = n /\ new.kind = "RoutingTableRemove" /\ new.hop = n
      BY <2>1 DEF Packet
    <2> HIDE DEF new
    <2>6. SentOn(n, m, p, new)
      BY <2>4, <2>5 DEF SentOn, Withdrawal
    <2> HIDE DEF m
    <2>7. Bounded(rx') /\ Moved(n, m, new)
      BY <1>1, <2>1, <2>3, <2>4, MovedHandled
    <2> QED BY <2>1, <2>2, <2>3, <2>6, <2>7
  <1> HIDE DEF Result
  <1>7. Result
    BY <1>3, <1>4, <1>5, <1>6 DEF HandlePacket
  <1> QED BY <1>1, <1>2, <1>7 DEF Result

-----------------------------------------------------------------------------
(* The types, and what is announced is a node. *)
Entries == \A n \in Nodes : \A i \in DOMAIN rx[n] :
    rx[n][i].kind = "RoutingTableAdd" => rx[n][i].entry \in Nodes
TypeInv == TypeOK /\ Entries

LEMMA MovedEntries ==
    ASSUME Entries, NEW took, NEW m, NEW p, Moved(took, m, p),
           m \in Nodes => (p.kind = "RoutingTableAdd" => p.entry \in Nodes)
    PROVE  Entries'
  BY DEF Entries, Moved

LEMMA TypeInit == Init => TypeInv
  <1> SUFFICES ASSUME Init PROVE TypeInv
    OBVIOUS
  <1>1. rx = [n \in Nodes |-> <<>>] /\ children = [n \in Nodes |-> <<>>]
        /\ table = [n \in Nodes |-> [c \in Nodes |-> <<>>]]
        /\ joins = [n \in Nodes |-> 0] /\ parent = [n \in Nodes |-> NoNode]
    BY DEF Init
  <1>2. \A n \in Nodes : Len(rx[n]) <= RX_SIZE /\ Len(children[n]) <= MAX_CHILDREN
    BY <1>1, SizeAssumption
  <1> QED BY <1>1, <1>2 DEF TypeInv, TypeOK, Entries

LEMMA TypeNext == TypeInv /\ [Next]_vars => TypeInv'
  <1> SUFFICES ASSUME TypeOK, Entries, [Next]_vars PROVE TypeInv'
    BY DEF TypeInv
  <1>0. /\ parent \in [Nodes -> Nodes \cup {NoNode}]
        /\ children \in [Nodes -> Seq(Nodes)]
        /\ table \in [Nodes -> [Nodes -> Seq(Nodes)]]
        /\ joins \in [Nodes -> Nat]
        /\ \A n \in Nodes : Len(children[n]) <= MAX_CHILDREN
        /\ \A n, c \in Nodes : c \notin Children(n) => table[n][c] = <<>>
    BY DEF TypeOK
  <1>1. ASSUME NEW d \in Candidates, Attach(d[1], d[2]) PROVE TypeInv'
    <2> DEFINE n == d[1]
               m == d[2]
               new == Packet("RoutingTableAdd", m, parent[m], m, n)
    <2>1. n \in Nodes /\ m \in Nodes
      BY NodesAssumption
    <2>2. /\ joins' = [joins EXCEPT ![n] = @ + 1]
          /\ children' = [children EXCEPT ![m] = Append(@, n)]
          /\ parent' = [parent EXCEPT ![n] = m] \/ parent' = parent
          /\ rx' = Sent(rx, parent[m], new) /\ table' = table
          /\ Len(children[m]) < MAX_CHILDREN
      BY <1>1 DEF Attach, SentUpstream
    <2>3. parent[m] # NoNode => new \in Packets
      BY <1>0, <2>1, PacketFacts
    <2>4. new.kind = "RoutingTableAdd" /\ new.entry = n
      BY DEF Packet
    <2> HIDE DEF new, n, m
    <2>5. Bounded(rx') /\ Moved(NoNode, parent[m], new)
      BY <1>0, <2>1, <2>2, <2>3, MovedSent
    <2>6. Entries'
      BY <2>1, <2>4, <2>5, MovedEntries
    <2>7. /\ children'[m] \in Seq(Nodes) /\ Len(children'[m]) <= MAX_CHILDREN
          /\ ToSet(children'[m]) = ToSet(children[m]) \cup {n}
      <3>1. children'[m] = Append(children[m], n) /\ children[m] \in Seq(Nodes)
        BY <1>0, <2>1, <2>2
      <3>2. children'[m] \in Seq(Nodes) /\ Len(children'[m]) = Len(children[m]) + 1
        BY <2>1, <3>1, AppendProperties
      <3>3. Len(children[m]) \in Nat
        BY <3>1
      <3> QED BY <2>1, <2>2, <3>1, <3>2, <3>3, SizeAssumption, AppendSet
    <2>8. \A k \in Nodes : k # m => children'[k] = children[k]
      BY <1>0, <2>2
    <2>9. \A k, c \in Nodes : c \notin Children(k)' => table'[k][c] = <<>>
      BY <1>0, <2>2, <2>7, <2>8 DEF Children
    <2>10. children' \in [Nodes -> Seq(Nodes)] /\ \A k \in Nodes : Len(children'[k]) <= MAX_CHILDREN
      BY <1>0, <2>1, <2>2, <2>7, <2>8
    <2>11. parent' \in [Nodes -> Nodes \cup {NoNode}] /\ joins' \in [Nodes -> Nat]
      <3>1. parent' \in [Nodes -> Nodes \cup {NoNode}]
        BY <1>0, <2>1, <2>2
      <3>2. joins[n] + 1 \in Nat
        BY <1>0, <2>1
      <3>3. joins' \in [Nodes -> Nat]
        BY <1>0, <2>2, <3>2
      <3> QED BY <3>1, <3>3
    <2> QED BY <1>0, <2>2, <2>5, <2>6, <2>9, <2>10, <2>11 DEF TypeInv, TypeOK, Bounded
  <1>2. ASSUME NEW n \in Nodes, NEW c \in Children(n), DropChild(n, c) PROVE TypeInv'
    <2> DEFINE new == Packet("RoutingTableRemove", n, parent[n], n, c)
    <2>1. c \in Nodes
      BY <1>0 DEF Children, ToSet
    <2>2. /\ children' = [children EXCEPT ![n] = Without(@, c)]
          /\ table' = [table EXCEPT ![n][c] = <<>>]
          /\ rx' = Sent(rx, parent[n], new) /\ UNCHANGED <<parent, joins>>
      BY <1>2 DEF DropChild, SentUpstream
    <2>3. parent[n] # NoNode => new \in Packets
      BY <1>0, <2>1, PacketFacts
    <2>4. new.kind = "RoutingTableRemove"
      BY DEF Packet
    <2> HIDE DEF new
    <2>5. Bounded(rx') /\ Moved(NoNode, parent[n], new)
      BY <1>0, <2>2, <2>3, MovedSent
    <2>6. Entries'
      BY <2>4, <2>5, MovedEntries
    <2>7. /\ children'[n] \in Seq(Nodes) /\ Len(children'[n]) <= MAX_CHILDREN
          /\ ToSet(children'[n]) = ToSet(children[n]) \ {c}
      <3>1. children'[n] = Without(children[n], c) /\ children[n] \in Seq(Nodes)
        BY <1>0, <2>2
      <3>2. /\ children'[n] \in Seq(Nodes) /\ Len(children'[n]) <= Len(children[n])
            /\ ToSet(children'[n]) = ToSet(children[n]) \ {c}
        BY <3>1, WithoutFacts
      <3>3. Len(children[n]) \in Nat /\ Len(children'[n]) \in Nat /\ Len(children[n]) <= MAX_CHILDREN
        BY <1>0, <3>1, <3>2
      <3> QED BY <3>2, <3>3, SizeAssumption
    <2>8. \A k \in Nodes : k # n => children'[k] = children[k]
      BY <1>0, <2>2
    <2>9. \A k, e \in Nodes : table'[k][e] = IF k = n /\ e = c THEN <<>> ELSE table[k][e]
      BY <1>0, <2>1, <2>2
    <2>10. ASSUME NEW k \in Nodes, NEW e \in Nodes, e \notin Children(k)' PROVE table'[k][e] = <<>>
      <3>1. table'[k][e] = IF k = n /\ e = c THEN <<>> ELSE table[k][e]
        BY <2>9
      <3>2. (k = n /\ e = c) \/ e \notin Children(k)
        BY <2>7, <2>8, <2>10 DEF Children
      <3>3. e \notin Children(k) => table[k][e] = <<>>
        BY <1>0
      <3> QED BY <3>1, <3>2, <3>3
    <2>11. children' \in [Nodes -> Seq(Nodes)] /\ \A k \in Nodes : Len(children'[k]) <= MAX_CHILDREN
      BY <1>0, <2>2, <2>7, <2>8
    <2>12. table' \in [Nodes -> [Nodes -> Seq(Nodes)]]
      BY <1>0, <2>1, <2>2
    <2> QED BY <1>0, <2>2, <2>5, <2>6, <2>10, <2>11, <2>12 DEF TypeInv, TypeOK, Bounded
  <1>3. ASSUME NEW n \in Nodes, NEW c \in Children(n), HandleStatus(n, c) PROVE TypeInv'
    <2> DEFINE new == Learn(n, c, c)
    <2>1. c \in Nodes
      BY <1>0 DEF Children, ToSet
    <2>2. Knows(n, c, c, new)
      BY <2>1, LearnFacts
    <2>3. table' = [table EXCEPT ![n] = new] /\ UNCHANGED <<parent, children, rx, joins>>
      BY <1>3 DEF HandleStatus
    <2> HIDE DEF new
    <2>4. /\ new \in [Nodes -> Seq(Nodes)]
          /\ \A e \in Nodes : e \notin Children(n) => new[e] = <<>>
      BY <2>2 DEF Knows
    <2>5. table' \in [Nodes -> [Nodes -> Seq(Nodes)]]
      BY <1>0, <2>3, <2>4
    <2>6. \A k, e \in Nodes : e \notin Children(k)' => table'[k][e] = <<>>
      BY <1>0, <2>3, <2>4 DEF Children
    <2> QED BY <2>3, <2>5, <2>6 DEF TypeInv, TypeOK, Entries
  <1>4. ASSUME NEW n \in Nodes, DropParent(n) PROVE TypeInv'
    <2>1. parent' = [parent EXCEPT ![n] = NoNode] /\ UNCHANGED <<children, table, rx, joins>>
      BY <1>4 DEF DropParent
    <2>2. parent' \in [Nodes -> Nodes \cup {NoNode}]
      BY <1>0, <2>1
    <2> QED BY <2>1, <2>2 DEF TypeInv, TypeOK, Entries, Children
  <1>5. ASSUME NEW n \in Nodes, HandlePacket(n) PROVE TypeInv'
    <2> DEFINE p == Head(rx[n])
    <2>1. p.kind = "RoutingTableAdd" => p.entry \in Nodes
      <3>1. rx[n] # <<>>
        BY <1>5 DEF HandlePacket, Forward, HandleDataFragment, HandleRoutingTableAdd,
               HandleRoutingTableRemove, Gets
      <3> QED BY <3>1, HandledFacts DEF Entries
    <2> HIDE DEF p
    <2>2. /\ UNCHANGED <<parent, children, joins>> /\ Bounded(rx') /\ Learned(n, p)
          /\ \E m \in Nodes \cup {NoNode} : \E new : Moved(n, m, new) /\ SentOn(n, m, p, new)
      BY <1>5, <2>1, HandleStep DEF p
    <2>3. Entries'
      <3>0. PICK m \in Nodes \cup {NoNode} : \E new : Moved(n, m, new) /\ SentOn(n, m, p, new)
        BY <2>2
      <3>1. PICK new : Moved(n, m, new) /\ SentOn(n, m, p, new)
        BY <3>0
      <3>2. m \in Nodes => new.kind # "RoutingTableAdd"
        BY <3>1, NodesAssumption DEF SentOn, FromRoot, Withdrawal, PassedOn
      <3> QED BY <3>1, <3>2, MovedEntries
    <2>4. table' \in [Nodes -> [Nodes -> Seq(Nodes)]]
          /\ \A k, e \in Nodes : e \notin Children(k)' => table'[k][e] = <<>>
      <3>1. /\ table' \in [Nodes -> [Nodes -> Seq(Nodes)]]
            /\ \A k \in Nodes \ {n} : table'[k] = table[k]
            /\ \A e \in Nodes : e \notin Children(n) => table'[n][e] = <<>>
        BY <2>2 DEF Learned
      <3>2. \A k \in Nodes : Children(k)' = Children(k)
        BY <2>2 DEF Children
      <3>3. ASSUME NEW k \in Nodes, NEW e \in Nodes, e \notin Children(k) PROVE table'[k][e] = <<>>
        <4>1. k # n => table'[k] = table[k] /\ table[k][e] = <<>>
          BY <1>0, <3>1, <3>3
        <4> QED BY <3>1, <3>3, <4>1
      <3> QED BY <3>1, <3>2, <3>3
    <2> QED BY <1>0, <2>2, <2>3, <2>4 DEF TypeInv, TypeOK, Bounded, Children
  <1>6. ASSUME NEW n \in Askers, Ask(n) PROVE TypeInv'
    <2> DEFINE new == Packet("DataFragment", n, ROOT, n, NoNode)
               to == [new EXCEPT !.hop = n]
               m == Resolve(n, new.to, table[n])
    <2>1. n \in Nodes
      BY NodesAssumption
    <2>2. new \in Packets /\ new.kind = "DataFragment"
      BY <2>1, PacketFacts DEF Packet
    <2>3. to \in Packets /\ to.kind = "DataFragment"
      BY <2>1, <2>2, HopSet DEF Packet
    <2>4. rx' = Sent(rx, m, to) /\ UNCHANGED <<parent, children, table, joins>>
      BY <1>6 DEF Ask, Forwarded
    <2>5. m \in Nodes \cup {NoNode}
      BY <2>1, ResolveFacts
    <2> HIDE DEF new, to, m
    <2>6. Bounded(rx') /\ Moved(NoNode, m, to)
      BY <2>3, <2>4, <2>5, MovedSent
    <2>7. Entries'
      BY <2>3, <2>6, MovedEntries
    <2> QED BY <1>0, <2>4, <2>6, <2>7 DEF TypeInv, TypeOK, Bounded, Children
  <1>7. CASE UNCHANGED vars
    BY <1>7 DEF vars, TypeInv, TypeOK, Entries, Children
  <1> QED BY <1>1, <1>2, <1>3, <1>4, <1>5, <1>6, <1>7 DEF Next

LEMMA TypeInvariant == Spec => []TypeInv
  BY TypeInit, TypeNext, PTL DEF Spec

(* The routing tables hold nodes, none without a child whose table it is,   *)
(* and no queue or list of children grows beyond its size, in any tree.     *)
THEOREM TypeCorrect == Spec => []TypeOK
  <1>1. TypeInv => TypeOK
    BY DEF TypeInv
  <1> QED BY <1>1, TypeInvariant, PTL

-----------------------------------------------------------------------------
(* The inductive invariant of OneRoute. *)

(* A parent is a candidate. *)
Links == \A n \in Nodes : parent[n] # NoNode => <<n, parent[n]>> \in Candidates

(* Nobody has heard of a node that was not taken as a child yet. *)
Fresh ==
    \A m \in Nodes \ {Root} : joins[m] = 0 =>
      /\ parent[m] = NoNode
      /\ \A n \in Nodes : m \notin Children(n)
      /\ \A n, c \in Nodes : m \notin ToSet(table[n][c])

(* What is in a queue: news a node sends itself, and a node that sends, or  *)
(* is announced, has been taken as a child.                                 *)
Announces(packet, m) == packet.kind = "RoutingTableAdd" /\ packet.entry = m
Fits(packet) ==
    /\ packet.kind # "DataFragment" => packet.from = packet.hop
    /\ packet.kind = "RoutingTableAdd" => packet.entry \in Nodes \ {packet.from}
    /\ packet.from # Root => joins[packet.from] # 0
    /\ packet.kind = "RoutingTableAdd" => joins[packet.entry] # 0
Queues == \A n \in Nodes : \A i \in DOMAIN rx[n] : Fits(rx[n][i])

(* A node that was taken once is announced once, where it is not known, and *)
(* before anything that it sent.                                            *)
Unknown(n, m) == m \notin Children(n) /\ \A c \in Nodes : m \notin ToSet(table[n][c])
Announced ==
    \A m \in Nodes : joins[m] <= 1 =>
      \A n \in Nodes : \A i \in DOMAIN rx[n] : Announces(rx[n][i], m) =>
        /\ Unknown(n, m)
        /\ \A j \in DOMAIN rx[n] : j < i => rx[n][j].from # m
        /\ \A q \in Nodes : \A j \in DOMAIN rx[q] : Announces(rx[q][j], m) => q = n /\ j = i

RouteInv == TypeOK /\ Links /\ Fresh /\ Queues /\ Announced /\ OneRoute

LEMMA RouteInit == Init => RouteInv
  <1> SUFFICES ASSUME Init PROVE RouteInv
    OBVIOUS
  <1>0. /\ rx = [n \in Nodes |-> <<>>] /\ children = [n \in Nodes |-> <<>>]
        /\ table = [n \in Nodes |-> [c \in Nodes |-> <<>>]]
        /\ joins = [n \in Nodes |-> 0] /\ parent = [n \in Nodes |-> NoNode]
    BY DEF Init
  <1>1. TypeOK
    BY TypeInit DEF TypeInv
  <1>2. \A n \in Nodes : Children(n) = {}
    BY <1>0 DEF Children, ToSet
  <1>3. \A n, c \in Nodes : ToSet(table[n][c]) = {}
    BY <1>0 DEF ToSet
  <1>4. \A n \in Nodes : DOMAIN rx[n] = {}
    BY <1>0
  <1>5. Links /\ Fresh
    BY <1>0, <1>2, <1>3 DEF Links, Fresh
  <1>6. Queues /\ Announced /\ OneRoute
    BY <1>2, <1>4 DEF Queues, Announced, OneRoute
  <1> QED BY <1>1, <1>5, <1>6 DEF RouteInv

-----------------------------------------------------------------------------
(* The steps in which no node is taken as a child. *)
Shrinks ==
    /\ joins' = joins
    /\ \A k \in Nodes : parent'[k] \in {parent[k], NoNode} /\ Children(k)' \subseteq Children(k)

(* What they add to the tables: a child, or what the packet taken tells. *)
Additions(took) ==
    \A k, c, e \in Nodes : e \in ToSet(table'[k][c]) =>
      \/ e \in ToSet(table[k][c]) \/ e \in Children(k)
      \/ k = took /\ 1 \in DOMAIN rx[k] /\ (rx[k][1].from = e \/ Announces(rx[k][1], e))

LEMMA ShrinksLinks == ASSUME Links, Shrinks PROVE Links'
  BY DEF Links, Shrinks

LEMMA ShrinksFresh ==
    ASSUME TypeOK, Fresh, Queues, Shrinks, NEW took, Additions(took)
    PROVE  Fresh'
  <1> SUFFICES ASSUME NEW m \in Nodes \ {Root}, joins'[m] = 0
               PROVE  /\ parent'[m] = NoNode
                      /\ \A n \in Nodes : m \notin Children(n)'
                      /\ \A n, c \in Nodes : m \notin ToSet(table'[n][c])
    BY DEF Fresh
  <1>1. /\ joins[m] = 0 /\ parent[m] = NoNode
        /\ \A n \in Nodes : m \notin Children(n)
        /\ \A n, c \in Nodes : m \notin ToSet(table[n][c])
    BY DEF Fresh, Shrinks
  <1>2. \A n \in Nodes : \A i \in DOMAIN rx[n] : rx[n][i].from # m /\ ~Announces(rx[n][i], m)
    BY <1>1 DEF Queues, Fits, Announces
  <1>3. \A n, c \in Nodes : m \notin ToSet(table'[n][c])
    BY <1>1, <1>2 DEF Additions
  <1> QED BY <1>1, <1>3 DEF Shrinks

LEMMA ShrinksQueues ==
    ASSUME Queues, Shrinks, NEW took, NEW dest, NEW p, Moved(took, dest, p),
           dest \in Nodes => Fits(p)
    PROVE  Queues'
  <1>1. ASSUME NEW n \in Nodes, NEW i \in DOMAIN rx'[n] PROVE Fits(rx'[n][i])
    BY <1>1 DEF Moved, Queues
  <1>2. joins' = joins
    BY DEF Shrinks
  <1> QED BY <1>1, <1>2 DEF Queues, Fits

LEMMA ShrinksAnnounced ==
    ASSUME TypeOK, Bounded(rx'), Announced, Shrinks,
           NEW took \in Nodes \cup {NoNode}, NEW dest, NEW p, Moved(took, dest, p),
           dest \in Nodes => p.kind # "RoutingTableAdd", Additions(took)
    PROVE  Announced'
  <1> DEFINE Old(k, i) == IF k = took THEN i + 1 ELSE i
  <1>0. \A k \in Nodes : /\ Len(rx[k]) \in Nat /\ DOMAIN rx[k] = 1..Len(rx[k])
                         /\ Len(rx'[k]) \in Nat /\ DOMAIN rx'[k] = 1..Len(rx'[k])
    BY DEF TypeOK, Bounded
  <1>1. \A k \in Nodes : \A i \in DOMAIN rx'[k] :
          \/ Old(k, i) \in DOMAIN rx[k] /\ rx'[k][i] = rx[k][Old(k, i)]
          \/ k = dest /\ Old(k, i) = Len(rx[k]) + 1 /\ rx'[k][i] = p
    BY DEF Moved
  <1>2. \A k \in Nodes : \A i, j \in DOMAIN rx'[k] :
          /\ Old(k, i) \in Nat /\ (i < j => Old(k, i) < Old(k, j))
          /\ (Old(k, i) = Old(k, j) => i = j) /\ (k = took => 1 < Old(k, i))
    BY <1>0
  <1> HIDE DEF Old
  <1> SUFFICES ASSUME NEW m \in Nodes, joins'[m] <= 1,
                      NEW n \in Nodes, NEW i \in DOMAIN rx'[n], Announces(rx'[n][i], m)
               PROVE  /\ m \notin Children(n)' /\ \A c \in Nodes : m \notin ToSet(table'[n][c])
                      /\ \A j \in DOMAIN rx'[n] : j < i => rx'[n][j].from # m
                      /\ \A q \in Nodes : \A j \in DOMAIN rx'[q] :
                           Announces(rx'[q][j], m) => q = n /\ j = i
    BY DEF Announced, Unknown, Announces
  <1>3. ASSUME NEW q \in Nodes, NEW j \in DOMAIN rx'[q], Announces(rx'[q][j], m)
        PROVE  /\ Old(q, j) \in DOMAIN rx[q] /\ rx'[q][j] = rx[q][Old(q, j)]
               /\ Announces(rx[q][Old(q, j)], m)
    BY <1>1, <1>3 DEF Announces
  <1> DEFINE at == Old(n, i)
  <1>4. at \in DOMAIN rx[n] /\ Announces(rx[n][at], m) /\ joins[m] <= 1
    BY <1>3 DEF Shrinks
  <1>5. /\ m \notin Children(n) /\ \A c \in Nodes : m \notin ToSet(table[n][c])
        /\ \A j \in DOMAIN rx[n] : j < at => rx[n][j].from # m
        /\ \A q \in Nodes : \A j \in DOMAIN rx[q] : Announces(rx[q][j], m) => q = n /\ j = at
    BY <1>4 DEF Announced, Unknown
  <1>6. \A c \in Nodes : m \notin ToSet(table'[n][c])
    <2>1. n = took => 1 < at
      BY <1>2
    <2>2. n = took /\ 1 \in DOMAIN rx[n] => rx[n][1].from # m /\ ~Announces(rx[n][1], m)
      BY <1>5, <2>1
    <2> QED BY <1>5, <2>2 DEF Additions
  <1>7. ASSUME NEW j \in DOMAIN rx'[n], j < i PROVE rx'[n][j].from # m
    <2>1. Old(n, j) < at /\ Old(n, j) # Len(rx[n]) + 1
      BY <1>0, <1>2, <1>4, <1>7
    <2> QED BY <1>1, <1>5, <2>1
  <1>8. ASSUME NEW q \in Nodes, NEW j \in DOMAIN rx'[q], Announces(rx'[q][j], m)
        PROVE  q = n /\ j = i
    <2>1. q = n /\ Old(q, j) = at
      BY <1>3, <1>5, <1>8
    <2> QED BY <1>2, <2>1
  <1> QED BY <1>5, <1>6, <1>7, <1>8 DEF Shrinks

LEMMA ShrinksRoute ==
    ASSUME TypeOK, OneRoute, Shrinks,
           \A k, c \in Nodes : ToSet(table'[k][c]) \subseteq ToSet(table[k][c])
    PROVE  OneRoute'
  <1>1. \A k \in Nodes : Children(k) \subseteq Nodes
    BY DEF TypeOK, Children, ToSet
  <1> QED BY <1>1 DEF OneRoute, Shrinks

(* A packet of its own that a node sends up. *)
LEMMA OwnFits ==
    ASSUME Links, Fresh, NEW n \in Nodes, parent[n] # NoNode,
           NEW p \in Packets, p.from = n, p.hop = n, p.kind # "RoutingTableAdd"
    PROVE  Fits(p)
  BY DEF Fits, Fresh

(* The root's, or one that a node got as p and passes on. *)
LEMMA RootFits ==
    ASSUME NEW p, p.from = Root, p.kind = "DataFragment" PROVE Fits(p)
  BY DEF Fits

LEMMA PassedFits ==
    ASSUME NEW n, NEW m, NEW p, Fits(p), NEW new, PassedOn(n, m, p, new) PROVE Fits(new)
  BY DEF Fits, PassedOn

-----------------------------------------------------------------------------
(* The steps in which a node learns. *)
LEMMA LearnedAdds ==
    ASSUME TypeOK, NEW n \in Nodes, NEW p \in Packets, Learned(n, p)
    PROVE  \A k, c, e \in Nodes : e \in ToSet(table'[k][c]) =>
             \/ e \in ToSet(table[k][c])
             \/ k = n /\ c = p.hop /\ p.hop \in Children(n) /\ (p.from = e \/ Announces(p, e))
  <1> DEFINE new == Learn(n, p.from, p.hop)
  <1>1. Knows(n, p.from, p.hop, new)
    BY PacketLearned
  <1>2. \A c, e \in Nodes : e \in ToSet(new[c]) =>
          e \in ToSet(table[n][c]) \/ (e = p.from /\ c = p.hop /\ p.hop \in Children(n))
    <2> HIDE DEF new
    <2> QED BY <1>1 DEF Knows
  <1>3. \A c, e \in Nodes : e \in ToSet(table'[n][c]) =>
          \/ e \in ToSet(new[c])
          \/ p.kind = "RoutingTableAdd" /\ p.hop \in Children(n) /\ c = p.hop /\ e = p.entry
    BY DEF Learned
  <1>4. \A k \in Nodes \ {n} : table'[k] = table[k]
    BY DEF Learned
  <1> HIDE DEF new
  <1> QED BY <1>2, <1>3, <1>4 DEF Announces

LEMMA LearnedRoute ==
    ASSUME TypeOK, OneRoute,
           NEW n \in Nodes, NEW p \in Packets, Learned(n, p), Fits(p),
           p.kind = "RoutingTableAdd" /\ joins[p.entry] <= 1 => Unknown(n, p.entry),
           UNCHANGED <<parent, children, joins>>
    PROVE  OneRoute'
  <1> DEFINE new == Learn(n, p.from, p.hop)
             h == p.hop
             f == p.from
  <1>0. h \in Nodes /\ f \in Nodes /\ \A k \in Nodes : Children(k) \subseteq Nodes
    BY PacketFields DEF TypeOK, Children, ToSet
  <1>1. \A k \in Nodes : Children(k)' = Children(k)
    BY DEF Children
  <1>2. \A c, e \in Nodes : e \in ToSet(table'[n][c]) =>
          e \in ToSet(new[c]) \/ (Announces(p, e) /\ h \in Children(n) /\ c = h)
    BY DEF Learned, Announces
  <1>3. Knows(n, f, h, new)
    BY PacketLearned
  <1> HIDE DEF new, h, f
  <1>4. /\ \A c, e \in Nodes : e \in ToSet(new[c]) =>
             e \in ToSet(table[n][c]) \/ (e = f /\ c = h /\ h \in Children(n))
        /\ h \in Children(n) =>
             \/ new = table[n]
             \/ \A c \in Nodes : f \in ToSet(new[c]) => c = h
    BY <1>3 DEF Knows
  <1>5. ASSUME NEW c \in Children(n), NEW d \in Children(n), c # d,
               NEW m \in Nodes, joins[m] <= 1,
               m \in ToSet(table'[n][c]), m \in ToSet(table'[n][d])
        PROVE  FALSE
    <2>1. c \in Nodes /\ d \in Nodes
      BY <1>0
    <2>2. ~(m \in ToSet(table[n][c]) /\ m \in ToSet(table[n][d]))
      BY <1>5 DEF OneRoute
    <2>3. CASE Announces(p, m)
      <3>1. \A e \in Nodes : m \notin ToSet(table[n][e])
        BY <1>5, <2>3 DEF Announces, Unknown
      <3>2. m # f
        BY <2>3 DEF Announces, Fits, f
      <3>3. \A e \in Nodes : m \notin ToSet(new[e])
        BY <1>4, <3>1, <3>2
      <3> QED BY <1>2, <1>5, <2>1, <3>3
    <2>4. CASE ~Announces(p, m)
      <3>1. m \in ToSet(new[c]) /\ m \in ToSet(new[d])
        BY <1>2, <1>5, <2>1, <2>4
      <3>2. m = f /\ h \in Children(n) /\ new # table[n]
        BY <1>4, <2>1, <2>2, <3>1
      <3> QED BY <1>4, <1>5, <2>1, <3>1, <3>2
    <2> QED BY <2>3, <2>4
  <1>6. ASSUME NEW k \in Nodes, k # n, NEW c \in Children(k), NEW d \in Children(k), c # d,
               NEW m \in Nodes, joins[m] <= 1
        PROVE  ~(m \in ToSet(table'[k][c]) /\ m \in ToSet(table'[k][d]))
    <2>1. table'[k] = table[k]
      BY <1>6 DEF Learned
    <2> QED BY <1>6, <2>1 DEF OneRoute
  <1> QED BY <1>1, <1>5, <1>6 DEF OneRoute

(* A child's beacon, as a packet. *)
Beacon(c) == Packet("DataFragment", c, ROOT, c, NoNode)

LEMMA BeaconFits ==
    ASSUME TypeOK, Fresh, NEW n \in Nodes, NEW c \in Children(n)
    PROVE  Beacon(c) \in Packets /\ Fits(Beacon(c))
  <1> DEFINE p == Beacon(c)
  <1>0. c \in Nodes
    BY DEF TypeOK, Children, ToSet
  <1>1. p.kind = "DataFragment" /\ p.from = c /\ p \in Packets
    BY <1>0, PacketFacts DEF Beacon, Packet
  <1> HIDE DEF p
  <1>2. Fits(p)
    BY <1>0, <1>1 DEF Fits, Fresh
  <1> QED BY <1>1, <1>2 DEF p

-----------------------------------------------------------------------------
(* The step in which m takes n as a child. *)
Grows(n, m) ==
    /\ n \in Nodes /\ m \in Nodes /\ <<n, m>> \in Candidates
    /\ parent[n] = NoNode /\ Unknown(m, n)
    /\ \A k \in Nodes : Children(k)' = IF k = m THEN Children(k) \cup {n} ELSE Children(k)
    /\ \A k \in Nodes : parent'[k] = parent[k] \/ (k = n /\ parent'[k] = m)
    /\ joins'[n] = joins[n] + 1 /\ \A k \in Nodes : k # n => joins'[k] = joins[k]
    /\ table' = table
    /\ Bounded(rx') /\ Moved(NoNode, parent[m], Packet("RoutingTableAdd", m, parent[m], m, n))

LEMMA AttachGrows ==
    ASSUME TypeOK, NEW d \in Candidates, Attach(d[1], d[2])
    PROVE  Grows(d[1], d[2])
  <1> DEFINE n == d[1]
             m == d[2]
             new == Packet("RoutingTableAdd", m, parent[m], m, n)
  <1>0. parent \in [Nodes -> Nodes \cup {NoNode}] /\ children \in [Nodes -> Seq(Nodes)]
        /\ joins \in [Nodes -> Nat]
    BY DEF TypeOK
  <1>1. n \in Nodes /\ m \in Nodes /\ <<n, m>> \in Candidates
    BY NodesAssumption
  <1>2. /\ joins' = [joins EXCEPT ![n] = @ + 1]
        /\ children' = [children EXCEPT ![m] = Append(@, n)]
        /\ parent' = [parent EXCEPT ![n] = m] \/ parent' = parent
        /\ rx' = Sent(rx, parent[m], new) /\ table' = table
        /\ parent[n] = NoNode /\ ~Has(m, n)
    BY DEF Attach, SentUpstream
  <1>3. parent[m] # NoNode => new \in Packets
    BY <1>0, <1>1, PacketFacts
  <1> HIDE DEF new, n, m
  <1>4. Bounded(rx') /\ Moved(NoNode, parent[m], new)
    BY <1>0, <1>1, <1>2, <1>3, MovedSent
  <1>5. ToSet(children'[m]) = ToSet(children[m]) \cup {n}
    BY <1>0, <1>1, <1>2, AppendSet
  <1>6. \A k \in Nodes : Children(k)' = IF k = m THEN Children(k) \cup {n} ELSE Children(k)
    BY <1>0, <1>2, <1>5 DEF Children
  <1>7. Unknown(m, n)
    <2>1. \A c \in Nodes : c \notin Children(m) => table[m][c] = <<>>
      BY <1>1 DEF TypeOK
    <2>2. ToSet(<<>>) = {}
      BY DEF ToSet
    <2> QED BY <1>2, <2>1, <2>2 DEF Has, Unknown
  <1>8. \A k \in Nodes : parent'[k] = parent[k] \/ (k = n /\ parent'[k] = m)
    BY <1>0, <1>2
  <1>9. joins'[n] = joins[n] + 1 /\ \A k \in Nodes : k # n => joins'[k] = joins[k]
    BY <1>0, <1>1, <1>2
  <1> QED BY <1>1, <1>2, <1>4, <1>6, <1>7, <1>8, <1>9 DEF Grows, new, n, m

(* A node that has been taken as a child at most once now was not before. *)
LEMMA GrowsJoins ==
    ASSUME TypeOK, NEW n, NEW m, Grows(n, m)
    PROVE  /\ joins[n] \in Nat /\ joins'[n] # 0 /\ (joins'[n] <= 1 => joins[n] = 0)
           /\ \A k \in Nodes : (joins'[k] <= 1 => joins[k] <= 1) /\ (joins[k] # 0 => joins'[k] # 0)
           /\ n # Root /\ n # m /\ n # NoNode /\ m # NoNode
  <1>1. joins \in [Nodes -> Nat] /\ n \in Nodes /\ m \in Nodes /\ <<n, m>> \in Candidates
    BY DEF TypeOK, Grows
  <1>2. joins'[n] = joins[n] + 1 /\ \A k \in Nodes : k # n => joins'[k] = joins[k]
    BY DEF Grows
  <1>3. joins[n] \in Nat /\ joins'[n] # 0 /\ (joins'[n] <= 1 => joins[n] = 0)
    BY <1>1, <1>2
  <1>4. \A k \in Nodes : (joins'[k] <= 1 => joins[k] <= 1) /\ (joins[k] # 0 => joins'[k] # 0)
    BY <1>1, <1>2, <1>3
  <1> QED BY <1>1, <1>3, <1>4, NodesAssumption

LEMMA GrowsLinks ==
    ASSUME TypeOK, Links, Fresh, NEW n, NEW m, Grows(n, m)
    PROVE  Links' /\ Fresh'
  <1>0. /\ n \in Nodes /\ m \in Nodes /\ <<n, m>> \in Candidates
        /\ \A k \in Nodes : Children(k)' = IF k = m THEN Children(k) \cup {n} ELSE Children(k)
        /\ \A k \in Nodes : parent'[k] = parent[k] \/ (k = n /\ parent'[k] = m)
        /\ parent[n] = NoNode
        /\ \A k \in Nodes : k # n => joins'[k] = joins[k]
        /\ table' = table
    BY DEF Grows
  <1>1. Links'
    BY <1>0 DEF Links
  <1>2. Fresh'
    <2> SUFFICES ASSUME NEW k \in Nodes \ {Root}, joins'[k] = 0
                 PROVE  /\ parent'[k] = NoNode
                        /\ \A q \in Nodes : k \notin Children(q)'
                        /\ \A q, c \in Nodes : k \notin ToSet(table'[q][c])
      BY DEF Fresh
    <2>1. k # n /\ joins[k] = 0
      BY <1>0, GrowsJoins
    <2> QED BY <1>0, <2>1 DEF Fresh
  <1> QED BY <1>1, <1>2

LEMMA GrowsQueues ==
    ASSUME TypeOK, Links, Fresh, Queues, NEW n, NEW m, Grows(n, m)
    PROVE  Queues'
  <1> DEFINE p == Packet("RoutingTableAdd", m, parent[m], m, n)
  <1>0. n \in Nodes /\ m \in Nodes /\ Moved(NoNode, parent[m], p)
    BY DEF Grows
  <1>1. p.kind = "RoutingTableAdd" /\ p.from = m /\ p.hop = m /\ p.entry = n
    BY DEF Packet
  <1> HIDE DEF p
  <1> DEFINE Then(packet) ==
               /\ packet.kind # "DataFragment" => packet.from = packet.hop
               /\ packet.kind = "RoutingTableAdd" => packet.entry \in Nodes \ {packet.from}
               /\ packet.from # Root => joins'[packet.from] # 0
               /\ packet.kind = "RoutingTableAdd" => joins'[packet.entry] # 0
  <1>2. ASSUME NEW packet, Fits(packet), packet.from \in Nodes PROVE Then(packet)
    BY <1>2, GrowsJoins DEF Fits
  <1>3. parent[m] \in Nodes => Then(p)
    <2> SUFFICES ASSUME parent[m] \in Nodes PROVE Then(p)
      OBVIOUS
    <2>1. m # Root => joins[m] # 0
      BY <1>0, NodesAssumption DEF Fresh
    <2> QED BY <1>0, <1>1, <2>1, GrowsJoins
  <1> HIDE DEF Then
  <1> SUFFICES ASSUME NEW q \in Nodes, NEW i \in DOMAIN rx'[q] PROVE (Fits(rx[q][i]))'
    BY DEF Queues
  <1> DEFINE packet == rx'[q][i]
  <1>4. \/ i \in DOMAIN rx[q] /\ packet = rx[q][i]
        \/ q = parent[m] /\ packet = p
    BY <1>0, NodesAssumption DEF Moved
  <1> HIDE DEF packet
  <1>5. Then(packet)
    <2>1. CASE q = parent[m] /\ packet = p
      BY <1>3, <2>1
    <2>2. CASE i \in DOMAIN rx[q] /\ packet = rx[q][i]
      <3>1. Fits(packet)
        BY <2>2 DEF Queues
      <3>2. packet \in Packets
        BY <2>2 DEF TypeOK
      <3> QED BY <1>2, <3>1, <3>2, PacketFields
    <2> QED BY <1>4, <2>1, <2>2
  <1> QED BY <1>5 DEF Then, Fits, packet

LEMMA GrowsAnnounced ==
    ASSUME TypeOK, Links, Fresh, Queues, Announced, NEW n, NEW m, Grows(n, m)
    PROVE  Announced'
  <1> DEFINE p == Packet("RoutingTableAdd", m, parent[m], m, n)
             dest == parent[m]
  <1>0. /\ n \in Nodes /\ m \in Nodes /\ table' = table /\ Bounded(rx')
        /\ \A k \in Nodes : Children(k)' = IF k = m THEN Children(k) \cup {n} ELSE Children(k)
        /\ Moved(NoNode, dest, p)
        /\ \A k \in Nodes : k # n => joins'[k] = joins[k]
    BY DEF Grows
  <1>1. p.from = m /\ p.entry = n
    BY DEF Packet
  <1>2. dest \in Nodes => dest # m
    BY <1>0, NodesAssumption DEF Links
  <1> HIDE DEF p, dest
  <1>3. \A k \in Nodes : Len(rx[k]) \in Nat /\ DOMAIN rx[k] = 1..Len(rx[k])
    BY DEF TypeOK
  <1>4. \A k \in Nodes : \A i \in DOMAIN rx'[k] :
          \/ i \in DOMAIN rx[k] /\ rx'[k][i] = rx[k][i]
          \/ k = dest /\ i = Len(rx[k]) + 1 /\ rx'[k][i] = p
    BY <1>0, NodesAssumption DEF Moved
  <1> SUFFICES ASSUME NEW e \in Nodes, joins'[e] <= 1,
                      NEW k \in Nodes, NEW i \in DOMAIN rx'[k], Announces(rx'[k][i], e)
               PROVE  /\ e \notin Children(k)' /\ \A c \in Nodes : e \notin ToSet(table'[k][c])
                      /\ \A j \in DOMAIN rx'[k] : j < i => rx'[k][j].from # e
                      /\ \A q \in Nodes : \A j \in DOMAIN rx'[q] :
                           Announces(rx'[q][j], e) => q = k /\ j = i
    BY DEF Announced, Unknown, Announces
  <1>5. CASE e # n
    <2>1. ASSUME NEW q \in Nodes, NEW j \in DOMAIN rx'[q], Announces(rx'[q][j], e)
          PROVE  j \in DOMAIN rx[q] /\ rx'[q][j] = rx[q][j] /\ Announces(rx[q][j], e)
      BY <1>1, <1>4, <1>5, <2>1 DEF Announces
    <2>2. i \in DOMAIN rx[k] /\ Announces(rx[k][i], e) /\ joins[e] <= 1
      BY <1>0, <1>5, <2>1
    <2>3. /\ e \notin Children(k) /\ \A c \in Nodes : e \notin ToSet(table[k][c])
          /\ \A j \in DOMAIN rx[k] : j < i => rx[k][j].from # e
          /\ \A q \in Nodes : \A j \in DOMAIN rx[q] : Announces(rx[q][j], e) => q = k /\ j = i
      BY <2>2 DEF Announced, Unknown
    <2>4. ASSUME NEW j \in DOMAIN rx'[k], j < i PROVE rx'[k][j].from # e
      <3>1. j # Len(rx[k]) + 1
        BY <1>3, <2>2, <2>4
      <3> QED BY <1>4, <2>3, <2>4, <3>1
    <2> QED BY <1>0, <1>5, <2>1, <2>3, <2>4
  <1>6. CASE e = n
    <2>1. joins[n] = 0 /\ n # Root /\ n # m
      BY <1>6, GrowsJoins
    <2>2. \A q \in Nodes : \A j \in DOMAIN rx[q] : ~Announces(rx[q][j], n) /\ rx[q][j].from # n
      BY <2>1 DEF Queues, Fits, Announces
    <2>3. \A q \in Nodes : \A j \in DOMAIN rx'[q] :
            Announces(rx'[q][j], n) => q = dest /\ j = Len(rx[q]) + 1
      BY <1>4, <2>2
    <2>4. k = dest /\ i = Len(rx[k]) + 1
      BY <1>6, <2>3
    <2>5. /\ n \notin Children(k) /\ \A c \in Nodes : n \notin ToSet(table[k][c])
      BY <1>0, <2>1 DEF Fresh
    <2>6. \A j \in DOMAIN rx'[k] : rx'[k][j].from # n
      BY <1>1, <1>4, <2>1, <2>2
    <2> QED BY <1>0, <1>2, <1>6, <2>3, <2>4, <2>5, <2>6
  <1> QED BY <1>5, <1>6

LEMMA GrowsRoute ==
    ASSUME TypeOK, OneRoute, NEW n, NEW m, Grows(n, m) PROVE OneRoute'
  <1>0. /\ n \in Nodes /\ m \in Nodes /\ table' = table
        /\ \A k \in Nodes : Children(k)' = IF k = m THEN Children(k) \cup {n} ELSE Children(k)
        /\ n \notin Children(m)
    BY DEF Grows, Unknown
  <1>1. table[m][n] = <<>>
    BY <1>0 DEF TypeOK
  <1>2. ToSet(<<>>) = {}
    BY DEF ToSet
  <1> SUFFICES ASSUME NEW k \in Nodes, NEW c \in Children(k)', NEW d \in Children(k)', c # d,
                      NEW e \in Nodes, joins'[e] <= 1,
                      e \in ToSet(table[k][c]), e \in ToSet(table[k][d])
               PROVE  FALSE
    BY <1>0 DEF OneRoute
  <1>3. joins[e] <= 1
    BY GrowsJoins
  <1>4. ~(c \in Children(k) /\ d \in Children(k))
    BY <1>3 DEF OneRoute
  <1>5. k = m /\ (c = n \/ d = n)
    BY <1>0, <1>4
  <1> QED BY <1>1, <1>2, <1>5

-----------------------------------------------------------------------------
(* Every step keeps the invariant. *)
LEMMA ShrinksKeeps ==
    ASSUME RouteInv, Bounded(rx'), Shrinks,
           NEW took \in Nodes \cup {NoNode}, NEW dest, NEW p, Moved(took, dest, p),
           dest \in Nodes => Fits(p) /\ p.kind # "RoutingTableAdd",
           Additions(took)
    PROVE  Links' /\ Fresh' /\ Queues' /\ Announced'
  BY ShrinksLinks, ShrinksFresh, ShrinksQueues, ShrinksAnnounced DEF RouteInv

(* The steps that change neither the queues nor what their packets tell. *)
LEMMA MovedNothing ==
    ASSUME TypeOK, rx' = rx, NEW p
    PROVE  Bounded(rx') /\ Moved(NoNode, NoNode, p)
  <1>1. \A k \in Nodes : k # NoNode
    BY NodesAssumption
  <1> QED BY <1>1 DEF Moved, Bounded, TypeOK

LEMMA HeadFits ==
    ASSUME RouteInv, NEW n \in Nodes, HandlePacket(n), NEW p, p = Head(rx[n])
    PROVE  /\ p \in Packets /\ 1 \in DOMAIN rx[n] /\ p = rx[n][1] /\ rx[n] # <<>>
           /\ UNCHANGED <<parent, children, joins>> /\ Bounded(rx') /\ Learned(n, p)
           /\ \E m \in Nodes \cup {NoNode} : \E new : Moved(n, m, new) /\ SentOn(n, m, p, new)
           /\ Fits(p)
  <1>1. TypeOK /\ Queues
    BY DEF RouteInv
  <1>2. rx[n] # <<>>
    BY DEF HandlePacket, Forward, HandleDataFragment, HandleRoutingTableAdd,
           HandleRoutingTableRemove, Gets
  <1>3. 1 \in DOMAIN rx[n] /\ p = rx[n][1]
    BY <1>1, <1>2, HandledFacts
  <1>4. Fits(p)
    BY <1>1, <1>3 DEF Queues
  <1>5. p.kind = "RoutingTableAdd" => p.entry \in Nodes
    BY <1>4 DEF Fits
  <1> QED BY <1>1, <1>4, <1>5, HandleStep

LEMMA HandleKeeps ==
    ASSUME RouteInv, NEW n \in Nodes, HandlePacket(n)
    PROVE  Links' /\ Fresh' /\ Queues' /\ Announced' /\ OneRoute'
  <1> DEFINE p == Head(rx[n])
  <1>0. TypeOK /\ Links /\ Fresh /\ Queues /\ Announced /\ OneRoute
    BY DEF RouteInv
  <1>1. /\ p \in Packets /\ 1 \in DOMAIN rx[n] /\ p = rx[n][1]
        /\ UNCHANGED <<parent, children, joins>> /\ Bounded(rx') /\ Learned(n, p)
        /\ \E m \in Nodes \cup {NoNode} : \E new : Moved(n, m, new) /\ SentOn(n, m, p, new)
        /\ Fits(p)
    BY HeadFits
  <1> HIDE DEF p
  <1>2. Shrinks
    BY <1>1 DEF Shrinks, Children
  <1>3. Additions(n)
    BY <1>0, <1>1, LearnedAdds DEF Additions
  <1>10. PICK m \in Nodes \cup {NoNode} : \E new : Moved(n, m, new) /\ SentOn(n, m, p, new)
    BY <1>1
  <1>4. PICK new : Moved(n, m, new) /\ SentOn(n, m, p, new)
    BY <1>10
  <1>5. m \in Nodes => Fits(new) /\ new.kind # "RoutingTableAdd"
    <2> SUFFICES ASSUME m \in Nodes PROVE Fits(new) /\ new.kind # "RoutingTableAdd"
      OBVIOUS
    <2>1. m # NoNode
      BY NodesAssumption
    <2>2. /\ new \in Packets /\ new.hop = n
          /\ FromRoot(new) \/ Withdrawal(n, m, new) \/ PassedOn(n, m, p, new)
      BY <1>4, <2>1 DEF SentOn
    <2>3. CASE FromRoot(new)
      BY <1>0, <2>2, <2>3, RootFits DEF FromRoot
    <2>4. CASE Withdrawal(n, m, new)
      BY <1>0, <2>1, <2>2, <2>4, OwnFits DEF Withdrawal
    <2>5. CASE PassedOn(n, m, p, new)
      <3>1. Fits(new)
        BY <1>0, <1>1, <2>2, <2>5, PassedFits
      <3> QED BY <2>5, <3>1 DEF PassedOn
    <2> QED BY <2>2, <2>3, <2>4, <2>5
  <1>6. Links' /\ Fresh' /\ Queues' /\ Announced'
    BY <1>1, <1>2, <1>3, <1>4, <1>5, ShrinksKeeps
  <1>7. OneRoute'
    <2>1. p.kind = "RoutingTableAdd" /\ joins[p.entry] <= 1 => Unknown(n, p.entry)
      <3>1. p.kind = "RoutingTableAdd" => p.entry \in Nodes /\ Announces(p, p.entry)
        BY <1>1 DEF Fits, Announces
      <3> QED BY <1>0, <1>1, <3>1 DEF Announced
    <2> QED BY <1>0, <1>1, <2>1, LearnedRoute
  <1> QED BY <1>6, <1>7

LEMMA RouteNext == RouteInv /\ [Next]_vars => RouteInv'
  <1> SUFFICES ASSUME RouteInv, [Next]_vars PROVE RouteInv'
    OBVIOUS
  <1> DEFINE Rest == Links /\ Fresh /\ Queues /\ Announced /\ OneRoute
  <1>0. TypeOK /\ Rest
    BY DEF RouteInv
  <1>1. TypeOK'
    <2>1. \A n \in Nodes : \A i \in DOMAIN rx[n] :
            rx[n][i].kind = "RoutingTableAdd" => rx[n][i].entry \in Nodes
      BY <1>0 DEF Queues, Fits
    <2> QED BY <1>0, <2>1, TypeNext DEF TypeInv, Entries
  <1>2. ASSUME NEW d \in Candidates, Attach(d[1], d[2]) PROVE Rest'
    <2>1. Grows(d[1], d[2])
      BY <1>0, <1>2, AttachGrows
    <2>2. Links' /\ Fresh'
      BY <1>0, <2>1, GrowsLinks
    <2>3. Queues' /\ Announced'
      BY <1>0, <2>1, GrowsQueues, GrowsAnnounced
    <2>4. OneRoute'
      BY <1>0, <2>1, GrowsRoute
    <2> QED BY <2>2, <2>3, <2>4
  <1>3. ASSUME NEW n \in Nodes, NEW c \in Children(n), DropChild(n, c) PROVE Rest'
    <2> DEFINE new == Packet("RoutingTableRemove", n, parent[n], n, c)
    <2>0. c \in Nodes /\ parent \in [Nodes -> Nodes \cup {NoNode}]
          /\ children \in [Nodes -> Seq(Nodes)] /\ table \in [Nodes -> [Nodes -> Seq(Nodes)]]
      <3>1. /\ parent \in [Nodes -> Nodes \cup {NoNode}] /\ children \in [Nodes -> Seq(Nodes)]
            /\ table \in [Nodes -> [Nodes -> Seq(Nodes)]]
        BY <1>0 DEF TypeOK
      <3>2. children[n] \in Seq(Nodes) /\ c \in ToSet(children[n])
        BY <3>1 DEF Children
      <3>3. c \in Nodes
        BY <3>2 DEF ToSet
      <3> QED BY <3>1, <3>3
    <2>1. /\ children' = [children EXCEPT ![n] = Without(@, c)]
          /\ table' = [table EXCEPT ![n][c] = <<>>]
          /\ rx' = Sent(rx, parent[n], new) /\ UNCHANGED <<parent, joins>>
      BY <1>3 DEF DropChild, SentUpstream
    <2>2. parent[n] # NoNode => new \in Packets
      BY <2>0, PacketFacts
    <2>3. new.kind = "RoutingTableRemove" /\ new.from = n /\ new.hop = n
      BY DEF Packet
    <2> HIDE DEF new
    <2>4. Bounded(rx') /\ Moved(NoNode, parent[n], new)
      BY <1>0, <2>0, <2>1, <2>2, MovedSent
    <2>5. \A k \in Nodes : Children(k)' \subseteq Children(k)
      <3>1. children'[n] = Without(children[n], c) /\ \A k \in Nodes : k # n => children'[k] = children[k]
        BY <2>0, <2>1
      <3>2. ToSet(children'[n]) = ToSet(children[n]) \ {c}
        BY <2>0, <3>1, WithoutFacts
      <3> QED BY <3>1, <3>2 DEF Children
    <2>6. \A k, e \in Nodes : ToSet(table'[k][e]) \subseteq ToSet(table[k][e])
      <3>1. \A k, e \in Nodes : table'[k][e] = IF k = n /\ e = c THEN <<>> ELSE table[k][e]
        BY <2>0, <2>1
      <3>2. ToSet(<<>>) = {}
        BY DEF ToSet
      <3> QED BY <3>1, <3>2
    <2>7. Shrinks
      BY <2>1, <2>5 DEF Shrinks
    <2>8. parent[n] \in Nodes => Fits(new) /\ new.kind # "RoutingTableAdd"
      BY <1>0, <2>2, <2>3, OwnFits, NodesAssumption
    <2>9. Additions(NoNode)
      BY <2>6 DEF Additions
    <2>10. Links' /\ Fresh' /\ Queues' /\ Announced'
      BY <2>4, <2>7, <2>8, <2>9, ShrinksKeeps
    <2> QED BY <1>0, <2>6, <2>7, <2>10, ShrinksRoute
  <1>4. ASSUME NEW n \in Nodes, NEW c \in Children(n), HandleStatus(n, c) PROVE Rest'
    <2> DEFINE p == Beacon(c)
    <2>0. c \in Nodes
      BY <1>0 DEF TypeOK, Children, ToSet
    <2>1. p \in Packets /\ Fits(p)
      BY <1>0, BeaconFits
    <2>2. p.kind = "DataFragment" /\ p.from = c /\ p.hop = c
      BY DEF Beacon, Packet
    <2>3. /\ table' = [table EXCEPT ![n] = Learn(n, c, c)]
          /\ UNCHANGED <<parent, children, rx, joins>>
      BY <1>4 DEF HandleStatus
    <2> HIDE DEF p
    <2>4. Learned(n, p)
      BY <1>0, <2>1, <2>2, <2>3, LearnedPlain
    <2>5. Bounded(rx') /\ Moved(NoNode, NoNode, p)
      BY <1>0, <2>3, MovedNothing
    <2>6. Shrinks
      BY <2>3 DEF Shrinks, Children
    <2>7. Additions(NoNode)
      <3>1. \A k, x, e \in Nodes : e \in ToSet(table'[k][x]) =>
              \/ e \in ToSet(table[k][x])
              \/ k = n /\ p.from = e
        BY <1>0, <2>1, <2>2, <2>4, LearnedAdds DEF Announces
      <3> QED BY <2>2, <3>1 DEF Additions
    <2>8. Links' /\ Fresh' /\ Queues' /\ Announced'
      <3>1. NoNode \notin Nodes
        BY NodesAssumption
      <3> QED BY <2>5, <2>6, <2>7, <3>1, ShrinksKeeps
    <2>9. OneRoute'
      BY <1>0, <2>1, <2>2, <2>3, <2>4, LearnedRoute
    <2> QED BY <2>8, <2>9
  <1>5. ASSUME NEW n \in Nodes, DropParent(n) PROVE Rest'
    <2>1. parent' = [parent EXCEPT ![n] = NoNode] /\ UNCHANGED <<children, table, rx, joins>>
      BY <1>5 DEF DropParent
    <2>2. Bounded(rx') /\ Moved(NoNode, NoNode, NoNode)
      BY <1>0, <2>1, MovedNothing
    <2>3. Shrinks
      BY <1>0, <2>1 DEF Shrinks, Children, TypeOK
    <2>4. Additions(NoNode)
      BY <2>1 DEF Additions
    <2>5. Links' /\ Fresh' /\ Queues' /\ Announced'
      <3>1. NoNode \notin Nodes
        BY NodesAssumption
      <3> QED BY <2>2, <2>3, <2>4, <3>1, ShrinksKeeps
    <2> QED BY <1>0, <2>1, <2>3, <2>5, ShrinksRoute
  <1>6. ASSUME NEW n \in Nodes, HandlePacket(n) PROVE Rest'
    BY <1>6, HandleKeeps
  <1>7. ASSUME NEW n \in Askers, Ask(n) PROVE Rest'
    <2> DEFINE new == Packet("DataFragment", n, ROOT, n, NoNode)
               to == [new EXCEPT !.hop = n]
    <2>1. n \in Nodes
      BY NodesAssumption
    <2>2. new \in Packets /\ new.kind = "DataFragment" /\ new.from = n /\ new.to = ROOT
      BY <2>1, PacketFacts DEF Packet
    <2>3. to \in Packets /\ to.kind = "DataFragment" /\ to.from = n /\ to.to = ROOT /\ to.hop = n
      <3>1. to \in Packets /\ to = Packet(new.kind, new.from, new.to, n, new.entry)
        BY <2>1, <2>2, HopSet
      <3> HIDE DEF to, new
      <3> QED BY <2>2, <3>1 DEF Packet
    <2>4. /\ rx' = Sent(rx, Resolve(n, new.to, table[n]), to)
          /\ UNCHANGED <<parent, children, table, joins>> /\ parent[n] # NoNode
      BY <1>7 DEF Ask, Forwarded
    <2> HIDE DEF new, to
    <2>5. Resolve(n, new.to, table[n]) = parent[n] /\ parent[n] \in Nodes \cup {NoNode}
      BY <1>0, <2>1, <2>2, ResolveFacts
    <2>6. Bounded(rx') /\ Moved(NoNode, parent[n], to)
      BY <1>0, <2>3, <2>4, <2>5, MovedSent
    <2>7. Shrinks
      BY <2>4 DEF Shrinks, Children
    <2>8. parent[n] \in Nodes => Fits(to) /\ to.kind # "RoutingTableAdd"
      BY <1>0, <2>1, <2>3, <2>4, OwnFits
    <2>9. Additions(NoNode)
      BY <2>4 DEF Additions
    <2>10. Links' /\ Fresh' /\ Queues' /\ Announced'
      BY <2>6, <2>7, <2>8, <2>9, ShrinksKeeps
    <2> QED BY <1>0, <2>4, <2>7, <2>10, ShrinksRoute
  <1>8. ASSUME UNCHANGED vars PROVE Rest'
    <2>1. UNCHANGED <<parent, children, table, rx, joins>>
      BY <1>8 DEF vars
    <2>2. UNCHANGED <<Links, Fresh>>
      BY <2>1 DEF Links, Fresh, Children
    <2>3. UNCHANGED <<Queues, Announced, OneRoute>>
      BY <2>1 DEF Queues, Fits, Announced, Announces, Unknown, OneRoute, Children
    <2> QED BY <1>0, <2>2, <2>3
  <1> HIDE DEF Rest
  <1>9. Rest'
    BY <1>2, <1>3, <1>4, <1>5, <1>6, <1>7, <1>8 DEF Next
  <1> QED BY <1>1, <1>9 DEF RouteInv, Rest

LEMMA RouteInvariant == Spec => []RouteInv
  <1> QED BY RouteInit, RouteNext, PTL DEF Spec

(* A node that was taken as a child by one node only is in the table of one *)
(* child of each node, whatever was learned, announced, withdrawn or lost   *)
(* (packet_handler.cpp), and whether the nodes form a tree or a cycle.      *)
THEOREM OneRouteCorrect == Spec => []OneRoute
  <1>1. RouteInv => OneRoute
    BY DEF RouteInv
  <1> QED BY <1>1, RouteInvariant, PTL

(* The answer to a packet of such a node leaves each node to the child over *)
(* which the packet came, unless the sender is its parent or another child. *)
THEOREM AnswersGoBackCorrect == Spec => AnswersGoBack
  <1> DEFINE Back ==
        \A n \in Nodes :
          LET packet == Head(rx[n])
          IN  /\ rx[n] # <<>>
              /\ packet.hop \in Children(n)
              /\ packet.from \notin {parent[n]} \cup (Children(n) \ {packet.hop})
              /\ joins[packet.from] <= 1
              /\ HandlePacket(n)
              => Resolve(n, packet.from, table'[n]) = packet.hop
  <1>1. RouteInv /\ RouteInv' /\ [Next]_vars => [Back]_vars
    <2> SUFFICES ASSUME RouteInv, RouteInv', NEW n \in Nodes, NEW p, p = Head(rx[n]),
                        p.hop \in Children(n), p.from # parent[n],
                        p.from \notin Children(n) \ {p.hop}, joins[p.from] <= 1,
                        HandlePacket(n)
                 PROVE  Resolve(n, p.from, table'[n]) = p.hop
      OBVIOUS
    <2>1. /\ p \in Packets /\ UNCHANGED <<parent, children, joins>> /\ Learned(n, p)
          /\ Fits(p) /\ TypeOK
      BY HeadFits DEF RouteInv
    <2>2. p.from \in Nodes /\ p.from # ROOT
      BY <2>1, PacketFields, NodesAssumption
    <2>3. p.from = p.hop \/ p.from \in ToSet(table'[n][p.hop])
      <3>1. p.kind = "RoutingTableRemove" \/ p.from \in ToSet(table'[n][p.hop])
        BY <2>1 DEF Learned
      <3> QED BY <2>1, <3>1 DEF Fits
    <2>4. ASSUME NEW c \in Children(n), Leads(n, c, p.from, table'[n]) PROVE c = p.hop
      <3>0. children[n] \in Seq(Nodes) /\ \A s \in Seq(Nodes) : ToSet(s) \subseteq Nodes
        BY <2>1 DEF TypeOK, ToSet
      <3>1. OneRoute /\ c \in Nodes /\ p.hop \in Nodes
        BY <2>1, <3>0, PacketFields DEF RouteInv, Children
      <3>2. Knows(n, p.from, p.hop, Learn(n, p.from, p.hop))
        BY <2>1, PacketLearned
      <3>3. CASE c = p.from
        BY <3>3
      <3>4. CASE p.from \in ToSet(table'[n][c])
        <4>1. SUFFICES ASSUME c # p.hop PROVE FALSE
          OBVIOUS
        <4>2. p.from \in ToSet(Learn(n, p.from, p.hop)[c])
          BY <2>1, <2>2, <3>1, <3>4, <4>1 DEF Learned
        <4>3. p.from \in ToSet(table[n][p.hop]) /\ p.from \in ToSet(table[n][c])
          BY <3>1, <3>2, <4>1, <4>2 DEF Knows
        <4> QED BY <2>2, <3>1, <4>1, <4>3 DEF OneRoute
      <3> QED BY <2>4, <3>3, <3>4 DEF Leads
    <2>5. Leads(n, p.hop, p.from, table'[n])
      BY <2>3 DEF Leads
    <2> QED BY <2>1, <2>2, <2>4, <2>5, ResolveFacts
  <1> QED BY <1>1, RouteInvariant, PTL DEF Spec, AnswersGoBack
=============================================================================
