-------------------------- MODULE Fragments_proofs --------------------------
(* Theorems about Fragments. *)
EXTENDS Fragments, SequenceTheorems, FiniteSetTheorems, TLAPS

(* The sender's loop and the receiver's division agree on the number of     *)
(* fragments.                                                               *)
LEMMA DivFacts ==
    ASSUME NEW m \in Nat \ {0}, NEW len \in Nat \ {0}
    PROVE  LET q == (len + m - 1) \div m
           IN  q \in Nat /\ q * m <= len + m - 1 /\ len + m - 1 < q * m + m
  OBVIOUS

LEMMA ProductMonotone ==
    ASSUME NEW m \in Nat \ {0}, NEW x \in Int, NEW y \in Int, x <= y
    PROVE  x * m <= y * m
  OBVIOUS

LEMMA NumsAreAll ==
    ASSUME NEW f \in Frames
    PROVE  /\ NumFragments(f.len) \in 1..8
           /\ Nums(f) = 0..NumFragments(f.len) - 1
  <1> DEFINE m == MAX_FRAG_PAYLOAD_SIZE
             q == (f.len + m - 1) \div m
  <1>1. m \in Nat \ {0} /\ f.len \in Nat \ {0} /\ f.len <= 8 * m
    BY SizeAssumption, FramesAssumption
  <1>2. q \in Nat /\ q * m <= f.len + m - 1 /\ f.len + m - 1 < q * m + m
    BY <1>1, DivFacts
  <1> HIDE DEF m, q
  <1>3. ASSUME NEW k \in Nat PROVE k * m < f.len <=> k < q
    <2>1. CASE k < q
      <3>1. (k + 1) * m <= q * m  BY <1>1, <1>2, <2>1, ProductMonotone
      <3>2. (k + 1) * m = k * m + m  BY <1>1
      <3> QED  BY <1>1, <1>2, <2>1, <3>1, <3>2
    <2>2. CASE q <= k
      <3>1. q * m <= k * m  BY <1>1, <1>2, <2>2, ProductMonotone
      <3> QED  BY <1>1, <1>2, <2>2, <3>1
    <2> QED  BY <1>2, <2>1, <2>2
  <1>4. q # 0  BY <1>1, <1>3
  <1>5. q <= 8
    <2>1. ~ 8 * m < f.len  BY <1>1
    <2> QED  BY <1>2, <1>3, <2>1
  <1>6. q = NumFragments(f.len)  BY DEF q, m, NumFragments
  <1>7. Nums(f) = {k \in 0..7 : k * m < f.len}  BY DEF Nums, m
  <1> QED  BY <1>2, <1>3, <1>4, <1>5, <1>6, <1>7

LEMMA OnlyMeansOne ==
    ASSUME NEW f \in Frames, NEW num \in Nums(f)
    PROVE  IsOnly(f, num) <=> NumFragments(f.len) = 1
  <1>1. /\ MAX_FRAG_PAYLOAD_SIZE \in Nat \ {0} /\ f.len \in Nat \ {0}
    BY SizeAssumption, FramesAssumption
  <1>2. IsOnly(f, num) <=> num = 0 /\ f.len <= MAX_FRAG_PAYLOAD_SIZE
    BY <1>1 DEF IsOnly, Size, Nums
  <1>3. 1 \in Nums(f) <=> ~ f.len <= MAX_FRAG_PAYLOAD_SIZE
    BY <1>1 DEF Nums
  <1> QED  BY <1>2, <1>3, NumsAreAll

LEMMA KeysDiffer ==
    ASSUME NEW f \in Frames, NEW g \in Frames, Key(f) = Key(g)
    PROVE  f = g
  BY UniqueAssumption DEF Key

LEMMA EmptyType ==
    ASSUME NEW f \in Frames
    PROVE  Empty(f.len) \in [0..NumFragments(f.len) - 1 -> {f, NoFrame}]
  BY DEF Empty

LEMMA BufferType ==
    ASSUME NEW f \in Frames, NEW d \in [0..NumFragments(f.len) - 1 -> {f, NoFrame}]
    PROVE  d \in Buffers /\ d # NoEntry
  <1> DEFINE n == NumFragments(f.len)
  <1>1. n \in 1..8  BY NumsAreAll
  <1> HIDE DEF n
  <1>2. d \in [0..n - 1 -> Pieces]  BY DEF Pieces, n
  <1>3. d \in Buffers  BY <1>1, <1>2 DEF Buffers
  <1>4. 0 \in DOMAIN d
    <2>1. DOMAIN d = 0..n - 1  BY <1>2
    <2> QED  BY <1>1, <2>1
  <1>5. DOMAIN NoEntry = {}  BY DEF NoEntry
  <1> QED  BY <1>3, <1>4, <1>5

-----------------------------------------------------------------------------
(* The entry of a frame's key holds pieces of that frame, and not all.      *)
EntryOf(f) ==
    \/ reassembly_map[Key(f)] = NoEntry
    \/ /\ reassembly_map[Key(f)] \in [0..NumFragments(f.len) - 1 -> {f, NoFrame}]
       /\ ~IsComplete(reassembly_map[Key(f)])

IInv == TypeOK /\ DeliveredWhole /\ \A f \in Frames : EntryOf(f)

LEMMA WholeType == \A f \in Frames : Whole(f) \in Buffers
  <1> SUFFICES ASSUME NEW f \in Frames PROVE Whole(f) \in Buffers
    OBVIOUS
  <1>1. Whole(f) \in [0..NumFragments(f.len) - 1 -> {f, NoFrame}]  BY DEF Whole
  <1> QED  BY <1>1, BufferType

(* A buffer that is complete, with pieces of one frame only, is that frame. *)
LEMMA CompleteIsWhole ==
    ASSUME NEW f \in Frames, NEW d \in [0..NumFragments(f.len) - 1 -> {f, NoFrame}],
           IsComplete(d)
    PROVE  d = Whole(f)
  BY DEF IsComplete, Whole

LEMMA WholeAppended ==
    ASSUME TypeOK, DeliveredWhole, NEW f \in Frames,
           finished_queue' = Append(finished_queue, Whole(f)),
           RunnerFree, UNCHANGED delivered
    PROVE  /\ finished_queue' \in Seq(Buffers) /\ Len(finished_queue') <= FINISHED_SIZE + 1
           /\ DeliveredWhole'
  <1>1. finished_queue \in Seq(Buffers) /\ Whole(f) \in Buffers
    BY WholeType DEF TypeOK
  <1>2. finished_queue' \in Seq(Buffers) /\ Len(finished_queue') = Len(finished_queue) + 1
    BY <1>1
  <1>3. ASSUME NEW i \in 1..Len(finished_queue')
        PROVE  \E g \in Frames : finished_queue'[i] = Whole(g)
    <2>1. CASE i = Len(finished_queue) + 1
      BY <1>1, <2>1
    <2>2. CASE i \in 1..Len(finished_queue)
      BY <1>1, <2>2 DEF DeliveredWhole, AllWhole
    <2> QED  BY <1>1, <1>2, <2>1, <2>2
  <1>4. AllWhole(finished_queue)'  BY <1>3, Zenon DEF AllWhole
  <1>5. AllWhole(delivered)'  BY DEF DeliveredWhole, AllWhole
  <1> QED  BY <1>1, <1>2, <1>4, <1>5, SizeAssumption DEF DeliveredWhole, RunnerFree

LEMMA IInvInit == Init => IInv
  <1> SUFFICES ASSUME Init PROVE IInv
    OBVIOUS
  <1>1. TypeOK
    <2>1. received \in [Frames -> [0..7 -> 0..MAX_COPIES]]
      BY SizeAssumption DEF Init
    <2>2. stale \in SUBSET Entries  BY DEF Init
    <2>3. finished_queue \in Seq(Buffers) /\ delivered \in Seq(Buffers)  BY DEF Init
    <2>4. Len(finished_queue) <= FINISHED_SIZE + 1  BY SizeAssumption DEF Init
    <2> QED  BY <2>1, <2>2, <2>3, <2>4 DEF Init, TypeOK
  <1>2. DeliveredWhole  BY DEF Init, DeliveredWhole, AllWhole
  <1>3. ASSUME NEW f \in Frames PROVE EntryOf(f)
    BY DEF Init, EntryOf, Keys
  <1> QED  BY <1>1, <1>2, <1>3 DEF IInv

(* What the three ways to add a fragment have in common. *)
LEMMA ReceivesType ==
    ASSUME IInv, NEW f \in Frames, NEW num \in Nums(f), Receives(f, num)
    PROVE  received' \in [Frames -> [0..7 -> 0..MAX_COPIES]]
  <1>1. num \in 0..7  BY DEF Nums
  <1>2. received \in [Frames -> [0..7 -> 0..MAX_COPIES]]
    BY DEF IInv, TypeOK
  <1>3. received[f][num] \in 0..MAX_COPIES
    BY <1>1, <1>2
  <1>4. received[f][num] + 1 \in 0..MAX_COPIES
    BY <1>3, SizeAssumption DEF Receives
  <1> QED  BY <1>1, <1>2, <1>4 DEF Receives

LEMMA AddOnlyInv ==
    ASSUME IInv, NEW f \in Frames, NEW num \in Nums(f), AddOnly(f, num)
    PROVE  IInv'
  <1>1. NumFragments(f.len) = 1 /\ num = 0
    BY OnlyMeansOne DEF AddOnly, IsOnly
  <1>2. Insert(Empty(f.len), f, num) = Whole(f)
    BY <1>1 DEF Insert, Empty, Whole
  <1>3. finished_queue' = Append(finished_queue, Whole(f))
    BY <1>2 DEF AddOnly
  <1>4. /\ finished_queue' \in Seq(Buffers) /\ Len(finished_queue') <= FINISHED_SIZE + 1
        /\ DeliveredWhole'
    BY <1>3, WholeAppended DEF IInv, AddOnly, Receives
  <1>5. TypeOK'
    BY <1>4, ReceivesType DEF IInv, TypeOK, AddOnly, Receives, Entries
  <1>6. \A g \in Frames : EntryOf(g)'
    BY DEF IInv, EntryOf, AddOnly
  <1> QED  BY <1>4, <1>5, <1>6 DEF IInv

(* The map after the entry of f's key became d. *)
LEMMA EntriesAfter ==
    ASSUME IInv, NEW f \in Frames, NEW d,
           reassembly_map' = [reassembly_map EXCEPT ![Key(f)] = d],
           \/ d = NoEntry
           \/ d \in [0..NumFragments(f.len) - 1 -> {f, NoFrame}] /\ ~IsComplete(d)
    PROVE  /\ reassembly_map' \in [Keys -> Buffers \cup {NoEntry}]
           /\ \A g \in Frames : EntryOf(g)'
           /\ \A k \in Entries : k # Key(f) => k \in Entries'
           /\ d # NoEntry => Key(f) \in Entries'
  <1>1. Key(f) \in Keys  BY DEF Keys
  <1>2. d \in Buffers \cup {NoEntry}  BY BufferType
  <1>3. reassembly_map' \in [Keys -> Buffers \cup {NoEntry}]
    BY <1>1, <1>2 DEF IInv, TypeOK
  <1>4. ASSUME NEW g \in Frames PROVE EntryOf(g)'
    <2>1. CASE g = f
      BY <2>1, <1>1 DEF EntryOf, IInv, TypeOK
    <2>2. CASE g # f
      <3>1. Key(g) # Key(f)  BY <2>2, KeysDiffer
      <3>2. reassembly_map'[Key(g)] = reassembly_map[Key(g)]
        BY <3>1 DEF IInv, TypeOK, Keys
      <3> QED  BY <3>2 DEF EntryOf, IInv
    <2> QED  BY <2>1, <2>2
  <1>5. \A k \in Entries : k # Key(f) => k \in Entries'
    BY DEF Entries, IInv, TypeOK
  <1>6. d # NoEntry => Key(f) \in Entries'
    BY <1>1 DEF Entries, IInv, TypeOK
  <1> QED  BY <1>3, <1>4, <1>5, <1>6

LEMMA AddFirstInv ==
    ASSUME IInv, NEW f \in Frames, NEW num \in Nums(f), AddFirst(f, num)
    PROVE  IInv'
  <1> DEFINE n == NumFragments(f.len)
             d == Insert(Empty(f.len), f, num)
  <1>1. n \in 2..8 /\ num \in 0..n - 1
    <2>1. n # 1  BY OnlyMeansOne DEF AddFirst
    <2> QED  BY <2>1, NumsAreAll
  <1>2. d \in [0..n - 1 -> {f, NoFrame}]
    BY <1>1, EmptyType DEF Insert
  <1>3. ~IsComplete(d)
    <2>1. PICK k \in 0..n - 1 : k # num
      <3>1. 0 \in 0..n - 1 /\ 1 \in 0..n - 1  BY <1>1
      <3> QED  BY <3>1
    <2>2. d[k] = NoFrame  BY <2>1, EmptyType DEF Insert, Empty
    <2> QED  BY <1>2, <2>2 DEF IsComplete
  <1>4. reassembly_map' = [reassembly_map EXCEPT ![Key(f)] = d]
    BY DEF AddFirst
  <1> HIDE DEF n, d
  <1>5. /\ reassembly_map' \in [Keys -> Buffers \cup {NoEntry}]
        /\ \A g \in Frames : EntryOf(g)'
        /\ \A k \in Entries : k # Key(f) => k \in Entries'
    BY <1>2, <1>3, <1>4, EntriesAfter DEF n
  <1>6. TypeOK'
    <2>1. stale' \in SUBSET Entries'
      BY <1>5 DEF IInv, TypeOK, AddFirst
    <2> QED  BY <1>5, <2>1, ReceivesType DEF IInv, TypeOK, AddFirst, Receives
  <1>7. DeliveredWhole'
    BY DEF IInv, DeliveredWhole, AllWhole, AddFirst, Receives
  <1> QED  BY <1>5, <1>6, <1>7 DEF IInv

LEMMA AddNextInv ==
    ASSUME IInv, NEW f \in Frames, NEW num \in Nums(f), AddNext(f, num)
    PROVE  IInv'
  <1> DEFINE n == NumFragments(f.len)
             d == Insert(reassembly_map[Key(f)], f, num)
  <1>1. num \in 0..n - 1  BY NumsAreAll
  <1>2. d \in [0..n - 1 -> {f, NoFrame}]
    <2>1. reassembly_map[Key(f)] \in [0..n - 1 -> {f, NoFrame}]
      BY DEF AddNext, Entries, IInv, EntryOf
    <2> QED  BY <1>1, <2>1 DEF Insert
  <1>3. /\ stale' = stale \ {Key(f)}
        /\ IF IsComplete(d)
             THEN /\ finished_queue' = Append(finished_queue, d)
                  /\ reassembly_map' = Erase(Key(f))
             ELSE /\ reassembly_map' = [reassembly_map EXCEPT ![Key(f)] = d]
                  /\ UNCHANGED finished_queue
    BY DEF AddNext
  <1> HIDE DEF n, d
  <1>4. CASE IsComplete(d)
    <2>1. finished_queue' = Append(finished_queue, Whole(f))
      BY <1>2, <1>3, <1>4, CompleteIsWhole DEF n
    <2>2. /\ finished_queue' \in Seq(Buffers) /\ Len(finished_queue') <= FINISHED_SIZE + 1
          /\ DeliveredWhole'
      BY <2>1, WholeAppended DEF IInv, AddNext, Receives
    <2>3. reassembly_map' = [reassembly_map EXCEPT ![Key(f)] = NoEntry]
      BY <1>3, <1>4 DEF Erase
    <2>4. /\ reassembly_map' \in [Keys -> Buffers \cup {NoEntry}]
          /\ \A g \in Frames : EntryOf(g)'
          /\ \A k \in Entries : k # Key(f) => k \in Entries'
      BY <2>3, EntriesAfter
    <2>5. stale' \in SUBSET Entries'
      BY <1>3, <2>4 DEF IInv, TypeOK
    <2> QED  BY <2>2, <2>4, <2>5, ReceivesType DEF IInv, TypeOK, AddNext, Receives
  <1>5. CASE ~IsComplete(d)
    <2>1. /\ reassembly_map' \in [Keys -> Buffers \cup {NoEntry}]
          /\ \A g \in Frames : EntryOf(g)'
          /\ \A k \in Entries : k # Key(f) => k \in Entries'
      BY <1>2, <1>3, <1>5, EntriesAfter DEF n
    <2>2. stale' \in SUBSET Entries'
      BY <1>3, <2>1 DEF IInv, TypeOK
    <2>3. DeliveredWhole'
      BY <1>3, <1>5 DEF IInv, DeliveredWhole, AllWhole, AddNext, Receives
    <2> QED
      BY <1>3, <1>5, <2>1, <2>2, <2>3, ReceivesType DEF IInv, TypeOK, AddNext, Receives
  <1> QED  BY <1>4, <1>5

LEMMA CollectGarbageInv == IInv /\ CollectGarbage => IInv'
  <1> SUFFICES ASSUME IInv, CollectGarbage PROVE IInv'
    OBVIOUS
  <1>1. TypeOK'  BY DEF IInv, TypeOK, CollectGarbage
  <1>2. DeliveredWhole'  BY DEF IInv, DeliveredWhole, AllWhole, CollectGarbage
  <1>3. \A g \in Frames : EntryOf(g)'
    BY DEF IInv, EntryOf, CollectGarbage, Keys
  <1> QED  BY <1>1, <1>2, <1>3 DEF IInv

LEMMA PopInv == IInv /\ PopReassembledData => IInv'
  <1> SUFFICES ASSUME IInv, PopReassembledData PROVE IInv'
    OBVIOUS
  <1> USE DEF PopReassembledData
  <1>1. /\ finished_queue \in Seq(Buffers) /\ finished_queue # <<>>
        /\ delivered \in Seq(Buffers)
    BY DEF IInv, TypeOK, CanPop
  <1>2. Head(finished_queue) \in Buffers /\ Head(finished_queue) = finished_queue[1]
    BY <1>1
  <1>3. /\ finished_queue' \in Seq(Buffers)
        /\ Len(finished_queue') = Len(finished_queue) - 1
        /\ \A i \in 1..Len(finished_queue') : finished_queue'[i] = finished_queue[i + 1]
    BY <1>1
  <1>4. /\ delivered' \in Seq(Buffers) /\ Len(delivered') = Len(delivered) + 1
        /\ delivered'[Len(delivered) + 1] = finished_queue[1]
        /\ \A i \in 1..Len(delivered) : delivered'[i] = delivered[i]
    BY <1>1, <1>2
  <1>5. TypeOK'
    BY <1>3, <1>4, SizeAssumption DEF IInv, TypeOK, Entries
  <1>6. AllWhole(finished_queue)'
    <2> SUFFICES ASSUME NEW i \in 1..Len(finished_queue')
                 PROVE  \E g \in Frames : finished_queue'[i] = Whole(g)
      BY DEF AllWhole
    <2>1. i + 1 \in 1..Len(finished_queue)  BY <1>1, <1>3
    <2> QED  BY <1>3, <2>1 DEF IInv, DeliveredWhole, AllWhole
  <1>7. AllWhole(delivered)'
    <2> SUFFICES ASSUME NEW i \in 1..Len(delivered')
                 PROVE  \E g \in Frames : delivered'[i] = Whole(g)
      BY DEF AllWhole
    <2>1. CASE i = Len(delivered) + 1
      <3>1. 1 \in 1..Len(finished_queue)  BY <1>1
      <3> QED  BY <1>4, <2>1, <3>1 DEF IInv, DeliveredWhole, AllWhole
    <2>2. CASE i \in 1..Len(delivered)
      BY <1>4, <2>2 DEF IInv, DeliveredWhole, AllWhole
    <2> QED  BY <1>1, <1>4, <2>1, <2>2
  <1>8. \A g \in Frames : EntryOf(g)'  BY DEF IInv, EntryOf
  <1> QED  BY <1>5, <1>6, <1>7, <1>8 DEF IInv, DeliveredWhole

LEMMA IInvNext == IInv /\ [Next]_vars => IInv'
  <1> SUFFICES ASSUME IInv, [Next]_vars PROVE IInv'
    OBVIOUS
  <1>1. ASSUME NEW f \in Frames, NEW num \in Nums(f), AddFragment(f, num)
        PROVE  IInv'
    BY <1>1, AddOnlyInv, AddFirstInv, AddNextInv DEF AddFragment
  <1>2. CASE CollectGarbage  BY <1>2, CollectGarbageInv
  <1>3. ASSUME NEW k \in Keys, Elapse(k) PROVE IInv'
    <2>1. TypeOK'  BY <1>3 DEF IInv, TypeOK, Elapse, Entries
    <2>2. DeliveredWhole'  BY <1>3 DEF IInv, DeliveredWhole, AllWhole, Elapse
    <2>3. \A g \in Frames : EntryOf(g)'  BY <1>3 DEF IInv, EntryOf, Elapse
    <2> QED  BY <2>1, <2>2, <2>3 DEF IInv
  <1>4. CASE PopReassembledData  BY <1>4, PopInv
  <1>5. CASE UNCHANGED vars
    <2>1. TypeOK'  BY <1>5 DEF IInv, TypeOK, vars, Entries
    <2>2. DeliveredWhole'  BY <1>5 DEF IInv, DeliveredWhole, AllWhole, vars
    <2>3. \A g \in Frames : EntryOf(g)'  BY <1>5 DEF IInv, EntryOf, vars
    <2> QED  BY <2>1, <2>2, <2>3 DEF IInv
  <1> QED  BY <1>1, <1>2, <1>3, <1>4, <1>5 DEF Next

LEMMA Invariant == Spec => []IInv
  BY IInvInit, IInvNext, PTL DEF Spec

(* Every variable keeps its type, and finished_queue its bound.             *)
THEOREM TypeCorrect == Spec => []TypeOK
  <1>1. IInv => TypeOK  BY DEF IInv
  <1> QED  BY <1>1, Invariant, PTL

(* However fragments are lost, repeated, reordered or collected, the IP     *)
(* stack gets only frames that were transmitted, whole.                     *)
THEOREM DeliveredWholeCorrect == Spec => []DeliveredWhole
  <1>1. IInv => DeliveredWhole  BY DEF IInv
  <1> QED  BY <1>1, Invariant, PTL

(* No frame that is complete waits in the map.                              *)
THEOREM NoneWithheldCorrect == Spec => []NoneWithheld
  <1>1. IInv => NoneWithheld
    <2> SUFFICES ASSUME IInv, NEW k \in Entries PROVE ~IsComplete(reassembly_map[k])
      BY DEF NoneWithheld
    <2>1. PICK f \in Frames : k = Key(f)  BY DEF Entries, Keys
    <2> QED  BY <2>1 DEF IInv, EntryOf, Entries
  <1> QED  BY <1>1, Invariant, PTL

-----------------------------------------------------------------------------
(* No frame is delivered more often than each of its fragments was          *)
(* received: this takes counting.                                           *)

(* How often a sequence has an element. *)
Spots(s, e) == {i \in 1..Len(s) : s[i] = e}
Count(s, e) == Cardinality(Spots(s, e))

LEMMA SpotsFinite ==
    ASSUME NEW S, NEW s \in Seq(S), NEW e
    PROVE  IsFiniteSet(Spots(s, e)) /\ Count(s, e) \in Nat
  <1>1. Len(s) \in Nat
    BY LenProperties
  <1>2. IsFiniteSet(1..Len(s)) /\ Spots(s, e) \in SUBSET (1..Len(s))
    BY <1>1, FS_Interval DEF Spots
  <1>3. IsFiniteSet(Spots(s, e))
    BY <1>2, FS_Subset
  <1> QED BY <1>3, FS_CardinalityType DEF Count

LEMMA CountConcat ==
    ASSUME NEW S, NEW s \in Seq(S), NEW t \in Seq(S), NEW e
    PROVE  Count(s \o t, e) = Count(s, e) + Count(t, e)
  <1> DEFINE Shifted == {Len(s) + j : j \in Spots(t, e)}
             f == [j \in Spots(t, e) |-> Len(s) + j]
  <1>1. Len(s) \in Nat /\ Len(t) \in Nat
    BY LenProperties
  <1>2. /\ Len(s \o t) = Len(s) + Len(t)
        /\ \A i \in 1..Len(s) : (s \o t)[i] = s[i]
        /\ \A j \in 1..Len(t) : (s \o t)[Len(s) + j] = t[j]
    BY <1>1, ConcatProperties
  <1>3. Spots(s \o t, e) = Spots(s, e) \cup Shifted
    <2>1. ASSUME NEW i \in Spots(s \o t, e) PROVE i \in Spots(s, e) \cup Shifted
      <3>1. CASE i <= Len(s)
        BY <1>1, <1>2, <2>1, <3>1 DEF Spots
      <3>2. CASE i > Len(s)
        <4>1. i - Len(s) \in 1..Len(t) /\ Len(s) + (i - Len(s)) = i
          BY <1>1, <1>2, <2>1, <3>2 DEF Spots
        <4>2. i - Len(s) \in Spots(t, e)
          BY <1>2, <2>1, <4>1 DEF Spots
        <4> QED BY <4>1, <4>2
      <3> QED BY <1>1, <1>2, <2>1, <3>1, <3>2 DEF Spots
    <2>2. ASSUME NEW i \in Spots(s, e) PROVE i \in Spots(s \o t, e)
      BY <1>1, <1>2, <2>2 DEF Spots
    <2>3. ASSUME NEW j \in Spots(t, e) PROVE Len(s) + j \in Spots(s \o t, e)
      BY <1>1, <1>2, <2>3 DEF Spots
    <2> QED BY <2>1, <2>2, <2>3
  <1>4. Spots(s, e) \cap Shifted = {}
    BY <1>1 DEF Spots
  <1>5. f \in Bijection(Spots(t, e), Shifted)
    <2>1. \A j \in Spots(t, e) : j \in Int
      BY <1>1 DEF Spots
    <2>2. f \in [Spots(t, e) -> Shifted]
      OBVIOUS
    <2>3. \A i, j \in Spots(t, e) : f[i] = f[j] => i = j
      BY <1>1, <2>1
    <2>4. \A x \in Shifted : \E j \in Spots(t, e) : f[j] = x
      OBVIOUS
    <2> HIDE DEF f, Shifted
    <2> QED BY <2>2, <2>3, <2>4 DEF Bijection, Injection, IsInjective, Surjection
  <1>6. IsFiniteSet(Spots(s, e)) /\ IsFiniteSet(Spots(t, e))
        /\ Count(s, e) \in Nat /\ Count(t, e) \in Nat
    BY SpotsFinite
  <1> HIDE DEF f, Shifted
  <1>7. IsFiniteSet(Shifted) /\ Cardinality(Shifted) = Count(t, e)
    BY <1>5, <1>6, FS_Bijection DEF ExistsBijection, Count
  <1>8. Cardinality(Spots(s, e) \cup Shifted)
          = Cardinality(Spots(s, e)) + Cardinality(Shifted) - Cardinality({})
    BY <1>4, <1>6, <1>7, FS_Union
  <1> QED BY <1>3, <1>6, <1>7, <1>8, FS_EmptySet DEF Count

LEMMA CountOne == ASSUME NEW x, NEW e PROVE Count(<<x>>, e) = IF x = e THEN 1 ELSE 0
  <1>1. Len(<<x>>) = 1 /\ <<x>>[1] = x
    OBVIOUS
  <1>2. Spots(<<x>>, e) = IF x = e THEN {1} ELSE {}
    BY <1>1 DEF Spots
  <1> QED BY <1>2, FS_Singleton, FS_EmptySet DEF Count

LEMMA CountAppend ==
    ASSUME NEW S, NEW s \in Seq(S), NEW x \in S, NEW e
    PROVE  Count(Append(s, x), e) = Count(s, e) + (IF x = e THEN 1 ELSE 0)
  <1>1. Append(s, x) = s \o <<x>> /\ <<x>> \in Seq(S)
    BY AppendIsConcat
  <1>2. Count(s \o <<x>>, e) = Count(s, e) + Count(<<x>>, e)
    BY <1>1, CountConcat
  <1> QED BY <1>1, <1>2, CountOne

LEMMA CountTail ==
    ASSUME NEW S, NEW s \in Seq(S), s # <<>>, NEW e
    PROVE  Count(s, e) = (IF Head(s) = e THEN 1 ELSE 0) + Count(Tail(s), e)
  <1>1. Head(s) \in S /\ Tail(s) \in Seq(S) /\ <<Head(s)>> \in Seq(S)
    BY HeadTailProperties
  <1>2. s = <<Head(s)>> \o Tail(s)
    OBVIOUS
  <1>3. Count(<<Head(s)>> \o Tail(s), e) = Count(<<Head(s)>>, e) + Count(Tail(s), e)
    BY <1>1, CountConcat
  <1> QED BY <1>2, <1>3, CountOne

-----------------------------------------------------------------------------
(* Each fragment that was received pays for one delivery, or for a piece in *)
(* the entry of its frame.                                                  *)
Done(f) == Count(finished_queue, Whole(f)) + Count(delivered, Whole(f))
Held(f, k) ==
    IF reassembly_map[Key(f)] # NoEntry /\ reassembly_map[Key(f)][k] = f THEN 1 ELSE 0
Paid == \A f \in Frames : \A k \in Nums(f) : Done(f) + Held(f, k) <= received[f][k]

LEMMA DoneType ==
    ASSUME TypeOK, NEW f \in Frames
    PROVE  Done(f) \in Nat /\ Deliveries(f) = Done(f)
  <1>1. finished_queue \in Seq(Buffers) /\ delivered \in Seq(Buffers)
    BY DEF TypeOK
  <1>2. Deliveries(f) = Count(finished_queue \o delivered, Whole(f))
    BY DEF Deliveries, Out, Count, Spots
  <1> QED BY <1>1, <1>2, CountConcat, SpotsFinite DEF Done

LEMMA WholesDiffer ==
    ASSUME NEW f \in Frames, NEW g \in Frames, Whole(f) = Whole(g)
    PROVE  f = g
  <1>1. 0 \in 0..NumFragments(f.len) - 1 /\ 0 \in 0..NumFragments(g.len) - 1
    BY NumsAreAll
  <1>2. Whole(f)[0] = f /\ Whole(g)[0] = g
    BY <1>1 DEF Whole
  <1> QED BY <1>2

(* A frame is put into the queue, ... *)
LEMMA DoneAppended ==
    ASSUME TypeOK, NEW f \in Frames, UNCHANGED delivered,
           finished_queue' = Append(finished_queue, Whole(f))
    PROVE  \A g \in Frames : Done(g)' = Done(g) + (IF g = f THEN 1 ELSE 0)
  <1> SUFFICES ASSUME NEW g \in Frames
               PROVE  Done(g)' = Done(g) + (IF g = f THEN 1 ELSE 0)
    OBVIOUS
  <1>1. finished_queue \in Seq(Buffers) /\ delivered \in Seq(Buffers)
        /\ Whole(f) \in Buffers
    BY WholeType DEF TypeOK
  <1>2. Count(finished_queue', Whole(g)) = Count(finished_queue, Whole(g))
                                             + (IF Whole(f) = Whole(g) THEN 1 ELSE 0)
    BY <1>1, CountAppend
  <1>3. Whole(f) = Whole(g) <=> g = f
    BY WholesDiffer
  <1>4. Count(finished_queue, Whole(g)) \in Nat /\ Count(delivered, Whole(g)) \in Nat
    BY <1>1, SpotsFinite
  <1>5. Done(g)' = Count(finished_queue', Whole(g)) + Count(delivered, Whole(g))
    BY DEF Done, Whole
  <1> QED BY <1>2, <1>3, <1>4, <1>5 DEF Done

(* ... and moves on to the IP stack.                                        *)
LEMMA DonePopped ==
    ASSUME TypeOK, PopReassembledData
    PROVE  \A g \in Frames : Done(g)' = Done(g)
  <1> SUFFICES ASSUME NEW g \in Frames PROVE Done(g)' = Done(g)
    OBVIOUS
  <1>1. finished_queue \in Seq(Buffers) /\ delivered \in Seq(Buffers)
        /\ finished_queue # <<>>
    BY DEF TypeOK, PopReassembledData, CanPop
  <1>2. Head(finished_queue) \in Buffers /\ Tail(finished_queue) \in Seq(Buffers)
    BY <1>1, HeadTailProperties
  <1> DEFINE one == IF Head(finished_queue) = Whole(g) THEN 1 ELSE 0
  <1>3. Count(finished_queue, Whole(g)) = one + Count(Tail(finished_queue), Whole(g))
    BY <1>1, CountTail
  <1>4. Count(Append(delivered, Head(finished_queue)), Whole(g))
          = Count(delivered, Whole(g)) + one
    BY <1>1, <1>2, CountAppend
  <1>5. Count(Tail(finished_queue), Whole(g)) \in Nat /\ Count(delivered, Whole(g)) \in Nat
    BY <1>1, <1>2, SpotsFinite
  <1>6. Done(g)' = Count(Tail(finished_queue), Whole(g))
                     + Count(Append(delivered, Head(finished_queue)), Whole(g))
    BY DEF Done, Whole, PopReassembledData
  <1> QED BY <1>3, <1>4, <1>5, <1>6 DEF Done

-----------------------------------------------------------------------------
LEMMA PaidInit == Init => Paid
  <1> SUFFICES ASSUME Init, NEW f \in Frames, NEW k \in Nums(f)
               PROVE  Done(f) + Held(f, k) <= received[f][k]
    BY DEF Paid
  <1>1. k \in 0..7 /\ Key(f) \in Keys
    BY DEF Nums, Keys
  <1>2. Spots(finished_queue, Whole(f)) = {} /\ Spots(delivered, Whole(f)) = {}
    BY DEF Init, Spots
  <1>3. Done(f) = 0
    BY <1>2, FS_EmptySet DEF Done, Count
  <1>4. Held(f, k) = 0 /\ received[f][k] = 0
    BY <1>1 DEF Init, Held
  <1> QED BY <1>3, <1>4

(* What a fragment pays. *)
LEMMA Received ==
    ASSUME TypeOK, NEW f \in Frames, NEW num \in Nums(f), Receives(f, num)
    PROVE  \A g \in Frames : \A k \in Nums(g) :
             /\ received[g][k] \in Nat
             /\ received'[g][k] = received[g][k] + (IF g = f /\ k = num THEN 1 ELSE 0)
  <1> SUFFICES ASSUME NEW g \in Frames, NEW k \in Nums(g)
               PROVE  /\ received[g][k] \in Nat
                      /\ received'[g][k] =
                           received[g][k] + (IF g = f /\ k = num THEN 1 ELSE 0)
    OBVIOUS
  <1>1. num \in 0..7 /\ k \in 0..7
    BY DEF Nums
  <1>2. received \in [Frames -> [0..7 -> 0..MAX_COPIES]]
    BY DEF TypeOK
  <1>3. received[g][k] \in 0..MAX_COPIES
    BY <1>1, <1>2
  <1>4. received' = [received EXCEPT ![f][num] = @ + 1]
    BY DEF Receives
  <1> QED BY <1>1, <1>2, <1>3, <1>4, SizeAssumption

(* What the entry of a key holds is the matter of one frame. *)
LEMMA HeldElsewhere ==
    ASSUME TypeOK, NEW f \in Frames, NEW d,
           reassembly_map' = [reassembly_map EXCEPT ![Key(f)] = d]
    PROVE  /\ reassembly_map'[Key(f)] = d
           /\ \A g \in Frames \ {f} : \A k \in Nums(g) : Held(g, k)' = Held(g, k)
  <1>1. reassembly_map'[Key(f)] = d
    BY DEF TypeOK, Keys
  <1>2. ASSUME NEW g \in Frames \ {f}, NEW k \in Nums(g) PROVE Held(g, k)' = Held(g, k)
    <2>1. Key(g) # Key(f)
      BY KeysDiffer
    <2>2. reassembly_map'[Key(g)] = reassembly_map[Key(g)]
      BY <2>1 DEF TypeOK, Keys
    <2> QED BY <2>2 DEF Held, Key
  <1> QED BY <1>1, <1>2

LEMMA HeldType == \A f \in Frames : \A k \in Nums(f) : Held(f, k) \in 0..1
  BY DEF Held

LEMMA AddOnlyPaid ==
    ASSUME IInv, Paid, NEW f \in Frames, NEW num \in Nums(f), AddOnly(f, num)
    PROVE  Paid'
  <1>1. NumFragments(f.len) = 1 /\ num = 0
    BY OnlyMeansOne DEF AddOnly, IsOnly
  <1>2. Insert(Empty(f.len), f, num) = Whole(f)
    BY <1>1 DEF Insert, Empty, Whole
  <1>3. /\ finished_queue' = Append(finished_queue, Whole(f))
        /\ UNCHANGED <<reassembly_map, delivered>> /\ Receives(f, num)
    BY <1>2 DEF AddOnly, Receives
  <1> SUFFICES ASSUME NEW g \in Frames, NEW k \in Nums(g)
               PROVE  Done(g)' + Held(g, k)' <= received'[g][k]
    BY DEF Paid, Nums
  <1>4. Done(g)' = Done(g) + (IF g = f THEN 1 ELSE 0) /\ Done(g) \in Nat
    BY <1>3, DoneAppended, DoneType DEF IInv
  <1>5. g = f => k = num
    BY <1>1, NumsAreAll
  <1>6. received'[g][k] = received[g][k] + (IF g = f /\ k = num THEN 1 ELSE 0)
        /\ received[g][k] \in Nat
    BY <1>3, Received DEF IInv
  <1>7. Held(g, k)' = Held(g, k) /\ Held(g, k) \in 0..1
    BY <1>3 DEF Held, Key
  <1>8. Done(g) + Held(g, k) <= received[g][k]
    BY DEF Paid
  <1> QED BY <1>4, <1>5, <1>6, <1>7, <1>8

(* A step that leaves the queue alone. *)
LEMMA DoneSame ==
    ASSUME UNCHANGED <<finished_queue, delivered>>
    PROVE  \A g \in Frames : Done(g)' = Done(g)
  BY DEF Done, Whole

LEMMA AddFirstPaid ==
    ASSUME IInv, Paid, NEW f \in Frames, NEW num \in Nums(f), AddFirst(f, num)
    PROVE  Paid'
  <1> DEFINE d == Insert(Empty(f.len), f, num)
  <1>1. reassembly_map' = [reassembly_map EXCEPT ![Key(f)] = d] /\ Receives(f, num)
        /\ reassembly_map[Key(f)] = NoEntry /\ UNCHANGED <<finished_queue, delivered>>
    BY DEF AddFirst, Receives, Entries, Keys
  <1>2. \A k \in Nums(f) : k # num => d[k] # f
    BY NumsAreAll, FramesAssumption DEF Insert, Empty
  <1> HIDE DEF d
  <1> SUFFICES ASSUME NEW g \in Frames, NEW k \in Nums(g)
               PROVE  Done(g)' + Held(g, k)' <= received'[g][k]
    BY DEF Paid, Nums
  <1>3. Done(g)' = Done(g) /\ Done(g) \in Nat
    BY <1>1, DoneSame, DoneType DEF IInv
  <1>4. received'[g][k] = received[g][k] + (IF g = f /\ k = num THEN 1 ELSE 0)
        /\ received[g][k] \in Nat
    BY <1>1, Received DEF IInv
  <1>5. Done(g) + Held(g, k) <= received[g][k] /\ Held(g, k) \in 0..1
    BY HeldType DEF Paid
  <1>6. CASE g = f
    <2>1. Held(g, k) = 0
      BY <1>1, <1>6 DEF Held
    <2>2. Held(g, k)' = 0 \/ (k = num /\ Held(g, k)' = 1)
      <3>1. reassembly_map'[Key(f)] = d
        BY <1>1, HeldElsewhere DEF IInv
      <3> QED BY <1>2, <1>6, <3>1 DEF Held, Key
    <2> QED BY <1>3, <1>4, <1>5, <1>6, <2>1, <2>2
  <1>7. CASE g # f
    <2>1. Held(g, k)' = Held(g, k)
      BY <1>1, <1>7, HeldElsewhere DEF IInv
    <2> QED BY <1>3, <1>4, <1>5, <1>7, <2>1
  <1> QED BY <1>6, <1>7

LEMMA AddNextPaid ==
    ASSUME IInv, Paid, NEW f \in Frames, NEW num \in Nums(f), AddNext(f, num)
    PROVE  Paid'
  <1> DEFINE n == NumFragments(f.len)
             old == reassembly_map[Key(f)]
             d == Insert(old, f, num)
  <1>1. /\ old # NoEntry /\ old \in [0..n - 1 -> {f, NoFrame}]
        /\ Receives(f, num) /\ UNCHANGED delivered
    BY DEF AddNext, Receives, Entries, IInv, EntryOf
  <1>2. /\ num \in 0..n - 1 /\ Nums(f) = 0..n - 1
        /\ d \in [0..n - 1 -> {f, NoFrame}] /\ d = [old EXCEPT ![num] = f]
    BY <1>1, NumsAreAll DEF Insert
  <1>3. IF IsComplete(d)
          THEN /\ finished_queue' = Append(finished_queue, d)
               /\ reassembly_map' = Erase(Key(f))
          ELSE /\ reassembly_map' = [reassembly_map EXCEPT ![Key(f)] = d]
               /\ UNCHANGED finished_queue
    BY DEF AddNext
  <1>4. IsComplete(d) => d = Whole(f)
    BY <1>2, CompleteIsWhole
  <1>5. \A k \in Nums(f) : Held(f, k) = IF old[k] = f THEN 1 ELSE 0
    BY <1>1 DEF Held
  <1> HIDE DEF n, old, d
  <1> SUFFICES ASSUME NEW g \in Frames, NEW k \in Nums(g)
               PROVE  Done(g)' + Held(g, k)' <= received'[g][k]
    BY DEF Paid, Nums
  <1>6. received'[g][k] = received[g][k] + (IF g = f /\ k = num THEN 1 ELSE 0)
        /\ received[g][k] \in Nat
    BY <1>1, Received DEF IInv
  <1>7. Done(g) + Held(g, k) <= received[g][k] /\ Held(g, k) \in 0..1 /\ Done(g) \in Nat
    BY HeldType, DoneType DEF Paid, IInv
  <1>8. CASE IsComplete(d)
    <2>1. /\ finished_queue' = Append(finished_queue, Whole(f))
          /\ reassembly_map' = [reassembly_map EXCEPT ![Key(f)] = NoEntry]
      BY <1>3, <1>4, <1>8 DEF Erase
    <2>2. Done(g)' = Done(g) + (IF g = f THEN 1 ELSE 0)
      BY <1>1, <2>1, DoneAppended DEF IInv
    <2>3. CASE g = f
      <3>1. Held(g, k)' = 0
        <4>1. reassembly_map'[Key(f)] = NoEntry
          BY <2>1, HeldElsewhere DEF IInv
        <4> QED BY <2>3, <4>1 DEF Held, Key
      <3>2. k = num \/ Held(g, k) = 1
        <4>1. ASSUME k # num PROVE old[k] = f
          <5>1. d[k] = f
            BY <1>2, <1>4, <1>8, <2>3 DEF Whole, n
          <5> QED BY <1>1, <1>2, <2>3, <4>1, <5>1
        <4> QED BY <1>5, <2>3, <4>1
      <3> QED BY <1>6, <1>7, <2>2, <2>3, <3>1, <3>2
    <2>4. CASE g # f
      <3>1. Held(g, k)' = Held(g, k)
        BY <2>1, <2>4, HeldElsewhere DEF IInv
      <3> QED BY <1>6, <1>7, <2>2, <2>4, <3>1
    <2> QED BY <2>3, <2>4
  <1>9. CASE ~IsComplete(d)
    <2>1. /\ reassembly_map' = [reassembly_map EXCEPT ![Key(f)] = d]
          /\ UNCHANGED <<finished_queue, delivered>>
      BY <1>1, <1>3, <1>9
    <2>2. Done(g)' = Done(g)
      BY <2>1, DoneSame
    <2>3. CASE g = f
      <3>1. Held(g, k)' \in 0..1 /\ (k # num => Held(g, k)' <= Held(g, k))
        <4>1. reassembly_map'[Key(f)] = d
          BY <2>1, HeldElsewhere DEF IInv
        <4>2. Held(g, k)' = IF d # NoEntry /\ d[k] = f THEN 1 ELSE 0
          BY <2>3, <4>1 DEF Held, Key
        <4>3. k # num => d[k] = old[k]
          BY <1>1, <1>2, <2>3
        <4> QED BY <1>5, <2>3, <4>2, <4>3
      <3> QED BY <1>6, <1>7, <2>2, <2>3, <3>1
    <2>4. CASE g # f
      <3>1. Held(g, k)' = Held(g, k)
        BY <2>1, <2>4, HeldElsewhere DEF IInv
      <3> QED BY <1>6, <1>7, <2>2, <2>4, <3>1
    <2> QED BY <2>3, <2>4
  <1> QED BY <1>8, <1>9

LEMMA PaidNext == IInv /\ Paid /\ [Next]_vars => Paid'
  <1> SUFFICES ASSUME IInv, Paid, [Next]_vars PROVE Paid'
    OBVIOUS
  <1>1. ASSUME NEW f \in Frames, NEW num \in Nums(f), AddFragment(f, num)
        PROVE  Paid'
    BY <1>1, AddOnlyPaid, AddFirstPaid, AddNextPaid DEF AddFragment
  <1>2. ASSUME UNCHANGED received, \A g \in Frames : Done(g)' = Done(g),
               \A k \in Keys : reassembly_map'[k] \in {reassembly_map[k], NoEntry}
        PROVE  Paid'
    <2> SUFFICES ASSUME NEW g \in Frames, NEW k \in Nums(g)
                 PROVE  Done(g)' + Held(g, k)' <= received'[g][k]
      BY DEF Paid, Nums
    <2>1. Done(g) + Held(g, k) <= received[g][k] /\ Done(g) \in Nat
      BY DoneType DEF Paid, IInv
    <2>2. Held(g, k)' \in {Held(g, k), 0} /\ Held(g, k) \in 0..1
      BY <1>2 DEF Held, Key, Keys
    <2>3. received[g][k] \in Nat
      <3>1. k \in 0..7
        BY DEF Nums
      <3>2. received[g][k] \in 0..MAX_COPIES
        BY <3>1 DEF IInv, TypeOK
      <3> QED BY <3>2, SizeAssumption
    <2> QED BY <1>2, <2>1, <2>2, <2>3
  <1>3. CASE CollectGarbage
    BY <1>2, <1>3, DoneSame DEF CollectGarbage
  <1>4. CASE PopReassembledData
    BY <1>2, <1>4, DonePopped DEF PopReassembledData, IInv
  <1>5. CASE (\E k \in Keys : Elapse(k)) \/ UNCHANGED vars
    BY <1>2, <1>5, DoneSame DEF Elapse, vars
  <1> QED BY <1>1, <1>3, <1>4, <1>5 DEF Next

(* However fragments are lost, repeated and reordered, entries collected    *)
(* and begun again: each delivery of a frame is paid for by a reception of  *)
(* each of its fragments, and no reception pays twice.                      *)
THEOREM NoMoreThanReceivedCorrect == Spec => []NoMoreThanReceived
  <1>1. IInv /\ Paid => NoMoreThanReceived
    <2> SUFFICES ASSUME IInv, Paid, NEW f \in Frames, NEW k \in Nums(f)
                 PROVE  Deliveries(f) <= received[f][k]
      BY DEF NoMoreThanReceived
    <2>1. Deliveries(f) = Done(f) /\ Done(f) \in Nat
      BY DoneType DEF IInv
    <2>2. Done(f) + Held(f, k) <= received[f][k] /\ Held(f, k) \in 0..1
      BY HeldType DEF Paid
    <2>3. received[f][k] \in Int
      <3>1. k \in 0..7
        BY DEF Nums
      <3>2. received[f][k] \in 0..MAX_COPIES
        BY <3>1 DEF IInv, TypeOK
      <3> QED BY <3>2, SizeAssumption
    <2> QED BY <2>1, <2>2, <2>3
  <1> QED BY <1>1, Invariant, PaidInit, PaidNext, PTL DEF Spec
=============================================================================
