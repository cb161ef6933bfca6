---------------------------- MODULE Custom_proofs ----------------------------
(***************************************************************************)
(* Two things about messages, for every number of them and of callbacks.   *)
(*                                                                         *)
(* What is sent is read as it was sent, for every message and every piece  *)
(* of every frame that the network interface hands over, on any radio that *)
(* takes no more than ESP_NOW_MAX_DATA_LEN bytes.                          *)
(*                                                                         *)
(* The list of callbacks stays a list, and a walk along it calls each once *)
(* (List and Walk), with the writes of one call that changes it, and the   *)
(* reads of the walk, in any order.                                        *)
(***************************************************************************)
EXTENDS Custom, SequenceTheorems, TLAPS

(* A piece is within the frame, and its number within its bit field.        *)
LEMMA PieceWithin ==
    ASSUME NEW p, IsPiece(p)
    PROVE  p.frag_num \in 0..6
           /\ p.total_size - p.frag_num * MAX_FRAG_PAYLOAD_SIZE \in 1..1568
  <1> DEFINE t == p.total_size
             f == p.frag_num
             n == NumPieces(t)
  <1>0. t \in 1..1568 /\ f \in 0..n - 1
    BY DEF IsPiece
  <1> HIDE DEF t, f
  <1>1. n \in Int /\ 224 * n <= t + 223
    BY <1>0 DEF NumPieces, MAX_FRAG_PAYLOAD_SIZE, ESP_NOW_MAX_DATA_LEN, HEADER_SIZE
  <1>2. f + 1 <= n /\ f \in Nat
    BY <1>0, <1>1
  <1> HIDE DEF n
  <1>3. 224 * (f + 1) <= t + 223
    BY <1>0, <1>1, <1>2
  <1>4. f \in 0..6 /\ t - f * 224 \in 1..1568
    BY <1>0, <1>2, <1>3
  <1> QED
    BY <1>4 DEF t, f, MAX_FRAG_PAYLOAD_SIZE, ESP_NOW_MAX_DATA_LEN, HEADER_SIZE

(* Reading back what was written. *)
LEMMA FragmentRead ==
    ASSUME NEW p, IsPiece(p)
    PROVE  Readable(Serialize(p)) /\ Serialize(p).payload = p
  <1>0. p = Piece(p.total_size, p.frag_num, p.name) /\ p.kind = "DataFragment"
        /\ p.total_size \in 1..1568
    BY DEF IsPiece
  <1>1. p.frag_num \in 0..6
        /\ p.total_size - p.frag_num * MAX_FRAG_PAYLOAD_SIZE \in 1..1568
    BY PieceWithin
  <1>2. p.len = PieceSize(p.total_size, p.frag_num)
    BY <1>0 DEF Piece, DataFragment
  <1>3. p.frag_num % 8 = p.frag_num /\ p.total_size % 2048 = p.total_size
    BY <1>0, <1>1
  <1>4. Written(p) = p
    BY <1>0, <1>2, <1>3 DEF Written, Options, Piece
  <1>5. ToRead(p.frag_num, p.total_size) = p.len
    BY <1>1, <1>2 DEF ToRead, PieceSize, Smaller
  <1>6. PayloadSize(p) = 6 + p.len
    BY <1>0 DEF PayloadSize, Plain, WithAddress
  <1>7. ReadSize(p) = 6 + p.len
    BY <1>0, <1>5 DEF ReadSize
  <1>8. ValidPayload(p)
    BY <1>0, <1>1 DEF ValidPayload, ValidFragment
  <1> QED BY <1>4, <1>6, <1>7, <1>8 DEF Serialize, Readable

LEMMA MessageRead ==
    ASSUME NEW p, IsMessage(p), Fits(Serialize(p))
    PROVE  Readable(Serialize(p)) /\ Serialize(p).payload = p
  <1>0. p.kind = "CustomData" /\ p.len \in Nat
    BY DEF IsMessage
  <1>1. Written(p) = p
    BY <1>0 DEF Written
  <1>2. PayloadSize(p) = PrefixSize(p.len) + p.len
    BY <1>0 DEF PayloadSize, Plain, WithAddress
  <1>3. HEADER_SIZE + (PrefixSize(p.len) + p.len) <= ESP_NOW_MAX_DATA_LEN
    BY <1>2 DEF Fits, Serialize
  <1>4. p.len <= MAX_CUSTOM_PAYLOAD_SIZE
    BY <1>0, <1>3 DEF PrefixSize, MAX_CUSTOM_PAYLOAD_SIZE, HEADER_SIZE, ESP_NOW_MAX_DATA_LEN
  <1>5. ValidPayload(p) /\ ReadSize(p) = PayloadSize(p)
    BY <1>0, <1>4 DEF ValidPayload, ReadSize
  <1> QED BY <1>1, <1>5 DEF Serialize, Readable

LEMMA ItemRead ==
    ASSUME NEW i \in Items, Fits(Serialize(i))
    PROVE  Readable(Serialize(i)) /\ Serialize(i).payload = i
  BY ItemsAssumption, MessageRead, FragmentRead

-----------------------------------------------------------------------------
(* The queue holds payloads, and the air what the radio took of them. *)
OnItsWay ==
    /\ left \in SUBSET Items /\ sendq \in Seq(Items)
    /\ \A packet \in air : \E i \in Items :
         packet = [sent |-> i, buffer |-> Serialize(i)] /\ Fits(Serialize(i))

LEMMA OnItsWayNext == OnItsWay /\ [Next]_vars => OnItsWay'
  <1> SUFFICES ASSUME OnItsWay, [Next]_vars PROVE OnItsWay'
    OBVIOUS
  <1> USE DEF OnItsWay
  <1>1. ASSUME NEW i \in Items, Send(i) PROVE OnItsWay'
    BY <1>1, AppendProperties DEF Send
  <1>2. ASSUME sendq # <<>> PROVE Head(sendq) \in Items /\ Tail(sendq) \in Seq(Items)
    BY <1>2, HeadTailProperties
  <1>3. CASE Accept
    BY <1>2, <1>3 DEF Accept
  <1>4. CASE Refuse
    BY <1>2, <1>4, AppendProperties DEF Refuse
  <1>5. ASSUME NEW packet \in air, Receive(packet) PROVE OnItsWay'
    BY <1>5 DEF Receive
  <1>6. CASE UNCHANGED <<left, sendq, air>>
    BY <1>6
  <1> QED
    BY <1>1, <1>3, <1>4, <1>5, <1>6
    DEF Next, Runner, HandleDataFragment, BeginWalk, Call, Advance, EndWalk, Application,
        Register, LinkFirst, PublishFirst, Unregister, Unlink, Free, Deinit, pathVars, vars

(* Every message that fits and every piece of every frame of up to seven    *)
(* full pieces, whatever the order in which they are sent, refused and      *)
(* received: the reader accepts it and reads what was written, although it  *)
(* computes how much to read from bit fields of 3 and 11 bits.              *)
THEOREM ReadAsSentCorrect == Spec => []ReadAsSent
  <1>1. Init => OnItsWay
    BY DEF Init, OnItsWay
  <1>2. OnItsWay => ReadAsSent
    <2> SUFFICES ASSUME OnItsWay, NEW packet \in air
                 PROVE  Readable(packet.buffer) /\ packet.buffer.payload = packet.sent
      BY DEF ReadAsSent
    <2>1. PICK i \in Items :
            packet = [sent |-> i, buffer |-> Serialize(i)] /\ Fits(Serialize(i))
      BY DEF OnItsWay
    <2> QED BY <2>1, ItemRead
  <1> QED BY <1>1, <1>2, OnItsWayNext, PTL DEF Spec

-----------------------------------------------------------------------------
(* The list and the walk.                                                   *)
(*                                                                          *)
(* A call that registers or unregisters a callback is several writes long.  *)
(* Until it is done its handle is in the heap but not in order, and the     *)
(* list is as before but for that handle: List says where the four pointers *)
(* around it are between any two of the writes.                             *)
Leaving == op.step \in {"unlink", "free"}
Coming == op.step \in {"link", "publish"}
Distinct == \A i, j \in DOMAIN order : order[i] = order[j] => i = j
PrevOf(k) ==
    IF \/ op.step = "publish" /\ k = 1
       \/ op.step = "unlink" /\ next[op.handle] = order[k]
      THEN op.handle ELSE Nth(k - 1)
List ==
    /\ Distinct
    /\ heap = ToSet(order) \cup (IF op = Idle THEN {} ELSE {op.handle})
    /\ op # Idle => op.handle \in Handles \ ToSet(order)
    /\ \A k \in DOMAIN order : next[order[k]] = Nth(k + 1) /\ prev[order[k]] = PrevOf(k)
    /\ first = IF Leaving /\ prev[op.handle] = NoHandle THEN op.handle ELSE Nth(1)
    /\ Coming => next[op.handle] = Nth(1) /\ prev[op.handle] = NoHandle
    /\ Leaving => \E k \in 0..Len(order) :
         prev[op.handle] = Nth(k) /\ next[op.handle] = Nth(k + 1)

(* The walk is between two places of the list, or at the handle that leaves *)
(* it there; it has called what is before that place and was registered     *)
(* when it began, and nothing of what is behind.                            *)
Called(j) == \A i \in DOMAIN order :
    order[i] \in stays => called[order[i]] = IF i <= j THEN 1 ELSE 0
AtLeaving == Leaving /\ at = op.handle
WalkIsAt(j) ==
    \/ AtLeaving /\ next[at] = Nth(j + 1)
    \/ walk = "call" /\ at = Nth(j + 1)
    \/ walk = "next" /\ at = Nth(j)
Walk ==
    /\ stays \subseteq ToSet(order)
    /\ walk = "idle" => stays = {}
    /\ walk = "next" => at # NoHandle
    /\ walk # "idle" /\ ~astray => \E j \in 0..Len(order) : WalkIsAt(j) /\ Called(j)

LEMMA Removed ==
    ASSUME NEW s \in Seq(Handles), NEW k \in 1..Len(s),
           \A i, j \in 1..Len(s) : s[i] = s[j] => i = j
    PROVE  /\ RemoveAt(s, k) \in Seq(Handles)
           /\ Len(RemoveAt(s, k)) = Len(s) - 1
           /\ \A i \in 1..Len(s) - 1 :
                RemoveAt(s, k)[i] = IF i < k THEN s[i] ELSE s[i + 1]
           /\ ToSet(RemoveAt(s, k)) = ToSet(s) \ {s[k]}
  <1> DEFINE a == SubSeq(s, 1, k - 1)
             b == SubSeq(s, k + 1, Len(s))
             t == RemoveAt(s, k)
  <1>0. Len(s) \in Nat /\ DOMAIN s = 1..Len(s) /\ \A i \in 1..Len(s) : s[i] \in Handles
    OBVIOUS
  <1>1. /\ a \in Seq(Handles) /\ Len(a) = k - 1
        /\ \A i \in 1..k - 1 : a[i] = s[i]
    <2>1. \A i \in 1..k - 1 : s[i] \in Handles
      BY <1>0
    <2>2. a \in Seq(Handles) /\ Len(a) = IF 1 <= k - 1 THEN k - 1 - 1 + 1 ELSE 0
      BY <1>0, <2>1, SubSeqProperties
    <2>3. \A i \in 1..k - 1 - 1 + 1 : a[i] = s[1 + i - 1]
      BY <1>0, <2>1, SubSeqProperties
    <2> QED BY <1>0, <2>2, <2>3
  <1>2. /\ b \in Seq(Handles) /\ Len(b) = Len(s) - k
        /\ \A i \in 1..Len(s) - k : b[i] = s[k + i]
    <2>1. \A i \in k + 1..Len(s) : s[i] \in Handles
      BY <1>0
    <2>2. b \in Seq(Handles) /\ Len(b) = IF k + 1 <= Len(s) THEN Len(s) - (k + 1) + 1 ELSE 0
      BY <1>0, <2>1, SubSeqProperties
    <2>3. \A i \in 1..Len(s) - (k + 1) + 1 : b[i] = s[k + 1 + i - 1]
      BY <1>0, <2>1, SubSeqProperties
    <2> HIDE DEF a, b, t
    <2>4. Len(b) = Len(s) - k
      <3>1. \A n \in Nat : \A m \in 1..n :
              (IF m + 1 <= n THEN n - (m + 1) + 1 ELSE 0) = n - m
        OBVIOUS
      <3> QED BY <1>0, <2>2, <3>1
    <2>5. \A i \in 1..Len(s) - k : k + 1 + i - 1 = k + i
      BY <1>0
    <2>6. Len(s) - (k + 1) + 1 = Len(s) - k
      BY <1>0
    <2>7. \A i \in 1..Len(s) - k : b[i] = s[k + i]
      BY <2>3, <2>5, <2>6
    <2> QED BY <2>2, <2>4, <2>7
  <1>3. t = a \o b
    BY DEF RemoveAt
  <1> HIDE DEF a, b, t
  <1>4. /\ t \in Seq(Handles) /\ Len(t) = Len(s) - 1
        /\ \A i \in 1..Len(s) - 1 : t[i] = IF i <= k - 1 THEN a[i] ELSE b[i - (k - 1)]
    <2>1. /\ t \in Seq(Handles) /\ Len(t) = Len(a) + Len(b)
          /\ \A i \in 1..Len(a) + Len(b) : t[i] = IF i <= Len(a) THEN a[i] ELSE b[i - Len(a)]
      <3>1. a \in Seq(Handles) /\ b \in Seq(Handles)
        BY <1>1, <1>2
      <3>2. /\ a \o b \in Seq(Handles) /\ Len(a \o b) = Len(a) + Len(b)
            /\ \A i \in 1..Len(a) + Len(b) :
                 (a \o b)[i] = IF i <= Len(a) THEN a[i] ELSE b[i - Len(a)]
        BY <3>1, ConcatProperties
      <3> QED BY <1>3, <3>2
    <2>2. Len(a) + Len(b) = Len(s) - 1 /\ Len(a) = k - 1
      BY <1>0, <1>1, <1>2
    <2> QED BY <2>1, <2>2
  <1>5. \A i \in 1..Len(s) - 1 : t[i] = IF i < k THEN s[i] ELSE s[i + 1]
    <2> TAKE i \in 1..Len(s) - 1
    <2>1. CASE i < k
      BY <1>0, <1>1, <1>4, <2>1
    <2>2. CASE i >= k
      <3>1. i - (k - 1) \in 1..Len(s) - k /\ k + (i - (k - 1)) = i + 1
        BY <1>0, <2>2
      <3> QED BY <1>0, <1>2, <1>4, <2>2, <3>1
    <2> QED BY <1>0, <2>1, <2>2
  <1>6. DOMAIN t = 1..Len(s) - 1
    BY <1>4
  <1>7. ToSet(t) = ToSet(s) \ {s[k]}
    <2>1. ASSUME NEW i \in 1..Len(s) - 1 PROVE t[i] \in ToSet(s) \ {s[k]}
      <3>1. CASE i < k
        BY <1>0, <1>5, <3>1 DEF ToSet
      <3>2. CASE i >= k
        <4>1. i + 1 \in 1..Len(s) /\ i + 1 # k
          BY <1>0, <3>2
        <4> QED BY <1>0, <1>5, <3>2, <4>1 DEF ToSet
      <3> QED BY <1>0, <3>1, <3>2
    <2>2. ASSUME NEW i \in 1..Len(s), i # k PROVE s[i] \in ToSet(t)
      <3>1. CASE i < k
        <4>1. i \in 1..Len(s) - 1
          BY <1>0, <3>1
        <4> QED BY <1>5, <1>6, <3>1, <4>1 DEF ToSet
      <3>2. CASE i > k
        <4>1. i - 1 \in 1..Len(s) - 1 /\ ~(i - 1 < k) /\ (i - 1) + 1 = i
          BY <1>0, <3>2
        <4>2. t[i - 1] = s[i]
          BY <1>5, <4>1
        <4> QED BY <1>6, <4>1, <4>2 DEF ToSet
      <3> QED BY <1>0, <2>2, <3>1, <3>2
    <2>3. ToSet(t) \subseteq ToSet(s) \ {s[k]}
      <3> SUFFICES ASSUME NEW e \in ToSet(t) PROVE e \in ToSet(s) \ {s[k]}
        OBVIOUS
      <3>1. PICK i \in 1..Len(s) - 1 : e = t[i]
        BY <1>6 DEF ToSet
      <3> QED BY <2>1, <3>1
    <2>4. ToSet(s) \ {s[k]} \subseteq ToSet(t)
      <3> SUFFICES ASSUME NEW e \in ToSet(s), e # s[k] PROVE e \in ToSet(t)
        OBVIOUS
      <3>1. PICK i \in 1..Len(s) : e = s[i]
        BY <1>0 DEF ToSet
      <3> QED BY <2>2, <3>1
    <2> QED BY <2>3, <2>4
  <1> QED BY <1>4, <1>5, <1>7 DEF t

LEMMA Pushed ==
    ASSUME NEW s \in Seq(Handles), NEW h \in Handles
    PROVE  /\ <<h>> \o s \in Seq(Handles)
           /\ Len(<<h>> \o s) = Len(s) + 1
           /\ (<<h>> \o s)[1] = h
           /\ \A i \in 1..Len(s) : (<<h>> \o s)[i + 1] = s[i]
           /\ ToSet(<<h>> \o s) = ToSet(s) \cup {h}
  <1> DEFINE t == <<h>> \o s
  <1>0. <<h>> \in Seq(Handles) /\ Len(<<h>>) = 1 /\ <<h>>[1] = h
        /\ Len(s) \in Nat /\ DOMAIN s = 1..Len(s)
    OBVIOUS
  <1>1. /\ t \in Seq(Handles) /\ Len(t) = 1 + Len(s)
        /\ \A i \in 1..1 + Len(s) : t[i] = IF i <= 1 THEN <<h>>[i] ELSE s[i - 1]
    BY <1>0, ConcatProperties
  <1> HIDE DEF t
  <1>2. t[1] = h
    BY <1>0, <1>1
  <1>3. ASSUME NEW i \in 1..Len(s) PROVE t[i + 1] = s[i] /\ i + 1 \in 1..Len(s) + 1
    <2>1. i + 1 \in 1..1 + Len(s) /\ ~(i + 1 <= 1) /\ (i + 1) - 1 = i
      BY <1>0
    <2>2. t[i + 1] = s[(i + 1) - 1]
      BY <1>1, <2>1
    <2> QED BY <2>1, <2>2, <1>0
  <1>4. DOMAIN t = 1..Len(s) + 1
    BY <1>0, <1>1
  <1>5. ASSUME NEW i \in 1..Len(s) + 1 PROVE t[i] \in ToSet(s) \cup {h}
    <2>1. CASE i = 1
      BY <1>2, <2>1
    <2>2. CASE i # 1
      <3>1. i - 1 \in 1..Len(s) /\ (i - 1) + 1 = i
        BY <1>0, <2>2
      <3> QED BY <1>0, <1>3, <3>1 DEF ToSet
    <2> QED BY <2>1, <2>2
  <1>6. ToSet(t) = ToSet(s) \cup {h}
    <2>1. 1 \in 1..Len(s) + 1
      BY <1>0
    <2> QED BY <1>0, <1>2, <1>3, <1>4, <1>5, <2>1 DEF ToSet
  <1> QED BY <1>0, <1>1, <1>2, <1>3, <1>6 DEF t

-----------------------------------------------------------------------------
(* What TypeOK says of the list and the walk, but for what follows from     *)
(* List.                                                                    *)
Typed ==
    /\ next \in [Handles -> Handles \cup {NoHandle}]
    /\ prev \in [Handles -> Handles \cup {NoHandle}]
    /\ op \in [step : Steps, handle : Handles \cup {NoHandle}]
    /\ order \in Seq(Handles)
    /\ walk \in {"idle", "call", "next"} /\ at \in Handles \cup {NoHandle}
    /\ called \in [Handles -> 0..2] /\ stays \in SUBSET Handles
    /\ astray \in BOOLEAN
ListInv == Typed /\ List /\ Walk

LEMMA StepFields ==
    ASSUME NEW name, NEW h
    PROVE  Step(name, h).step = name /\ Step(name, h).handle = h
           /\ (name \in Steps /\ h \in Handles \cup {NoHandle} =>
                 Step(name, h) \in [step : Steps, handle : Handles \cup {NoHandle}])
  BY DEF Step

LEMMA IdleFields ==
    /\ Idle.step = "idle" /\ Idle.handle = NoHandle
    /\ Idle \in [step : Steps, handle : Handles \cup {NoHandle}]
  BY DEF Idle, Steps

LEMMA OrderFacts ==
    ASSUME Typed
    PROVE  /\ Len(order) \in Nat /\ DOMAIN order = 1..Len(order)
           /\ \A k \in 1..Len(order) : order[k] \in ToSet(order) /\ order[k] \in Handles
           /\ \A h \in ToSet(order) : h \in Handles /\ \E k \in 1..Len(order) : h = order[k]
           /\ \A k : Nth(k) = IF k \in 1..Len(order) THEN order[k] ELSE NoHandle
           /\ \A k : Nth(k) \in ToSet(order) \cup {NoHandle}
           /\ NoHandle \notin ToSet(order)
           /\ first \in Handles \cup {NoHandle} \/ ~List
  <1>1. Len(order) \in Nat /\ DOMAIN order = 1..Len(order)
        /\ \A k \in 1..Len(order) : order[k] \in Handles
    BY DEF Typed
  <1>2. /\ \A k \in 1..Len(order) : order[k] \in ToSet(order)
        /\ \A h \in ToSet(order) : \E k \in 1..Len(order) : h = order[k]
    BY <1>1 DEF ToSet
  <1>3. \A k : Nth(k) = IF k \in 1..Len(order) THEN order[k] ELSE NoHandle
    BY <1>1 DEF Nth
  <1>4. \A h \in ToSet(order) : h \in Handles
    BY <1>1, <1>2
  <1>5. \A k : Nth(k) \in ToSet(order) \cup {NoHandle}
    BY <1>2, <1>3
  <1>6. List => first \in Handles \cup {NoHandle}
    BY <1>4, <1>5 DEF List, Typed
  <1> QED BY <1>1, <1>2, <1>3, <1>4, <1>5, <1>6, HandlesAssumption

LEMMA TypedNext == Typed /\ List /\ Walk /\ [Next]_vars => Typed'
  <1> SUFFICES ASSUME Typed, List, Walk, [Next]_vars PROVE Typed'
    OBVIOUS
  <1>0. first \in Handles \cup {NoHandle} /\ op.handle \in Handles \cup {NoHandle}
    BY OrderFacts DEF Typed
  <1>1. ASSUME NEW h \in Handles, Register(h) PROVE Typed'
    BY <1>0, <1>1, StepFields DEF Register, Typed, Steps, pathVars, walkVars
  <1>2. CASE LinkFirst
    BY <1>0, <1>2, StepFields DEF LinkFirst, Typed, Steps, pathVars, walkVars
  <1>3. CASE PublishFirst
    <2>1. op # Idle
      BY <1>3, IdleFields DEF PublishFirst
    <2>2. <<op.handle>> \o order \in Seq(Handles)
      BY <2>1, Pushed DEF List, Typed
    <2> QED BY <1>3, <2>2, IdleFields DEF PublishFirst, Typed, pathVars, walkVars
  <1>4. ASSUME NEW h \in Handles, Unregister(h) PROVE Typed'
    <2>1. PICK k \in DOMAIN order : order[k] = h /\ order' = RemoveAt(order, k)
      BY <1>4 DEF Unregister
    <2>2. order' \in Seq(Handles)
      BY <2>1, OrderFacts, Removed DEF List, Typed, Distinct
    <2>3. next' \in [Handles -> Handles \cup {NoHandle}]
      BY <1>4 DEF Unregister, SkipHandle, Typed
    <2> QED BY <1>4, <2>2, <2>3, StepFields DEF Unregister, Typed, Steps, pathVars
  <1>5. CASE Unlink
    <2>1. op.handle \in Handles
      BY <1>5, IdleFields DEF Unlink, List
    <2>2. prev' \in [Handles -> Handles \cup {NoHandle}]
      BY <1>5, <2>1 DEF Unlink, UnlinkNext, Typed
    <2> QED BY <1>0, <1>5, <2>2, StepFields DEF Unlink, Typed, Steps, pathVars, walkVars
  <1>6. CASE Free
    BY <1>6, IdleFields DEF Free, Typed, pathVars, walkVars
  <1>7. CASE Deinit
    BY <1>7 DEF Deinit, Typed, pathVars, walkVars
  <1>8. CASE BeginWalk
    <2>1. UNCHANGED <<next, prev, op, order>>
      BY <1>8 DEF BeginWalk, listVars
    <2>2. stays' \in SUBSET Handles
      BY <1>8, OrderFacts DEF BeginWalk
    <2>3. called' \in [Handles -> 0..2]
      BY <1>8 DEF BeginWalk
    <2>4. astray' \in BOOLEAN
      BY <1>8, Zenon DEF BeginWalk
    <2> QED BY <1>0, <1>8, <2>1, <2>2, <2>3, <2>4 DEF BeginWalk, Typed
  <1>9. CASE Call
    BY <1>9 DEF Call, Typed, pathVars, listVars, Smaller
  <1>10. CASE Advance
    <2>1. UNCHANGED <<next, prev, op, order, called, stays, astray>>
      BY <1>10 DEF Advance, listVars
    <2>2. at' \in Handles \cup {NoHandle}
      BY <1>10 DEF Advance, Typed, Walk
    <2> QED BY <1>10, <2>1, <2>2 DEF Advance, Typed
  <1>11. CASE EndWalk
    <2>1. UNCHANGED <<next, prev, op, order, at>>
      BY <1>11 DEF EndWalk, listVars
    <2>2. called' \in [Handles -> 0..2] /\ stays' \in SUBSET Handles
      BY <1>11 DEF EndWalk
    <2>3. astray' \in BOOLEAN
      BY <1>11, Zenon DEF EndWalk
    <2> QED BY <1>11, <2>1, <2>2, <2>3 DEF EndWalk, Typed
  <1>12. CASE UNCHANGED <<listVars, walkVars>>
    BY <1>12 DEF listVars, walkVars, Typed
  <1> QED
    BY <1>1, <1>2, <1>3, <1>4, <1>5, <1>6, <1>7, <1>8, <1>9, <1>10, <1>11, <1>12
    DEF Next, Runner, HandleDataFragment, Application, Send, Accept, Refuse, Receive, vars,
        listVars, walkVars

-----------------------------------------------------------------------------
(* How places move. *)
LEMMA NthFacts ==
    ASSUME Typed, Distinct
    PROVE  /\ \A i \in 1..Len(order) : Nth(i) = order[i] /\ Nth(i) # NoHandle
           /\ \A i \in Int : Nth(i) # NoHandle => i \in 1..Len(order)
           /\ \A i, j \in Int : Nth(i) = Nth(j) /\ Nth(i) # NoHandle => i = j
  <1>1. \A i \in 1..Len(order) : Nth(i) = order[i] /\ Nth(i) # NoHandle
    BY OrderFacts
  <1>2. \A i \in Int : Nth(i) # NoHandle => i \in 1..Len(order)
    BY OrderFacts
  <1>3. \A i, j \in Int : Nth(i) = Nth(j) /\ Nth(i) # NoHandle => i = j
    BY <1>1, <1>2, OrderFacts DEF Distinct
  <1> QED BY <1>1, <1>2, <1>3

LEMMA NthRemoved ==
    ASSUME Typed, Distinct, NEW k \in 1..Len(order), order' = RemoveAt(order, k)
    PROVE  /\ Len(order)' = Len(order) - 1 /\ DOMAIN order' = 1..Len(order) - 1
           /\ ToSet(order') = ToSet(order) \ {order[k]}
           /\ \A i \in Int : Nth(i)' = IF i < k THEN Nth(i) ELSE Nth(i + 1)
           /\ \A i \in 1..Len(order) - 1 :
                order'[i] = IF i < k THEN order[i] ELSE order[i + 1]
           /\ Distinct'
  <1>0. Len(order) \in Nat /\ DOMAIN order = 1..Len(order)
    BY OrderFacts
  <1>1. order \in Seq(Handles) /\ \A i, j \in 1..Len(order) : order[i] = order[j] => i = j
    BY <1>0 DEF Typed, Distinct
  <1>2. /\ order' \in Seq(Handles) /\ Len(order') = Len(order) - 1
        /\ \A i \in 1..Len(order) - 1 :
             order'[i] = IF i < k THEN order[i] ELSE order[i + 1]
        /\ ToSet(order') = ToSet(order) \ {order[k]}
    BY <1>1, Removed
  <1>3. DOMAIN order' = 1..Len(order) - 1
    BY <1>2
  <1>4. ASSUME NEW i \in Int PROVE Nth(i)' = IF i < k THEN Nth(i) ELSE Nth(i + 1)
    <2>1. Nth(i)' = IF i \in 1..Len(order) - 1 THEN order'[i] ELSE NoHandle
      BY <1>3 DEF Nth
    <2>2. CASE i < k
      <3>1. i \in 1..Len(order) - 1 <=> i \in 1..Len(order)
        BY <1>0, <2>2
      <3> QED BY <1>0, <1>2, <2>1, <2>2, <3>1 DEF Nth
    <2>3. CASE i >= k
      <3>1. i \in 1..Len(order) - 1 <=> i + 1 \in 1..Len(order)
        BY <1>0, <2>3
      <3> QED BY <1>0, <1>2, <2>1, <2>3, <3>1 DEF Nth
    <2> QED BY <1>0, <2>2, <2>3
  <1>5. Distinct'
    <2> SUFFICES ASSUME NEW i \in 1..Len(order) - 1, NEW j \in 1..Len(order) - 1,
                        order'[i] = order'[j]
                 PROVE  i = j
      BY <1>3 DEF Distinct
    <2> DEFINE p(x) == IF x < k THEN x ELSE x + 1
    <2>1. \A x \in 1..Len(order) - 1 : p(x) \in 1..Len(order) /\ order'[x] = order[p(x)]
      BY <1>0, <1>2
    <2>2. p(i) = p(j)
      BY <1>1, <2>1
    <2> QED BY <1>0, <2>2
  <1> QED BY <1>2, <1>3, <1>4, <1>5

LEMMA NthPushed ==
    ASSUME Typed, Distinct, NEW h \in Handles \ ToSet(order), order' = <<h>> \o order
    PROVE  /\ Len(order)' = Len(order) + 1 /\ DOMAIN order' = 1..Len(order) + 1
           /\ ToSet(order') = ToSet(order) \cup {h}
           /\ Nth(1)' = h /\ Nth(0)' = NoHandle
           /\ \A i \in Int : i >= 1 => Nth(i + 1)' = Nth(i)
           /\ order'[1] = h /\ \A i \in 1..Len(order) : order'[i + 1] = order[i]
           /\ Distinct'
  <1>0. Len(order) \in Nat /\ DOMAIN order = 1..Len(order)
        /\ \A i \in 1..Len(order) : order[i] \in ToSet(order)
    BY OrderFacts
  <1>1. /\ order' \in Seq(Handles) /\ Len(order') = Len(order) + 1 /\ order'[1] = h
        /\ \A i \in 1..Len(order) : order'[i + 1] = order[i]
        /\ ToSet(order') = ToSet(order) \cup {h}
    BY Pushed DEF Typed
  <1>2. DOMAIN order' = 1..Len(order) + 1
    BY <1>1
  <1>3. Nth(1)' = h /\ Nth(0)' = NoHandle
    BY <1>0, <1>1, <1>2 DEF Nth
  <1>4. ASSUME NEW i \in Int, i >= 1 PROVE Nth(i + 1)' = Nth(i)
    <2>1. i + 1 \in 1..Len(order) + 1 <=> i \in 1..Len(order)
      BY <1>0, <1>4
    <2> QED BY <1>0, <1>1, <1>2, <2>1 DEF Nth
  <1>5. Distinct'
    <2>1. ASSUME NEW i \in 1..Len(order) + 1, i # 1
          PROVE  i - 1 \in 1..Len(order) /\ order'[i] = order[i - 1] /\ order'[i] # h
      <3>1. i - 1 \in 1..Len(order) /\ (i - 1) + 1 = i
        BY <1>0, <2>1
      <3>2. order'[(i - 1) + 1] = order[i - 1]
        BY <1>1, <3>1
      <3> QED BY <1>0, <3>1, <3>2
    <2> SUFFICES ASSUME NEW i \in 1..Len(order) + 1, NEW j \in 1..Len(order) + 1,
                        order'[i] = order'[j]
                 PROVE  i = j
      BY <1>2 DEF Distinct
    <2>2. CASE i = 1 \/ j = 1
      BY <1>1, <2>1, <2>2
    <2>3. CASE i # 1 /\ j # 1
      <3>1. i - 1 = j - 1
        BY <1>0, <2>1, <2>3 DEF Distinct
      <3> QED BY <1>0, <3>1
    <2> QED BY <2>2, <2>3
  <1> QED BY <1>1, <1>2, <1>3, <1>4, <1>5

-----------------------------------------------------------------------------
(* No write breaks the list. *)
LEMMA RegisterList ==
    ASSUME Typed, List, NEW h \in Handles, Register(h)
    PROVE  List'
  <1>0. /\ op = Idle /\ h \notin ToSet(order) /\ order' = order /\ first' = first
        /\ heap' = heap \cup {h} /\ heap = ToSet(order)
        /\ next' = [next EXCEPT ![h] = first] /\ prev' = [prev EXCEPT ![h] = NoHandle]
        /\ op'.step = "link" /\ op'.handle = h /\ op' # Idle
    <2>1. op' = Step("link", h) /\ op = Idle /\ h \notin heap
      BY DEF Register
    <2>2. op'.step = "link" /\ op'.handle = h /\ op' # Idle
      BY <2>1, StepFields, IdleFields
    <2>3. heap = ToSet(order)
      BY <2>1 DEF List
    <2> QED BY <2>1, <2>2, <2>3 DEF Register
  <1>1. ToSet(order)' = ToSet(order) /\ DOMAIN order' = 1..Len(order) /\ Distinct'
    BY <1>0, OrderFacts DEF List, Distinct
  <1>2. \A k : Nth(k)' = Nth(k)
    BY <1>0 DEF Nth
  <1>3. ~Leaving /\ ~Leaving' /\ first = Nth(1) /\ first' = Nth(1)'
    BY <1>0, <1>2, IdleFields DEF Leaving, List
  <1>4. ASSUME NEW k \in DOMAIN order'
        PROVE  next'[order'[k]] = Nth(k + 1)' /\ prev'[order'[k]] = PrevOf(k)'
    <2>1. order[k] # h /\ order[k] \in Handles /\ k \in DOMAIN order
      BY <1>0, <1>1, OrderFacts
    <2>2. next[order[k]] = Nth(k + 1) /\ prev[order[k]] = Nth(k - 1)
      BY <1>0, <2>1, IdleFields DEF List, PrevOf
    <2> QED BY <1>0, <1>2, <2>1, <2>2 DEF PrevOf, Typed
  <1>5. next'[h] = Nth(1)' /\ prev'[h] = NoHandle
    BY <1>0, <1>2, <1>3 DEF Typed
  <1> QED BY <1>0, <1>1, <1>3, <1>4, <1>5 DEF List

LEMMA LinkFirstList ==
    ASSUME Typed, List, LinkFirst
    PROVE  List'
  <1> DEFINE h == op.handle
  <1>0. /\ op.step = "link" /\ op # Idle /\ h \in Handles \ ToSet(order)
        /\ UNCHANGED <<first, next, order, heap>>
        /\ prev' = IF first # NoHandle THEN [prev EXCEPT ![first] = h] ELSE prev
        /\ op'.step = "publish" /\ op'.handle = h /\ op' # Idle
    BY StepFields, IdleFields DEF LinkFirst, List
  <1> HIDE DEF h
  <1>1. ToSet(order)' = ToSet(order) /\ DOMAIN order' = 1..Len(order) /\ Distinct'
        /\ Distinct /\ DOMAIN order = 1..Len(order)
    BY <1>0, OrderFacts DEF List, Distinct
  <1>2. \A k : Nth(k)' = Nth(k)
    BY <1>0 DEF Nth
  <1>3. ~Leaving /\ ~Leaving' /\ first = Nth(1) /\ next[h] = Nth(1) /\ prev[h] = NoHandle
    BY <1>0 DEF Leaving, Coming, List, h
  <1>4. first # h
    BY <1>0, <1>3, OrderFacts, HandlesAssumption
  <1>5. ASSUME NEW k \in DOMAIN order'
        PROVE  next'[order'[k]] = Nth(k + 1)' /\ prev'[order'[k]] = PrevOf(k)'
    <2>1. k \in DOMAIN order /\ k \in Int /\ order[k] \in Handles /\ Nth(k) = order[k]
          /\ order[k] # NoHandle
      BY <1>1, OrderFacts, NthFacts
    <2>2. next[order[k]] = Nth(k + 1) /\ prev[order[k]] = Nth(k - 1)
      BY <1>0, <2>1 DEF List, PrevOf
    <2>3. CASE k = 1
      BY <1>0, <1>2, <1>3, <2>1, <2>2, <2>3 DEF PrevOf, Typed
    <2>4. CASE k # 1
      <3>1. order[k] # first
        BY <1>1, <1>3, <2>1, <2>4, NthFacts
      <3> QED BY <1>0, <1>2, <2>1, <2>2, <2>4, <3>1 DEF PrevOf, Typed
    <2> QED BY <2>3, <2>4
  <1>6. next'[h] = Nth(1)' /\ prev'[h] = NoHandle
    BY <1>0, <1>2, <1>3, <1>4 DEF Typed
  <1>7. heap' = ToSet(order)' \cup {op'.handle}
    BY <1>0, <1>1 DEF List, h
  <1> QED BY <1>0, <1>1, <1>2, <1>3, <1>5, <1>6, <1>7 DEF List

LEMMA PublishFirstList ==
    ASSUME Typed, List, PublishFirst
    PROVE  List'
  <1> DEFINE h == op.handle
  <1>0. /\ op.step = "publish" /\ op # Idle /\ h \in Handles \ ToSet(order)
        /\ UNCHANGED <<next, prev, heap>> /\ order' = <<h>> \o order
        /\ first' = h /\ op' = Idle /\ Distinct
    BY IdleFields DEF PublishFirst, List
  <1>1. next[h] = Nth(1) /\ prev[h] = NoHandle
    BY <1>0 DEF Coming, List, h
  <1>2. heap = ToSet(order) \cup {h}
    BY <1>0 DEF List, h
  <1> HIDE DEF h
  <1>3. ~Leaving' /\ ~Coming' /\ op'.step = "idle"
    BY <1>0, IdleFields DEF Leaving, Coming
  <1>4. ASSUME NEW k \in DOMAIN order'
        PROVE  next'[order'[k]] = Nth(k + 1)' /\ prev'[order'[k]] = PrevOf(k)'
    <2>0. Len(order) \in Nat /\ k \in 1..Len(order) + 1
      BY <1>0, NthPushed, OrderFacts
    <2>1. PrevOf(k)' = Nth(k - 1)'
      BY <1>3 DEF PrevOf
    <2>2. CASE k = 1
      BY <1>0, <1>1, <2>1, <2>2, NthPushed
    <2>3. CASE k # 1
      <3> DEFINE j == k - 1
      <3>1. j \in 1..Len(order) /\ j + 1 = k
        BY <2>0, <2>3
      <3> HIDE DEF j
      <3>2. order'[k] = order[j]
        BY <1>0, <3>1, NthPushed
      <3>3. next[order[j]] = Nth(j + 1) /\ prev[order[j]] = PrevOf(j)
        BY <3>1, OrderFacts DEF List
      <3>4. Nth(k + 1)' = Nth(j + 1)
        <4>1. (j + 1) + 1 = k + 1 /\ j + 1 \in Int /\ j + 1 >= 1
          BY <3>1, <2>0
        <4>2. Nth((j + 1) + 1)' = Nth(j + 1)
          BY <1>0, <4>1, NthPushed
        <4> QED BY <4>1, <4>2
      <3>5. PrevOf(j) = Nth(k - 1)'
        <4>1. CASE j = 1
          BY <1>0, <3>1, <4>1, <2>0, NthPushed DEF PrevOf, h
        <4>2. CASE j # 1
          <5>1. j - 1 \in Int /\ j - 1 >= 1 /\ (j - 1) + 1 = k - 1
            BY <3>1, <2>0, <4>2
          <5>2. Nth((j - 1) + 1)' = Nth(j - 1)
            BY <1>0, <5>1, NthPushed
          <5> QED BY <1>0, <4>2, <5>1, <5>2 DEF PrevOf
        <4> QED BY <4>1, <4>2
      <3> QED BY <1>0, <2>1, <3>2, <3>3, <3>4, <3>5
    <2> QED BY <2>2, <2>3
  <1> QED BY <1>0, <1>2, <1>3, <1>4, NthPushed DEF List

LEMMA UnregisterList ==
    ASSUME Typed, List, NEW h \in Handles, Unregister(h)
    PROVE  List'
  <1>0. PICK k \in 1..Len(order) : order[k] = h /\ order' = RemoveAt(order, k)
    BY OrderFacts DEF Unregister
  <1>1. /\ op = Idle /\ UNCHANGED <<first, prev, heap>>
        /\ heap = ToSet(order) /\ h \in ToSet(order) /\ Distinct
        /\ next' = IF prev[h] # NoHandle THEN [next EXCEPT ![prev[h]] = next[h]] ELSE next
    BY <1>0, OrderFacts DEF Unregister, SkipHandle, List
  <1>2. /\ Len(order)' = Len(order) - 1 /\ DOMAIN order' = 1..Len(order) - 1
        /\ ToSet(order') = ToSet(order) \ {h}
        /\ \A i \in Int : Nth(i)' = IF i < k THEN Nth(i) ELSE Nth(i + 1)
        /\ \A i \in 1..Len(order) - 1 :
             order'[i] = IF i < k THEN order[i] ELSE order[i + 1]
        /\ Distinct'
    BY <1>0, <1>1, NthRemoved
  <1>3. op'.step = "unlink" /\ op'.handle = h /\ op' # Idle /\ Leaving' /\ ~Coming'
    <2>1. op' = Step("unlink", h)
      BY DEF Unregister
    <2>2. op'.step = "unlink" /\ op'.handle = h /\ op' # Idle
      BY <2>1, StepFields, IdleFields
    <2> QED BY <2>2 DEF Leaving, Coming
  <1>4. op.step = "idle" /\ ~Leaving
    BY <1>1, IdleFields DEF Leaving
  <1>5. Len(order) \in Nat /\ DOMAIN order = 1..Len(order)
    BY OrderFacts
  <1>6. \A i \in 1..Len(order) :
          next[order[i]] = Nth(i + 1) /\ prev[order[i]] = Nth(i - 1)
    BY <1>4, <1>5 DEF List, PrevOf
  <1>7. next[h] = Nth(k + 1) /\ prev[h] = Nth(k - 1) /\ first = Nth(1)
    BY <1>0, <1>4, <1>6 DEF List
  <1>8. Nth(k - 1) # h
    BY <1>0, <1>1, NthFacts
  <1>9. next'[h] = next[h]
    BY <1>1, <1>7, <1>8 DEF Typed
  <1>10. ASSUME NEW i \in DOMAIN order'
        PROVE  next'[order'[i]] = Nth(i + 1)' /\ prev'[order'[i]] = PrevOf(i)'
    <2>1. i \in 1..Len(order) - 1 /\ i \in Int
      BY <1>0, <1>1, <1>2
    <2>2. PrevOf(i)' = IF next[h] = order'[i] THEN h ELSE Nth(i - 1)'
      BY <1>3, <1>9 DEF PrevOf
    <2>3. CASE i < k
      <3>1. order'[i] = order[i] /\ i \in 1..Len(order)
        <4>1. order'[i] = order[i]
          BY <1>2, <2>1, <2>3
        <4>2. i \in 1..Len(order)
          BY <1>5, <2>1
        <4> QED BY <4>1, <4>2
      <3>2. Nth(i - 1)' = Nth(i - 1)
        <4>1. i - 1 \in Int /\ i - 1 < k
          BY <1>5, <2>1, <2>3
        <4> QED BY <1>2, <4>1
      <3>3. order[i] # next[h] /\ order[i] # NoHandle /\ order[i] \in Handles
        <4>1. Nth(i) = order[i] /\ Nth(i) # NoHandle /\ i # k + 1
          BY <1>1, <2>1, <2>3, <3>1, NthFacts
        <4> QED BY <1>1, <1>7, <2>1, <3>1, <4>1, NthFacts, OrderFacts
      <3>4. next'[order[i]] = Nth(i + 1)'
        <4>1. CASE i + 1 < k
          <5>1. Nth(i + 1)' = Nth(i + 1)
            BY <1>0, <1>1, <2>1, <4>1, <1>2
          <5>2. order[i] # prev[h]
            <6>1. Nth(i) = order[i] /\ Nth(i) # NoHandle /\ i # k - 1
              BY <1>1, <2>1, <3>1, <4>1, NthFacts
            <6> QED BY <1>1, <1>7, <2>1, <6>1, NthFacts
          <5> QED BY <1>1, <1>6, <3>1, <5>1, <5>2
        <4>2. CASE i + 1 = k
          <5>1. prev[h] = order[i]
            BY <1>1, <1>7, <2>1, <3>1, <4>2, NthFacts
          <5>2. Nth(i + 1)' = Nth(k + 1)
            BY <1>0, <1>1, <4>2, <1>2
          <5> QED BY <1>1, <1>7, <3>3, <5>1, <5>2 DEF Typed
        <4> QED BY <2>1, <2>3, <4>1, <4>2
      <3> QED BY <1>1, <1>6, <2>2, <3>1, <3>2, <3>3, <3>4
    <2>4. CASE i >= k
      <3>1. order'[i] = order[i + 1] /\ i + 1 \in 1..Len(order) /\ i + 1 \in Int
        <4>1. ~(i < k)
          BY <1>5, <2>1, <2>4
        <4>2. order'[i] = order[i + 1]
          BY <1>2, <2>1, <4>1
        <4>3. i + 1 \in 1..Len(order) /\ i + 1 \in Int
          BY <1>5, <2>1
        <4> QED BY <4>2, <4>3
      <3>2. Nth(i + 1)' = Nth((i + 1) + 1)
        BY <1>0, <1>1, <2>1, <2>4, <1>2
      <3>3. Nth(i + 1) = order[i + 1] /\ Nth(i + 1) # NoHandle
        BY <1>1, <3>1, NthFacts
      <3>4. order[i + 1] # prev[h]
        BY <1>1, <1>7, <2>1, <2>4, <3>1, <3>3, NthFacts
      <3>5. next'[order[i + 1]] = Nth((i + 1) + 1)
        BY <1>1, <1>6, <3>1, <3>4
      <3>6. prev[order[i + 1]] = Nth(i)
        <4>1. (i + 1) - 1 = i
          BY <2>1
        <4> QED BY <1>6, <3>1, <4>1
      <3>7. PrevOf(i)' = Nth(i)
        <4>1. CASE i = k
          BY <1>0, <1>1, <1>7, <2>2, <3>1, <3>3, <4>1, NthFacts
        <4>2. CASE i > k
          <5>1. next[h] # order[i + 1]
            BY <1>1, <1>7, <2>1, <3>1, <3>3, <4>2, NthFacts
          <5>2. i - 1 \in Int /\ i - 1 >= k /\ (i - 1) + 1 = i
            BY <2>1, <4>2
          <5>3. Nth(i - 1)' = Nth((i - 1) + 1)
            BY <1>0, <1>1, <5>2, <1>2
          <5> QED BY <2>2, <3>1, <5>1, <5>2, <5>3
        <4> QED BY <2>1, <2>4, <4>1, <4>2
      <3> QED BY <1>1, <3>1, <3>2, <3>5, <3>6, <3>7
    <2> QED BY <2>1, <2>3, <2>4
  <1>11. first' = IF prev'[h] = NoHandle THEN h ELSE Nth(1)'
    <2>1. CASE k = 1
      BY <1>0, <1>1, <1>7, <2>1, NthFacts, OrderFacts
    <2>2. CASE k > 1
      <3>1. k - 1 \in 1..Len(order) /\ 1 < k /\ Nth(1)' = Nth(1)
        BY <1>5, <1>2, <2>2
      <3>2. prev'[h] # NoHandle
        BY <1>1, <1>7, <3>1, NthFacts
      <3> QED BY <1>1, <1>7, <3>1, <3>2
    <2> QED BY <1>5, <2>1, <2>2
  <1>12. \E i \in 0..Len(order)' : prev'[h] = Nth(i)' /\ next'[h] = Nth(i + 1)'
    <2>1. k - 1 \in 0..Len(order)' /\ k - 1 \in Int /\ (k - 1) + 1 = k
      BY <1>5, <1>2
    <2>2. Nth(k - 1)' = Nth(k - 1) /\ Nth(k)' = Nth(k + 1)
      BY <1>0, <1>1, <2>1, <1>2
    <2> QED BY <1>1, <1>7, <1>9, <2>1, <2>2
  <1>13. heap' = ToSet(order)' \cup {h} /\ h \notin ToSet(order)'
    BY <1>0, <1>1, <1>2
  <1>14. Distinct'
    BY <1>0, <1>1, <1>2
  <1> QED BY <1>3, <1>10, <1>11, <1>12, <1>13, <1>14 DEF List

LEMMA UnlinkList ==
    ASSUME Typed, List, Unlink
    PROVE  List'
  <1> DEFINE h == op.handle
  <1>0. /\ op.step = "unlink" /\ op # Idle /\ h \in Handles \ ToSet(order) /\ Leaving
        /\ UNCHANGED <<first, next, order, heap>> /\ Distinct
        /\ prev' = IF next[h] # NoHandle THEN [prev EXCEPT ![next[h]] = prev[h]] ELSE prev
        /\ op'.step = "free" /\ op'.handle = h /\ op' # Idle
        /\ heap = ToSet(order) \cup {h} /\ Leaving' /\ ~Coming'
        /\ first = IF prev[h] = NoHandle THEN h ELSE Nth(1)
    <2>1. op.step = "unlink" /\ op' = Step("free", h)
      BY DEF Unlink
    <2>2. op'.step = "free" /\ op'.handle = h /\ op' # Idle /\ op # Idle
      BY <2>1, StepFields, IdleFields
    <2>3. Leaving /\ Leaving' /\ ~Coming'
      BY <2>1, <2>2 DEF Leaving, Coming
    <2> QED BY <2>1, <2>2, <2>3 DEF Unlink, UnlinkNext, List
  <1>1. PICK k \in 0..Len(order) : prev[h] = Nth(k) /\ next[h] = Nth(k + 1)
    BY <1>0 DEF List
  <1>2. \A i \in DOMAIN order :
          next[order[i]] = Nth(i + 1)
          /\ prev[order[i]] = IF next[h] = order[i] THEN h ELSE Nth(i - 1)
    BY <1>0 DEF List, PrevOf
  <1> HIDE DEF h
  <1>3. ToSet(order)' = ToSet(order) /\ DOMAIN order' = DOMAIN order /\ Distinct'
        /\ Len(order)' = Len(order)
    BY <1>0 DEF Distinct
  <1>4. \A i : Nth(i)' = Nth(i)
    BY <1>0 DEF Nth
  <1>5. next[h] # h /\ prev'[h] = prev[h]
    <2>1. next[h] # h
      BY <1>0, <1>1, OrderFacts, HandlesAssumption
    <2> QED BY <1>0, <2>1 DEF Typed
  <1>6. ASSUME NEW i \in DOMAIN order'
        PROVE  next'[order'[i]] = Nth(i + 1)' /\ prev'[order'[i]] = PrevOf(i)'
    <2>1. i \in DOMAIN order /\ i \in 1..Len(order) /\ i \in Int
          /\ order[i] \in Handles /\ Nth(i) = order[i] /\ order[i] # NoHandle
      BY <1>0, <1>3, OrderFacts, NthFacts
    <2>2. PrevOf(i)' = Nth(i - 1)
      BY <1>0, <1>4 DEF PrevOf
    <2>3. CASE next[h] = order[i]
      <3>1. i = k + 1 /\ k = i - 1
        BY <1>0, <1>1, <2>1, <2>3, NthFacts
      <3>2. prev'[order[i]] = Nth(i - 1)
        BY <1>0, <1>1, <2>1, <2>3, <3>1 DEF Typed
      <3> QED BY <1>0, <1>2, <1>4, <2>1, <2>2, <3>2
    <2>4. CASE next[h] # order[i]
      BY <1>0, <1>2, <1>4, <2>1, <2>2, <2>4
    <2> QED BY <2>3, <2>4
  <1>7. prev'[h] = Nth(k)' /\ next'[h] = Nth(k + 1)' /\ k \in 0..Len(order)'
    BY <1>0, <1>1, <1>3, <1>4, <1>5
  <1>8. first' = IF prev'[h] = NoHandle THEN h ELSE Nth(1)'
    BY <1>0, <1>4, <1>5
  <1> QED BY <1>0, <1>3, <1>6, <1>7, <1>8 DEF List

LEMMA FreeList ==
    ASSUME Typed, List, Free
    PROVE  List'
  <1> DEFINE h == op.handle
  <1>0. /\ op.step = "free" /\ op # Idle /\ h \in Handles \ ToSet(order) /\ Leaving
        /\ UNCHANGED <<next, prev, order>> /\ Distinct
        /\ first' = IF first = h THEN next[h] ELSE first
        /\ heap' = heap \ {h} /\ heap = ToSet(order) \cup {h}
        /\ op' = Idle /\ ~Leaving' /\ ~Coming' /\ op'.step = "idle"
        /\ first = IF prev[h] = NoHandle THEN h ELSE Nth(1)
    <2>1. op.step = "free" /\ op' = Idle
      BY DEF Free
    <2>2. op # Idle /\ op'.step = "idle"
      BY <2>1, IdleFields
    <2>3. Leaving /\ ~Leaving' /\ ~Coming'
      BY <2>1, <2>2 DEF Leaving, Coming
    <2> QED BY <2>1, <2>2, <2>3 DEF Free, FirstWithout, List
  <1>1. PICK k \in 0..Len(order) : prev[h] = Nth(k) /\ next[h] = Nth(k + 1)
    BY <1>0 DEF List
  <1>2. \A i \in DOMAIN order :
          next[order[i]] = Nth(i + 1) /\ prev[order[i]] = Nth(i - 1)
    BY <1>0 DEF List, PrevOf
  <1> HIDE DEF h
  <1>3. ToSet(order)' = ToSet(order) /\ DOMAIN order' = DOMAIN order /\ Distinct'
    BY <1>0 DEF Distinct
  <1>4. \A i : Nth(i)' = Nth(i)
    BY <1>0 DEF Nth
  <1>5. first' = Nth(1)'
    <2>1. CASE prev[h] = NoHandle
      <3>1. k = 0
        <4>1. k \notin 1..Len(order) /\ Len(order) \in Nat
          BY <1>0, <1>1, <2>1, NthFacts, OrderFacts
        <4> QED BY <4>1
      <3> QED BY <1>0, <1>1, <1>4, <2>1, <3>1
    <2>2. CASE prev[h] # NoHandle
      BY <1>0, <1>4, <2>2, OrderFacts, HandlesAssumption
    <2> QED BY <2>1, <2>2
  <1>6. \A i \in DOMAIN order' :
          next'[order'[i]] = Nth(i + 1)' /\ prev'[order'[i]] = PrevOf(i)'
    BY <1>0, <1>2, <1>3, <1>4 DEF PrevOf
  <1> QED BY <1>0, <1>3, <1>5, <1>6 DEF List

LEMMA ListNext == Typed /\ List /\ [Next]_vars => List'
  <1> SUFFICES ASSUME Typed, List, [Next]_vars PROVE List'
    OBVIOUS
  <1>1. CASE Deinit
    <2>1. order' = <<>> /\ heap' = {} /\ first' = NoHandle /\ op' = Idle
      BY <1>1 DEF Deinit
    <2>2. DOMAIN order' = {} /\ ToSet(order') = {} /\ \A k : Nth(k)' = NoHandle
      BY <2>1 DEF ToSet, Nth
    <2>3. ~Leaving' /\ ~Coming'
      BY <2>1, IdleFields DEF Leaving, Coming
    <2> QED BY <2>1, <2>2, <2>3 DEF List, Distinct
  <1>2. CASE UNCHANGED listVars
    <2>1. UNCHANGED <<first, next, prev, heap, op, order>>
      BY <1>2 DEF listVars
    <2>2. UNCHANGED <<Leaving, Coming, Distinct>>
      BY <2>1 DEF Leaving, Coming, Distinct
    <2>3. \A k : Nth(k)' = Nth(k)
      BY <2>1 DEF Nth
    <2>4. \A k : PrevOf(k)' = PrevOf(k)
      BY <2>1, <2>3 DEF PrevOf
    <2> QED BY <2>1, <2>2, <2>3, <2>4 DEF List
  <1> QED
    BY <1>1, <1>2, RegisterList, LinkFirstList, PublishFirstList, UnregisterList,
       UnlinkList, FreeList
    DEF Next, Runner, HandleDataFragment, BeginWalk, Call, Advance, EndWalk, Application,
        Send, Accept, Refuse, Receive, vars, listVars

-----------------------------------------------------------------------------
(* Nor does the walk lose its place. *)
LEMMA NoWriteWalk ==
    ASSUME Walk, UNCHANGED <<walkVars, order>>, ~astray /\ AtLeaving => AtLeaving',
           ~astray /\ AtLeaving => next'[at] = next[at]
    PROVE  Walk'
  <1>1. UNCHANGED <<walk, at, called, stays, astray, order>>
    BY DEF walkVars
  <1>2. \A k : Nth(k)' = Nth(k)
    BY <1>1 DEF Nth
  <1>3. \A j : Called(j)' = Called(j)
    BY <1>1 DEF Called
  <1>4. \A j : ~astray /\ WalkIsAt(j) => WalkIsAt(j)'
    BY <1>1, <1>2 DEF WalkIsAt
  <1> QED BY <1>1, <1>3, <1>4 DEF Walk

LEMMA PublishFirstWalk ==
    ASSUME Typed, List, Walk, PublishFirst
    PROVE  Walk'
  <1> DEFINE h == op.handle
  <1>0. /\ op.step = "publish" /\ op # Idle /\ h \in Handles \ ToSet(order)
        /\ UNCHANGED <<walk, at, called, stays, astray>> /\ order' = <<h>> \o order
        /\ Distinct /\ ~Leaving
    BY IdleFields DEF PublishFirst, List, walkVars, Leaving
  <1> HIDE DEF h
  <1>1. /\ Len(order)' = Len(order) + 1 /\ DOMAIN order' = 1..Len(order) + 1
        /\ ToSet(order') = ToSet(order) \cup {h}
        /\ \A i \in Int : i >= 1 => Nth(i + 1)' = Nth(i)
        /\ order'[1] = h /\ \A i \in 1..Len(order) : order'[i + 1] = order[i]
    BY <1>0, NthPushed
  <1>2. stays' \subseteq ToSet(order') /\ (walk' = "idle" => stays' = {})
        /\ (walk' = "next" => at' # NoHandle)
    BY <1>0, <1>1 DEF Walk
  <1>3. ASSUME walk' # "idle", ~astray'
        PROVE  \E j \in 0..Len(order') : WalkIsAt(j)' /\ Called(j)'
    <2>1. PICK j \in 0..Len(order) : WalkIsAt(j) /\ Called(j)
      BY <1>0, <1>3 DEF Walk
    <2>2. Len(order) \in Nat /\ j \in Nat /\ j + 1 \in 0..Len(order') /\ DOMAIN order = 1..Len(order)
      BY <1>1, OrderFacts
    <2>3. WalkIsAt(j + 1)'
      <3>1. CASE walk = "call" /\ at = Nth(j + 1)
        BY <1>0, <1>1, <2>2, <3>1 DEF WalkIsAt
      <3>2. CASE walk = "next" /\ at = Nth(j)
        <4>1. at # NoHandle
          BY <3>2 DEF Walk
        <4>2. j >= 1
          BY <2>2, <3>2, <4>1, OrderFacts
        <4> QED BY <1>0, <1>1, <2>2, <3>2, <4>2 DEF WalkIsAt
      <3> QED BY <1>0, <2>1, <3>1, <3>2 DEF WalkIsAt, AtLeaving
    <2>4. ASSUME NEW i \in DOMAIN order', order'[i] \in stays'
          PROVE  called'[order'[i]] = IF i <= j + 1 THEN 1 ELSE 0
      <3>1. i # 1
        BY <1>0, <1>1, <2>4 DEF Walk
      <3>2. i - 1 \in 1..Len(order) /\ (i - 1) + 1 = i /\ (i - 1 <= j <=> i <= j + 1)
        <4>1. i \in 1..Len(order) + 1
          BY <1>1
        <4> QED BY <2>2, <3>1, <4>1
      <3>3. order'[i] = order[i - 1]
        BY <1>1, <3>2
      <3> QED BY <1>0, <2>1, <2>2, <2>4, <3>2, <3>3 DEF Called
    <2> QED BY <2>2, <2>3, <2>4 DEF Called
  <1> QED BY <1>2, <1>3 DEF Walk

LEMMA UnregisterWalk ==
    ASSUME Typed, List, Walk, NEW h \in Handles, Unregister(h)
    PROVE  Walk'
  <1>0. PICK k \in 1..Len(order) : order[k] = h /\ order' = RemoveAt(order, k)
    BY OrderFacts DEF Unregister
  <1>1. /\ op = Idle /\ UNCHANGED <<walk, at, called, astray>> /\ stays' = stays \ {h}
        /\ Distinct
        /\ next' = IF prev[h] # NoHandle THEN [next EXCEPT ![prev[h]] = next[h]] ELSE next
    BY DEF Unregister, SkipHandle, List
  <1>2. /\ Len(order)' = Len(order) - 1 /\ DOMAIN order' = 1..Len(order) - 1
        /\ ToSet(order') = ToSet(order) \ {h}
        /\ \A i \in Int : Nth(i)' = IF i < k THEN Nth(i) ELSE Nth(i + 1)
        /\ \A i \in 1..Len(order) - 1 :
             order'[i] = IF i < k THEN order[i] ELSE order[i + 1]
    BY <1>0, <1>1, NthRemoved
  <1>3. op'.handle = h /\ Leaving'
    <2>1. op' = Step("unlink", h)
      BY DEF Unregister
    <2> QED BY <2>1, StepFields DEF Leaving
  <1>4. op.step = "idle" /\ ~Leaving
    BY <1>1, IdleFields DEF Leaving
  <1>5. Len(order) \in Nat /\ DOMAIN order = 1..Len(order) /\ Nth(k) = h
    BY <1>0, <1>1, OrderFacts, NthFacts
  <1>6. next'[h] = Nth(k + 1)
    <2>1. next[h] = Nth(k + 1) /\ prev[h] = Nth(k - 1)
      BY <1>0, <1>4, <1>5 DEF List, PrevOf
    <2>2. Nth(k - 1) # h
      BY <1>0, <1>1, NthFacts
    <2> QED BY <1>1, <2>1, <2>2 DEF Typed
  <1>7. stays' \subseteq ToSet(order') /\ (walk' = "idle" => stays' = {})
        /\ (walk' = "next" => at' # NoHandle)
    BY <1>1, <1>2 DEF Walk
  <1>8. ASSUME walk' # "idle", ~astray'
        PROVE  \E j \in 0..Len(order') : WalkIsAt(j)' /\ Called(j)'
    <2>1. PICK j \in 0..Len(order) : WalkIsAt(j) /\ Called(j)
      BY <1>1, <1>8 DEF Walk
    <2> DEFINE m == IF k <= j THEN j - 1 ELSE j
    <2>2. j \in Nat /\ m \in Int
      BY <1>5
    <2>3. m \in 0..Len(order')
      <3>1. CASE k <= j
        <4>1. m = j - 1 /\ j - 1 \in 0..Len(order) - 1
          BY <1>5, <3>1
        <4> QED BY <1>2, <4>1
      <3>2. CASE ~(k <= j)
        <4>1. m = j /\ j \in 0..Len(order) - 1
          BY <1>5, <3>2
        <4> QED BY <1>2, <4>1
      <3> QED BY <3>1, <3>2
    <2>4. \/ walk = "call" /\ at = Nth(j + 1)
          \/ walk = "next" /\ at = Nth(j)
      BY <1>4, <2>1 DEF WalkIsAt, AtLeaving
    <2>5. Nth(k)' = Nth(k + 1)
      BY <1>2
    <2> HIDE DEF m
    <2>6. Called(m)'
      <3> SUFFICES ASSUME NEW i \in DOMAIN order', order'[i] \in stays'
                   PROVE  called'[order'[i]] = IF i <= m THEN 1 ELSE 0
        BY DEF Called
      <3>0. i \in 1..Len(order) - 1
        BY <1>2
      <3>1. CASE i < k
        <4>1. order'[i] = order[i] /\ i \in 1..Len(order) /\ (i <= j <=> i <= m)
          <5>1. order'[i] = order[i]
            BY <1>2, <3>0, <3>1
          <5>2. i \in 1..Len(order) /\ (i <= j <=> i <= m)
            BY <1>5, <2>2, <3>0, <3>1 DEF m
          <5> QED BY <5>1, <5>2
        <4> QED BY <1>1, <1>5, <2>1, <4>1 DEF Called
      <3>2. CASE i >= k
        <4>1. order'[i] = order[i + 1] /\ i + 1 \in 1..Len(order) /\ (i + 1 <= j <=> i <= m)
          <5>1. order'[i] = order[i + 1]
            <6>1. ~(i < k)
              BY <3>0, <3>2
            <6> QED BY <1>2, <3>0, <6>1
          <5>2. i + 1 \in 1..Len(order) /\ (i + 1 <= j <=> i <= m)
            BY <1>5, <2>2, <3>0, <3>2 DEF m
          <5> QED BY <5>1, <5>2
        <4> QED BY <1>1, <1>5, <2>1, <4>1 DEF Called
      <3> QED BY <1>2, <1>5, <3>1, <3>2
    <2>7. ASSUME at = h PROVE WalkIsAt(m)'
      <3>1. m + 1 = k
        <4>1. CASE at = Nth(j + 1)
          <5>1. j + 1 = k
            BY <1>0, <1>1, <1>5, <2>2, <2>7, <4>1, NthFacts
          <5> QED BY <2>2, <5>1 DEF m
        <4>2. CASE at = Nth(j)
          <5>1. j = k
            BY <1>0, <1>1, <1>5, <2>2, <2>7, <4>2, NthFacts
          <5> QED BY <2>2, <5>1 DEF m
        <4> QED BY <2>4, <4>1, <4>2
      <3> QED
        <4>1. AtLeaving' /\ next'[at'] = Nth(m + 1)'
          BY <1>1, <1>3, <1>6, <2>5, <2>7, <3>1 DEF AtLeaving
        <4>2. WalkIsAt(m)'
          BY <4>1 DEF WalkIsAt
        <4> QED BY <4>2
    <2>8. ASSUME at # h PROVE WalkIsAt(m)'
      <3>1. CASE walk = "call" /\ at = Nth(j + 1)
        <4>1. j + 1 # k
          BY <1>5, <2>8, <3>1
        <4>2. Nth(m + 1)' = Nth(j + 1)
          <5>1. CASE k <= j
            <6>1. m + 1 = j /\ j \in Int /\ ~(j < k)
              BY <2>2, <5>1 DEF m
            <6> QED BY <1>2, <6>1
          <5>2. CASE ~(k <= j)
            <6>1. m + 1 = j + 1 /\ j + 1 \in Int /\ j + 1 < k
              BY <2>2, <4>1, <5>2 DEF m
            <6> QED BY <1>2, <6>1
          <5> QED BY <5>1, <5>2
        <4> QED BY <1>1, <3>1, <4>2 DEF WalkIsAt
      <3>2. CASE walk = "next" /\ at = Nth(j)
        <4>1. j # k
          BY <1>5, <2>8, <3>2
        <4>2. Nth(m)' = Nth(j)
          <5>1. CASE k <= j
            <6>1. m \in Int /\ ~(m < k) /\ m + 1 = j
              BY <2>2, <4>1, <5>1 DEF m
            <6> QED BY <1>2, <6>1
          <5>2. CASE ~(k <= j)
            <6>1. m = j /\ m \in Int /\ m < k
              BY <2>2, <5>2 DEF m
            <6> QED BY <1>2, <6>1
          <5> QED BY <5>1, <5>2
        <4> QED BY <1>1, <3>2, <4>2 DEF WalkIsAt
      <3> QED BY <2>4, <3>1, <3>2
    <2> QED BY <2>3, <2>7, <2>8, <2>6
  <1> QED BY <1>7, <1>8 DEF Walk

LEMMA BeginWalkWalk ==
    ASSUME Typed, List, BeginWalk
    PROVE  Walk'
  <1>0. /\ walk' = "call" /\ at' = first /\ stays' = ToSet(order) /\ called' = [h \in Handles |-> 0]
        /\ UNCHANGED <<first, next, prev, op, order>>
    BY DEF BeginWalk, listVars
  <1>1. (\A k : Nth(k)' = Nth(k)) /\ (Leaving' <=> Leaving)
    BY <1>0 DEF Nth, Leaving
  <1>2. WalkIsAt(0)'
    <2>1. CASE Leaving /\ prev[op.handle] = NoHandle
      <3>1. PICK k \in 0..Len(order) : prev[op.handle] = Nth(k) /\ next[op.handle] = Nth(k + 1)
        BY <2>1 DEF List
      <3>2. Len(order) \in Nat /\ k \notin 1..Len(order)
        BY <2>1, <3>1, NthFacts, OrderFacts DEF List
      <3>3. k = 0
        BY <3>2
      <3>4. first = op.handle
        BY <2>1 DEF List
      <3>5. next[first] = Nth(0 + 1)
        BY <3>1, <3>3, <3>4
      <3> QED BY <1>0, <1>1, <2>1, <3>4, <3>5 DEF WalkIsAt, AtLeaving
    <2>2. CASE ~(Leaving /\ prev[op.handle] = NoHandle)
      <3>1. first = Nth(1)
        BY <2>2 DEF List
      <3>2. at' = Nth(0 + 1)'
        BY <1>0, <1>1, <3>1
      <3> QED BY <1>0, <3>2 DEF WalkIsAt
    <2> QED BY <2>1, <2>2
  <1>3. Called(0)'
    <2>1. \A i \in 1..Len(order) : called'[order[i]] = 0 /\ ~(i <= 0)
      BY <1>0, OrderFacts
    <2> QED BY <1>0, <2>1, OrderFacts DEF Called
  <1>4. 0 \in 0..Len(order)'
    BY <1>0, OrderFacts
  <1>5. stays' \subseteq ToSet(order')
    BY <1>0
  <1> QED BY <1>0, <1>2, <1>3, <1>4, <1>5 DEF Walk

LEMMA CallWalk ==
    ASSUME Typed, List, Walk, Call
    PROVE  Walk'
  <1>0. /\ walk = "call" /\ at # NoHandle /\ called' = [called EXCEPT ![at] = Smaller(@ + 1, 2)]
        /\ walk' = "next" /\ UNCHANGED <<next, op, order, at, stays, astray>>
    BY DEF Call, listVars
  <1>1. (\A k : Nth(k)' = Nth(k)) /\ (AtLeaving' <=> AtLeaving)
        /\ ToSet(order)' = ToSet(order) /\ Len(order)' = Len(order) /\ DOMAIN order' = DOMAIN order
    BY <1>0 DEF Nth, AtLeaving, Leaving
  <1>2. ASSUME ~astray'
        PROVE  \E j \in 0..Len(order') : WalkIsAt(j)' /\ Called(j)'
    <2>1. PICK j \in 0..Len(order) : WalkIsAt(j) /\ Called(j)
      BY <1>0, <1>2 DEF Walk
    <2>2. Len(order) \in Nat /\ j \in Nat /\ DOMAIN order = 1..Len(order)
      BY OrderFacts
    <2>3. CASE AtLeaving /\ next[at] = Nth(j + 1)
      <3>1. at \notin ToSet(order)
        BY <2>3, IdleFields DEF AtLeaving, Leaving, List
      <3>2. \A i \in 1..Len(order) : called'[order[i]] = called[order[i]]
        BY <1>0, <3>1, OrderFacts DEF Typed
      <3>3. Called(j)'
        BY <1>0, <2>1, <2>2, <3>2 DEF Called
      <3>4. WalkIsAt(j)'
        BY <1>0, <1>1, <2>3 DEF WalkIsAt
      <3> QED BY <1>1, <3>3, <3>4
    <2>4. CASE at = Nth(j + 1)
      <3>1. j + 1 \in 1..Len(order) /\ at = order[j + 1]
        BY <1>0, <2>2, <2>4, NthFacts DEF List
      <3>2. WalkIsAt(j + 1)'
        BY <1>0, <1>1, <2>4 DEF WalkIsAt
      <3>3. Called(j + 1)'
        <4> SUFFICES ASSUME NEW i \in 1..Len(order), order[i] \in stays
                     PROVE  called'[order[i]] = IF i <= j + 1 THEN 1 ELSE 0
          BY <1>0, <2>2 DEF Called
        <4>1. called[order[i]] = IF i <= j THEN 1 ELSE 0
          BY <2>1, <2>2 DEF Called
        <4>2. CASE i = j + 1
          <5>1. called[at] = 0
            BY <2>2, <3>1, <4>1, <4>2
          <5>2. called'[at] = 1
            BY <1>0, <5>1 DEF Typed, Smaller
          <5> QED BY <2>2, <3>1, <4>2, <5>2
        <4>3. CASE i # j + 1
          <5>1. order[i] # at
            BY <2>2, <3>1, <4>3 DEF List, Distinct
          <5>2. i <= j <=> i <= j + 1
            BY <2>2, <4>3
          <5> QED BY <1>0, <4>1, <5>1, <5>2, OrderFacts DEF Typed
        <4> QED BY <4>2, <4>3
      <3>4. j + 1 \in 0..Len(order')
        BY <1>1, <2>2, <3>1
      <3> QED BY <3>2, <3>3, <3>4
    <2> QED BY <1>0, <2>1, <2>3, <2>4 DEF WalkIsAt
  <1> QED BY <1>0, <1>1, <1>2 DEF Walk

LEMMA AdvanceWalk ==
    ASSUME Typed, List, Walk, Advance
    PROVE  Walk'
  <1>0. /\ walk = "next" /\ at # NoHandle /\ walk' = "call"
        /\ ~astray => at' = next[at]
        /\ UNCHANGED <<next, op, order, called, stays, astray>>
    BY DEF Advance, listVars, Walk
  <1>1. (\A k : Nth(k)' = Nth(k)) /\ ToSet(order)' = ToSet(order) /\ Len(order)' = Len(order)
        /\ \A j : Called(j)' = Called(j)
    BY <1>0 DEF Nth, Called
  <1>2. ASSUME ~astray'
        PROVE  \E j \in 0..Len(order') : WalkIsAt(j)' /\ Called(j)'
    <2>1. PICK j \in 0..Len(order) : WalkIsAt(j) /\ Called(j)
      BY <1>0, <1>2 DEF Walk
    <2>2. next[at] = Nth(j + 1)
      <3>1. CASE AtLeaving /\ next[at] = Nth(j + 1)
        BY <3>1
      <3>2. CASE at = Nth(j)
        <4>1. j \in 1..Len(order) /\ at = order[j] /\ DOMAIN order = 1..Len(order)
          BY <1>0, <3>2, NthFacts, OrderFacts DEF List
        <4> QED BY <4>1 DEF List
      <3> QED BY <1>0, <2>1, <3>1, <3>2 DEF WalkIsAt
    <2>3. WalkIsAt(j)'
      BY <1>0, <1>1, <1>2, <2>2 DEF WalkIsAt
    <2> QED BY <1>1, <2>1, <2>3
  <1> QED BY <1>0, <1>1, <1>2 DEF Walk

LEMMA WalkNext == Typed /\ List /\ Walk /\ [Next]_vars => Walk'
  <1> SUFFICES ASSUME Typed, List, Walk, [Next]_vars PROVE Walk'
    OBVIOUS
  <1>1. ASSUME NEW h \in Handles, Register(h) PROVE Walk'
    <2>1. ~Leaving /\ UNCHANGED <<walkVars, order>>
      BY <1>1, IdleFields DEF Register, Leaving
    <2> QED BY <2>1, NoWriteWalk DEF AtLeaving
  <1>2. CASE LinkFirst
    <2>1. ~Leaving /\ UNCHANGED <<walkVars, order>>
      BY <1>2 DEF LinkFirst, Leaving
    <2> QED BY <2>1, NoWriteWalk DEF AtLeaving
  <1>3. CASE Unlink
    <2>1. /\ UNCHANGED <<walkVars, order, next, at>>
          /\ op' = Step("free", op.handle) /\ at' = at
      BY <1>3 DEF Unlink, walkVars
    <2>2. AtLeaving => AtLeaving'
      BY <2>1, StepFields DEF AtLeaving, Leaving
    <2> QED BY <2>1, <2>2, NoWriteWalk
  <1>4. CASE Free
    <2>0. /\ UNCHANGED <<walk, at, called, stays, next, order>>
          /\ astray' = (astray \/ (walk # "idle" /\ at = op.handle))
      BY <1>4 DEF Free
    <2>1. CASE walk # "idle" /\ ~astray /\ AtLeaving
      <3>1. astray'
        BY <2>0, <2>1, Zenon DEF AtLeaving
      <3> QED BY <2>0, <3>1 DEF Walk
    <2>2. CASE ~(walk # "idle" /\ ~astray /\ AtLeaving)
      <3>1. \A k : Nth(k)' = Nth(k) /\ Called(k)' = Called(k)
        BY <2>0 DEF Nth, Called
      <3>2. ~astray' => ~astray
        BY <2>0, Zenon
      <3>3. ASSUME NEW j, walk # "idle", ~astray, WalkIsAt(j) PROVE WalkIsAt(j)'
        BY <2>0, <2>2, <3>1, <3>3 DEF WalkIsAt
      <3> QED BY <2>0, <3>1, <3>2, <3>3 DEF Walk
    <2> QED BY <2>1, <2>2
  <1>5. CASE Deinit
    <2>1. walk = "idle" /\ walk' = "idle" /\ stays' = stays
      BY <1>5 DEF Deinit, walkVars
    <2> QED BY <2>1 DEF Walk
  <1>6. CASE EndWalk
    <2>1. walk' = "idle" /\ stays' = {}
      BY <1>6 DEF EndWalk
    <2> QED BY <2>1 DEF Walk
  <1>7. CASE UNCHANGED <<listVars, walkVars>>
    <2>1. UNCHANGED <<walkVars, order, op, next, at>>
      BY <1>7 DEF listVars, walkVars
    <2> QED BY <2>1, NoWriteWalk DEF AtLeaving, Leaving
  <1> QED
    BY <1>1, <1>2, <1>3, <1>4, <1>5, <1>6, <1>7, PublishFirstWalk, UnregisterWalk,
       BeginWalkWalk, CallWalk, AdvanceWalk
    DEF Next, Runner, HandleDataFragment, Application, Send, Accept, Refuse, Receive, vars,
        listVars, walkVars

LEMMA InitList == Init => ListInv
  <1> SUFFICES ASSUME Init PROVE ListInv
    OBVIOUS
  <1>1. Typed
    <2>1. astray \in BOOLEAN
      BY Zenon DEF Init
    <2> QED BY <2>1, IdleFields DEF Init, Typed
  <1>2. order = <<>> /\ op = Idle /\ heap = {} /\ first = NoHandle /\ walk = "idle" /\ stays = {}
    BY DEF Init
  <1>3. DOMAIN order = {} /\ ToSet(order) = {} /\ \A k : Nth(k) = NoHandle
    BY <1>2 DEF ToSet, Nth
  <1>4. ~Leaving /\ ~Coming
    BY <1>2, IdleFields DEF Leaving, Coming
  <1>5. List
    BY <1>2, <1>3, <1>4 DEF List, Distinct
  <1>6. Walk
    BY <1>2 DEF Walk
  <1> QED BY <1>1, <1>5, <1>6 DEF ListInv

LEMMA ListInvariant == Spec => [](ListInv /\ OnItsWay)
  <1>1. Init => OnItsWay
    BY DEF Init, OnItsWay
  <1>2. ListInv /\ OnItsWay /\ [Next]_vars => ListInv' /\ OnItsWay'
    BY TypedNext, ListNext, WalkNext, OnItsWayNext DEF ListInv
  <1> QED BY <1>1, <1>2, InitList, PTL DEF Spec

(* Every variable keeps its type, and a registered callback is never freed  *)
(* while it is in the list, nor is the list's first ever a freed handle,    *)
(* whatever handles the heap gives out again.                               *)
THEOREM TypeCorrect == Spec => []TypeOK
  <1>1. ListInv /\ OnItsWay => TypeOK
    <2> SUFFICES ASSUME Typed, List, OnItsWay PROVE TypeOK
      BY DEF ListInv
    <2>1. first \in heap \cup {NoHandle}
      <3>1. Leaving => op # Idle
        BY IdleFields DEF Leaving
      <3> QED BY <3>1, OrderFacts DEF List
    <2>2. heap \in SUBSET Handles /\ ToSet(order) \subseteq heap
      BY OrderFacts DEF List
    <2>3. \A packet \in air : packet.sent \in Items
      BY DEF OnItsWay
    <2> QED BY <2>1, <2>2, <2>3, Zenon DEF TypeOK, Typed, OnItsWay
  <1> QED BY <1>1, ListInvariant, PTL

(* When no call is changing it, the list is the registered callbacks, in    *)
(* both directions and newest first, however many were registered and       *)
(* unregistered before, from the middle or either end.                      *)
THEOREM ListKeptCorrect == Spec => []ListKept
  <1>1. ListInv => ListKept
    BY IdleFields DEF ListInv, List, ListKept, Leaving, PrevOf
  <1> QED BY <1>1, ListInvariant, PTL

(* The walk, which reads the list between any two writes of a call, calls   *)
(* each callback that stays registered once, unless the one it is at is     *)
(* freed under it.                                                          *)
THEOREM CalledOnceCorrect == Spec => []CalledOnce
  <1>1. ListInv => CalledOnce
    <2> SUFFICES ASSUME Typed, List, Walk, ~astray, NEW h \in stays
                 PROVE  called[h] <= 1 /\ (walk = "call" /\ at = NoHandle => called[h] = 1)
      BY DEF ListInv, CalledOnce
    <2>1. PICK i \in 1..Len(order) : order[i] = h
      BY OrderFacts DEF Walk
    <2>2. PICK j \in 0..Len(order) : WalkIsAt(j) /\ Called(j)
      BY DEF Walk
    <2>3. called[h] = IF i <= j THEN 1 ELSE 0
      BY <2>1, <2>2, OrderFacts DEF Called
    <2>4. ASSUME walk = "call", at = NoHandle PROVE i <= j
      <3>1. ~AtLeaving
        BY <2>4, IdleFields, HandlesAssumption DEF AtLeaving, Leaving, List
      <3>2. Nth(j + 1) = NoHandle
        BY <2>2, <2>4, <3>1 DEF WalkIsAt
      <3>3. Len(order) \in Nat /\ j + 1 \notin 1..Len(order)
        BY <3>2, OrderFacts, NthFacts DEF List
      <3> QED BY <3>3
    <2> QED BY <2>3, <2>4
  <1> QED BY <1>1, ListInvariant, PTL
=============================================================================
