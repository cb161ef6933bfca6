------------------------------ MODULE Fragments ------------------------------
(***************************************************************************)
(* Frames of the IP stack on their way to a node: transmit() cuts each of  *)
(* them into fragments (netif.cpp), addFragment() puts the fragments       *)
(* together again (fragments.cpp), FragmentGCJob throws away what remains  *)
(* incomplete (job/fragment_gc.cpp), and the io task takes the frames that *)
(* are complete (netif.cpp).                                               *)
(*                                                                         *)
(* Between transmit() and addFragment() a fragment may be lost, overtaken  *)
(* by others (a retry goes to the end of the send queue) or repeated (a    *)
(* retried broadcast goes to every neighbour again).  A fragment that is   *)
(* received is handled by the job runner with the Lock held, and so is the *)
(* garbage collected.                                                      *)
(*                                                                         *)
(* A buffer is the sequence of its pieces, from 0, each named by the frame *)
(* it is a piece of; NoFrame is a piece that was not received yet, whose   *)
(* bit in fragment_mask is clear.                                          *)
(***************************************************************************)
EXTENDS Integers, Sequences, FiniteSets

CONSTANTS
    Frames,                  \* what is transmitted: [src, id, len]
    NoFrame,
    MAX_FRAG_PAYLOAD_SIZE,
    ID_RANGE,                \* of a fragment's id, 16 bits are looked at
    FINISHED_SIZE,           \* of finished_queue, 32 in fragments.cpp
    MAX_COPIES               \* bound: how often a fragment is received

ASSUME SizeAssumption ==
    /\ MAX_FRAG_PAYLOAD_SIZE \in Nat \ {0} /\ ID_RANGE \in Nat \ {0}
    /\ FINISHED_SIZE \in Nat \ {0} /\ MAX_COPIES \in Nat \ {0}

(* frag_num has 3 bits: a frame has at most 8 fragments. *)
ASSUME FramesAssumption ==
    /\ NoFrame \notin Frames
    /\ \A f \in Frames : f.id \in Nat /\ f.len \in 1..8 * MAX_FRAG_PAYLOAD_SIZE

(* "Uniquely" (fragments.cpp:70, its quotation marks): no two frames of one *)
(* sender are on their way with the same 16 bits for their random id.       *)
ASSUME UniqueAssumption ==
    \A f, g \in Frames :
      f.src = g.src /\ f.id % ID_RANGE = g.id % ID_RANGE => f = g

VARIABLES
    received,        \* how often each fragment was received
    reassembly_map,  \* the buffer of each key, NoEntry if there is none
    stale,           \* the keys whose last fragment is older than the timeout
    finished_queue,
    delivered        \* what the io task gave to the IP stack

vars == <<received, reassembly_map, stale, finished_queue, delivered>>

-----------------------------------------------------------------------------
(* The fragments of a frame: the loop of transmit(). *)
Nums(f) == {k \in 0..7 : k * MAX_FRAG_PAYLOAD_SIZE < f.len}

Size(f, k) ==
    IF f.len - k * MAX_FRAG_PAYLOAD_SIZE > MAX_FRAG_PAYLOAD_SIZE
      THEN MAX_FRAG_PAYLOAD_SIZE
      ELSE f.len - k * MAX_FRAG_PAYLOAD_SIZE

(* The number of fragments that are expected. *)
NumFragments(total) ==
    (total + MAX_FRAG_PAYLOAD_SIZE - 1) \div MAX_FRAG_PAYLOAD_SIZE

KeyOfId(f) == <<"any", f.id % ID_RANGE>>
Key(f) == <<f.src, f.id % ID_RANGE>>
Keys == {Key(f) : f \in Frames}

NoEntry == <<>>
Entries == {k \in Keys : reassembly_map[k] # NoEntry}

(* A buffer for total bytes, as it is created. *)
Empty(total) == [k \in 0..NumFragments(total) - 1 |-> NoFrame]

(* ReassemblyData::insert *)
Insert(data, f, num) == [data EXCEPT ![num] = f]

IsComplete(data) == \A k \in DOMAIN data : data[k] # NoFrame

Init ==
    /\ received = [f \in Frames |-> [k \in 0..7 |-> 0]]
    /\ reassembly_map = [k \in Keys |-> NoEntry]
    /\ stale = {}
    /\ finished_queue = <<>> /\ delivered = <<>>

-----------------------------------------------------------------------------
(* The runner waits, the Lock held, while its frame does not fit into       *)
(* finished_queue: that frame is the element beyond FINISHED_SIZE.          *)
RunnerDoesNotWait == TRUE
RunnerFree == Len(finished_queue) <= FINISHED_SIZE

(* The short circuit for the first and only fragment. *)
NeverOnly(f, num) == FALSE
IsOnly(f, num) == num = 0 /\ f.len = Size(f, num)

KeepEntry(k) == reassembly_map
Erase(k) == [reassembly_map EXCEPT ![k] = NoEntry]

Receives(f, num) ==
    /\ RunnerFree
    /\ received[f][num] < MAX_COPIES
    /\ received' = [received EXCEPT ![f][num] = @ + 1]
    /\ UNCHANGED delivered

AddOnly(f, num) ==
    /\ Receives(f, num) /\ IsOnly(f, num)
    /\ finished_queue' = Append(finished_queue, Insert(Empty(f.len), f, num))
    /\ UNCHANGED <<reassembly_map, stale>>

(* A new entry is not looked at for being complete. *)
AddFirst(f, num) ==
    /\ Receives(f, num) /\ ~IsOnly(f, num) /\ Key(f) \notin Entries
    /\ reassembly_map' =
         [reassembly_map EXCEPT ![Key(f)] = Insert(Empty(f.len), f, num)]
    /\ UNCHANGED <<stale, finished_queue>>

AddNext(f, num) ==
    /\ Receives(f, num) /\ ~IsOnly(f, num) /\ Key(f) \in Entries
    /\ LET data == Insert(reassembly_map[Key(f)], f, num)
       IN  IF IsComplete(data)
             THEN /\ finished_queue' = Append(finished_queue, data)
                  /\ reassembly_map' = Erase(Key(f))
             ELSE /\ reassembly_map' = [reassembly_map EXCEPT ![Key(f)] = data]
                  /\ UNCHANGED finished_queue
    /\ stale' = stale \ {Key(f)}

(* FragmentGCJob, due when the oldest entry is stale. *)
Fresh(k) == k \notin stale
Stale(k) == k \in stale

CollectGarbage ==
    /\ RunnerFree
    /\ \E k \in Entries : Stale(k)
    /\ reassembly_map' =
         [k \in Keys |-> IF Stale(k) THEN NoEntry ELSE reassembly_map[k]]
    /\ stale' = {}
    /\ UNCHANGED <<received, finished_queue, delivered>>

(* FRAGMENT_TIMEOUT passes without a fragment for k. *)
Elapse(k) ==
    /\ k \in Entries \ stale
    /\ stale' = stale \cup {k}
    /\ UNCHANGED <<received, reassembly_map, finished_queue, delivered>>

(* The io task. *)
CanPopLocked == finished_queue # <<>> /\ RunnerFree
CanPop == finished_queue # <<>>

PopReassembledData ==
    /\ CanPop
    /\ delivered' = Append(delivered, Head(finished_queue))
    /\ finished_queue' = Tail(finished_queue)
    /\ UNCHANGED <<received, reassembly_map, stale>>

AddFragment(f, num) == AddOnly(f, num) \/ AddFirst(f, num) \/ AddNext(f, num)

Next ==
    \/ \E f \in Frames : \E num \in Nums(f) : AddFragment(f, num)
    \/ CollectGarbage
    \/ \E k \in Keys : Elapse(k)
    \/ PopReassembledData

Spec == Init /\ [][Next]_vars

(* Clocks run, the runner performs the job when it is due, the io task      *)
(* loops.  Nothing is assumed of the network.                               *)
Fairness ==
    /\ WF_vars(CollectGarbage)
    /\ \A k \in Keys : WF_vars(Elapse(k))
    /\ WF_vars(PopReassembledData)

FairSpec == Spec /\ Fairness

-----------------------------------------------------------------------------
Whole(f) == [k \in 0..NumFragments(f.len) - 1 |-> f]
Pieces == Frames \cup {NoFrame}
Buffers == UNION {[0..n - 1 -> Pieces] : n \in 1..8}

(* Every variable has its type. *)
TypeOK ==
    /\ received \in [Frames -> [0..7 -> 0..MAX_COPIES]]
    /\ reassembly_map \in [Keys -> Buffers \cup {NoEntry}]
    /\ stale \in SUBSET Entries
    /\ finished_queue \in Seq(Buffers)
    /\ Len(finished_queue) <= FINISHED_SIZE + 1
    /\ delivered \in Seq(Buffers)

AllWhole(s) == \A i \in 1..Len(s) : \E f \in Frames : s[i] = Whole(f)

Out == finished_queue \o delivered
Deliveries(f) == Cardinality({i \in 1..Len(Out) : Out[i] = Whole(f)})

(* What the IP stack gets is a frame that was transmitted, each piece at    *)
(* its place, whatever was lost, repeated, reordered or collected.          *)
DeliveredWhole == AllWhole(finished_queue) /\ AllWhole(delivered)

(* A frame is not delivered more often than each of its fragments was       *)
(* received.                                                                *)
NoMoreThanReceived ==
    \A f \in Frames : \A k \in Nums(f) : Deliveries(f) <= received[f][k]

(* A frame that is complete does not wait in the map for another fragment:  *)
(* only the insertion into an entry that exists looks for completeness.     *)
NoneWithheld == \A k \in Entries : ~IsComplete(reassembly_map[k])

(* An incomplete frame is not kept for ever. *)
EntriesLeave == \A k \in Keys : k \in Entries ~> k \notin Entries

(* The runner, which waits for room with the Lock held, goes on. *)
RunnerGoesOn == ~RunnerFree ~> RunnerFree

=============================================================================
