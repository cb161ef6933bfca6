------------------------------- MODULE Packets -------------------------------
(***************************************************************************)
(* Packets and the bytes they become (packets.cpp, packets.hpp,            *)
(* constants.hpp), as far as a reader depends on them: of a buffer, its    *)
(* size, the magic, the type of the payload and the fields by which the    *)
(* reader finds out how much to read.  The data itself is a name.          *)
(***************************************************************************)
EXTENDS Integers

ESP_NOW_MAX_DATA_LEN == 250
HEADER_SIZE == 20   \* magic 3, id 4, from 6, to 6, the payload's type 1
MAX_FRAG_PAYLOAD_SIZE == ESP_NOW_MAX_DATA_LEN - HEADER_SIZE - 6
MAX_CUSTOM_PAYLOAD_SIZE == ESP_NOW_MAX_DATA_LEN - HEADER_SIZE

Plain == {"SearchProbe", "SearchReply", "ConnectRequest", "RootUnreachable"}
WithAddress ==
    {"ConnectOk", "RoutingTableAdd", "RoutingTableRemove", "RootReachable"}

(* Payloads.  The data of the last two are len bytes called name.           *)
Bare(kind) == [kind |-> kind]
Status(knows_root) == [kind |-> "Status", knows_root |-> knows_root]
DataFragment(frag_num, total_size, len, name) ==
    [kind |-> "DataFragment", frag_num |-> frag_num, total_size |-> total_size,
     len |-> len, name |-> name]
CustomData(len, name) == [kind |-> "CustomData", len |-> len, name |-> name]

Smaller(m, n) == IF m < n THEN m ELSE n

(* The length that bitsery puts before a container: 1, 2 or 4 bytes.        *)
PrefixSize(len) == IF len < 128 THEN 1 ELSE IF len < 16384 THEN 2 ELSE 4

(* fragment(): how much of a frame of total_size bytes is in piece frag_num. *)
PieceSize(total_size, frag_num) ==
    Smaller(total_size - frag_num * MAX_FRAG_PAYLOAD_SIZE, MAX_FRAG_PAYLOAD_SIZE)
NumPieces(total_size) ==
    (total_size + MAX_FRAG_PAYLOAD_SIZE - 1) \div MAX_FRAG_PAYLOAD_SIZE
Piece(total_size, frag_num, name) ==
    DataFragment(frag_num, total_size, PieceSize(total_size, frag_num), name)

-----------------------------------------------------------------------------
(* Writing. *)

StatusSize(p) == IF p.knows_root THEN 2 + 6 ELSE 2
PayloadSize(p) ==
    CASE p.kind \in Plain -> 0
      [] p.kind \in WithAddress -> 6
      [] p.kind = "Status" -> StatusSize(p)
      [] p.kind = "DataFragment" -> 6 + p.len
      [] p.kind = "CustomData" -> PrefixSize(p.len) + p.len

(* The bit fields of a fragment: 3 bits of frag_num, 11 of total_size.      *)
Options(p) == DataFragment(p.frag_num % 8, p.total_size % 2048, p.len, p.name)
Written(p) == IF p.kind = "DataFragment" THEN Options(p) ELSE p

Serialize(p) ==
    [magic |-> TRUE, payload |-> Written(p), size |-> HEADER_SIZE + PayloadSize(p)]

(* What esp_now_send takes. *)
Fits(buffer) == buffer.size <= ESP_NOW_MAX_DATA_LEN

-----------------------------------------------------------------------------
(* Reading. *)

(* The data of a fragment, by a subtraction of 16 bits. *)
ToReadAll(frag_num, total_size) ==
    (total_size - frag_num * MAX_FRAG_PAYLOAD_SIZE) % 65536
ToRead(frag_num, total_size) ==
    Smaller((total_size - frag_num * MAX_FRAG_PAYLOAD_SIZE) % 65536,
            MAX_FRAG_PAYLOAD_SIZE)

(* DataFragmentExtension::validateRead *)
ValidFragment(p) ==
    \/ p.frag_num <= 6
    \/ p.total_size <= 1500
    \/ (p.frag_num + 1) * MAX_FRAG_PAYLOAD_SIZE <= p.total_size

ValidPayload(p) ==
    /\ p.kind = "DataFragment" => ValidFragment(p)
    /\ p.kind = "CustomData" => p.len <= MAX_CUSTOM_PAYLOAD_SIZE

(* How many bytes the reader takes for a payload. *)
ReadSize(p) ==
    IF p.kind = "DataFragment" THEN 6 + ToRead(p.frag_num, p.total_size)
                               ELSE PayloadSize(p)

(* deserialize: no error, all of the buffer read, and the magic. *)
Readable(buffer) ==
    /\ buffer.magic
    /\ ValidPayload(buffer.payload)
    /\ HEADER_SIZE + ReadSize(buffer.payload) = buffer.size
=============================================================================
