---------------------------- MODULE PackageStream ----------------------------
(***************************************************************************)
(* Packages in a TCP connection: the serialization of integers, strings,   *)
(* bools and packages, and the frames of write_package and read_package    *)
(* (in SocketSink and SocketSource: Write and Read), between two machines  *)
(* of any byte order and with bytes that arrive in any portions.           *)
(*                                                                         *)
(* A byte is 0..255.  An integer, uint32_t or int, is the sequence of its  *)
(* bytes, the most significant one first; Memory says how a machine stores *)
(* it, and memcpy sees it.                                                 *)
(***************************************************************************)
EXTENDS Naturals, Sequences, SequencesExt

CONSTANTS
    Streams,    \* the sequences of packages that may be written
    Portions,   \* bound: how many bytes a read may get at once
    MayCut      \* whether the connection may break

Machine == {"Big", "Little"}
Size == 4   \* sizeof(uint32_t), sizeof(int)
Byte == 0..255
Word == [1..Size -> Byte]

(* The integer n, if it fits into 32 bits.                                 *)
Fits(n) == n \div 16777216 < 256
Integer(n) == <<n \div 16777216, (n \div 65536) % 256, (n \div 256) % 256, n % 256>>
Number(x) == 256 * (256 * (256 * x[1] + x[2]) + x[3]) + x[4]

Memory(m, x) == IF m = "Little" THEN Reverse(x) ELSE x

(* The constructor of Endian looks at the first byte of 1.                 *)
GetEndianType(m) == IF Memory(m, Integer(1))[1] = 1 THEN "Little" ELSE "Big"

(* flipByByte: the bytes in memory, and so those of the value, reversed.   *)
flipByByte(x) == [i \in DOMAIN x |-> x[Len(x) + 1 - i]]

-----------------------------------------------------------------------------
(* Serialize.  A string is the sequence of its bytes.                      *)

CharE == 101
CharF == 102
CharN == 110
CharT == 116

(* Mutant: an integer is written as it is in memory.                       *)
SerializeNative(m, x) == Memory(m, x)

SerializeInteger(m, x) ==
    Memory(m, IF GetEndianType(m) = "Little" THEN flipByByte(x) ELSE x)
SerializeString(m, s) == SerializeInteger(m, Integer(Len(s))) \o s
SerializeBool(b) == << IF b THEN CharT ELSE CharF >>

(* package, whose eof is an 'e' or an 'n', and the packages of the         *)
(* switcher.                                                               *)
SerializePackage(m, v) ==
    << IF v.eof THEN CharE ELSE CharN >> \o SerializeString(m, v.bin_data)
SerializeRequest(m, v) ==
    SerializeString(m, v.topic) \o SerializeInteger(m, v.type) \o SerializeInteger(m, v.timeout_ms)
SerializeResponse(m, v) ==
    SerializeString(m, v.topic) \o SerializeInteger(m, v.wait_ms)
    \o SerializeString(m, v.peer_addr) \o SerializeInteger(m, v.response_code)
SerializeData(m, v) ==
    SerializeString(m, v.data) \o SerializeString(m, v.meta_info) \o SerializeBool(v.eof)

Serialize(m, type, v) == CASE type = "package" -> SerializePackage(m, v)
                           [] type = "request_package" -> SerializeRequest(m, v)
                           [] type = "response_package" -> SerializeResponse(m, v)
                           [] type = "data_package" -> SerializeData(m, v)

-----------------------------------------------------------------------------
(* Deserialize: a value, and the offset after it.                          *)

DeserializeInteger(m, view, offset) ==
    LET x == Memory(m, SubSeq(view, offset + 1, offset + Size))
    IN  [v |-> IF GetEndianType(m) = "Little" THEN flipByByte(x) ELSE x, offset |-> offset + Size]
DeserializeString(m, view, offset) ==
    LET len == DeserializeInteger(m, view, offset)
        end == len.offset + Number(len.v)
    IN  [v |-> SubSeq(view, len.offset + 1, end), offset |-> end]
DeserializeChar(yes, no, view, offset) ==
    LET c == view[offset + 1]
    IN  [v |-> IF c \in {yes, no} THEN c = yes ELSE "invalid", offset |-> offset + 1]

DeserializePackage(m, view) ==
    LET eof == DeserializeChar(CharE, CharN, view, 0)
        bin_data == DeserializeString(m, view, eof.offset)
    IN  [v |-> [eof |-> eof.v, bin_data |-> bin_data.v], offset |-> bin_data.offset]
DeserializeRequest(m, view) ==
    LET topic == DeserializeString(m, view, 0)
        type == DeserializeInteger(m, view, topic.offset)
        timeout_ms == DeserializeInteger(m, view, type.offset)
    IN  [v |-> [topic |-> topic.v, type |-> type.v, timeout_ms |-> timeout_ms.v],
         offset |-> timeout_ms.offset]
DeserializeResponse(m, view) ==
    LET topic == DeserializeString(m, view, 0)
        wait_ms == DeserializeInteger(m, view, topic.offset)
        peer_addr == DeserializeString(m, view, wait_ms.offset)
        response_code == DeserializeInteger(m, view, peer_addr.offset)
    IN  [v |-> [topic |-> topic.v, wait_ms |-> wait_ms.v, peer_addr |-> peer_addr.v,
                response_code |-> response_code.v],
         offset |-> response_code.offset]
DeserializeData(m, view) ==
    LET data == DeserializeString(m, view, 0)
        meta_info == DeserializeString(m, view, data.offset)
        eof == DeserializeChar(CharT, CharF, view, meta_info.offset)
    IN  [v |-> [data |-> data.v, meta_info |-> meta_info.v, eof |-> eof.v], offset |-> eof.offset]

Deserialize(m, type, view) == CASE type = "package" -> DeserializePackage(m, view)
                                [] type = "request_package" -> DeserializeRequest(m, view)
                                [] type = "response_package" -> DeserializeResponse(m, view)
                                [] type = "data_package" -> DeserializeData(m, view)

-----------------------------------------------------------------------------

(* What can be written: strings and packages whose length fits into a      *)
(* uint32_t (the assertions in Serialize and write_package; SocketSink,    *)
(* which has no assertion, is given items that fit).                       *)
String == {s \in Seq(Byte) : Fits(Len(s))}
Package ==
         [type : {"package"}, v : [eof : BOOLEAN, bin_data : String]]
    \cup [type : {"request_package"}, v : [topic : String, type : Word, timeout_ms : Word]]
    \cup [type : {"response_package"},
          v : [topic : String, wait_ms : Word, peer_addr : String, response_code : Word]]
    \cup [type : {"data_package"}, v : [data : String, meta_info : String, eof : BOOLEAN]]

ASSUME StreamAssumption ==
    /\ Streams \subseteq Seq(Package)
    /\ \A s \in Streams : \A i \in DOMAIN s, m \in Machine :
           Fits(Len(Serialize(m, s[i].type, s[i].v)))
ASSUME PortionAssumption == Portions \subseteq Nat \ {0} /\ MayCut \in BOOLEAN

-----------------------------------------------------------------------------

VARIABLES
    writer, reader,     \* the machines
    stream,             \* the packages to be written, [type, v]
    written,            \* buffers written: two for every package
    wire,               \* the bytes in the connection
    open,               \* it is "open", "closed" by the writer, or "cut"
    buffer,             \* the bytes of the buffer that is being read
    length,             \* its length
    received,           \* what the reader has deserialized
    state               \* the reader: in "length" or "body", or "eof", "error"

conn == <<wire, open>>
write == <<writer, stream, written>>
read == <<buffer, length, received, state>>
vars == <<conn, write, reader, read>>

Init ==
    /\ writer \in Machine /\ reader \in Machine
    /\ stream \in Streams
    /\ written = 0
    /\ wire = <<>> /\ open = "open"
    /\ buffer = <<>> /\ length = Size
    /\ received = <<>> /\ state = "length"

Body(i) == Serialize(writer, stream[i].type, stream[i].v)

WriteLength(i) == SerializeInteger(writer, Integer(Len(Body(i))))

(* write_package: the length and then the package, in two writes.          *)
write_package ==
    LET i == 1 + written \div 2
    IN  /\ open = "open"
        /\ i <= Len(stream)
        /\ wire' = wire \o (IF written % 2 = 0 THEN WriteLength(i) ELSE Body(i))
        /\ written' = written + 1
        /\ UNCHANGED <<writer, stream, open, reader, read>>

(* async_read gets some of the bytes that it waits for.                    *)
ReadSome ==
    /\ state \in {"length", "body"}
    /\ Len(buffer) < length
    /\ wire # <<>>
    /\ \E k \in Portions :
           LET n == Min({k, Len(wire), length - Len(buffer)})
           IN  /\ buffer' = buffer \o SubSeq(wire, 1, n)
               /\ wire' = SubSeq(wire, n + 1, Len(wire))
    /\ UNCHANGED <<write, open, reader, length, received, state>>

(* The buffer with the length is complete.                                 *)
ReadLength ==
    /\ state = "length" /\ Len(buffer) = length
    /\ length' = Number(DeserializeInteger(reader, buffer, 0).v)
    /\ buffer' = <<>>
    /\ state' = "body"
    /\ UNCHANGED <<conn, write, reader, received>>

(* The buffer with the package is complete.  Which type is expected is     *)
(* settled by the protocol (see Switcher).                                 *)
ReadBody ==
    LET type == stream[Len(received) + 1].type
    IN  /\ state = "body" /\ Len(buffer) = length
        /\ received' = Append(received, Deserialize(reader, type, buffer))
        /\ buffer' = <<>>
        /\ length' = Size
        /\ state' = "length"
        /\ UNCHANGED <<conn, write, reader>>

(* Where the length is expected, the end of the connection is the end of   *)
(* the stream for the read_package that has a parameter eof, whether or    *)
(* not some bytes of a length have arrived; it is an exception for the     *)
(* other one, and always inside of a package.                              *)
EndOfStream == state = "length" /\ state' = "eof"

(* Nothing more comes.                                                     *)
ReadEnd ==
    /\ wire = <<>> /\ open # "open"
    /\ Len(buffer) < length
    /\ \/ EndOfStream
       \/ state \in {"length", "body"} /\ state' = "error"
    /\ UNCHANGED <<conn, write, reader, buffer, length, received>>

Close ==
    /\ open = "open" /\ written = 2 * Len(stream)
    /\ open' = "closed"
    /\ UNCHANGED <<wire, write, reader, read>>

(* The connection breaks, and some of the bytes do not arrive.             *)
Cut ==
    /\ MayCut /\ open = "open"
    /\ open' = "cut"
    /\ \E k \in {0} \cup Portions : wire' = SubSeq(wire, 1, Min({k, Len(wire)}))
    /\ UNCHANGED <<write, reader, read>>

Next == write_package \/ ReadSome \/ ReadLength \/ ReadBody \/ ReadEnd \/ Close \/ Cut

Spec == Init /\ [][Next]_vars

-----------------------------------------------------------------------------

(* Whatever the byte orders and the portions, what the reader deserializes *)
(* is a prefix of the packages that were written, every package fills its  *)
(* buffer exactly (the assertion in Deserialize), and a stream that the    *)
(* writer has closed is read to the last package.                          *)
RoundTrip ==
    /\ Len(received) <= Len(stream)
    /\ \A i \in DOMAIN received :
           received[i] = [v |-> stream[i].v, offset |-> Len(Body(i))]
    /\ state \in {"eof", "error"} /\ open = "closed" => Len(received) = Len(stream)

=============================================================================
