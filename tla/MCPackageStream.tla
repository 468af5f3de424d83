--------------------------- MODULE MCPackageStream ---------------------------
(***************************************************************************)
(* PackageStream for TLC: what is written.                                 *)
(***************************************************************************)
EXTENDS PackageStream

Topic == <<116, 49>>

(* A SocketSink: an item whose length takes two bytes, an empty one, EOF.  *)
Items == <<
    [type |-> "package", v |-> [eof |-> FALSE, bin_data |-> [i \in 1..258 |-> i % 256]]],
    [type |-> "package", v |-> [eof |-> FALSE, bin_data |-> <<>>]],
    [type |-> "package", v |-> [eof |-> TRUE, bin_data |-> <<>>]]>>

(* A Push: its request, with a timeout_ms that nobody sets, and its data.  *)
PushCall == <<
    [type |-> "request_package", v |-> [topic |-> Topic, type |-> Integer(0),
                                        timeout_ms |-> <<255, 0, 127, 1>>]],
    [type |-> "data_package", v |-> [data |-> Integer(513), meta_info |-> <<>>, eof |-> FALSE]],
    [type |-> "data_package", v |-> [data |-> <<>>, meta_info |-> <<>>, eof |-> TRUE]]>>

(* The answer to a CheckTopicExist.                                        *)
Answer == <<
    [type |-> "response_package", v |-> [topic |-> Topic, wait_ms |-> Integer(0),
                                         peer_addr |-> <<>>, response_code |-> Integer(1)]]>>

MCStreams == {Items, PushCall, Answer}

=============================================================================
