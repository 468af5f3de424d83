---------------------------- MODULE SocketStream ----------------------------
(***************************************************************************)
(* SocketSink and SocketSource: the last processor of one pipeline sends   *)
(* its items over a TCP connection to the first processor of another one.  *)
(* Several SocketSinks may be given the address of one SocketSource.       *)
(*                                                                         *)
(* A step is what a processor does between two suspensions: one Pop or     *)
(* Push, one connect, one accept, one read or write of a buffer.  A buffer *)
(* that has not arrived whole is not there, since the read throws.  The    *)
(* other processors of the pipelines are their ends: a Pop gives the next  *)
(* of Items[s] items and then EOF, a Push is consumed, and either may      *)
(* throw when the abort channel has exit information (see PipelineRun).    *)
(***************************************************************************)
EXTENDS Naturals, Sequences, FiniteSets

CONSTANTS
    Sink,           \* the SocketSinks
    Loads,          \* how many items the SocketSinks may get
    Retries,        \* how often connect is tried (5 in the code)
    WireCapacity,   \* bound: buffers on their way in a connection
    Faults,         \* what may happen: "abort", "listen", "break"
    EOF,            \* the package with eof = true
    Nil             \* no connection

ASSUME SinkAssumption == IsFiniteSet(Sink) /\ Nil \notin Sink
ASSUME LoadAssumption == Loads \subseteq [Sink -> Nat] /\ EOF \notin Nat
ASSUME BoundAssumption == Retries \in Nat \ {0} /\ WireCapacity \in Nat \ {0}

VARIABLES
    Items,      \* Items[s]: the items of SocketSink s, which does not change
    at,         \* at[s]: where the coroutine of SocketSink s is
    popped,     \* popped[s]: the items it has popped
    retry,      \* retry[s]: the retry_count
    link,       \* link[s]: the connection of s, as s and the source know it
    wire,       \* wire[s]: the buffers written by s and not read yet
    src,        \* where the coroutine of the SocketSource is
    peer,       \* the SocketSink it has accepted
    value,      \* the package it has read
    pushed      \* what it has pushed downstream

sinkVars == <<at, popped, retry>>
sourceVars == <<src, peer, value, pushed>>
streamVars == <<Items, sinkVars, link, wire, sourceVars>>

(***************************************************************************)
(* none   : not connected                                                  *)
(* up     : connected                                                      *)
(* ended  : s has closed its socket; what it wrote can be read             *)
(* reset  : broken, or closed by the source: nothing more gets through     *)
(***************************************************************************)
Link == {"none", "up", "ended", "reset"}

(* The locations in which connected_ holds.                                *)
Writing == {"length", "body", "eof_length", "eof_body"}
SinkAt == {"Pop", "connect", "after_work", "hosted_mode", "done", "error"} \cup Writing
SourceAt == {"listen", "accept", "read_length", "read_body", "Push", "after_work",
             "hosted_mode", "done", "error"}

Buffer == {"length", "body"} \X (Nat \cup {EOF})

TypeOK ==
    /\ Items \in Loads
    /\ at \in [Sink -> SinkAt]
    /\ popped \in [Sink -> Nat] /\ \A s \in Sink : popped[s] <= Items[s]
    /\ retry \in [Sink -> 0..Retries]
    /\ link \in [Sink -> Link]
    /\ wire \in [Sink -> Seq(Buffer)] /\ \A s \in Sink : Len(wire[s]) <= WireCapacity
    /\ src \in SourceAt
    /\ peer \in Sink \cup {Nil}
    /\ value \in Nat \cup {EOF}
    /\ pushed \in Seq(Sink \X Nat)

(* The pipelines in down are not run: theirs is no processor.              *)
StreamInit(down) ==
    /\ Items \in Loads
    /\ at = [s \in Sink |-> IF s \in down THEN "done" ELSE "Pop"]
    /\ popped = [s \in Sink |-> 0]
    /\ retry = [s \in Sink |-> 0]
    /\ link = [s \in Sink |-> "none"]
    /\ wire = [s \in Sink |-> <<>>]
    /\ src = IF Nil \in down THEN "done" ELSE "listen"
    /\ peer = Nil
    /\ value = 0
    /\ pushed = <<>>

-----------------------------------------------------------------------------
(* SocketSink.                                                             *)

Goto(s, location) == at' = [at EXCEPT ![s] = location]

connected(s) == link[s] # "none"

(* socket_.close(), if the sink is connected.                              *)
CloseSink(s) ==
    link' = [link EXCEPT ![s] = IF @ = "up" THEN "ended" ELSE @]

(* Sink::work: the next item, the last EOF, or an exception by the abort   *)
(* channel, which is not looked at with the last EOF.                      *)
Pop(s) ==
    /\ at[s] = "Pop"
    /\ \/ /\ popped[s] < Items[s]
          /\ popped' = [popped EXCEPT ![s] = @ + 1]
          /\ \/ Goto(s, IF connected(s) THEN "length" ELSE "connect")
             \/ "abort" \in Faults /\ Goto(s, "hosted_mode")
       \/ /\ popped[s] = Items[s]
          /\ Goto(s, IF connected(s) THEN "eof_length" ELSE "after_work")
          /\ UNCHANGED popped
    /\ UNCHANGED <<Items, retry, link, wire, sourceVars>>

(* Mutant: connect is tried for ever.                                      *)
ConnectForever(s) ==
    /\ at[s] = "connect"
    /\ \/ src = "accept" /\ link' = [link EXCEPT ![s] = "up"] /\ Goto(s, "length")
       \/ src # "accept" /\ UNCHANGED <<link, at>>
    /\ UNCHANGED <<Items, popped, retry, wire, sourceVars>>

(* The loop in consume: connect, or sleep and try again with a new socket. *)
Connect(s) ==
    /\ at[s] = "connect"
    /\ \/ /\ src = "accept" /\ retry[s] < Retries
          /\ link' = [link EXCEPT ![s] = "up"]
          /\ Goto(s, "length")
          /\ UNCHANGED retry
       \/ /\ src # "accept" \/ "break" \in Faults
          /\ retry[s] < Retries
          /\ retry' = [retry EXCEPT ![s] = @ + 1]
          /\ UNCHANGED <<link, at>>
       \/ /\ retry[s] = Retries
          /\ Goto(s, "hosted_mode")
          /\ UNCHANGED <<link, retry>>
    /\ UNCHANGED <<Items, popped, wire, sourceVars>>

(* Where an exception of a write leads: out of work() to hosted_mode, out  *)
(* of after_work to the end of the coroutine.                              *)
WriteError(s) == IF at[s] \in {"length", "body"} THEN "hosted_mode" ELSE "error"

(* SocketWriteAwaiter: into the connection when there is room.  In a       *)
(* connection that was reset, a write fails or, if that is not known yet,  *)
(* goes nowhere.                                                           *)
WriteBuffer(s, buffer, location) ==
    \/ /\ link[s] = "up"
       /\ Len(wire[s]) < WireCapacity
       /\ wire' = [wire EXCEPT ![s] = Append(@, buffer)]
       /\ Goto(s, location)
    \/ /\ link[s] = "reset"
       /\ Goto(s, location) \/ Goto(s, WriteError(s))
       /\ UNCHANGED wire

(* Write and WriteEof: the length of a package, then the package.          *)
Write(s) ==
    /\ \/ at[s] = "length" /\ WriteBuffer(s, <<"length", popped[s]>>, "body")
       \/ at[s] = "body" /\ WriteBuffer(s, <<"body", popped[s]>>, "Pop")
       \/ at[s] = "eof_length" /\ WriteBuffer(s, <<"length", EOF>>, "eof_body")
       \/ at[s] = "eof_body" /\ WriteBuffer(s, <<"body", EOF>>, "after_work")
    /\ UNCHANGED <<Items, popped, retry, link, sourceVars>>

(* after_work, when EOF is written or there is no connection.              *)
SinkAfterWork(s) ==
    /\ at[s] = "after_work"
    /\ CloseSink(s)
    /\ Goto(s, "done")
    /\ UNCHANGED <<Items, popped, retry, wire, sourceVars>>

(* hosted_mode: the connection is closed without EOF, and the rest of the  *)
(* input is read.                                                          *)
SinkHostedMode(s) ==
    /\ at[s] = "hosted_mode"
    /\ CloseSink(s)
    /\ popped' = [popped EXCEPT ![s] = Items[s]]
    /\ Goto(s, "error")
    /\ UNCHANGED <<Items, retry, wire, sourceVars>>

SinkStep(s) == Pop(s) \/ Connect(s) \/ Write(s) \/ SinkAfterWork(s) \/ SinkHostedMode(s)

-----------------------------------------------------------------------------
(* SocketSource.                                                           *)

(* The sockets in S are closed on the source's side: what was on its way   *)
(* is lost.                                                                *)
Reset(S) ==
    /\ link' = [s \in Sink |-> IF s \in S THEN "reset" ELSE link[s]]
    /\ wire' = [s \in Sink |-> IF s \in S THEN <<>> ELSE wire[s]]

(* The connections that the acceptor holds: nobody connects once it is     *)
(* closed.                                                                 *)
Backlog == {s \in Sink : connected(s)}

(* The constructor of the acceptor, in generate().                         *)
Listen ==
    /\ src = "listen"
    /\ src' \in {"accept"} \cup (IF "listen" \in Faults THEN {"hosted_mode"} ELSE {})
    /\ UNCHANGED <<Items, sinkVars, link, wire, peer, value, pushed>>

(* One connection is accepted; the acceptor is closed, and with it the     *)
(* connections that were not accepted.                                     *)
Accept ==
    /\ src = "accept"
    /\ \/ \E s \in Backlog :
              /\ peer' = s
              /\ src' = "read_length"
              /\ Reset(Backlog \ {s})
       \/ /\ "listen" \in Faults
          /\ src' = "hosted_mode"
          /\ Reset(Backlog)
          /\ UNCHANGED peer
    /\ UNCHANGED <<Items, sinkVars, value, pushed>>

(* Nothing more comes: the read throws.                                    *)
ReadThrows ==
    /\ wire[peer] = <<>>
    /\ link[peer] \in {"ended", "reset"}
    /\ src' = "hosted_mode"
    /\ UNCHANGED <<wire, value>>

(* Mutant: a connection that ends between two packages is taken for EOF.   *)
ReadEndsQuietly ==
    \/ /\ src = "read_length" /\ wire[peer] = <<>> /\ link[peer] \in {"ended", "reset"}
       /\ value' = EOF /\ src' = "Push" /\ UNCHANGED wire
    \/ /\ wire[peer] # <<>>
       /\ value' = Head(wire[peer])[2]
       /\ wire' = [wire EXCEPT ![peer] = Tail(@)]
       /\ src' = IF src = "read_length" THEN "read_body" ELSE "Push"

(* Read: the length of a package, then the package.                        *)
ReadBuffer ==
    \/ /\ wire[peer] # <<>>
       /\ value' = Head(wire[peer])[2]
       /\ wire' = [wire EXCEPT ![peer] = Tail(@)]
       /\ src' = IF src = "read_length" THEN "read_body" ELSE "Push"
    \/ ReadThrows

Read ==
    /\ src \in {"read_length", "read_body"}
    /\ ReadBuffer
    /\ UNCHANGED <<Items, sinkVars, link, peer, pushed>>

(* Source::work: the value is pushed; then the abort channel is looked at. *)
Push ==
    /\ src = "Push"
    /\ pushed' = IF value = EOF THEN pushed ELSE Append(pushed, <<peer, value>>)
    /\ \/ src' = IF value = EOF THEN "after_work" ELSE "read_length"
       \/ "abort" \in Faults /\ src' = "hosted_mode"
    /\ UNCHANGED <<Items, sinkVars, link, wire, peer, value>>

(* after_work and hosted_mode: CloseSocketIfNot; hosted_mode writes EOF if *)
(* the output port is not reset.                                           *)
SourceEnd ==
    /\ src \in {"after_work", "hosted_mode"}
    /\ Reset({peer} \cap Sink)
    /\ src' = IF src = "after_work" THEN "done" ELSE "error"
    /\ UNCHANGED <<Items, sinkVars, peer, value, pushed>>

SourceStep == Listen \/ Accept \/ Read \/ Push \/ SourceEnd

(* A connection breaks: some of what is on its way is lost.                *)
Break(s) ==
    /\ "break" \in Faults
    /\ link[s] \in {"up", "ended"}
    /\ link' = [link EXCEPT ![s] = "reset"]
    /\ \E k \in 0..Len(wire[s]) : wire' = [wire EXCEPT ![s] = SubSeq(@, 1, k)]
    /\ UNCHANGED <<Items, sinkVars, sourceVars>>

=============================================================================
