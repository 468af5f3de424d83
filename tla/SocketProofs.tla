---------------------------- MODULE SocketProofs ----------------------------
(***************************************************************************)
(* Proofs about SocketPipelines, for every number of SocketSinks, items    *)
(* and retries, every WireCapacity and all faults:                         *)
(*                                                                         *)
(*   TypeCorrect   the types, and an event is counted for every callback   *)
(*   Complete      EOF means that everything has been pushed               *)
(*   WaitIsRight   Wait does not return before all pipelines have ended    *)
(*                                                                         *)
(* The buffers of a connection are numbered: package k is buffers 2k - 1   *)
(* (its length) and 2k (its body), and package Items[s] + 1 is EOF.  The   *)
(* invariant says which numbers the buffers in the connection have.        *)
(***************************************************************************)
EXTENDS SocketPipelines, FiniteSetTheorems, SequenceTheorems, TLAPS

(* What package k of SocketSink s is.                                      *)
Package(s, k) == IF k <= Items[s] THEN k ELSE EOF

Reading == {"read_length", "read_body", "Push"}

(* The SocketSource still reads what s writes, or may come to do so.       *)
Live(s) == peer = Nil \/ (peer = s /\ src \in Reading)

(* The buffers that have been read, and those that have been written.      *)
ReadCount == IF peer = Nil THEN 0
             ELSE 2 * Len(pushed) + (IF src = "read_body" THEN 1 ELSE IF src = "Push" THEN 2 ELSE 0)
Sent(s) == ReadCount + Len(wire[s])

(* How many a sink has written into a connection that is up.               *)
SentAt(s) ==
    /\ at[s] = "Pop" => Sent(s) = 2 * popped[s]
    /\ at[s] = "length" => Sent(s) + 2 = 2 * popped[s]
    /\ at[s] = "body" => Sent(s) + 1 = 2 * popped[s]
    /\ at[s] = "eof_length" => Sent(s) = 2 * Items[s]
    /\ at[s] = "eof_body" => Sent(s) = 2 * Items[s] + 1

Finished(s) == at[s] \in {"after_work", "done"}

WireInv(s) ==
    /\ \A i \in DOMAIN wire[s], m \in Nat :
           ReadCount + i \in {2 * m + 1, 2 * m + 2} => wire[s][i][2] = Package(s, m + 1)
    /\ Sent(s) <= 2 * Items[s] + 2
    /\ Sent(s) = 2 * Items[s] + 2 => Finished(s)
    /\ link[s] = "up" => SentAt(s)

LinkInv(s) ==
    /\ link[s] = "none" => /\ wire[s] = <<>> /\ peer # s /\ at[s] \notin Writing
                           /\ at[s] = "Pop" => popped[s] = 0
                           /\ at[s] = "connect" => popped[s] = 1
    /\ at[s] = "connect" => link[s] = "none"
    /\ at[s] \in {"done", "error"} => link[s] # "up"

SourceInv ==
    /\ src \in {"listen", "accept"} => peer = Nil
    /\ src \in Reading \cup {"after_work"} => peer \in Sink
    /\ peer = Nil => pushed = <<>>
    /\ \A i \in DOMAIN pushed : pushed[i] = <<peer, i>>
    /\ src \in {"read_body", "Push"} => value = Package(peer, Len(pushed) + 1)
    /\ src = "after_work" \/ (src = "done" /\ Nil \notin incomplete) =>
           peer \in Sink /\ Len(pushed) = Items[peer] /\ Finished(peer)

StreamInv == TypeOK /\ SourceInv /\ \A s \in Sink : LinkInv(s) /\ (Live(s) => WireInv(s))

(* An event is counted for every pipeline that has ended.                  *)
EventInv ==
    /\ incomplete \subseteq Pipeline /\ reported \subseteq Pipeline
    /\ succ_count_ \in Nat /\ fail_count_ \in Nat
    /\ succ_count_ + fail_count_ = Cardinality(reported)
    /\ waiter \in {"check", "asleep", "returned"}
    /\ \A p \in reported : ended(p)
    /\ waiter = "returned" => reported = Pipeline

-----------------------------------------------------------------------------

LEMMA InitStreamInv == Init => StreamInv /\ EventInv
  <1> SUFFICES ASSUME Init PROVE StreamInv /\ EventInv
    OBVIOUS
  <1> USE DEF Init, StreamInit
  <1>1. TypeOK
    <2>1. Items \in [Sink -> Nat] /\ Items \in Loads
      BY LoadAssumption
    <2>2. at \in [Sink -> SinkAt] /\ src \in SourceAt
      BY DEF SinkAt, SourceAt
    <2>3. /\ popped \in [Sink -> Nat] /\ \A s \in Sink : popped[s] <= Items[s]
          /\ retry \in [Sink -> 0..Retries] /\ link \in [Sink -> Link]
      BY <2>1, BoundAssumption DEF Link
    <2>4. /\ wire \in [Sink -> Seq(Buffer)] /\ \A s \in Sink : Len(wire[s]) <= WireCapacity
          /\ pushed \in Seq(Sink \X Nat)
      BY BoundAssumption
    <2> QED BY <2>1, <2>2, <2>3, <2>4 DEF TypeOK
  <1>2. SourceInv
    BY DEF SourceInv, Reading
  <1>3. Items \in [Sink -> Nat]
    BY LoadAssumption
  <1>4. ASSUME NEW s \in Sink PROVE LinkInv(s) /\ WireInv(s)
    <2>1. /\ link[s] = "none" /\ wire[s] = <<>> /\ popped[s] = 0 /\ Items[s] \in Nat /\ peer = Nil
          /\ at[s] \in {"done", "Pop"}
      BY <1>3
    <2>2. Nil # s
      BY SinkAssumption
    <2>3. LinkInv(s)
      BY <2>1, <2>2 DEF LinkInv, Writing
    <2>4. ReadCount = 0 /\ Len(wire[s]) = 0 /\ Sent(s) = 0 /\ DOMAIN wire[s] = {}
      BY <2>1 DEF Sent, ReadCount
    <2> QED BY <2>1, <2>3, <2>4 DEF WireInv
  <1>5. EventInv
    BY FS_EmptySet DEF EventInv, EC!Init
  <1> QED BY <1>1, <1>2, <1>4, <1>5 DEF StreamInv

(* The types of the numbers.                                               *)
LEMMA Numbers ==
  ASSUME StreamInv, NEW s \in Sink
  PROVE  /\ Items[s] \in Nat /\ popped[s] \in Nat /\ popped[s] <= Items[s]
         /\ ReadCount \in Nat /\ Len(wire[s]) \in Nat /\ Sent(s) \in Nat
         /\ Len(pushed) \in Nat
  <1>1. TypeOK
    BY DEF StreamInv
  <1>2. Items[s] \in Nat /\ popped[s] \in Nat /\ popped[s] <= Items[s]
    BY <1>1, LoadAssumption DEF TypeOK
  <1>3. pushed \in Seq(Sink \X Nat) /\ wire[s] \in Seq(Buffer)
    BY <1>1 DEF TypeOK
  <1>4. Len(pushed) \in Nat /\ Len(wire[s]) \in Nat
    BY <1>3
  <1>5. ReadCount \in Nat
    <2>1. CASE peer = Nil
      BY <2>1 DEF ReadCount
    <2>2. CASE peer # Nil
      BY <1>4, <2>2 DEF ReadCount
    <2> QED BY <2>1, <2>2
  <1> QED BY <1>2, <1>4, <1>5 DEF Sent

(* What is said of s, when s and the source have not moved.                *)
SameSink(s) == at'[s] = at[s] /\ popped'[s] = popped[s] /\ link'[s] = link[s] /\ wire'[s] = wire[s]

LEMMA FrameSink ==
  ASSUME StreamInv, NEW s \in Sink, SameSink(s), UNCHANGED <<Items, sourceVars>>
  PROVE  LinkInv(s)' /\ (Live(s)' => WireInv(s)')
  <1>1. LinkInv(s) /\ (Live(s) => WireInv(s))
    BY DEF StreamInv
  <1>2. ReadCount' = ReadCount /\ Sent(s)' = Sent(s) /\ Live(s)' = Live(s)
    BY DEF ReadCount, Sent, Live, SameSink, sourceVars
  <1>3. LinkInv(s)'
    BY <1>1 DEF LinkInv, SameSink, sourceVars
  <1>4. WireInv(s) => WireInv(s)'
    BY <1>2 DEF WireInv, SentAt, Finished, Package, SameSink
  <1> QED BY <1>1, <1>2, <1>3, <1>4

LEMMA FrameSource ==
  ASSUME SourceInv, UNCHANGED <<Items, incomplete, sourceVars>>,
         \A s \in Sink : Finished(s) => Finished(s)'
  PROVE  SourceInv'
  BY DEF SourceInv, sourceVars, Package

(* A step of s in which its buffers do not move.                           *)
LEMMA SinkOnly ==
  ASSUME StreamInv, NEW s \in Sink, UNCHANGED <<Items, incomplete, sourceVars>>, TypeOK',
         \A t \in Sink \ {s} : SameSink(t), Finished(s) => Finished(s)',
         LinkInv(s)', Live(s)' => WireInv(s)'
  PROVE  StreamInv'
  <1>1. \A t \in Sink \ {s} : LinkInv(t)' /\ (Live(t)' => WireInv(t)')
    BY FrameSink
  <1>2. \A t \in Sink : Finished(t) => Finished(t)'
    BY DEF Finished, SameSink
  <1>3. SourceInv'
    BY <1>2, FrameSource DEF StreamInv
  <1> QED BY <1>1, <1>3 DEF StreamInv

LEMMA PopInv ==
  ASSUME StreamInv, UNCHANGED incomplete, NEW s \in Sink, Pop(s)
  PROVE  StreamInv'
  <1>0. TypeOK /\ LinkInv(s) /\ (Live(s) => WireInv(s)) /\ at[s] = "Pop"
    BY DEF StreamInv, Pop
  <1>1. /\ Items[s] \in Nat /\ popped[s] \in Nat /\ popped[s] <= Items[s]
        /\ ReadCount \in Nat /\ Sent(s) \in Nat
    BY Numbers
  <1>2. UNCHANGED <<Items, retry, link, wire, sourceVars>>
    BY DEF Pop
  <1>3. \/ /\ popped[s] < Items[s] /\ popped' = [popped EXCEPT ![s] = popped[s] + 1]
           /\ \/ at' = [at EXCEPT ![s] = "hosted_mode"]
              \/ at' = [at EXCEPT ![s] = "length"] /\ link[s] # "none"
              \/ at' = [at EXCEPT ![s] = "connect"] /\ link[s] = "none"
        \/ /\ popped[s] = Items[s] /\ popped' = popped
           /\ \/ at' = [at EXCEPT ![s] = "eof_length"] /\ link[s] # "none"
              \/ at' = [at EXCEPT ![s] = "after_work"]
    BY DEF Pop, Goto, connected
  <1>4. at \in [Sink -> SinkAt] /\ popped \in [Sink -> Nat]
    BY <1>0 DEF TypeOK
  <1>5. /\ at' \in [Sink -> SinkAt] /\ popped' \in [Sink -> Nat]
        /\ at'[s] \in {"hosted_mode", "length", "connect", "eof_length", "after_work"}
        /\ popped'[s] = popped[s] \/ popped'[s] = popped[s] + 1
        /\ popped'[s] <= Items[s]
        /\ at'[s] = "length" => popped'[s] = popped[s] + 1 /\ link[s] # "none"
        /\ at'[s] = "connect" => popped'[s] = popped[s] + 1 /\ link[s] = "none"
        /\ at'[s] = "eof_length" => popped[s] = Items[s] /\ link[s] # "none"
    BY <1>1, <1>3, <1>4 DEF SinkAt, Writing
  <1>6. \A t \in Sink \ {s} : at'[t] = at[t] /\ popped'[t] = popped[t]
    BY <1>3, <1>4
  <1>7. TypeOK'
    <2>1. \A t \in Sink : popped'[t] <= Items[t]
      BY <1>0, <1>5, <1>6 DEF TypeOK
    <2> QED BY <1>0, <1>2, <1>5, <2>1 DEF TypeOK, sourceVars
  <1>8. LinkInv(s)'
    BY <1>0, <1>1, <1>2, <1>5 DEF LinkInv, sourceVars, Writing
  <1>9. Sent(s)' = Sent(s) /\ ReadCount' = ReadCount /\ (Live(s)' <=> Live(s))
    BY <1>2 DEF Sent, ReadCount, Live, sourceVars
  <1>10. ASSUME Live(s)' PROVE WireInv(s)'
    <2>1. WireInv(s)
      BY <1>0, <1>9, <1>10
    <2>2. \A i \in DOMAIN wire'[s], m \in Nat :
             ReadCount' + i \in {2 * m + 1, 2 * m + 2} => wire'[s][i][2] = Package(s, m + 1)'
      BY <1>2, <1>9, <2>1 DEF WireInv, Package
    <2>3. Sent(s) # 2 * Items[s] + 2 /\ Sent(s) <= 2 * Items[s] + 2
      BY <1>0, <2>1 DEF WireInv, Finished
    <2>4. link'[s] = "up" => SentAt(s)'
      BY <1>0, <1>1, <1>2, <1>5, <1>9, <2>1 DEF WireInv, SentAt
    <2> QED BY <1>2, <1>9, <2>2, <2>3, <2>4 DEF WireInv
  <1>11. (\A t \in Sink \ {s} : SameSink(t)) /\ (Finished(s) => Finished(s)')
    BY <1>0, <1>2, <1>6 DEF SameSink, Finished
  <1> QED BY <1>2, <1>7, <1>8, <1>10, <1>11, SinkOnly

LEMMA ConnectInv ==
  ASSUME StreamInv, UNCHANGED incomplete, NEW s \in Sink, Connect(s)
  PROVE  StreamInv'
  <1>0. TypeOK /\ SourceInv /\ LinkInv(s) /\ (Live(s) => WireInv(s)) /\ at[s] = "connect"
    BY DEF StreamInv, Connect
  <1>1. /\ Items[s] \in Nat /\ popped[s] = 1 /\ link[s] = "none" /\ wire[s] = <<>>
        /\ ReadCount \in Nat /\ Sent(s) \in Nat /\ popped[s] <= Items[s]
    BY <1>0, Numbers DEF LinkInv
  <1>2. UNCHANGED <<Items, popped, wire, sourceVars>>
    BY DEF Connect
  <1>3. at \in [Sink -> SinkAt] /\ link \in [Sink -> Link] /\ retry \in [Sink -> 0..Retries]
    BY <1>0 DEF TypeOK
  <1>4. \/ /\ src = "accept" /\ link' = [link EXCEPT ![s] = "up"] /\ at' = [at EXCEPT ![s] = "length"]
           /\ retry' = retry
        \/ /\ retry[s] < Retries /\ retry' = [retry EXCEPT ![s] = retry[s] + 1] /\ UNCHANGED <<link, at>>
        \/ at' = [at EXCEPT ![s] = "hosted_mode"] /\ UNCHANGED <<link, retry>>
    BY DEF Connect, Goto
  <1>5. /\ at' \in [Sink -> SinkAt] /\ link' \in [Sink -> Link]
        /\ \A t \in Sink \ {s} : at'[t] = at[t] /\ link'[t] = link[t]
        /\ \/ at'[s] = "length" /\ link'[s] = "up" /\ src = "accept"
           \/ at'[s] \in {"connect", "hosted_mode"} /\ link'[s] = "none"
    BY <1>0, <1>1, <1>3, <1>4 DEF SinkAt, Writing, Link
  <1>6. retry' \in [Sink -> 0..Retries]
    BY <1>3, <1>4, BoundAssumption
  <1>7. TypeOK'
    BY <1>0, <1>2, <1>5, <1>6 DEF TypeOK, sourceVars
  <1>8. LinkInv(s)'
    BY <1>0, <1>1, <1>2, <1>5 DEF LinkInv, Writing, sourceVars
  <1>9. Sent(s)' = Sent(s) /\ ReadCount' = ReadCount /\ (Live(s)' <=> Live(s))
    BY <1>2 DEF Sent, ReadCount, Live, sourceVars
  <1>10. ASSUME Live(s)' PROVE WireInv(s)'
    <2>1. WireInv(s)
      BY <1>0, <1>9, <1>10
    <2>2. \A i \in DOMAIN wire'[s], m \in Nat :
             ReadCount' + i \in {2 * m + 1, 2 * m + 2} => wire'[s][i][2] = Package(s, m + 1)'
      BY <1>2, <1>9, <2>1 DEF WireInv, Package
    <2>3. Sent(s) # 2 * Items[s] + 2 /\ Sent(s) <= 2 * Items[s] + 2
      BY <1>0, <2>1 DEF WireInv, Finished
    <2>4. ASSUME link'[s] = "up" PROVE SentAt(s)'
      <3>1. src = "accept" /\ at'[s] = "length"
        BY <1>5, <2>4
      <3>2. Sent(s) = 0
        BY <1>0, <1>1, <3>1 DEF SourceInv, Sent, ReadCount
      <3> QED BY <1>1, <1>2, <1>9, <3>1, <3>2 DEF SentAt
    <2> QED BY <1>2, <1>9, <2>2, <2>3, <2>4 DEF WireInv
  <1>11. (\A t \in Sink \ {s} : SameSink(t)) /\ (Finished(s) => Finished(s)')
    BY <1>0, <1>2, <1>5 DEF SameSink, Finished
  <1> QED BY <1>2, <1>7, <1>8, <1>10, <1>11, SinkOnly

(* The package that s is writing, at each of its locations.                *)
Current(s) == IF at[s] \in {"length", "body"} THEN popped[s] ELSE EOF
NextAt(s) == IF at[s] = "length" THEN "body" ELSE IF at[s] = "body" THEN "Pop"
             ELSE IF at[s] = "eof_length" THEN "eof_body" ELSE "after_work"

LEMMA WriteCases ==
  ASSUME NEW s \in Sink, Write(s)
  PROVE  /\ at[s] \in Writing
         /\ \/ /\ link[s] = "up" /\ Len(wire[s]) < WireCapacity
               /\ at' = [at EXCEPT ![s] = NextAt(s)]
               /\ \E b \in {"length", "body"} : wire' = [wire EXCEPT ![s] = Append(wire[s], <<b, Current(s)>>)]
            \/ /\ link[s] = "reset" /\ wire' = wire
               /\ \/ at' = [at EXCEPT ![s] = NextAt(s)]
                  \/ at' = [at EXCEPT ![s] = IF at[s] \in {"length", "body"} THEN "hosted_mode" ELSE "error"]
  BY DEF Write, WriteBuffer, WriteError, Goto, Writing, Current, NextAt

LEMMA WriteInv ==
  ASSUME StreamInv, UNCHANGED incomplete, NEW s \in Sink, Write(s)
  PROVE  StreamInv'
  <1>0. TypeOK /\ SourceInv /\ LinkInv(s) /\ (Live(s) => WireInv(s)) /\ at[s] \in Writing
    BY WriteCases DEF StreamInv
  <1>1. /\ Items[s] \in Nat /\ popped[s] \in Nat /\ popped[s] <= Items[s] /\ link[s] # "none"
        /\ ReadCount \in Nat /\ Sent(s) \in Nat
    BY <1>0, Numbers DEF LinkInv
  <1>2. UNCHANGED <<Items, popped, retry, link, sourceVars>>
    BY DEF Write
  <1>3. at \in [Sink -> SinkAt] /\ wire \in [Sink -> Seq(Buffer)] /\ wire[s] \in Seq(Buffer)
    BY <1>0 DEF TypeOK
  <1>4. \/ /\ link[s] = "up" /\ Len(wire[s]) < WireCapacity
           /\ at' = [at EXCEPT ![s] = NextAt(s)]
           /\ \E b \in {"length", "body"} : wire' = [wire EXCEPT ![s] = Append(wire[s], <<b, Current(s)>>)]
        \/ /\ link[s] = "reset" /\ wire' = wire
           /\ \/ at' = [at EXCEPT ![s] = NextAt(s)]
              \/ at' = [at EXCEPT ![s] = IF at[s] \in {"length", "body"} THEN "hosted_mode" ELSE "error"]
    BY WriteCases
  <1>5. /\ at' \in [Sink -> SinkAt]
        /\ \A t \in Sink \ {s} : at'[t] = at[t]
        /\ at'[s] \in {"body", "Pop", "eof_body", "after_work", "hosted_mode", "error"}
        /\ link[s] = "up" => at'[s] = NextAt(s) /\ at'[s] \notin {"hosted_mode", "error"}
    BY <1>0, <1>3, <1>4 DEF SinkAt, Writing, NextAt
  <1>6. Sent(s)' = ReadCount + Len(wire'[s]) /\ ReadCount' = ReadCount /\ (Live(s)' <=> Live(s))
    BY <1>2 DEF Sent, ReadCount, Live, sourceVars
  <1>7. LinkInv(s)'
    <2>1. link'[s] = link[s] /\ link[s] # "none"
      BY <1>1, <1>2
    <2> QED BY <1>5, <2>1 DEF LinkInv
  <1>8. CASE link[s] = "reset"
    <2>1. wire' = wire
      BY <1>4, <1>8
    <2>2. TypeOK'
      BY <1>0, <1>2, <1>5, <2>1 DEF TypeOK, sourceVars
    <2>3. ASSUME Live(s)' PROVE WireInv(s)'
      <3>1. WireInv(s) /\ Sent(s)' = Sent(s)
        BY <1>0, <1>6, <2>1, <2>3 DEF Sent
      <3>2. \A i \in DOMAIN wire'[s], m \in Nat :
               ReadCount' + i \in {2 * m + 1, 2 * m + 2} => wire'[s][i][2] = Package(s, m + 1)'
        BY <1>2, <1>6, <2>1, <3>1 DEF WireInv, Package
      <3>3. Sent(s) # 2 * Items[s] + 2 /\ Sent(s) <= 2 * Items[s] + 2
        BY <1>0, <3>1 DEF WireInv, Finished, Writing
      <3> QED BY <1>2, <1>8, <3>1, <3>2, <3>3 DEF WireInv
    <2>4. (\A t \in Sink \ {s} : SameSink(t)) /\ (Finished(s) => Finished(s)')
      BY <1>0, <1>2, <1>5, <2>1 DEF SameSink, Finished, Writing
    <2> QED BY <1>2, <1>7, <2>2, <2>3, <2>4, SinkOnly
  <1>9. CASE link[s] = "up"
    <2>1. PICK b \in {"length", "body"} : wire' = [wire EXCEPT ![s] = Append(wire[s], <<b, Current(s)>>)]
      BY <1>4, <1>9
    <2>2. <<b, Current(s)>> \in Buffer /\ <<b, Current(s)>>[2] = Current(s)
      BY <1>1 DEF Buffer, Current
    <2>3. /\ wire'[s] = Append(wire[s], <<b, Current(s)>>) /\ wire' \in [Sink -> Seq(Buffer)]
          /\ \A t \in Sink \ {s} : wire'[t] = wire[t]
      BY <1>3, <2>1, <2>2
    <2>4. /\ Len(wire[s]) \in Nat /\ Len(wire'[s]) = Len(wire[s]) + 1 /\ DOMAIN wire'[s] = 1..(Len(wire[s]) + 1)
          /\ wire'[s][Len(wire[s]) + 1][2] = Current(s)
          /\ \A i \in 1..Len(wire[s]) : wire'[s][i] = wire[s][i]
          /\ DOMAIN wire[s] = 1..Len(wire[s])
      BY <1>3, <2>2, <2>3
    <2>5. TypeOK'
      <3>1. \A t \in Sink : Len(wire'[t]) <= WireCapacity
        <4>1. Len(wire[s]) < WireCapacity /\ \A t \in Sink : Len(wire[t]) <= WireCapacity
          BY <1>0, <1>4, <1>9 DEF TypeOK
        <4>2. Len(wire'[s]) <= WireCapacity
          BY <2>4, <4>1, BoundAssumption
        <4> QED BY <2>3, <4>1, <4>2
      <3> QED BY <1>0, <1>2, <1>5, <2>3, <3>1 DEF TypeOK, sourceVars
    <2>6. ASSUME Live(s)' PROVE WireInv(s)'
      <3>1. WireInv(s) /\ SentAt(s) /\ Sent(s)' = Sent(s) + 1
        BY <1>0, <1>1, <1>6, <1>9, <2>4, <2>6 DEF Sent, WireInv
      <3>2. \A m \in Nat : Sent(s) + 1 \in {2 * m + 1, 2 * m + 2} => Current(s) = Package(s, m + 1)
        BY <1>0, <1>1, <3>1 DEF SentAt, Current, Package, Writing
      <3>3. \A i \in DOMAIN wire'[s], m \in Nat :
               ReadCount' + i \in {2 * m + 1, 2 * m + 2} => wire'[s][i][2] = Package(s, m + 1)'
        <4> SUFFICES ASSUME NEW i \in DOMAIN wire'[s], NEW m \in Nat, ReadCount + i \in {2 * m + 1, 2 * m + 2}
                     PROVE  wire'[s][i][2] = Package(s, m + 1)
          BY <1>2, <1>6 DEF Package
        <4>1. CASE i \in 1..Len(wire[s])
          BY <2>4, <3>1, <4>1 DEF WireInv
        <4>2. CASE i = Len(wire[s]) + 1
          <5>1. ReadCount + i = Sent(s) + 1
            BY <1>1, <2>4, <4>2 DEF Sent
          <5> QED BY <2>4, <3>2, <4>2, <5>1
        <4> QED BY <2>4, <4>1, <4>2
      <3>4. SentAt(s)'
        BY <1>0, <1>1, <1>2, <1>5, <1>9, <3>1 DEF SentAt, NextAt, Writing
      <3>5. Sent(s) + 1 <= 2 * Items[s] + 2 /\ (Sent(s) + 1 = 2 * Items[s] + 2 => at'[s] = "after_work")
        BY <1>0, <1>1, <1>5, <1>9, <3>1 DEF SentAt, NextAt, Writing
      <3> QED BY <1>2, <3>1, <3>3, <3>4, <3>5 DEF WireInv, Finished
    <2>7. (\A t \in Sink \ {s} : SameSink(t)) /\ (Finished(s) => Finished(s)')
      BY <1>0, <1>2, <1>5, <2>3 DEF SameSink, Finished, Writing
    <2> QED BY <1>2, <1>7, <2>5, <2>6, <2>7, SinkOnly
  <1> QED BY <1>4, <1>8, <1>9

LEMMA SinkEndsInv ==
  ASSUME StreamInv, UNCHANGED incomplete, NEW s \in Sink, SinkAfterWork(s) \/ SinkHostedMode(s)
  PROVE  StreamInv'
  <1>0. TypeOK /\ SourceInv /\ LinkInv(s) /\ (Live(s) => WireInv(s))
    BY DEF StreamInv
  <1>1. Items[s] \in Nat /\ popped[s] \in Nat /\ popped[s] <= Items[s] /\ ReadCount \in Nat /\ Sent(s) \in Nat
    BY Numbers
  <1>2. UNCHANGED <<Items, retry, wire, sourceVars>> /\ link' = [link EXCEPT ![s] = IF link[s] = "up" THEN "ended" ELSE link[s]]
    BY DEF SinkAfterWork, SinkHostedMode, CloseSink
  <1>3. \/ at[s] = "after_work" /\ at' = [at EXCEPT ![s] = "done"] /\ popped' = popped
        \/ at[s] = "hosted_mode" /\ at' = [at EXCEPT ![s] = "error"] /\ popped' = [popped EXCEPT ![s] = Items[s]]
    BY DEF SinkAfterWork, SinkHostedMode, Goto
  <1>4. at \in [Sink -> SinkAt] /\ popped \in [Sink -> Nat] /\ link \in [Sink -> Link]
    BY <1>0 DEF TypeOK
  <1>5. /\ at' \in [Sink -> SinkAt] /\ popped' \in [Sink -> Nat] /\ link' \in [Sink -> Link]
        /\ \A t \in Sink \ {s} : at'[t] = at[t] /\ popped'[t] = popped[t] /\ link'[t] = link[t]
        /\ popped'[s] <= Items[s] /\ at'[s] \in {"done", "error"} /\ link'[s] # "up"
        /\ link'[s] = "none" => link[s] = "none"
    BY <1>1, <1>2, <1>3, <1>4 DEF SinkAt, Link
  <1>6. TypeOK'
    <2>1. \A t \in Sink : popped'[t] <= Items[t]
      BY <1>0, <1>5 DEF TypeOK
    <2> QED BY <1>0, <1>2, <1>5, <2>1 DEF TypeOK, sourceVars
  <1>7. LinkInv(s)'
    BY <1>0, <1>2, <1>5 DEF LinkInv, sourceVars, Writing
  <1>8. Sent(s)' = Sent(s) /\ ReadCount' = ReadCount /\ (Live(s)' <=> Live(s))
    BY <1>2 DEF Sent, ReadCount, Live, sourceVars
  <1>9. Finished(s) => Finished(s)'
    BY <1>3, <1>4 DEF Finished
  <1>10. ASSUME Live(s)' PROVE WireInv(s)'
    <2>1. WireInv(s)
      BY <1>0, <1>8, <1>10
    <2>2. \A i \in DOMAIN wire'[s], m \in Nat :
             ReadCount' + i \in {2 * m + 1, 2 * m + 2} => wire'[s][i][2] = Package(s, m + 1)'
      BY <1>2, <1>8, <2>1 DEF WireInv, Package
    <2> QED BY <1>2, <1>5, <1>8, <1>9, <2>1, <2>2 DEF WireInv
  <1>11. \A t \in Sink \ {s} : SameSink(t)
    BY <1>2, <1>5 DEF SameSink
  <1> QED BY <1>2, <1>6, <1>7, <1>9, <1>10, <1>11, SinkOnly

(* A connection breaks: a prefix of what is on its way is left.            *)
LEMMA BreakInv ==
  ASSUME StreamInv, UNCHANGED incomplete, NEW s \in Sink, Break(s)
  PROVE  StreamInv'
  <1>0. TypeOK /\ SourceInv /\ LinkInv(s) /\ (Live(s) => WireInv(s)) /\ link[s] # "none"
    BY DEF StreamInv, Break
  <1>1. Items[s] \in Nat /\ ReadCount \in Nat /\ Sent(s) \in Nat /\ wire[s] \in Seq(Buffer)
    BY <1>0, Numbers DEF TypeOK
  <1>2. UNCHANGED <<Items, sinkVars, sourceVars>> /\ link' = [link EXCEPT ![s] = "reset"]
    BY DEF Break
  <1>3. PICK k \in 0..Len(wire[s]) : wire' = [wire EXCEPT ![s] = SubSeq(wire[s], 1, k)]
    BY DEF Break
  <1>4. wire \in [Sink -> Seq(Buffer)] /\ link \in [Sink -> Link] /\ at' = at /\ popped' = popped /\ retry' = retry
    BY <1>0, <1>2 DEF TypeOK, sinkVars
  <1>5. /\ SubSeq(wire[s], 1, k) \in Seq(Buffer) /\ Len(SubSeq(wire[s], 1, k)) = k
        /\ \A i \in 1..k : SubSeq(wire[s], 1, k)[i] = wire[s][i]
    BY <1>1
  <1>6. /\ wire' \in [Sink -> Seq(Buffer)] /\ link' \in [Sink -> Link]
        /\ \A t \in Sink \ {s} : wire'[t] = wire[t] /\ link'[t] = link[t]
        /\ link'[s] = "reset" /\ Len(wire'[s]) = k /\ DOMAIN wire'[s] = 1..k
        /\ \A i \in 1..k : wire'[s][i] = wire[s][i]
    BY <1>2, <1>3, <1>4, <1>5 DEF Link
  <1>7. TypeOK'
    <2>1. \A t \in Sink : Len(wire'[t]) <= WireCapacity
      <3>1. \A t \in Sink : Len(wire[t]) <= WireCapacity
        BY <1>0 DEF TypeOK
      <3>2. Len(wire[s]) \in Nat /\ Len(wire'[s]) <= Len(wire[s])
        BY <1>1, <1>6
      <3>3. Len(wire'[s]) <= WireCapacity
        BY <1>6, <3>1, <3>2, BoundAssumption
      <3> QED BY <1>6, <3>1, <3>3
    <2> QED BY <1>0, <1>2, <1>4, <1>6, <2>1 DEF TypeOK, sourceVars
  <1>8. LinkInv(s)'
    BY <1>0, <1>4, <1>6 DEF LinkInv
  <1>9. Sent(s)' = ReadCount + k /\ ReadCount' = ReadCount /\ (Live(s)' <=> Live(s))
    BY <1>2, <1>6 DEF Sent, ReadCount, Live, sourceVars
  <1>10. ASSUME Live(s)' PROVE WireInv(s)'
    <2>1. WireInv(s)
      BY <1>0, <1>9, <1>10
    <2>2. \A i \in DOMAIN wire'[s], m \in Nat :
             ReadCount' + i \in {2 * m + 1, 2 * m + 2} => wire'[s][i][2] = Package(s, m + 1)'
      BY <1>1, <1>2, <1>6, <1>9, <2>1 DEF WireInv, Package
    <2>3. Len(wire[s]) \in Nat /\ ReadCount + k <= Sent(s)
      BY <1>1 DEF Sent
    <2>4. Sent(s)' <= 2 * Items[s] + 2 /\ (Sent(s)' = 2 * Items[s] + 2 => Finished(s))
      <3>1. Sent(s) <= 2 * Items[s] + 2 /\ (Sent(s) = 2 * Items[s] + 2 => Finished(s))
        BY <2>1 DEF WireInv
      <3>2. k \in Nat
        BY <2>3
      <3> QED BY <1>1, <1>9, <2>3, <3>1, <3>2
    <2>5. Finished(s)' <=> Finished(s)
      BY <1>4 DEF Finished
    <2> QED BY <1>2, <1>6, <2>2, <2>4, <2>5 DEF WireInv
  <1>11. (\A t \in Sink \ {s} : SameSink(t)) /\ (Finished(s) => Finished(s)')
    BY <1>4, <1>6 DEF SameSink, Finished
  <1> QED BY <1>2, <1>7, <1>8, <1>10, <1>11, SinkOnly

-----------------------------------------------------------------------------

(* Sockets that the source closes: what was on its way is gone.            *)
LEMMA ResetFacts ==
  ASSUME TypeOK, NEW S, Reset(S)
  PROVE  /\ link' \in [Sink -> Link] /\ wire' \in [Sink -> Seq(Buffer)]
         /\ \A t \in Sink : Len(wire'[t]) <= WireCapacity
         /\ \A t \in Sink : IF t \in S THEN link'[t] = "reset" /\ wire'[t] = <<>>
                                       ELSE link'[t] = link[t] /\ wire'[t] = wire[t]
  <1>1. link \in [Sink -> Link] /\ wire \in [Sink -> Seq(Buffer)] /\ \A t \in Sink : Len(wire[t]) <= WireCapacity
    BY DEF TypeOK
  <1>2. /\ link' = [s \in Sink |-> IF s \in S THEN "reset" ELSE link[s]]
        /\ wire' = [s \in Sink |-> IF s \in S THEN <<>> ELSE wire[s]]
    BY DEF Reset
  <1>3. link' \in [Sink -> Link]
    BY <1>1, <1>2 DEF Link
  <1>4. wire' \in [Sink -> Seq(Buffer)]
    BY <1>1, <1>2
  <1>5. \A t \in Sink : IF t \in S THEN link'[t] = "reset" /\ wire'[t] = <<>>
                                   ELSE link'[t] = link[t] /\ wire'[t] = wire[t]
    BY <1>2
  <1>6. \A t \in Sink : Len(wire'[t]) <= WireCapacity
    BY <1>1, <1>5, BoundAssumption
  <1> QED BY <1>3, <1>4, <1>5, <1>6

LEMMA ListenInv ==
  ASSUME StreamInv, UNCHANGED incomplete, Listen
  PROVE  StreamInv'
  <1>0. TypeOK /\ SourceInv /\ src = "listen" /\ src' \in {"accept", "hosted_mode"}
    BY DEF StreamInv, Listen
  <1>1. UNCHANGED <<Items, sinkVars, link, wire, peer, value, pushed>>
    BY DEF Listen
  <1>2. TypeOK'
    BY <1>0, <1>1 DEF TypeOK, sinkVars, SourceAt
  <1>3. SourceInv' /\ peer = Nil
    BY <1>0, <1>1 DEF SourceInv, Reading
  <1>4. ASSUME NEW t \in Sink PROVE LinkInv(t)' /\ (Live(t)' => WireInv(t)')
    <2>1. LinkInv(t) /\ WireInv(t)
      BY <1>3 DEF StreamInv, Live
    <2>2. ReadCount' = ReadCount /\ Sent(t)' = Sent(t)
      BY <1>1, <1>3 DEF ReadCount, Sent
    <2> QED BY <1>1, <2>1, <2>2 DEF LinkInv, WireInv, SentAt, Finished, Package, sinkVars
  <1> QED BY <1>2, <1>3, <1>4 DEF StreamInv

LEMMA AcceptInv ==
  ASSUME StreamInv, UNCHANGED incomplete, Accept
  PROVE  StreamInv'
  <1>0. TypeOK /\ SourceInv /\ src = "accept" /\ peer = Nil /\ pushed = <<>>
    BY DEF StreamInv, Accept, SourceInv
  <1>1. UNCHANGED <<Items, sinkVars, value, pushed>>
    BY DEF Accept
  <1>2. ReadCount = 0 /\ \A t \in Sink : LinkInv(t) /\ WireInv(t)
    BY <1>0 DEF ReadCount, StreamInv, Live
  <1>3. at' = at /\ popped' = popped /\ retry' = retry
    BY <1>1 DEF sinkVars
  <1>4. ASSUME NEW s \in Backlog, peer' = s, src' = "read_length", Reset(Backlog \ {s}) PROVE StreamInv'
    <2>0. s \in Sink /\ link[s] # "none" /\ s # Nil
      BY <1>4, SinkAssumption DEF Backlog, connected
    <2>1. /\ link' \in [Sink -> Link] /\ wire' \in [Sink -> Seq(Buffer)]
          /\ \A t \in Sink : Len(wire'[t]) <= WireCapacity
          /\ \A t \in Sink : IF t \in Backlog \ {s} THEN link'[t] = "reset" /\ wire'[t] = <<>>
                                                    ELSE link'[t] = link[t] /\ wire'[t] = wire[t]
      BY <1>0, <1>4, ResetFacts
    <2>2. TypeOK'
      BY <1>0, <1>1, <1>3, <1>4, <2>0, <2>1 DEF TypeOK, SourceAt
    <2>3. SourceInv'
      BY <1>0, <1>1, <1>4, <2>0 DEF SourceInv, Reading
    <2>4. ASSUME NEW t \in Sink PROVE LinkInv(t)'
      <3>1. LinkInv(t) /\ at'[t] = at[t] /\ popped'[t] = popped[t]
        BY <1>2, <1>3
      <3>2. CASE t \in Backlog \ {s}
        <4>1. link[t] # "none" /\ link'[t] = "reset"
          BY <2>1, <3>2 DEF Backlog, connected
        <4> QED BY <3>1, <4>1 DEF LinkInv
      <3>3. CASE t \notin Backlog \ {s}
        <4>1. link'[t] = link[t] /\ wire'[t] = wire[t]
          BY <2>1, <3>3
        <4>2. link[t] = "none" => peer' # t
          BY <1>4, <2>0
        <4> QED BY <3>1, <4>1, <4>2 DEF LinkInv
      <3> QED BY <3>2, <3>3
    <2>5. link'[s] = link[s] /\ wire'[s] = wire[s]
      BY <2>0, <2>1
    <2>6. ReadCount' = 0
      BY <1>0, <1>1, <1>4, <2>0 DEF ReadCount
    <2>7. WireInv(s)'
      <3>1. Sent(s)' = Sent(s)
        BY <1>2, <2>5, <2>6 DEF Sent
      <3> QED BY <1>1, <1>2, <1>3, <2>0, <2>5, <2>6, <3>1 DEF WireInv, SentAt, Finished, Package
    <2>8. \A t \in Sink : Live(t)' => t = s
      BY <1>4, <2>0 DEF Live
    <2> QED BY <2>2, <2>3, <2>4, <2>7, <2>8 DEF StreamInv
  <1>5. ASSUME src' = "hosted_mode", Reset(Backlog), peer' = peer PROVE StreamInv'
    <2>1. /\ link' \in [Sink -> Link] /\ wire' \in [Sink -> Seq(Buffer)]
          /\ \A t \in Sink : Len(wire'[t]) <= WireCapacity
          /\ \A t \in Sink : IF t \in Backlog THEN link'[t] = "reset" /\ wire'[t] = <<>>
                                              ELSE link'[t] = link[t] /\ wire'[t] = wire[t]
      BY <1>0, <1>5, ResetFacts
    <2>2. TypeOK'
      BY <1>0, <1>1, <1>3, <1>5, <2>1 DEF TypeOK, SourceAt
    <2>3. SourceInv'
      BY <1>0, <1>1, <1>5 DEF SourceInv, Reading
    <2>4. ASSUME NEW t \in Sink PROVE LinkInv(t)'
      <3>1. LinkInv(t) /\ at'[t] = at[t] /\ popped'[t] = popped[t]
        BY <1>2, <1>3
      <3>2. CASE t \in Backlog
        <4>1. link[t] # "none" /\ link'[t] = "reset"
          BY <2>1, <3>2 DEF Backlog, connected
        <4> QED BY <3>1, <4>1 DEF LinkInv
      <3>3. CASE t \notin Backlog
        <4>1. link'[t] = link[t] /\ wire'[t] = wire[t]
          BY <2>1, <3>3
        <4> QED BY <1>5, <3>1, <4>1 DEF LinkInv
      <3> QED BY <3>2, <3>3
    <2>5. ReadCount' = 0
      BY <1>0, <1>5 DEF ReadCount
    <2>6. ASSUME NEW t \in Sink PROVE WireInv(t)'
      <3>1. CASE t \in Backlog
        <4>1. link'[t] = "reset" /\ wire'[t] = <<>> /\ Items'[t] \in Nat
          BY <1>1, <2>1, <3>1, Numbers
        <4>2. Sent(t)' = 0 /\ DOMAIN wire'[t] = {}
          BY <2>5, <4>1 DEF Sent
        <4> QED BY <4>1, <4>2 DEF WireInv
      <3>2. CASE t \notin Backlog
        <4>1. link'[t] = link[t] /\ wire'[t] = wire[t]
          BY <2>1, <3>2
        <4>2. Sent(t)' = Sent(t)
          BY <1>2, <2>5, <4>1 DEF Sent
        <4> QED BY <1>1, <1>2, <1>3, <2>5, <4>1, <4>2 DEF WireInv, SentAt, Finished, Package
      <3> QED BY <3>1, <3>2
    <2> QED BY <2>2, <2>3, <2>4, <2>6 DEF StreamInv
  <1> QED BY <1>4, <1>5 DEF Accept

(* Read: the next buffer belongs to the package after those pushed.        *)
LEMMA ReadInv ==
  ASSUME StreamInv, UNCHANGED incomplete, Read
  PROVE  StreamInv'
  <1>0. TypeOK /\ SourceInv /\ src \in {"read_length", "read_body"}
    BY DEF StreamInv, Read
  <1>1. UNCHANGED <<Items, sinkVars, link, peer, pushed>> /\ at' = at /\ popped' = popped /\ retry' = retry
    BY DEF Read, sinkVars
  <1>2. peer \in Sink /\ peer # Nil
    BY <1>0, SinkAssumption DEF SourceInv, Reading
  <1>3. PICK s \in Sink : s = peer
    BY <1>2
  <1>4. LinkInv(s) /\ WireInv(s) /\ wire[s] \in Seq(Buffer) /\ wire \in [Sink -> Seq(Buffer)]
    BY <1>0, <1>3 DEF StreamInv, Live, Reading, TypeOK
  <1>5. Items[s] \in Nat /\ popped[s] \in Nat /\ ReadCount \in Nat /\ Len(wire[s]) \in Nat /\ Len(pushed) \in Nat
    BY Numbers
  <1>6. \A t \in Sink : Live(t)' => t = s
    BY <1>1, <1>2, <1>3 DEF Live
  <1>7. CASE ReadThrows
    <2>1. src' = "hosted_mode" /\ UNCHANGED <<wire, value>>
      BY <1>7 DEF ReadThrows
    <2>2. TypeOK'
      BY <1>0, <1>1, <2>1 DEF TypeOK, SourceAt
    <2>3. SourceInv'
      BY <1>0, <1>1, <1>2, <2>1 DEF SourceInv, Reading
    <2>4. \A t \in Sink : LinkInv(t)'
      BY <1>1, <2>1 DEF StreamInv, LinkInv
    <2>5. \A t \in Sink : ~ Live(t)'
      BY <1>1, <1>2, <2>1 DEF Live, Reading
    <2> QED BY <2>2, <2>3, <2>4, <2>5 DEF StreamInv
  <1>8. CASE ~ ReadThrows
    <2>1. /\ wire[s] # <<>>
          /\ value' = Head(wire[s])[2]
          /\ wire' = [wire EXCEPT ![s] = Tail(wire[s])]
          /\ src' = IF src = "read_length" THEN "read_body" ELSE "Push"
      BY <1>3, <1>8 DEF Read, ReadBuffer
    <2>2. /\ Head(wire[s]) = wire[s][1] /\ Head(wire[s]) \in Buffer /\ 1 \in DOMAIN wire[s]
          /\ Tail(wire[s]) \in Seq(Buffer) /\ Len(Tail(wire[s])) = Len(wire[s]) - 1
          /\ Len(wire[s]) >= 1
      BY <1>4, <2>1
    <2>3. \A i \in 1..(Len(wire[s]) - 1) : Tail(wire[s])[i] = wire[s][i + 1] /\ i + 1 \in DOMAIN wire[s]
      BY <1>4, <2>1
    <2>4. /\ wire' \in [Sink -> Seq(Buffer)] /\ wire'[s] = Tail(wire[s])
          /\ \A t \in Sink \ {s} : wire'[t] = wire[t]
      BY <1>4, <2>1, <2>2
    <2>5. ReadCount' = ReadCount + 1 /\ ReadCount \in {2 * Len(pushed), 2 * Len(pushed) + 1}
      <3>1. peer' = peer /\ pushed' = pushed /\ peer # Nil
        BY <1>1, <1>2
      <3>2. CASE src = "read_length"
        <4>1. ReadCount = 2 * Len(pushed) + 0 /\ ReadCount' = 2 * Len(pushed) + 1
          BY <2>1, <3>1, <3>2 DEF ReadCount
        <4> QED BY <1>5, <4>1
      <3>3. CASE src = "read_body"
        <4>1. ReadCount = 2 * Len(pushed) + 1 /\ ReadCount' = 2 * Len(pushed) + 2
          BY <2>1, <3>1, <3>3 DEF ReadCount
        <4> QED BY <1>5, <4>1
      <3> QED BY <1>0, <3>2, <3>3
    <2>6. TypeOK'
      <3>1. \A t \in Sink : Len(wire'[t]) <= WireCapacity
        <4>1. \A t \in Sink : Len(wire[t]) <= WireCapacity
          BY <1>0 DEF TypeOK
        <4>2. Len(wire'[s]) <= WireCapacity
          BY <1>5, <2>2, <2>4, <4>1, BoundAssumption
        <4> QED BY <2>4, <4>1, <4>2
      <3>2. value' \in Nat \cup {EOF}
        BY <2>1, <2>2 DEF Buffer
      <3> QED BY <1>0, <1>1, <2>1, <2>4, <3>1, <3>2 DEF TypeOK, SourceAt
    <2>7. value' = Package(s, Len(pushed) + 1)
      <3>1. ReadCount + 1 \in {2 * Len(pushed) + 1, 2 * Len(pushed) + 2}
        BY <1>5, <2>5
      <3> QED BY <1>4, <1>5, <2>1, <2>2, <3>1 DEF WireInv
    <2>8. SourceInv'
      BY <1>0, <1>1, <1>2, <1>3, <2>1, <2>7 DEF SourceInv, Reading, Package
    <2>9. \A t \in Sink : LinkInv(t)'
      <3>1. LinkInv(s)'
        BY <1>1, <1>3, <1>4 DEF LinkInv
      <3>2. \A t \in Sink \ {s} : LinkInv(t)'
        BY <1>1, <2>4 DEF StreamInv, LinkInv
      <3> QED BY <3>1, <3>2
    <2>10. WireInv(s)'
      <3>1. Sent(s)' = Sent(s)
        <4>1. Len(wire'[s]) = Len(wire[s]) - 1 /\ ReadCount' = ReadCount + 1
          BY <2>2, <2>4, <2>5
        <4>2. PICK r \in Nat, n \in Nat : r = ReadCount /\ n = Len(wire[s])
          BY <1>5
        <4>3. Sent(s)' = (r + 1) + (n - 1) /\ Sent(s) = r + n
          BY <4>1, <4>2 DEF Sent
        <4>4. (r + 1) + (n - 1) = r + n
          OBVIOUS
        <4> QED BY <4>3, <4>4
      <3>2. \A i \in DOMAIN wire'[s], m \in Nat :
               ReadCount' + i \in {2 * m + 1, 2 * m + 2} => wire'[s][i][2] = Package(s, m + 1)'
        <4>0. DOMAIN wire'[s] = 1..(Len(wire[s]) - 1) /\ ReadCount' = ReadCount + 1 /\ Items' = Items
          BY <1>1, <2>2, <2>4, <2>5
        <4> SUFFICES ASSUME NEW i \in 1..(Len(wire[s]) - 1), NEW m \in Nat,
                            ReadCount + 1 + i \in {2 * m + 1, 2 * m + 2}
                     PROVE  wire'[s][i][2] = Package(s, m + 1)
          BY <4>0 DEF Package
        <4>1. i \in Nat /\ i + 1 \in DOMAIN wire[s]
          BY <2>3
        <4>2. ReadCount + 1 + i = ReadCount + (i + 1)
          BY <1>5, <4>1
        <4>3. ReadCount + (i + 1) \in {2 * m + 1, 2 * m + 2} /\ i + 1 \in DOMAIN wire[s]
          BY <4>1, <4>2
        <4> QED BY <1>4, <2>3, <2>4, <4>3 DEF WireInv
      <3> QED BY <1>1, <1>4, <3>1, <3>2 DEF WireInv, SentAt, Finished
    <2> QED BY <1>6, <2>6, <2>8, <2>9, <2>10 DEF StreamInv
  <1> QED BY <1>7, <1>8

LEMMA PushInv ==
  ASSUME StreamInv, UNCHANGED incomplete, Push
  PROVE  StreamInv'
  <1>0. TypeOK /\ SourceInv /\ src = "Push"
    BY DEF StreamInv, Push
  <1>1. UNCHANGED <<Items, sinkVars, link, wire, peer, value>> /\ at' = at /\ popped' = popped /\ retry' = retry
    BY DEF Push, sinkVars
  <1>2. PICK s \in Sink : s = peer
    BY <1>0 DEF SourceInv, Reading
  <1>3. LinkInv(s) /\ WireInv(s) /\ s # Nil
    BY <1>0, <1>2, SinkAssumption DEF StreamInv, Live, Reading
  <1>4. /\ Items[s] \in Nat /\ popped[s] \in Nat /\ ReadCount \in Nat /\ Len(wire[s]) \in Nat
        /\ Len(pushed) \in Nat /\ Sent(s) = ReadCount + Len(wire[s])
    BY Numbers DEF Sent
  <1>5. /\ pushed' = IF value = EOF THEN pushed ELSE Append(pushed, <<s, value>>)
        /\ src' = (IF value = EOF THEN "after_work" ELSE "read_length") \/ src' = "hosted_mode"
    BY <1>2 DEF Push
  <1>6. value = Package(s, Len(pushed) + 1) /\ ReadCount = 2 * Len(pushed) + 2
    BY <1>0, <1>2, <1>3 DEF SourceInv, ReadCount
  <1>7. value = EOF => Len(pushed) = Items[s] /\ Finished(s)
    <2>1. value = EOF => Len(pushed) >= Items[s]
      BY <1>4, <1>6, LoadAssumption DEF Package
    <2>2. Sent(s) <= 2 * Items[s] + 2 /\ (Sent(s) = 2 * Items[s] + 2 => Finished(s))
      BY <1>3 DEF WireInv
    <2>3. Sent(s) = 2 * Len(pushed) + 2 + Len(wire[s])
      BY <1>4, <1>6
    <2>4. value = EOF => Len(pushed) = Items[s] /\ Sent(s) = 2 * Items[s] + 2
      BY <1>4, <2>1, <2>2, <2>3
    <2> QED BY <2>2, <2>4
  <1>8. value # EOF => value = Len(pushed) + 1
    BY <1>6 DEF Package
  <1>9. /\ pushed' \in Seq(Sink \X Nat)
        /\ \A i \in DOMAIN pushed' : pushed'[i] = <<s, i>>
        /\ Len(pushed') = IF value = EOF THEN Len(pushed) ELSE Len(pushed) + 1
    <2>1. pushed \in Seq(Sink \X Nat) /\ \A i \in DOMAIN pushed : pushed[i] = <<s, i>>
      BY <1>0, <1>2 DEF TypeOK, SourceInv
    <2>2. CASE value = EOF
      BY <1>5, <2>1, <2>2
    <2>3. CASE value # EOF
      <3>1. <<s, value>> \in Sink \X Nat
        BY <1>4, <1>8, <2>3
      <3>2. pushed' = Append(pushed, <<s, value>>)
        BY <1>5, <2>3
      <3> QED BY <1>4, <1>8, <2>1, <2>3, <3>1, <3>2
    <2> QED BY <2>2, <2>3
  <1>10. TypeOK'
    BY <1>0, <1>1, <1>5, <1>9 DEF TypeOK, SourceAt
  <1>11. SourceInv'
    BY <1>0, <1>1, <1>2, <1>3, <1>5, <1>7, <1>9 DEF SourceInv, Reading, Finished
  <1>12. \A t \in Sink : LinkInv(t)'
    BY <1>1 DEF StreamInv, LinkInv
  <1>13. \A t \in Sink : Live(t)' => t = s /\ src' = "read_length" /\ value # EOF
    BY <1>1, <1>2, <1>3, <1>5 DEF Live, Reading
  <1>14. ASSUME src' = "read_length", value # EOF PROVE WireInv(s)'
    <2>1. ReadCount' = ReadCount /\ Sent(s)' = Sent(s)
      <3>1. Len(pushed') = Len(pushed) + 1 /\ peer' # Nil
        BY <1>1, <1>2, <1>3, <1>9, <1>14
      <3>2. ReadCount' = 2 * Len(pushed') + 0
        BY <1>14, <3>1 DEF ReadCount
      <3>3. ReadCount' = ReadCount
        BY <1>4, <1>6, <3>1, <3>2
      <3> QED BY <1>1, <3>3 DEF Sent
    <2> QED BY <1>1, <1>3, <2>1 DEF WireInv, SentAt, Finished, Package
  <1> QED BY <1>10, <1>11, <1>12, <1>13, <1>14 DEF StreamInv

LEMMA SourceEndInv ==
  ASSUME StreamInv, UNCHANGED incomplete, SourceEnd
  PROVE  StreamInv'
  <1>0. TypeOK /\ SourceInv /\ src \in {"after_work", "hosted_mode"}
    BY DEF StreamInv, SourceEnd
  <1>1. UNCHANGED <<Items, sinkVars, peer, value, pushed>> /\ at' = at /\ popped' = popped /\ retry' = retry
    BY DEF SourceEnd, sinkVars
  <1>2. src' = (IF src = "after_work" THEN "done" ELSE "error") /\ Reset({peer} \cap Sink)
    BY DEF SourceEnd
  <1>3. /\ link' \in [Sink -> Link] /\ wire' \in [Sink -> Seq(Buffer)]
        /\ \A t \in Sink : Len(wire'[t]) <= WireCapacity
        /\ \A t \in Sink : IF t \in {peer} \cap Sink THEN link'[t] = "reset" /\ wire'[t] = <<>>
                                                     ELSE link'[t] = link[t] /\ wire'[t] = wire[t]
    BY <1>0, <1>2, ResetFacts
  <1>4. TypeOK'
    BY <1>0, <1>1, <1>2, <1>3 DEF TypeOK, SourceAt
  <1>5. SourceInv'
    BY <1>0, <1>1, <1>2 DEF SourceInv, Reading, Finished
  <1>6. \A t \in Sink : LinkInv(t)'
    BY <1>1, <1>3 DEF StreamInv, LinkInv
  <1>7. ASSUME NEW t \in Sink, Live(t)' PROVE WireInv(t)'
    <2>1. peer = Nil /\ t # Nil
      BY <1>1, <1>2, <1>7, SinkAssumption DEF Live, Reading
    <2>2. WireInv(t) /\ link'[t] = link[t] /\ wire'[t] = wire[t]
      BY <1>3, <2>1 DEF StreamInv, Live
    <2>3. ReadCount' = ReadCount /\ Sent(t)' = Sent(t)
      BY <1>1, <2>1, <2>2 DEF ReadCount, Sent
    <2> QED BY <1>1, <2>2, <2>3 DEF WireInv, SentAt, Finished, Package
  <1> QED BY <1>4, <1>5, <1>6, <1>7 DEF StreamInv

(* Steps that move neither a sink nor the source.                          *)
LEMMA ProgramInv ==
  ASSUME StreamInv, UNCHANGED <<streamVars, incomplete>>
  PROVE  StreamInv'
  <1>1. /\ UNCHANGED <<Items, sourceVars, link, wire>>
        /\ at' = at /\ popped' = popped /\ retry' = retry
    BY DEF streamVars, sinkVars
  <1>2. TypeOK'
    BY <1>1 DEF StreamInv, TypeOK, sourceVars
  <1>3. SourceInv'
    BY <1>1, FrameSource DEF StreamInv, Finished
  <1>4. \A t \in Sink : LinkInv(t)' /\ (Live(t)' => WireInv(t)')
    BY <1>1, FrameSink DEF SameSink
  <1> QED BY <1>2, <1>3, <1>4 DEF StreamInv

LEMMA StreamStep ==
  ASSUME StreamInv, [Next]_vars
  PROVE  StreamInv'
  <1>1. ASSUME NEW s \in Sink, SinkMoves(s) PROVE StreamInv'
    BY <1>1, PopInv, ConnectInv, WriteInv, SinkEndsInv DEF SinkMoves, SinkStep, program
  <1>2. ASSUME NEW s \in Sink, Breaks(s) PROVE StreamInv'
    BY <1>2, BreakInv DEF Breaks, program
  <1>3. CASE SourceMoves
    BY <1>3, ListenInv, AcceptInv, ReadInv, PushInv, SourceEndInv DEF SourceMoves, SourceStep, program
  <1>4. ASSUME NEW p \in Pipeline, Callback(p) PROVE StreamInv'
    BY <1>4, ProgramInv DEF Callback
  <1>5. CASE MainWaits \/ MainWakesUp
    BY <1>5, ProgramInv DEF MainWaits, MainWakesUp
  <1>6. CASE UNCHANGED vars
    BY <1>6, ProgramInv DEF vars, program
  <1> QED BY <1>1, <1>2, <1>3, <1>4, <1>5, <1>6 DEF Next

-----------------------------------------------------------------------------

(* A pipeline that has ended has no step left.                             *)
LEMMA EndedIsStable ==
  ASSUME StreamInv, [Next]_vars, NEW p \in Pipeline, ended(p)
  PROVE  ended(p)'
  <1>1. TypeOK /\ at \in [Sink -> SinkAt]
    BY DEF StreamInv, TypeOK
  <1>2. CASE p = Nil
    <2>1. src \in {"done", "error"}
      BY <1>2 DEF ended, sourceEnded
    <2>2. src' = src
      BY <2>1 DEF Next, SinkMoves, SinkStep, Pop, Connect, Write, SinkAfterWork, SinkHostedMode,
                  Breaks, Break, SourceMoves, SourceStep, Listen, Accept, Read, Push, SourceEnd,
                  Callback, MainWaits, MainWakesUp, vars, streamVars, sourceVars
    <2> QED BY <1>2, <2>1, <2>2 DEF ended, sourceEnded
  <1>3. CASE p # Nil
    <2>1. p \in Sink /\ at[p] \in {"done", "error"}
      BY <1>3 DEF ended, sinkEnded, Pipeline
    <2>2. ASSUME NEW s \in Sink, SinkStep(s) PROVE at'[p] = at[p]
      <3>1. s # p
        BY <2>1, <2>2, WriteCases DEF SinkStep, Pop, Connect, SinkAfterWork, SinkHostedMode, Writing
      <3>2. at' = at \/ \E l : at' = [at EXCEPT ![s] = l]
        BY <2>2, WriteCases DEF SinkStep, Pop, Connect, SinkAfterWork, SinkHostedMode, Goto
      <3> QED BY <1>1, <2>1, <3>1, <3>2
    <2>3. UNCHANGED at => at'[p] = at[p]
      OBVIOUS
    <2>4. (\E s \in Sink : SinkStep(s)) \/ UNCHANGED at
      BY DEF Next, SinkMoves, Breaks, Break, SourceMoves, SourceStep, Listen, Accept, Read, Push,
             SourceEnd, Callback, MainWaits, MainWakesUp, vars, streamVars, sinkVars
    <2>5. at'[p] = at[p]
      BY <2>2, <2>3, <2>4
    <2> QED BY <1>3, <2>1, <2>5 DEF ended, sinkEnded
  <1> QED BY <1>2, <1>3

LEMMA FinitePipelines == IsFiniteSet(Pipeline) /\ Cardinality(Pipeline) \in Nat
  <1>1. IsFiniteSet(Pipeline)
    BY SinkAssumption, FS_AddElement DEF Pipeline
  <1> QED BY <1>1, FS_CardinalityType

LEMMA EventStep ==
  ASSUME StreamInv, EventInv, [Next]_vars
  PROVE  EventInv'
  <1>0. \A p \in Pipeline : ended(p) => ended(p)'
    BY EndedIsStable
  <1>1. IsFiniteSet(reported) /\ Cardinality(reported) \in Nat
    BY FinitePipelines, FS_Subset, FS_CardinalityType DEF EventInv
  <1>2. ASSUME UNCHANGED program PROVE EventInv'
    BY <1>0, <1>2 DEF EventInv, program
  <1>3. ASSUME NEW p \in Pipeline, Callback(p) PROVE EventInv'
    <2>1. /\ p \notin reported /\ ended(p) /\ reported' = reported \cup {p} /\ incomplete' = incomplete
          /\ waiter' = IF waiter = "asleep" THEN "check" ELSE waiter
          /\ \/ succ_count_' = succ_count_ + 1 /\ fail_count_' = fail_count_
             \/ fail_count_' = fail_count_ + 1 /\ succ_count_' = succ_count_
      BY <1>3 DEF Callback, EC!Fail, EC!Succ, EC!notify_one
    <2>2. Cardinality(reported') = Cardinality(reported) + 1
      BY <1>1, <2>1, FS_AddElement
    <2>3. /\ succ_count_' \in Nat /\ fail_count_' \in Nat
          /\ succ_count_' + fail_count_' = Cardinality(reported')
      BY <2>1, <2>2 DEF EventInv
    <2>4. \A q \in reported' : ended(q)'
      BY <1>0, <2>1 DEF EventInv
    <2>5. waiter \in {"check", "asleep"}
      BY <2>1 DEF EventInv
    <2> QED BY <2>1, <2>3, <2>4, <2>5 DEF EventInv
  <1>4. CASE MainWaits
    <2>1. /\ UNCHANGED <<incomplete, reported, succ_count_, fail_count_>>
          /\ waiter' = IF Cardinality(Pipeline) = succ_count_ + fail_count_ THEN "returned" ELSE "asleep"
      BY <1>4 DEF MainWaits, EC!Wait, EC!AllEvents
    <2>2. waiter' = "returned" => Cardinality(reported) = Cardinality(Pipeline)
      BY <2>1 DEF EventInv
    <2>3. waiter' = "returned" => reported = Pipeline
      BY <2>2, FinitePipelines, FS_Subset DEF EventInv
    <2> QED BY <1>0, <2>1, <2>3 DEF EventInv
  <1>5. CASE MainWakesUp
    BY <1>0, <1>5 DEF MainWakesUp, EC!WakeUp, EventInv
  <1>6. CASE UNCHANGED vars
    BY <1>2, <1>6 DEF vars
  <1>7. ASSUME NEW s \in Sink, SinkMoves(s) \/ Breaks(s) PROVE EventInv'
    BY <1>2, <1>7 DEF SinkMoves, Breaks
  <1>8. CASE SourceMoves
    BY <1>2, <1>8 DEF SourceMoves
  <1> QED BY <1>3, <1>4, <1>5, <1>6, <1>7, <1>8 DEF Next

-----------------------------------------------------------------------------

(* The two inductive invariants hold always.                               *)
THEOREM Invariants == Spec => [](StreamInv /\ EventInv)
  <1>1. StreamInv /\ EventInv /\ [Next]_vars => (StreamInv /\ EventInv)'
    BY StreamStep, EventStep
  <1> QED BY <1>1, InitStreamInv, PTL DEF Spec

(* The types, whatever breaks; and Succ or Fail has been called once for   *)
(* every pipeline whose callback has run.                                  *)
THEOREM TypeCorrect == Spec => []PipelinesOK
  <1>1. StreamInv /\ EventInv => PipelinesOK
    BY DEF StreamInv, EventInv, PipelinesOK
  <1> QED BY <1>1, Invariants, PTL

(* SocketSource pushes the items of one SocketSink, in order and without   *)
(* gaps, and ends without an exception only after that sink's EOF, for     *)
(* every number of sinks and items and however connections break.          *)
THEOREM Complete == Spec => []EofMeansComplete
  <1>1. StreamInv => EofMeansComplete
    BY DEF StreamInv, SourceInv, Finished, EofMeansComplete
  <1> QED BY <1>1, Invariants, PTL

(* EventCount::Wait does not return before every pipeline has ended.       *)
THEOREM WaitIsRight == Spec => []WaitedForAll
  <1>1. EventInv => WaitedForAll
    BY DEF EventInv, WaitedForAll
  <1> QED BY <1>1, Invariants, PTL

=============================================================================
