-------------------------- MODULE SocketPipelines --------------------------
(***************************************************************************)
(* A program that runs the pipeline of a SocketSource and those of the     *)
(* SocketSinks, and waits for all of them with an EventCount, as           *)
(* test/socketProcessorTest.cc does: Run(...).start(callback), where the   *)
(* callback calls Fail if Run has thrown and Succ otherwise.               *)
(***************************************************************************)
EXTENDS SocketStream

VARIABLES
    incomplete,     \* the pipelines for which Run throws at once
    reported,       \* the pipelines whose callback has been called
    succ_count_, fail_count_, waiter

(* The pipeline of the SocketSource is Nil.                                *)
Pipeline == Sink \cup {Nil}

EC == INSTANCE EventCount WITH event_count_ <- Cardinality(Pipeline)

program == <<incomplete, reported, succ_count_, fail_count_, waiter>>
vars == <<streamVars, program>>

PipelinesOK == /\ TypeOK
               /\ incomplete \subseteq Pipeline
               /\ reported \subseteq Pipeline
               /\ succ_count_ + fail_count_ = Cardinality(reported)
               /\ waiter \in {"check", "asleep", "returned"}

Init ==
    /\ incomplete \in SUBSET Pipeline
    /\ reported = {}
    /\ StreamInit(incomplete)
    /\ EC!Init

sinkEnded(s) == at[s] \in {"done", "error"}
sourceEnded == src \in {"done", "error"}
ended(p) == IF p = Nil THEN sourceEnded ELSE sinkEnded(p)

(* The callback of start.  The exceptions of processors do not come out of *)
(* Run: only one that Run itself throws makes the callback call Fail.      *)
Callback(p) ==
    /\ p \notin reported
    /\ ended(p)
    /\ reported' = reported \cup {p}
    /\ IF p \in incomplete THEN EC!Fail ELSE EC!Succ
    /\ UNCHANGED <<streamVars, incomplete>>

MainWaits == EC!Wait /\ UNCHANGED <<streamVars, incomplete, reported>>
MainWakesUp == EC!WakeUp /\ UNCHANGED <<streamVars, incomplete, reported>>

SinkMoves(s) == SinkStep(s) /\ UNCHANGED program
SourceMoves == SourceStep /\ UNCHANGED program
Breaks(s) == Break(s) /\ UNCHANGED program

Next ==
    \/ \E s \in Sink : SinkMoves(s) \/ Breaks(s)
    \/ SourceMoves
    \/ \E p \in Pipeline : Callback(p)
    \/ MainWaits \/ MainWakesUp

Spec == Init /\ [][Next]_vars

(* Every coroutine that can run is resumed, callbacks are called and the   *)
(* main thread runs; nothing has to break, and nobody wakes up by itself.  *)
Fairness ==
    /\ \A s \in Sink : WF_vars(SinkMoves(s))
    /\ WF_vars(SourceMoves)
    /\ \A p \in Pipeline : WF_vars(Callback(p))
    /\ WF_vars(MainWaits)
FairSpec == Spec /\ Fairness

-----------------------------------------------------------------------------

(* The SocketSource pushes the items of one SocketSink, in order and       *)
(* without gaps, and ends without an exception only when that sink has     *)
(* written all its items and EOF: neither a connection that breaks between *)
(* or inside packages, nor a sink that was aborted, looks like EOF.        *)
EofMeansComplete ==
    /\ \A i \in DOMAIN pushed : pushed[i] = <<peer, i>>
    /\ src = "done" /\ Nil \notin incomplete =>
           Len(pushed) = Items[peer] /\ at[peer] \in {"after_work", "done"}

(* A SocketSink always ends, also when nobody accepts its connection or    *)
(* nobody reads it any more; the SocketSource ends once a sink has         *)
(* connected.                                                              *)
StreamsEnd ==
    /\ \A s \in Sink : <> sinkEnded(s)
    /\ (\E s \in Sink : connected(s)) ~> sourceEnded

(* Wait does not return before all pipelines have ended.                   *)
WaitedForAll == waiter = "returned" => \A p \in Pipeline : ended(p)

(* Wait returns when all pipelines have ended, and not before.             *)
WaitReturns ==
    /\ []WaitedForAll
    /\ (\A p \in Pipeline : ended(p)) ~> (waiter = "returned")

=============================================================================
