---------------------------- MODULE PipelineRun ----------------------------
(***************************************************************************)
(* The run of one or more pipelines: the work() loops of the processors,   *)
(* Processor::Pop, Push and work_with_exception, the hosted mode, the      *)
(* abort channel and Pipeline::Run.                                        *)
(*                                                                         *)
(* A processor is a coroutine.  It takes one step between two operations   *)
(* on a queue, and an operation on a queue is one step: BoundedQueue shows *)
(* that the queues are atomic.  What a coroutine computes between two      *)
(* queue operations is local to it.                                        *)
(*                                                                         *)
(* An item is <<s, k>>, the k-th item of source s.  The items of a source  *)
(* without end are all <<s, 0>>.  An accumulator a that consumed k items   *)
(* generates <<a, k>>.                                                     *)
(***************************************************************************)
EXTENDS Integers, Sequences, FiniteSets, PipelineNet

CONSTANTS
    Node,           \* the processors
    Channel,        \* the queues that connect them
    Pipeline,       \* the pipelines that run
    Nets,           \* what the pipelines may be made of
    AbortCapacity,  \* the capacity of an abort channel (10 in the code)
    EOF,            \* std::optional<T>{}
    Nil             \* no value

Kinds == {"none", "source", "channel_source", "transform", "filter", "accumulate",
          "concat", "dispatch", "fork", "sink", "channel_sink", "embed"}

Item == Node \X Nat

(***************************************************************************)
(* A net says which processors there are and how they are connected:       *)
(* kind       : the class of a processor, or "none"                        *)
(* in, out    : its input ports and its output ports                       *)
(* capacity   : the capacity of a queue                                    *)
(* pipeline   : the pipeline a processor belongs to                        *)
(* bound      : the pipelines with bind_abort_channel                      *)
(* abort      : the abort channel of a pipeline: its own, or one that      *)
(*              SetAbortChannel made it share with another pipeline        *)
(* child      : the pipeline that a processor of kind "embed" runs         *)
(* items      : how many items a source generates                          *)
(* endless    : the sources that never generate EOF                        *)
(* filtered   : the items for which filter() holds                         *)
(* throwers   : the processors whose user code may throw                   *)
(* throws     : bound: exceptions thrown by user code                      *)
(***************************************************************************)
NetType == [kind : [Node -> Kinds], in : [Node -> Seq(Channel)], out : [Node -> Seq(Channel)],
            capacity : [Channel -> Nat \ {0}], pipeline : [Node -> Pipeline],
            bound : SUBSET Pipeline, abort : [Pipeline -> Pipeline],
            child : [Node -> Pipeline], items : [Node -> Nat],
            endless : SUBSET Node, filtered : SUBSET Item, throwers : SUBSET Node, throws : Nat]

(* What the pipeline's operations and before_work() guarantee.             *)
IsNet(N) == IsWired(Node, N.kind, N.in, N.out)

ASSUME NodeAssumption == IsFiniteSet(Node)
ASSUME NetAssumption == Nets \subseteq NetType /\ \A N \in Nets : IsNet(N)
ASSUME AbortAssumption == AbortCapacity \in Nat \ {0}
ASSUME ValueAssumption == EOF \notin Item /\ Nil \notin Item /\ Nil # EOF

VARIABLES
    net,            \* the net that runs, which does not change
    chan,           \* chan[c]: the queue of channel c
    abort_channel,  \* abort_channel[p]: how many values it holds
    at,             \* at[n]: where the coroutine of n is
    val,            \* val[n]: the value n has popped
    pending,        \* pending[n]: the pushes n has to do before it goes on
    index,          \* index[n]: the port a loop over ports is at
    input_count,    \* input_count[n][i]: EOFs that n still expects from port i
    inOpen,         \* inOpen[n][i]: input port i has not been reset
    outOpen,        \* outOpen[n][j]: output port j has not been reset
    made,           \* made[n]: items generated, or accumulated
    got,            \* got[n]: what sink n has consumed
    thrown,         \* the processors whose user code has thrown
    crashed,        \* std::abort() has been called
    returned        \* the pipelines whose Run has returned

work == <<val, pending, index, made, got>>
ports == <<input_count, inOpen, outOpen>>
run == <<thrown, crashed, returned>>
vars == <<net, chan, abort_channel, at, work, ports, run>>

Kind == net.kind
In == net.in
Out == net.out
Capacity == net.capacity
PipelineOf == net.pipeline
Bound == net.bound
Items == net.items
Endless == net.endless
Filtered == net.filtered
Throwers == net.throwers

Run == {PipelineOf[n] : n \in {n \in Node : Kind[n] # "none"}}
Writers(c) == {n \in Node : \E j \in DOMAIN Out[n] : Out[n][j] = c}

(* Mutant: SetInputPort does not count.                                    *)
InputCountOne(n, i) == 1

(* MultiIOneO::Pop and hosted_mode expect one EOF from every input.        *)
OneEofPerInput(n) == Kind[n] = "concat"

(* input_count_ when Run is called: SetInputPort counts the writers of the *)
(* input port; the constructor of ChannelSource sets it to 1.              *)
InputCount(n, i) == IF OneEofPerInput(n) \/ Kind[n] = "channel_source"
                    THEN 1
                    ELSE Cardinality(Writers(In[n][i]))

(***************************************************************************)
(* generate    : in generate() of a source                                 *)
(* Pop         : in input.GetQueue().Pop()                                 *)
(* PopAbort    : has popped, and is in the TryPop of the abort channel     *)
(* apply       : in user code, with the value that Pop returned            *)
(* Push        : in output.GetQueue().Push()                               *)
(* PushAbort   : has pushed, and is in the TryPop of the abort channel     *)
(* after_work  : in after_work() of a ChannelSink                          *)
(* TryPush     : work() threw, in the TryPush of the abort channel         *)
(* close_input, close_output : in hosted_mode()                            *)
(* Run         : in Run() of the pipeline that an embedding processor built*)
(* done, error : returned, without or with an exception                    *)
(***************************************************************************)
Working == {"generate", "Pop", "PopAbort", "apply", "Push", "PushAbort", "after_work",
            "Run"}
Hosted == {"TryPush", "close_input", "close_output"}
Location == Working \cup Hosted \cup {"done", "error"}

bound(n) == PipelineOf[n] \in Bound

(* The abort channel that Run binds to n.                                  *)
AbortOf(n) == net.abort[PipelineOf[n]]
token(n) == abort_channel[AbortOf(n)] > 0
finished(n) == at[n] \in {"done", "error"}

(* The first step of work(), and of every round of its loop.               *)
Begin(n) == CASE Kind[n] = "none" -> "done"
              [] Kind[n] = "source" -> "generate"
              [] Kind[n] = "embed" -> "Run"
              [] OTHER -> "Pop"

TypeOK ==
    /\ net \in Nets
    /\ chan \in [Channel -> Seq(Item \cup {EOF})]
    /\ \A c \in Channel : Len(chan[c]) <= Capacity[c]
    /\ abort_channel \in [Pipeline -> 0..AbortCapacity]
    /\ at \in [Node -> Location]
    /\ val \in [Node -> Item \cup {EOF, Nil}]
    /\ pending \in [Node -> Seq(Nat \X (Item \cup {EOF}))]
    /\ index \in [Node -> Nat]
    /\ input_count \in [Node -> Seq(Nat)]
    /\ inOpen \in [Node -> Seq(BOOLEAN)]
    /\ outOpen \in [Node -> Seq(BOOLEAN)]
    /\ made \in [Node -> Nat]
    /\ got \in [Node -> Seq(Item)]
    /\ thrown \subseteq Node
    /\ crashed \in BOOLEAN
    /\ returned \subseteq Pipeline

-----------------------------------------------------------------------------

Init ==
    /\ net \in Nets
    /\ chan = [c \in Channel |-> <<>>]
    /\ abort_channel = [p \in Pipeline |-> 0]
    /\ at = [n \in Node |-> Begin(n)]
    /\ val = [n \in Node |-> Nil]
    /\ pending = [n \in Node |-> <<>>]
    /\ index = [n \in Node |-> 1]
    /\ input_count = [n \in Node |-> [i \in DOMAIN In[n] |-> InputCount(n, i)]]
    /\ inOpen = [n \in Node |-> [i \in DOMAIN In[n] |-> TRUE]]
    /\ outOpen = [n \in Node |-> [j \in DOMAIN Out[n] |-> TRUE]]
    /\ made = [n \in Node |-> 0]
    /\ got = [n \in Node |-> <<>>]
    /\ thrown = {}
    /\ crashed = FALSE
    /\ returned = {}

Goto(n, location) == at' = [at EXCEPT ![n] = location]

(* Mutant: Push does not wait for room.                                    *)
EnqueueUnbounded(c, v) == chan' = [chan EXCEPT ![c] = Append(@, v)]

(* Mutant: Push drops an item when there is no room.                       *)
EnqueueIfRoom(c, v) ==
    /\ v = EOF => Len(chan[c]) < Capacity[c]
    /\ chan' = IF Len(chan[c]) < Capacity[c] THEN [chan EXCEPT ![c] = Append(@, v)] ELSE chan

(* BoundedQueue::Pop and Push, when they do not wait.                      *)
Dequeue(c) == /\ chan[c] # <<>>
              /\ chan' = [chan EXCEPT ![c] = Tail(@)]
Enqueue(c, v) == /\ Len(chan[c]) < Capacity[c]
                 /\ chan' = [chan EXCEPT ![c] = Append(@, v)]

(* work() has thrown: work_with_exception goes on to notify the others,    *)
(* or calls std::abort() when no abort channel is bound.                   *)
Throw(n) == IF bound(n)
            THEN /\ Goto(n, "TryPush")
                 /\ UNCHANGED crashed
            ELSE /\ crashed' = TRUE
                 /\ UNCHANGED at

(* Mutant: the exit information is read and not removed.                   *)
AbortPeeked(n) == token(n) /\ Throw(n) /\ UNCHANGED abort_channel

(* abort_port.GetQueue().TryPop(), which throws when it gets something.    *)
AbortChecked(n) == /\ ~ token(n)
                   /\ UNCHANGED abort_channel
AbortReceived(n) ==
    /\ bound(n)
    /\ token(n)
    /\ abort_channel' = [abort_channel EXCEPT ![AbortOf(n)] = @ - 1]
    /\ Throw(n)

-----------------------------------------------------------------------------

(* generate() of a user's source: the next item, or EOF after the last.    *)
Generate(n) ==
    /\ at[n] = "generate"
    /\ \/ /\ n \in Endless
          /\ pending' = [pending EXCEPT ![n] = << <<1, <<n, 0>> >> >>]
          /\ UNCHANGED made
       \/ /\ n \notin Endless /\ made[n] < Items[n]
          /\ made' = [made EXCEPT ![n] = @ + 1]
          /\ pending' = [pending EXCEPT ![n] = << <<1, <<n, made[n] + 1>> >> >>]
       \/ /\ n \notin Endless /\ made[n] = Items[n]
          /\ pending' = [pending EXCEPT ![n] = << <<1, EOF>> >>]
          /\ UNCHANGED made
    /\ Goto(n, "Push")
    /\ UNCHANGED <<chan, abort_channel, val, index, got, ports, run>>

(* User code throws: generate, transform, filter, dispatch, consume.       *)
UserThrow(n) ==
    /\ \/ at[n] = "generate"
       \/ at[n] = "apply" /\ (val[n] # EOF \/ Kind[n] = "accumulate")
    /\ n \in Throwers
    /\ Cardinality(thrown) < net.throws
    /\ thrown' = thrown \cup {n}
    /\ Throw(n)
    /\ UNCHANGED <<chan, abort_channel, work, ports, returned>>

(* Processor::Pop up to the check of the abort channel: an EOF that is not *)
(* the last one is counted, the last one closes the port and is returned   *)
(* without a check.                                                        *)
Pop(n) ==
    LET i == index[n]
        v == Head(chan[In[n][i]])
        last == v = EOF /\ input_count[n][i] = 1
    IN  /\ at[n] = "Pop"
        /\ Dequeue(In[n][i])
        /\ val' = [val EXCEPT ![n] = v]
        /\ input_count' = IF v = EOF THEN [input_count EXCEPT ![n][i] = @ - 1]
                                     ELSE input_count
        /\ inOpen' = IF last THEN [inOpen EXCEPT ![n][i] = FALSE] ELSE inOpen
        /\ Goto(n, IF last THEN "apply"
                   ELSE IF bound(n) THEN "PopAbort"
                   ELSE IF v = EOF THEN "Pop" ELSE "apply")
        /\ UNCHANGED <<abort_channel, pending, index, made, got, outOpen, run>>

PopAbort(n) ==
    /\ at[n] = "PopAbort"
    /\ \/ AbortReceived(n)
       \/ /\ AbortChecked(n)
          /\ Goto(n, IF val[n] = EOF THEN "Pop" ELSE "apply")
          /\ UNCHANGED crashed
    /\ UNCHANGED <<chan, work, ports, thrown, returned>>

(* The loops over the outputs in Fork::work and Dispatch::work.            *)
ToEveryOutput(n, v) == [j \in DOMAIN Out[n] |-> <<j, v>>]

(* Mutant: items are dispatched to all outputs.                            *)
DispatchedToAll(n, v) == {ToEveryOutput(n, v)}

(* Dispatch: an item goes to the output dispatch() selects, EOF to all.    *)
Dispatched(n, v) == IF v = EOF THEN {ToEveryOutput(n, v)}
                               ELSE {<< <<j, v>> >> : j \in DOMAIN Out[n]}

(* Filter: filter() is evaluated for items only.                           *)
Dropped(v) == v \in Filtered

(* Accumulate: an item is consumed, EOF makes it generate its value.       *)
Accumulated(n, v) == IF v = EOF THEN << <<1, <<n, made[n]>> >>, <<1, EOF>> >> ELSE <<>>

(* Concat: EOF of an input that is not the last one.                       *)
NextInput(n, v) == Kind[n] = "concat" /\ v = EOF /\ index[n] < Len(In[n])

(* What work() does with the value that Pop returned: the pushes it makes. *)
Pushes(n, v) ==
    CASE Kind[n] = "fork" -> {ToEveryOutput(n, v)}
      [] Kind[n] = "dispatch" -> Dispatched(n, v)
      [] Kind[n] = "filter" /\ Dropped(v) -> {<<>>}
      [] Kind[n] = "accumulate" -> {Accumulated(n, v)}
      [] NextInput(n, v) -> {<<>>}
      [] Kind[n] = "channel_sink" /\ v = EOF -> {<<>>}
      [] Kind[n] = "sink" -> {<<>>}
      [] OTHER -> {<< <<1, v>> >>}

(* Where work() goes when it has nothing to push.                          *)
AfterValue(n, v) ==
    CASE v # EOF \/ NextInput(n, v) -> Begin(n)
      [] v = EOF /\ Kind[n] = "channel_sink" -> "after_work"
      [] OTHER -> "done"

(* The items of a source without end are not recorded.                     *)
Recorded(v) == v # EOF /\ v[1] \notin Endless

Apply(n) ==
    LET v == val[n]
    IN  /\ at[n] = "apply"
        /\ \E todo \in Pushes(n, v) :
               /\ pending' = [pending EXCEPT ![n] = todo]
               /\ Goto(n, IF todo = <<>> THEN AfterValue(n, v) ELSE "Push")
        /\ index' = IF NextInput(n, v) THEN [index EXCEPT ![n] = @ + 1] ELSE index
        /\ made' = IF Kind[n] = "accumulate" /\ v # EOF
                   THEN [made EXCEPT ![n] = @ + 1] ELSE made
        /\ got' = IF Kind[n] \in {"sink", "channel_sink"} /\ Recorded(v)
                  THEN [got EXCEPT ![n] = Append(@, v)] ELSE got
        /\ val' = [val EXCEPT ![n] = Nil]
        /\ UNCHANGED <<chan, abort_channel, ports, run>>

(* The push at the head of pending is complete: the next one, or on with   *)
(* the loop of work(), which ends with the push of EOF.                    *)
AfterPush(n) ==
    LET rest == Tail(pending[n])
        v == Head(pending[n])[2]
    IN  /\ pending' = [pending EXCEPT ![n] = rest]
        /\ Goto(n, IF rest # <<>> THEN "Push"
                   ELSE IF v = EOF THEN "done" ELSE Begin(n))

(* Processor::Push up to the check of the abort channel.                   *)
Push(n) ==
    LET j == Head(pending[n])[1]
        v == Head(pending[n])[2]
    IN  /\ at[n] = "Push"
        /\ Enqueue(Out[n][j], v)
        /\ outOpen' = IF v = EOF THEN [outOpen EXCEPT ![n][j] = FALSE] ELSE outOpen
        /\ \/ bound(n) /\ Goto(n, "PushAbort") /\ UNCHANGED pending
           \/ ~ bound(n) /\ AfterPush(n)
        /\ UNCHANGED <<abort_channel, val, index, made, got, input_count, inOpen, run>>

(* Mutant: Push does not look into the abort channel.                      *)
PushAbortIgnored(n) ==
    /\ at[n] = "PushAbort"
    /\ AfterPush(n)
    /\ UNCHANGED <<chan, abort_channel, val, index, made, got, ports, run>>

PushAbort(n) ==
    /\ at[n] = "PushAbort"
    /\ \/ AbortReceived(n) /\ UNCHANGED pending
       \/ AbortChecked(n) /\ AfterPush(n) /\ UNCHANGED crashed
    /\ UNCHANGED <<chan, val, index, made, got, ports, thrown, returned>>

(* ChannelSink::after_work: EOF for the reader of the other pipeline.      *)
AfterWork(n) ==
    /\ at[n] = "after_work"
    /\ Enqueue(Out[n][1], EOF)
    /\ Goto(n, "done")
    /\ UNCHANGED <<abort_channel, work, ports, run>>

-----------------------------------------------------------------------------

(* Mutant: the exit information that was taken is not put back.            *)
NotifyAbortOmitted(n) ==
    /\ at[n] = "TryPush"
    /\ abort_channel' = IF n \notin thrown THEN abort_channel
                        ELSE [abort_channel EXCEPT ![AbortOf(n)] = AbortCapacity]
    /\ Goto(n, "close_input")
    /\ index' = [index EXCEPT ![n] = 1]
    /\ UNCHANGED <<chan, val, pending, made, got, ports, run>>

(* The TryPush of work_with_exception: a full abort channel is left alone. *)
(* The locals of work() are gone.                                          *)
NotifyAbort(n) ==
    LET p == AbortOf(n)
    IN  /\ at[n] = "TryPush"
        /\ abort_channel' = IF abort_channel[p] = AbortCapacity THEN abort_channel
                            ELSE [abort_channel EXCEPT ![p] = @ + 1]
        /\ Goto(n, "close_input")
        /\ index' = [index EXCEPT ![n] = 1]
        /\ val' = [val EXCEPT ![n] = Nil]
        /\ pending' = [pending EXCEPT ![n] = <<>>]
        /\ UNCHANGED <<chan, made, got, ports, run>>

(* Mutants: hosted_mode does not ask whether the port has been reset.      *)
AllInputs(n) == {i \in DOMAIN In[n] : i >= index[n]}
AllOutputs(n) == {j \in DOMAIN Out[n] : j >= index[n]}

(* hosted_mode: close_input of every input port that is not reset, in      *)
(* order, then close_output of every output port that is not reset.        *)
OpenInputs(n) == {i \in DOMAIN In[n] : i >= index[n] /\ inOpen[n][i]}
OpenOutputs(n) == {j \in DOMAIN Out[n] : j >= index[n] /\ outOpen[n][j]}
First(S) == {i \in S : \A k \in S : i <= k}

CloseInput(n) ==
    /\ at[n] = "close_input"
    /\ \E i \in First(OpenInputs(n)) :
        LET v == Head(chan[In[n][i]])
        IN  /\ Dequeue(In[n][i])
            /\ \/ /\ v # EOF
                  /\ UNCHANGED <<input_count, index>>
               \/ /\ v = EOF
                  /\ input_count' = [input_count EXCEPT ![n][i] = @ - 1]
                  /\ index' = IF input_count[n][i] = 1 THEN [index EXCEPT ![n] = i + 1] ELSE index
    /\ UNCHANGED <<abort_channel, at, val, pending, made, got, inOpen, outOpen, run>>

InputsClosed(n) ==
    /\ at[n] = "close_input"
    /\ OpenInputs(n) = {}
    /\ Goto(n, "close_output")
    /\ index' = [index EXCEPT ![n] = 1]
    /\ UNCHANGED <<chan, abort_channel, val, pending, made, got, ports, run>>

CloseOutput(n) ==
    /\ at[n] = "close_output"
    /\ \E j \in First(OpenOutputs(n)) :
        /\ Enqueue(Out[n][j], EOF)
        /\ index' = [index EXCEPT ![n] = j + 1]
    /\ UNCHANGED <<abort_channel, at, val, pending, made, got, ports, run>>

(* std::rethrow_exception: the result of the coroutine is the exception.   *)
Rethrow(n) ==
    /\ at[n] = "close_output"
    /\ OpenOutputs(n) = {}
    /\ Goto(n, "error")
    /\ UNCHANGED <<chan, abort_channel, work, ports, run>>

(* Pipeline::Run after collectAllPara: a result is put together for every  *)
(* node and none of them is added to results, so the caller never sees an  *)
(* exception of a processor.                                               *)
Return(p) ==
    /\ p \in Run \ returned
    /\ \A n \in Node : PipelineOf[n] = p => finished(n)
    /\ returned' = returned \cup {p}
    /\ UNCHANGED <<chan, abort_channel, at, work, ports, thrown, crashed>>

(* work() of a processor that has built a pipeline with its own ports at   *)
(* the ends, once the Run of that pipeline has returned.                   *)
RunEmbedded(n) ==
    /\ at[n] = "Run"
    /\ net.child[n] \in returned
    /\ Goto(n, "done")
    /\ UNCHANGED <<chan, abort_channel, work, ports, run>>

Step(n) ==
    \/ Generate(n) \/ UserThrow(n)
    \/ Pop(n) \/ PopAbort(n) \/ Apply(n)
    \/ Push(n) \/ PushAbort(n) \/ AfterWork(n) \/ RunEmbedded(n)
    \/ NotifyAbort(n) \/ CloseInput(n) \/ InputsClosed(n) \/ CloseOutput(n) \/ Rethrow(n)

(* Nothing is left to do.                                                  *)
Ended == crashed \/ returned = Run

Next ==
    /\ ~ crashed
    /\ UNCHANGED net
    /\ \/ \E n \in Node : Step(n)
       \/ \E p \in Pipeline : Return(p)

Spec == Init /\ [][Next]_vars

(* Every coroutine that can run is resumed by its executor.                *)
Fairness == /\ \A n \in Node : WF_vars(~ crashed /\ UNCHANGED net /\ Step(n))
            /\ \A p \in Pipeline : WF_vars(~ crashed /\ UNCHANGED net /\ Return(p))
FairSpec == Spec /\ Fairness

-----------------------------------------------------------------------------

(* No queue is used through a port that has been reset (GetQueue would     *)
(* dereference a null pointer), and an EOF is only popped while one is     *)
(* expected (the assertions in Pop and close_input).                       *)
PortsInUseAreOpen ==
    \A n \in Node :
        /\ at[n] = "Pop" => inOpen[n][index[n]] /\ input_count[n][index[n]] > 0
        /\ at[n] = "close_input" => \A i \in OpenInputs(n) : input_count[n][i] > 0
        /\ at[n] = "Push" => outOpen[n][Head(pending[n])[1]]
        /\ at[n] = "after_work" => outOpen[n][1]

(* n still has to write an EOF through output port j.                      *)
OwesEof(n, j) == /\ outOpen[n][j]
                 /\ ~ finished(n)
                 /\ at[n] = "close_output" => j >= index[n]

OwingWriters(c) == {n \in Node : \E j \in DOMAIN Out[n] : Out[n][j] = c /\ OwesEof(n, j)}
EofsIn(c) == {k \in DOMAIN chan[c] : chan[c][k] = EOF}

(* The reader of a queue expects exactly the EOFs that are in the queue or *)
(* will still be written into it, whether its writers end normally, throw, *)
(* or are stopped between two outputs: otherwise it would wait for an EOF  *)
(* for ever, or stop reading before a writer has ended.                    *)
EofAccounting ==
    \A n \in Node : \A i \in DOMAIN In[n] :
        LET c == In[n][i]
        IN  input_count[n][i] = Cardinality(OwingWriters(c)) + Cardinality(EofsIn(c))

(* A reader that has seen its last EOF has left nothing in the queue.      *)
NothingAfterLastEof ==
    \A n \in Node : \A i \in DOMAIN In[n] :
        input_count[n][i] = 0 => chan[In[n][i]] = <<>>

(* Once a processor has thrown, the exit information is in its abort       *)
(* channel, or a processor that took it is about to put it back: also for  *)
(* a pipeline that shares the channel and outlives the one that has thrown.*)
AbortPersists ==
    \A n \in Node :
        bound(n) /\ at[n] \in Hosted \cup {"error"} =>
            \/ token(n)
            \/ \E m \in Node : AbortOf(m) = AbortOf(n) /\ at[m] = "TryPush"

(* The exit information is not multiplied: there is at most one per        *)
(* exception of user code, so no pipeline is stopped without one.          *)
AbortTokensFromThrows ==
    \A p \in Pipeline :
        abort_channel[p] + Cardinality({n \in Node : AbortOf(n) = p /\ at[n] = "TryPush"})
            <= Cardinality({n \in thrown : AbortOf(n) = p})

(* m passes items on, through its output port j to input port i of n.      *)
PassesOn(N, m, j, n, i) == N.kind[m] # "accumulate" /\ N.out[m][j] = N.in[n][i]
Feeds(N, m, j, n) == \E i \in DOMAIN N.in[n] : PassesOn(N, m, j, n, i)

(* F is where the items of s get to, and no processor gets them in two     *)
(* ways.                                                                   *)
IsWay(N, s, F) ==
    /\ s \in F
    /\ \A m \in F : \A j \in DOMAIN N.out[m], n \in Node : Feeds(N, m, j, n) => n \in F
    /\ \A n \in F \ {s} : \E m \in F : \E j \in DOMAIN N.out[m] : Feeds(N, m, j, n)
    /\ \A m1, m2 \in F : \A j1 \in DOMAIN N.out[m1], j2 \in DOMAIN N.out[m2], n \in Node :
           Feeds(N, m1, j1, n) /\ Feeds(N, m2, j2, n) => m1 = m2 /\ j1 = j2
Ways(N, s) == {F \in SUBSET Node : IsWay(N, s, F)}

(* The sources of which every processor gets the items in one way at most, *)
(* and those of them whose items are not distributed.                      *)
Simple(N) == {s \in Node \ N.endless : N.kind[s] = "source" /\ Ways(N, s) # {}}
Whole(N) == {s \in Simple(N) : \E F \in Ways(N, s) :
                \A n \in F : N.kind[n] # "dispatch"}

(* The sources s and t whose items meet in a Concat, in this order, and    *)
(* nowhere before.                                                         *)
MeetIn(N, F, G, c) ==
    /\ N.kind[c] = "concat"
    /\ \E i, j \in DOMAIN N.in[c] :
           /\ i < j
           /\ \E m \in F : \E k \in DOMAIN N.out[m] : PassesOn(N, m, k, c, i)
           /\ \E m \in G : \E k \in DOMAIN N.out[m] : PassesOn(N, m, k, c, j)
    /\ \A m1 \in F, m2 \in G : \A j1 \in DOMAIN N.out[m1], j2 \in DOMAIN N.out[m2] :
           \A n \in Node \ {c} :
               Feeds(N, m1, j1, n) /\ Feeds(N, m2, j2, n) => m1 = m2 /\ j1 = j2
Joined(N) == {st \in Simple(N) \X Simple(N) :
                 /\ st[1] # st[2]
                 /\ \E F \in Ways(N, st[1]), G \in Ways(N, st[2]), c \in Node : MeetIn(N, F, G, c)}

(* The same for all nets.                                                  *)
OneWay == UNION {{<<N, s>> : s \in Simple(N)} : N \in Nets}
Undivided == UNION {{<<N, s>> : s \in Whole(N)} : N \in Nets}
InTurn == UNION {{<<N, st[1], st[2]>> : st \in Joined(N)} : N \in Nets}

(* A sink consumes the items of a source in the order in which they were   *)
(* generated, none twice, and none is missing before another one, unless   *)
(* it was filtered: what is lost when processors throw is lost at the end. *)
(* Concat reads its inputs one after the other.  All of this where the     *)
(* branches of a source do not meet again.                                 *)
DeliveredInOrder ==
    \A n \in Node : LET g == got[n] IN \A b \in DOMAIN g :
        LET s == g[b][1]
            x == g[b][2]
        IN  /\ <<net, s>> \in OneWay => \A a \in 1..b - 1 : g[a][1] = s => g[a][2] < x
            /\ <<net, s>> \in Undivided => \A y \in 1..x - 1 :
                   <<s, y>> \in Filtered \/ \E a \in 1..b - 1 : g[a] = <<s, y>>
            /\ \A a \in 1..b - 1 : <<net, s, g[a][1]>> \notin InTurn

(* Run returns, or the process has been aborted; a source without end is   *)
(* stopped when any processor has thrown.  Every processor that has thrown *)
(* gets through its hosted mode: its writers end and its readers make      *)
(* room.                                                                   *)
RunReturns == (Endless = {} \/ thrown # {}) ~> Ended

(* n is suspended in a queue operation, or has ended.                      *)
Suspended(n) ==
    \/ finished(n)
    \/ at[n] = "Run" /\ net.child[n] \notin returned
    \/ at[n] = "Pop" /\ chan[In[n][index[n]]] = <<>>
    \/ at[n] = "close_input" /\ \E i \in First(OpenInputs(n)) : chan[In[n][i]] = <<>>
    \/ /\ at[n] = "Push"
       /\ LET c == Out[n][Head(pending[n])[1]] IN Len(chan[c]) = Capacity[c]
    \/ /\ at[n] = "close_output"
       /\ \E j \in First(OpenOutputs(n)) : Len(chan[Out[n][j]]) = Capacity[Out[n][j]]
    \/ at[n] = "after_work" /\ Len(chan[Out[n][1]]) = Capacity[Out[n][1]]

(* doc/pipeline.md on exceptions: a processor in hosted mode reads until   *)
(* EOF, writes EOF and "finally exits": it is never left waiting in a      *)
(* pipeline in which nobody can move any more.                             *)
HostedNeverStuck ==
    ~ /\ \A n \in Node : Suspended(n)
      /\ \E n \in Node : at[n] \in Hosted

=============================================================================
