--------------------------- MODULE PipelineGraph ---------------------------
(***************************************************************************)
(* The operations that assemble a pipeline (include/tunnel/pipeline.h) and *)
(* MergePipeline, on the graph of processors, ports and queues.            *)
(*                                                                         *)
(* A processor is known by its id, which is its position in node; a queue  *)
(* is known by its position in queue, which records its capacity.  A call  *)
(* that throws before it changes anything (an unknown leaf, a duplicate    *)
(* node, a merge of pipelines that do not fit) is not a step.              *)
(***************************************************************************)
EXTENDS Integers, Sequences, FiniteSets, FiniteSetsExt, SequencesExt, PipelineNet

CONSTANTS
    Pipelines,      \* the pipelines that are assembled
    ChannelSize,    \* option_.channel_size of a new pipeline
    MaxNodes,       \* bound: processors ever created
    MaxBranches,    \* bound: outputs of a Fork or a Dispatch, inputs of a Concat
    Unusual         \* what the callers do that is not in the examples

(***************************************************************************)
(* creater_throws   : the creater given to AddTransform may throw          *)
(* grow_merged      : a merged pipeline may be extended                    *)
(***************************************************************************)
ASSUME UnusualAssumption == Unusual \subseteq {"creater_throws", "grow_merged"}
ASSUME SizeAssumption == ChannelSize \in Nat \ {0} /\ MaxNodes \in Nat /\ MaxBranches \in Nat

VARIABLES
    node,   \* node[id]: the processor, with its ports
    queue,  \* queue[q]: the capacity of queue q
    pl,     \* pl[p]: the members of pipeline p
    gone    \* the pipelines that have been moved from

vars == <<node, queue, pl, gone>>

Kinds == {"source", "transform", "concat", "dispatch", "fork", "sink"}

(* Mutant: SetInputPort does not add up.                                   *)
ProcessorCountsOne(kind, ins, outs, count) ==
    [kind |-> kind, ins |-> ins, outs |-> outs, count |-> IF count = 0 THEN 0 ELSE 1]

(* kind; input_port or inputs_; output_port or outputs_; input_count_      *)
Processor(kind, ins, outs, count) ==
    [kind |-> kind, ins |-> ins, outs |-> outs, count |-> count]

EmptyPipeline == [nodes |-> {}, leaves |-> {}, dags |-> {}, sources |-> <<>>, sinks |-> <<>>,
                  channel_size |-> ChannelSize]

Id == 1..Len(node)
Queue == 1..Len(queue)

TypeOK ==
    /\ node \in Seq([kind : Kinds, ins : Seq(Nat), outs : Seq(Nat), count : Nat])
    /\ queue \in Seq(Nat)
    /\ gone \subseteq Pipelines
    /\ \A n \in Id : Range(node[n].ins) \cup Range(node[n].outs) \subseteq Queue
    /\ \A p \in Pipelines :
           /\ pl[p].nodes \subseteq Id
           /\ pl[p].leaves \subseteq pl[p].nodes
           /\ pl[p].dags \subseteq pl[p].nodes \X pl[p].nodes
           /\ Range(pl[p].sources) \cup Range(pl[p].sinks) \subseteq pl[p].nodes
           /\ pl[p].channel_size \in Nat

-----------------------------------------------------------------------------

Init == /\ node = <<>>
        /\ queue = <<>>
        /\ pl = [p \in Pipelines |-> EmptyPipeline]
        /\ gone = {}

(* Mutant: one queue where every connection should have its own.           *)
NewQueueShared(i) == Len(queue) + 1

NewId(i) == Len(node) + i
NewQueue(i) == Len(queue) + i

(* The calls a pipeline accepts, within the bound on new processors.       *)
Usable(p, new) == /\ p \notin gone
                  /\ Len(node) + new <= MaxNodes
                  /\ pl[p].channel_size = 0 => "grow_merged" \in Unusual

(* connect(): the leaves write into their new queues, the new processors   *)
(* with their ports are added, the queues have the capacity of the option. *)
Connect(p, out, new, queues) ==
    /\ node' = [n \in Id |-> IF n \in DOMAIN out
                             THEN [node[n] EXCEPT !.outs = <<out[n]>>]
                             ELSE node[n]] \o new
    /\ queue' = queue \o [i \in 1..queues |-> pl[p].channel_size]
    /\ UNCHANGED gone

AddSource(p) ==
    /\ Usable(p, 1)
    /\ Connect(p, <<>>, <<Processor("source", <<>>, <<>>, 0)>>, 0)
    /\ pl' = [pl EXCEPT ![p].nodes = @ \cup {NewId(1)},
                        ![p].leaves = @ \cup {NewId(1)},
                        ![p].sources = Append(@, NewId(1))]

(* Mutants: the leaf is not erased; the edge leads back to the leaf.       *)
AddTransformKeepsLeaf(p, leaf) ==
    /\ Usable(p, 1)
    /\ leaf \in pl[p].leaves
    /\ Connect(p, [n \in {leaf} |-> NewQueue(1)],
               <<Processor("transform", <<NewQueue(1)>>, <<>>, 1)>>, 1)
    /\ pl' = [pl EXCEPT ![p].nodes = @ \cup {NewId(1)},
                        ![p].leaves = @ \cup {NewId(1)},
                        ![p].dags = @ \cup {<<leaf, NewId(1)>>}]
(* AddTransform(leaf, transform)                                           *)
AddTransform(p, leaf) ==
    /\ Usable(p, 1)
    /\ leaf \in pl[p].leaves
    /\ Connect(p, [n \in {leaf} |-> NewQueue(1)],
               <<Processor("transform", <<NewQueue(1)>>, <<>>, 1)>>, 1)
    /\ pl' = [pl EXCEPT ![p].nodes = @ \cup {NewId(1)},
                        ![p].leaves = (@ \ {leaf}) \cup {NewId(1)},
                        ![p].dags = @ \cup {<<leaf, NewId(1)>>}]

(* AddTransform(creater): a transform behind every leaf.  When the creater *)
(* throws, the leaves that it has served are connected, and leaves_ is as  *)
(* before.                                                                 *)
AddTransforms(p, served) ==
    LET order == SetToSeq(served)
        ids == {NewId(i) : i \in DOMAIN order}
    IN  /\ Usable(p, Len(order))
        /\ served \subseteq pl[p].leaves
        /\ served # pl[p].leaves => "creater_throws" \in Unusual
        /\ Connect(p, [n \in served |-> NewQueue(CHOOSE i \in DOMAIN order : order[i] = n)],
                   [i \in DOMAIN order |-> Processor("transform", <<NewQueue(i)>>, <<>>, 1)],
                   Len(order))
        /\ pl' = [pl EXCEPT ![p].nodes = @ \cup ids,
                            ![p].leaves = IF served = @ THEN ids ELSE @,
                            ![p].dags = @ \cup {<<order[i], NewId(i)>> : i \in DOMAIN order}]

(* merge and merge_to: the leaves share one queue of the new processor.    *)
(* merge, for all leaves, throws when there is none.  merge_to does not:   *)
(* nothing is connected, and the new processor has no input port.          *)
MergeInto(p, kind, leaves) ==
    LET ins == IF leaves = {} THEN <<>> ELSE <<NewQueue(1)>>
    IN  /\ Usable(p, 1)
        /\ leaves \subseteq pl[p].leaves
        /\ Connect(p, [n \in leaves |-> NewQueue(1)],
                   <<Processor(kind, ins, <<>>, Cardinality(leaves))>>, Len(ins))
        /\ pl' = [pl EXCEPT ![p].nodes = @ \cup {NewId(1)},
                            ![p].leaves = (@ \ leaves) \cup (IF kind = "sink" THEN {} ELSE {NewId(1)}),
                            ![p].dags = @ \cup {<<n, NewId(1)>> : n \in leaves},
                            ![p].sinks = IF kind = "sink" THEN Append(@, NewId(1)) ELSE @]

SetSink(p, leaves) == MergeInto(p, "sink", leaves)
Merge(p, leaves) == MergeInto(p, "transform", leaves)

(* DispatchFrom and ForkFrom: a NoOpTransform behind every output.         *)
BranchFrom(p, kind, leaf, size) ==
    LET branch == NewId(1)
        noops == {NewId(i + 1) : i \in 1..size}
    IN  /\ Usable(p, size + 1)
        /\ leaf \in pl[p].leaves
        /\ Connect(p, [n \in {leaf} |-> NewQueue(size + 1)],
                   <<Processor(kind, <<NewQueue(size + 1)>>, [i \in 1..size |-> NewQueue(i)], 1)>>
                   \o [i \in 1..size |-> Processor("transform", <<NewQueue(i)>>, <<>>, 1)],
                   size + 1)
        /\ pl' = [pl EXCEPT ![p].nodes = @ \cup noops \cup {branch},
                            ![p].leaves = (@ \ {leaf}) \cup noops,
                            ![p].dags = @ \cup ({branch} \X noops) \cup {<<leaf, branch>>}]

DispatchFrom(p, leaf, size) == BranchFrom(p, "dispatch", leaf, size)
ForkFrom(p, leaf, size) == BranchFrom(p, "fork", leaf, size)

(* The last place of n in s: a later connect replaces the output port.     *)
LastPlace(s, n) == CHOOSE i \in DOMAIN s : s[i] = n /\ \A j \in DOMAIN s : s[j] = n => j <= i

(* ConcatFrom: a new queue for every place in leaves.  The constructor     *)
(* asserts that there is one; leaves_check looks at every leaf before the  *)
(* first one is connected, and lets a leaf pass that is there twice.       *)
ConcatFrom(p, leaves) ==
    /\ Usable(p, 1)
    /\ leaves # <<>>
    /\ Range(leaves) \subseteq pl[p].leaves
    /\ Connect(p, [n \in Range(leaves) |-> NewQueue(LastPlace(leaves, n))],
               <<Processor("concat", [i \in DOMAIN leaves |-> NewQueue(i)], <<>>, 0)>>,
               Len(leaves))
    /\ pl' = [pl EXCEPT ![p].nodes = @ \cup {NewId(1)},
                        ![p].leaves = (@ \ Range(leaves)) \cup {NewId(1)},
                        ![p].dags = @ \cup {<<n, NewId(1)>> : n \in Range(leaves)}]

(* Mutant: a pipeline with a sink counts as completed.                     *)
HasSink(p) == pl[p].sinks # <<>>

IsCompleted(p) == pl[p].leaves = {}

(* NoOpTransform::MergeSinkAndSource: the input side of the sink and the   *)
(* output side of the source.                                              *)
MergeSinkAndSource(sink, source) ==
    Processor("transform", node[sink].ins, node[source].outs, node[sink].count)

(* Mutants: the ids in dags_ are not replaced; they are replaced in the    *)
(* wrong order.                                                            *)
ReplaceNot(old, n) == n
ReplaceBackwards(old, n) ==
    IF n \in Range(old) THEN NewId(Len(old) + 1 - (CHOOSE i \in DOMAIN old : old[i] = n)) ELSE n

(* ReplaceSinkIdInDags and ReplaceSourceIdInDags: the processors of old    *)
(* become the new NoOpTransforms, in order.                                *)
Replace(old, n) == IF n \in Range(old) THEN NewId(CHOOSE i \in DOMAIN old : old[i] = n) ELSE n
ReplaceSinkIdInDags(p) ==
    {<<e[1], Replace(pl[p].sinks, e[2])>> : e \in pl[p].dags}
ReplaceSourceIdInDags(p) ==
    {<<Replace(pl[p].sources, e[1]), e[2]>> : e \in pl[p].dags}

(* MergePipeline(left, right): the result takes the place of left.  When   *)
(* one of them is empty, the result is the other one.                      *)
MergePipeline(left, right) ==
    LET L == pl[left]
        R == pl[right]
        noops == [i \in DOMAIN L.sinks |-> MergeSinkAndSource(L.sinks[i], R.sources[i])]
        merged == [nodes |-> (L.nodes \ Range(L.sinks)) \cup (R.nodes \ Range(R.sources))
                             \cup {NewId(i) : i \in DOMAIN noops},
                   leaves |-> {},
                   dags |-> ReplaceSinkIdInDags(left) \cup ReplaceSourceIdInDags(right),
                   sources |-> L.sources,
                   sinks |-> R.sinks,
                   channel_size |-> 0]
    IN  /\ left # right /\ left \notin gone /\ right \notin gone
        /\ IsCompleted(left) /\ IsCompleted(right)
        /\ \/ /\ L.nodes = {} \/ R.nodes = {}
              /\ pl' = [pl EXCEPT ![left] = IF L.nodes = {} THEN R ELSE L,
                                  ![right] = EmptyPipeline]
              /\ UNCHANGED node
           \/ /\ L.nodes # {} /\ R.nodes # {}
              /\ Len(L.sinks) = Len(R.sources)
              /\ Len(node) + Len(noops) <= MaxNodes
              /\ node' = node \o noops
              /\ pl' = [pl EXCEPT ![left] = merged, ![right] = EmptyPipeline]
        /\ gone' = gone \cup {right}
        /\ UNCHANGED queue

Leaves(p) == pl[p].leaves
SomeLeaves(p) == SUBSET Leaves(p)
OrderedLeaves(p) == UNION {[1..k -> Leaves(p)] : k \in 1..MaxBranches}

Next ==
    \/ \E p \in Pipelines :
           \/ AddSource(p)
           \/ \E leaf \in Leaves(p) :
                  \/ AddTransform(p, leaf)
                  \/ \E size \in 1..MaxBranches : DispatchFrom(p, leaf, size) \/ ForkFrom(p, leaf, size)
           \/ \E leaves \in SomeLeaves(p) :
                  \/ AddTransforms(p, leaves)
                  \/ SetSink(p, leaves)
                  \/ Merge(p, leaves)
           \/ \E leaves \in OrderedLeaves(p) : ConcatFrom(p, leaves)
    \/ \E left, right \in Pipelines : MergePipeline(left, right)

Spec == Init /\ [][Next]_vars

-----------------------------------------------------------------------------

Nodes(p) == pl[p].nodes
Readers(p, q) == {n \in Nodes(p) : q \in Range(node[n].ins)}
Writers(p, q) == {n \in Nodes(p) : q \in Range(node[n].outs)}

(* Two calls that pipeline.h accepts make a pipeline that cannot run:      *)
(* ConcatFrom with a leaf twice, after which the Concat has more inputs    *)
(* than predecessors, and SetSink or Merge without leaves.                 *)
GotLeafTwice(p, n) ==
    /\ node[n].kind = "concat"
    /\ Cardinality({m \in Nodes(p) : <<m, n>> \in pl[p].dags}) < Len(node[n].ins)
GotNoLeaves(n) == node[n].kind # "source" /\ node[n].ins = <<>>

(* leaves_ is exactly the set of the processors, sinks aside, that have no *)
(* output port yet (doc/pipeline.md: the only ones that may get a          *)
(* successor): a pipeline reported as completed has no loose end.          *)
LeavesAreUnconnected ==
    \A p \in Pipelines :
        Leaves(p) = {n \in Nodes(p) : node[n].kind # "sink" /\ node[n].outs = <<>>}

(* A processor counts as many EOFs as there are writers of its queue, and  *)
(* every queue of a Concat has one writer: what Processor::Pop relies on.  *)
(* Not so for a Concat that got a leaf twice: it has a queue that nobody   *)
(* writes, and still none with two writers.                                *)
InputCountIsWriters ==
    \A p \in Pipelines : \A n \in Nodes(p) : \A i \in DOMAIN node[n].ins :
        LET writers == Cardinality(Writers(p, node[n].ins[i]))
        IN  IF GotLeafTwice(p, n) THEN writers <= 1
            ELSE writers = IF node[n].kind = "concat" THEN 1 ELSE node[n].count

(* A queue has one reader, through one port, and reader and writers run in *)
(* the same pipeline.                                                      *)
OneReaderPerQueue ==
    \A p \in Pipelines : \A n \in Nodes(p) : \A q \in Range(node[n].outs) :
        /\ Cardinality(Readers(p, q)) = 1
        /\ \A r \in Pipelines \ {p} : Readers(r, q) = {} /\ Writers(r, q) = {}

(* Among any processors of p there is one that no other one of them feeds. *)
Acyclic(p) ==
    \A some \in (SUBSET Nodes(p)) \ {{}} :
        \E n \in some : \A m \in some : <<m, n>> \notin pl[p].dags

(* dags_, which Dump prints and MergePipeline rewrites, shows the queues   *)
(* that really connect the processors, and they form a directed acyclic    *)
(* graph (README.md), also after MergePipeline.                            *)
EdgesAreQueues ==
    \A p \in Pipelines :
        /\ \A m, n \in Nodes(p) :
               <<m, n>> \in pl[p].dags <=> Range(node[m].outs) \cap Range(node[n].ins) # {}
        /\ Acyclic(p)

(* A pipeline that Run accepts can run: its processors are connected as    *)
(* PipelineRun assumes, and sources_ and sinks_ list the sources and the   *)
(* sinks.  Run also accepts what the two calls above make: these are the   *)
(* pipelines, and the only ones, that are not connected as they should be. *)
CompletedCanRun ==
    \A p \in Pipelines : IsCompleted(p) =>
        /\ IsWired(Nodes(p), [n \in Nodes(p) |-> node[n].kind],
                   [n \in Nodes(p) |-> node[n].ins], [n \in Nodes(p) |-> node[n].outs])
           <=> \A n \in Nodes(p) : ~GotLeafTwice(p, n) /\ ~GotNoLeaves(n)
        /\ Range(pl[p].sources) = {n \in Nodes(p) : node[n].kind = "source"}
        /\ Range(pl[p].sinks) = {n \in Nodes(p) : node[n].kind = "sink"}

(* PipelineOption: after MergePipeline the channel_size of 0 only "means   *)
(* that there are queues of several capacities": no queue has a capacity   *)
(* of 0, in which nothing could ever be pushed.                            *)
QueuesHoldSomething == \A q \in Queue : queue[q] > 0

=============================================================================
