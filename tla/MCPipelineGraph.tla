-------------------------- MODULE MCPipelineGraph --------------------------
(***************************************************************************)
(* PipelineGraph for TLC.  To get to a MergePipeline of several sinks and  *)
(* sources, and beyond one, with few processors, pipeline a has been built *)
(* already: it is a finished one (TwoByTwo), or what a MergePipeline with  *)
(* b has made (Merged).                                                    *)
(***************************************************************************)
EXTENDS PipelineGraph

(* Sources 1 and 2, with the sinks 4 and 3, the sink of 2 set first.       *)
TwoByTwo ==
    /\ node = << Processor("source", <<>>, <<2>>, 0), Processor("source", <<>>, <<1>>, 0),
                 Processor("sink", <<1>>, <<>>, 1), Processor("sink", <<2>>, <<>>, 1) >>
    /\ pl = [p \in Pipelines |->
               IF p = "a"
               THEN [nodes |-> 1..4, leaves |-> {}, dags |-> {<<2, 3>>, <<1, 4>>},
                     sources |-> <<1, 2>>, sinks |-> <<3, 4>>, channel_size |-> ChannelSize]
               ELSE EmptyPipeline]
    /\ gone = {}

(* Source 1 and sink 2 of a, source 3 and sink 4 of b: 2 and 3 became 5.   *)
Merged ==
    /\ node = << Processor("source", <<>>, <<1>>, 0), Processor("sink", <<1>>, <<>>, 1),
                 Processor("source", <<>>, <<2>>, 0), Processor("sink", <<2>>, <<>>, 1),
                 Processor("transform", <<1>>, <<2>>, 1) >>
    /\ pl = [p \in Pipelines |->
               IF p = "a"
               THEN [nodes |-> {1, 4, 5}, leaves |-> {}, dags |-> {<<1, 5>>, <<5, 4>>},
                     sources |-> <<1>>, sinks |-> <<4>>, channel_size |-> 0]
               ELSE EmptyPipeline]
    /\ gone = {"b"}

MCInit == (TwoByTwo \/ Merged) /\ queue = <<ChannelSize, ChannelSize>>

MCSpec == MCInit /\ [][Next]_vars

=============================================================================
