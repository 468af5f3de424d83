---------------------------- MODULE PipelineNet ----------------------------
(***************************************************************************)
(* How the processors of a pipeline that runs are connected: what the      *)
(* operations that assemble a pipeline promise (PipelineGraph), and what   *)
(* its run relies on (PipelineRun).                                        *)
(***************************************************************************)
EXTENDS Naturals, Sequences, FiniteSets

(* The ports of a processor: the checks of before_work().  An embedding    *)
(* processor lends its ports to the pipeline that it runs.                 *)
Arity(kind, ins, outs) ==
    /\ kind \in {"none", "embed"} => ins = 0 /\ outs = 0
    /\ kind = "source" => ins = 0 /\ outs = 1
    /\ kind = "sink" => ins = 1 /\ outs = 0
    /\ kind = "concat" => ins >= 1 /\ outs = 1
    /\ kind \in {"dispatch", "fork"} => ins = 1 /\ outs >= 1
    /\ kind \in {"channel_source", "transform", "filter", "accumulate", "channel_sink"} =>
           ins = 1 /\ outs = 1

(* The processors in nodes, with their classes and their ports.  A queue   *)
(* has one reader, through one port, and at least one writer; an input of  *)
(* a Concat, or the channel of a ChannelSource, has one writer.            *)
IsWired(nodes, kind, in, out) ==
    /\ \A n \in nodes : Arity(kind[n], Len(in[n]), Len(out[n]))
    /\ \A m, n \in nodes : \A i \in DOMAIN in[m], j \in DOMAIN in[n] :
           in[m][i] = in[n][j] => m = n /\ i = j
    /\ \A n \in nodes : \A i, j \in DOMAIN out[n] : out[n][i] = out[n][j] => i = j
    /\ \A n \in nodes : \A i \in DOMAIN in[n] :
           LET writers == {m \in nodes : \E j \in DOMAIN out[m] : out[m][j] = in[n][i]}
           IN  /\ writers # {}
               /\ kind[n] \in {"concat", "channel_source"} => Cardinality(writers) = 1

=============================================================================
