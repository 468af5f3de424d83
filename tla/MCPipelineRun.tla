--------------------------- MODULE MCPipelineRun ---------------------------
(***************************************************************************)
(* PipelineRun for TLC: the nets of the runs.  The processors are named    *)
(* for their places: s, s2 sources, m the one in the middle, b1, b2        *)
(* branches, c a Concat, k the sink.                                       *)
(***************************************************************************)
EXTENDS PipelineRun, TLC

MCNode == {"s", "s2", "m", "b1", "b2", "c", "k"}

(* Every source generates items items, every queue holds one, there is one *)
(* pipeline with an abort channel.                                         *)
Net(kind, in, out, items, throwers, throws) ==
    [kind |-> kind @@ [n \in Node |-> "none"],
     in |-> in @@ [n \in Node |-> <<>>],
     out |-> out @@ [n \in Node |-> <<>>],
     capacity |-> [c \in Channel |-> 1],
     pipeline |-> [n \in Node |-> "p"],
     bound |-> {"p"},
     abort |-> [p \in Pipeline |-> p],
     child |-> [n \in Node |-> "q"],
     items |-> [n \in Node |-> items],
     endless |-> {},
     filtered |-> {},
     throwers |-> throwers,
     throws |-> throws]

(* s -> b1 -> k                                                            *)
Chain(throws) ==
    Net("s" :> "source" @@ "b1" :> "transform" @@ "k" :> "sink",
        "b1" :> <<1>> @@ "k" :> <<2>>,
        "s" :> <<1>> @@ "b1" :> <<2>>, 2, Node, throws)
EndlessChain == [Chain(2) EXCEPT !.endless = {"s"}]

(* s and s2 merged into k                                                  *)
Merged ==
    Net("s" :> "source" @@ "s2" :> "source" @@ "k" :> "sink",
        "k" :> <<1>>,
        "s" :> <<1>> @@ "s2" :> <<1>>, 2, Node, 2)

(* s -> m -> (b1, b2), merged into k                                       *)
Branched(middle, first, second, throwers) ==
    Net("s" :> "source" @@ "m" :> middle @@ "b1" :> first @@ "b2" :> second @@ "k" :> "sink",
        "m" :> <<1>> @@ "b1" :> <<2>> @@ "b2" :> <<3>> @@ "k" :> <<4>>,
        "s" :> <<1>> @@ "m" :> <<2, 3>> @@ "b1" :> <<4>> @@ "b2" :> <<4>>, 2, throwers, 1)
Forked == [Branched("fork", "filter", "accumulate", {"b2"}) EXCEPT !.filtered = {<<"s", 1>>}]
Dispatching == Branched("dispatch", "transform", "transform", {"m"})

(* s and s2 concatenated in this order                                     *)
Concatenated ==
    Net("s" :> "source" @@ "s2" :> "source" @@ "c" :> "concat" @@ "k" :> "sink",
        "c" :> <<1, 2>> @@ "k" :> <<3>>,
        "s" :> <<1>> @@ "s2" :> <<2>> @@ "c" :> <<3>>, 2, {"s", "k"}, 1)

(* s -> m -> (b1, b2), concatenated by c                                   *)
ForkedAndConcatenated(items, throwers) ==
    Net("s" :> "source" @@ "m" :> "fork" @@ "b1" :> "transform" @@ "b2" :> "transform"
            @@ "c" :> "concat" @@ "k" :> "sink",
        "m" :> <<1>> @@ "b1" :> <<2>> @@ "b2" :> <<3>> @@ "c" :> <<4, 5>> @@ "k" :> <<6>>,
        "s" :> <<1>> @@ "m" :> <<2, 3>> @@ "b1" :> <<4>> @@ "b2" :> <<5>> @@ "c" :> <<6>>,
        items, throwers, 1)

(* Pipeline p, s -> m, a ChannelSink, and pipeline q, b1 -> k, which reads *)
(* from it and has no abort channel.                                       *)
Bridged ==
    [Net("s" :> "source" @@ "m" :> "channel_sink" @@ "b1" :> "channel_source" @@ "k" :> "sink",
         "m" :> <<1>> @@ "b1" :> <<2>> @@ "k" :> <<3>>,
         "s" :> <<1>> @@ "m" :> <<2>> @@ "b1" :> <<3>>, 2, {"s", "k"}, 2)
     EXCEPT !.pipeline = [n \in Node |-> IF n \in {"b1", "k"} THEN "q" ELSE "p"]]

(* Pipeline p, s -> k, and pipeline q, s2 -> b1 without end, share the     *)
(* abort channel of p.                                                     *)
Shared ==
    [Net("s" :> "source" @@ "k" :> "sink" @@ "s2" :> "source" @@ "b1" :> "sink",
         "k" :> <<1>> @@ "b1" :> <<2>>,
         "s" :> <<1>> @@ "s2" :> <<2>>, 1, {"k", "b1"}, 2)
     EXCEPT !.pipeline = [n \in Node |-> IF n \in {"s2", "b1"} THEN "q" ELSE "p"],
            !.bound = {"p", "q"}, !.abort = [p \in Pipeline |-> "p"], !.endless = {"s2"}]

(* s -> m -> k, where m runs the pipeline q, b1 -> c, on its ports.        *)
Embedded ==
    [Net("s" :> "source" @@ "m" :> "embed" @@ "k" :> "sink"
             @@ "b1" :> "channel_source" @@ "c" :> "channel_sink",
         "b1" :> <<1>> @@ "c" :> <<2>> @@ "k" :> <<3>>,
         "s" :> <<1>> @@ "b1" :> <<2>> @@ "c" :> <<3>>, 2, {"s", "k"}, 2)
     EXCEPT !.pipeline = [n \in Node |-> IF n \in {"b1", "c"} THEN "q" ELSE "p"]]

(* Three items and EOF are the most that fit into the queues of the second *)
(* branch while the first one is read.                                     *)
AllNets == {EndlessChain, Merged, Forked, Dispatching, Concatenated, Bridged,
            Shared, Embedded,
            [ForkedAndConcatenated(3, {}) EXCEPT !.bound = {}]}
TightNet == {ForkedAndConcatenated(4, {"k"})}

-----------------------------------------------------------------------------

Has(kind) == \E n \in Node : Kind[n] = kind
Finite == {s \in Node : Kind[s] = "source"} \ Endless
FromSource(s) == SelectSeq(got["k"], LAMBDA v : v[1] = s)
Times(v) == Cardinality({i \in DOMAIN got["k"] : got["k"][i] = v})
Succeeded == returned = Run /\ thrown = {}

(* Whatever the branches, an item reaches the sink at most once per path,  *)
(* and unless it is filtered exactly once per path when Run returns and    *)
(* nothing has thrown; an accumulator has counted all items.  The items of *)
(* the second input of a Concat come when those of the first are complete, *)
(* unless an exception has cut these short.                                *)
DeliveredOnce ==
    LET copies == IF Has("fork") /\ Has("concat") THEN 2 ELSE 1
    IN  /\ \A s \in Finite : \A i \in 1..Items[s] :
               IF <<s, i>> \in Filtered THEN Times(<<s, i>>) = 0
               ELSE /\ Times(<<s, i>>) <= copies
                    /\ Succeeded => Times(<<s, i>>) = copies
        /\ \A a \in Node : Kind[a] = "accumulate" /\ Succeeded =>
               FromSource(a) = << <<a, Items["s"]>> >>
        /\ Finite = {"s", "s2"} /\ Has("concat") /\ thrown = {} /\ FromSource("s2") # <<>> =>
               Len(FromSource("s")) = Items["s"]

=============================================================================
