------------------------- MODULE PipelineEofProofs -------------------------
(***************************************************************************)
(* Proofs about PipelineRun: the types, the ports and the EOFs, for all    *)
(* nets that the builder can make, any items, any number of exceptions and *)
(* any capacities.                                                         *)
(***************************************************************************)
EXTENDS PipelineRun, FiniteSetTheorems, SequenceTheorems, TLAPS

Reading == {"Pop", "PopAbort", "apply"}
Pushing == {"Push", "PushAbort"}

(* The locations of a processor are those of its class.                    *)
KindInv(n) ==
    /\ at[n] = "generate" => Kind[n] = "source"
    /\ at[n] = "Run" => Kind[n] = "embed"
    /\ at[n] \in Reading => Kind[n] \notin {"none", "source", "embed"}
    /\ at[n] \in Pushing => Kind[n] \notin {"none", "embed", "sink"}
    /\ at[n] = "after_work" => Kind[n] = "channel_sink"
    /\ at[n] \in {"PopAbort", "apply"} => val[n] # Nil

(* What is to be pushed: items only, or in the end an EOF to every output  *)
(* port that is open, through which nothing is pushed afterwards.          *)
ItemsPending(n) == \A k \in DOMAIN pending[n] : pending[n][k][2] # EOF
EofPending(n, s) ==
    /\ s # <<>> => s[Len(s)][2] = EOF
    /\ \A k \in DOMAIN s : outOpen[n][s[k][1]]
    /\ \A j \in DOMAIN Out[n] : outOpen[n][j] => \E k \in DOMAIN s : s[k] = <<j, EOF>>
    /\ \A k, l \in DOMAIN s : k < l /\ s[k][2] = EOF => s[k][1] # s[l][1]
AllOutputsOpen(n) == \A j \in DOMAIN Out[n] : outOpen[n][j]

(* Between Push and PushAbort the push at the head of pending is done.     *)
PendingInv(n) ==
    /\ at[n] \in Pushing => /\ pending[n] # <<>>
                            /\ \A k \in DOMAIN pending[n] : pending[n][k][1] \in DOMAIN Out[n]
    /\ at[n] = "Push" => \/ ItemsPending(n) /\ AllOutputsOpen(n)
                         \/ EofPending(n, pending[n])
    /\ at[n] = "PushAbort" => \/ ItemsPending(n) /\ AllOutputsOpen(n)
                              \/ /\ EofPending(n, Tail(pending[n]))
                                 /\ Len(pending[n]) = 1 => pending[n][1][2] = EOF
    /\ at[n] \in Reading \cup {"generate", "after_work"} => AllOutputsOpen(n)

(* A port is open as long as an EOF is expected from it; the port that is  *)
(* read, and those a Concat has still to read, are open.                   *)
InputInv(n) ==
    /\ at[n] \in Working \cup {"TryPush"} =>
           \A i \in DOMAIN In[n] : inOpen[n][i] <=> input_count[n][i] > 0
    /\ at[n] = "close_input" => \A i \in OpenInputs(n) : input_count[n][i] > 0
    /\ at[n] \in Reading \cup Pushing /\ Kind[n] # "source" =>
           /\ index[n] \in DOMAIN In[n]
           /\ \A i \in DOMAIN In[n] : i > index[n] => inOpen[n][i]
           /\ \/ inOpen[n][index[n]]
              \/ at[n] = "apply" /\ val[n] = EOF
              \/ at[n] \in Pushing /\ ~ ItemsPending(n)

(* There is a count and a flag for every port.                             *)
DomainInv(n) ==
    /\ DOMAIN input_count[n] = DOMAIN In[n]
    /\ DOMAIN inOpen[n] = DOMAIN In[n]
    /\ DOMAIN outOpen[n] = DOMAIN Out[n]

NodeInv(n) == KindInv(n) /\ PendingInv(n) /\ InputInv(n) /\ DomainInv(n)
PortInv == TypeOK /\ \A n \in Node : NodeInv(n)

-----------------------------------------------------------------------------

(* What the nets are made of.                                              *)
LEMMA NetFacts ==
  ASSUME net \in Nets
  PROVE  /\ Kind \in [Node -> Kinds]
         /\ In \in [Node -> Seq(Channel)] /\ Out \in [Node -> Seq(Channel)]
         /\ Capacity \in [Channel -> Nat \ {0}]
         /\ PipelineOf \in [Node -> Pipeline] /\ net.abort \in [Pipeline -> Pipeline]
         /\ Items \in [Node -> Nat]
         /\ Filtered \subseteq Item
         /\ \A n \in Node : Arity(Kind[n], Len(In[n]), Len(Out[n]))
         /\ \A m, n \in Node : \A i \in DOMAIN In[m], j \in DOMAIN In[n] :
                In[m][i] = In[n][j] => m = n /\ i = j
         /\ \A n \in Node : \A i, j \in DOMAIN Out[n] : Out[n][i] = Out[n][j] => i = j
  BY NetAssumption DEF NetType, IsNet, IsWired, Kind, In, Out, Capacity, PipelineOf, Items, Filtered

(* Every queue that is read has a writer, and the readers that expect one  *)
(* EOF have one.                                                           *)
LEMMA NetWriters ==
  ASSUME net \in Nets, NEW n \in Node, NEW i \in DOMAIN In[n]
  PROVE  /\ Writers(In[n][i]) # {}
         /\ Kind[n] \in {"concat", "channel_source"} => Cardinality(Writers(In[n][i])) = 1
  <1>1. IsNet(net)
    BY NetAssumption
  <1>2. \A m \in Node : \A k \in DOMAIN net.in[m] :
           /\ {l \in Node : \E j \in DOMAIN net.out[l] : net.out[l][j] = net.in[m][k]} # {}
           /\ net.kind[m] \in {"concat", "channel_source"} =>
                  Cardinality({l \in Node : \E j \in DOMAIN net.out[l] :
                                  net.out[l][j] = net.in[m][k]}) = 1
    BY <1>1, Zenon DEF IsNet, IsWired
  <1> QED BY <1>2 DEF Kind, In, Out, Writers

(* The writers of a queue can be counted.                                  *)
LEMMA WritersFinite ==
  ASSUME NEW c, NEW S, S \subseteq Writers(c)
  PROVE  IsFiniteSet(S) /\ Cardinality(S) \in Nat
  <1>1. S \subseteq Node
    BY DEF Writers
  <1> QED BY <1>1, NodeAssumption, FS_Subset, FS_CardinalityType

(* A reader starts with the number of its writers.                         *)
LEMMA InputCountIsWriters ==
  ASSUME net \in Nets, NEW n \in Node, NEW i \in DOMAIN In[n]
  PROVE  InputCount(n, i) = Cardinality(Writers(In[n][i])) /\ InputCount(n, i) \in Nat \ {0}
  <1> DEFINE W == Writers(In[n][i])
  <1>1. IsFiniteSet(W) /\ Cardinality(W) \in Nat
    BY WritersFinite
  <1>2. W # {} /\ (Kind[n] \in {"concat", "channel_source"} => Cardinality(W) = 1)
    BY NetWriters
  <1>3. Cardinality(W) # 0
    BY <1>1, <1>2, FS_EmptySet
  <1>4. InputCount(n, i) = Cardinality(W)
    BY <1>2 DEF InputCount, OneEofPerInput
  <1> QED BY <1>1, <1>3, <1>4

(* A function on the indices of a sequence is a sequence.                  *)
LEMMA SeqOnDomain ==
  ASSUME NEW S, NEW T, NEW s \in Seq(S), NEW f, f \in [DOMAIN s -> T]
  PROVE  f \in Seq(T) /\ DOMAIN f = DOMAIN s
  <1>1. DOMAIN s = 1..Len(s) /\ Len(s) \in Nat
    OBVIOUS
  <1>2. f \in [1..Len(s) -> T]
    BY <1>1
  <1> QED BY <1>1, <1>2, IsASeq

(* Replacing an element leaves a sequence of the same length.              *)
LEMMA SeqExcept ==
  ASSUME NEW S, NEW s \in Seq(S), NEW i \in DOMAIN s, NEW v \in S
  PROVE  /\ [s EXCEPT ![i] = v] \in Seq(S)
         /\ DOMAIN [s EXCEPT ![i] = v] = DOMAIN s
         /\ [s EXCEPT ![i] = v][i] = v
         /\ \A k \in DOMAIN s \ {i} : [s EXCEPT ![i] = v][k] = s[k]
  BY ExceptSeq

(* Where the rounds of a processor begin, by its class.                    *)
LEMMA BeginAt ==
  ASSUME NEW n \in Node
  PROVE  /\ Begin(n) \in {"done", "generate", "Run", "Pop"}
         /\ Begin(n) = "generate" => Kind[n] = "source"
         /\ Begin(n) = "Run" => Kind[n] = "embed"
         /\ Begin(n) = "Pop" => Kind[n] \notin {"none", "source", "embed"}
         /\ Kind[n] = "source" => Begin(n) = "generate"
         /\ Kind[n] \notin {"none", "source", "embed"} => Begin(n) = "Pop"
  BY DEF Begin

(* The ports a processor has, by its class.                                *)
LEMMA Ports ==
  ASSUME net \in Nets, NEW n \in Node
  PROVE  /\ Len(In[n]) \in Nat /\ DOMAIN In[n] = 1..Len(In[n])
         /\ Len(Out[n]) \in Nat /\ DOMAIN Out[n] = 1..Len(Out[n])
         /\ Kind[n] = "sink" => Len(Out[n]) = 0
         /\ Kind[n] \notin {"none", "embed", "source"} => Len(In[n]) >= 1
         /\ Kind[n] \notin {"none", "embed", "sink"} => Len(Out[n]) >= 1
         /\ Kind[n] \notin {"none", "embed", "sink", "dispatch", "fork"} => Len(Out[n]) = 1
         /\ Kind[n] \notin {"none", "embed", "source", "concat"} => Len(In[n]) = 1
  <1>1. Arity(Kind[n], Len(In[n]), Len(Out[n])) /\ Kind[n] \in Kinds
    BY NetFacts
  <1>2. In[n] \in Seq(Channel) /\ Out[n] \in Seq(Channel)
    BY NetFacts
  <1> QED BY <1>1, <1>2 DEF Arity, Kinds

(* The pipelines before they run.                                          *)
LEMMA InitPortInv == Init => PortInv
  <1> SUFFICES ASSUME Init PROVE PortInv
    OBVIOUS
  <1> USE NetFacts
  <1>0. net \in Nets
    BY DEF Init
  <1>1. \A n \in Node : Begin(n) \in Location
    BY BeginAt DEF Location, Working
  <1>2. \A n \in Node : /\ input_count[n] \in Seq(Nat) /\ DOMAIN input_count[n] = DOMAIN In[n]
                        /\ inOpen[n] \in Seq(BOOLEAN) /\ DOMAIN inOpen[n] = DOMAIN In[n]
                        /\ outOpen[n] \in Seq(BOOLEAN) /\ DOMAIN outOpen[n] = DOMAIN Out[n]
    <2> SUFFICES ASSUME NEW n \in Node
                 PROVE  /\ input_count[n] \in Seq(Nat) /\ DOMAIN input_count[n] = DOMAIN In[n]
                        /\ inOpen[n] \in Seq(BOOLEAN) /\ DOMAIN inOpen[n] = DOMAIN In[n]
                        /\ outOpen[n] \in Seq(BOOLEAN) /\ DOMAIN outOpen[n] = DOMAIN Out[n]
      OBVIOUS
    <2>1. In[n] \in Seq(Channel) /\ Out[n] \in Seq(Channel)
      BY <1>0
    <2>2. /\ input_count[n] \in [DOMAIN In[n] -> Nat]
          /\ inOpen[n] \in [DOMAIN In[n] -> BOOLEAN]
          /\ outOpen[n] \in [DOMAIN Out[n] -> BOOLEAN]
      BY <1>0, InputCountIsWriters DEF Init
    <2> QED BY <2>1, <2>2, SeqOnDomain
  <1>3. TypeOK
    <2>1. at \in [Node -> Location]
      BY <1>1 DEF Init
    <2>2. chan \in [Channel -> Seq(Item \cup {EOF})] /\ \A c \in Channel : Len(chan[c]) <= Capacity[c]
      BY <1>0 DEF Init
    <2>3. /\ input_count \in [Node -> Seq(Nat)]
          /\ inOpen \in [Node -> Seq(BOOLEAN)]
          /\ outOpen \in [Node -> Seq(BOOLEAN)]
      BY <1>2 DEF Init
    <2>4. /\ abort_channel \in [Pipeline -> 0..AbortCapacity]
          /\ val \in [Node -> Item \cup {EOF, Nil}]
          /\ pending \in [Node -> Seq(Nat \X (Item \cup {EOF}))]
          /\ index \in [Node -> Nat] /\ made \in [Node -> Nat]
          /\ got \in [Node -> Seq(Item)]
      BY AbortAssumption DEF Init
    <2> QED BY <1>0, <2>1, <2>2, <2>3, <2>4 DEF Init, TypeOK
  <1>4. ASSUME NEW n \in Node PROVE NodeInv(n)
    <2>1. KindInv(n)
      BY BeginAt DEF Init, KindInv, Reading, Pushing
    <2>2. PendingInv(n)
      BY BeginAt DEF Init, PendingInv, AllOutputsOpen, Pushing
    <2>3. InputInv(n)
      <3>1. \A i \in DOMAIN In[n] : inOpen[n][i] /\ input_count[n][i] > 0
        BY <1>0, InputCountIsWriters DEF Init
      <3>2. at[n] \notin {"close_input"} \cup Pushing /\ index[n] = 1
        BY BeginAt DEF Init, Pushing
      <3>3. at[n] \in Reading => Len(In[n]) >= 1
        BY <1>0, Ports, BeginAt DEF Init, Reading
      <3>4. In[n] \in Seq(Channel)
        BY <1>0
      <3> QED BY <3>1, <3>2, <3>3, <3>4 DEF InputInv
    <2> QED BY <1>2, <2>1, <2>2, <2>3 DEF NodeInv, DomainInv
  <1> QED BY <1>3, <1>4 DEF PortInv

-----------------------------------------------------------------------------

Value == Item \cup {EOF}

(* The pushes that work() makes for a value.                               *)
LEMMA PushesCases ==
  ASSUME NEW n \in Node, NEW v \in Value, net \in Nets
  PROVE  /\ Kind[n] = "fork" => Pushes(n, v) = {ToEveryOutput(n, v)}
         /\ Kind[n] = "dispatch" => Pushes(n, v) = Dispatched(n, v)
         /\ Kind[n] = "accumulate" => Pushes(n, v) = {Accumulated(n, v)}
         /\ Kind[n] = "sink" => Pushes(n, v) = {<<>>}
         /\ Kind[n] = "channel_sink" /\ v = EOF => Pushes(n, v) = {<<>>}
         /\ NextInput(n, v) => Pushes(n, v) = {<<>>}
         /\ Kind[n] = "filter" => (Pushes(n, v) = {<<>>} /\ v # EOF) \/ Pushes(n, v) = {<< <<1, v>> >>}
         /\ Kind[n] = "concat" /\ ~ NextInput(n, v) => Pushes(n, v) = {<< <<1, v>> >>}
         /\ Kind[n] = "channel_sink" /\ v # EOF => Pushes(n, v) = {<< <<1, v>> >>}
         /\ Kind[n] \in {"none", "source", "embed", "channel_source", "transform"} =>
                Pushes(n, v) = {<< <<1, v>> >>}
  <1>1. ~ Dropped(EOF)
    BY NetFacts, ValueAssumption DEF Dropped
  <1>2. CASE Kind[n] = "fork"
    BY <1>2 DEF Pushes, NextInput
  <1>3. CASE Kind[n] = "dispatch"
    BY <1>3 DEF Pushes, NextInput
  <1>4. CASE Kind[n] = "accumulate"
    BY <1>4 DEF Pushes, NextInput
  <1>5. CASE Kind[n] = "sink"
    BY <1>5 DEF Pushes, NextInput
  <1>6. CASE Kind[n] = "channel_sink"
    BY <1>6 DEF Pushes, NextInput
  <1>7. CASE Kind[n] = "concat"
    BY <1>7 DEF Pushes, NextInput
  <1>8. CASE Kind[n] = "filter"
    BY <1>1, <1>8 DEF Pushes, NextInput
  <1>9. CASE Kind[n] \in {"none", "source", "embed", "channel_source", "transform"}
    BY <1>9 DEF Pushes, NextInput
  <1>10. Kind[n] \in Kinds
    BY NetFacts
  <1> QED BY <1>2, <1>3, <1>4, <1>5, <1>6, <1>7, <1>8, <1>9, <1>10 DEF Kinds

(* Pushes of items, and pushes that end with an EOF for every output.      *)
PushSeq == Seq(Nat \X Value)
ItemPushes(n, s) == \A k \in DOMAIN s : s[k][1] \in DOMAIN Out[n] /\ s[k][2] # EOF
EofPushes(n, s) ==
    /\ \A k \in DOMAIN s : s[k][1] \in DOMAIN Out[n]
    /\ s[Len(s)][2] = EOF
    /\ \A j \in DOMAIN Out[n] : \E k \in DOMAIN s : s[k] = <<j, EOF>>
    /\ \A k, l \in DOMAIN s : k < l /\ s[k][2] = EOF => s[k][1] # s[l][1]
GoodPushes(n, v, s) == /\ s \in PushSeq /\ s # <<>>
                       /\ IF v = EOF THEN EofPushes(n, s) ELSE ItemPushes(n, s)

(* The push of a processor with one output.                                *)
LEMMA OnePush ==
  ASSUME net \in Nets, NEW n \in Node, NEW v \in Value,
         Kind[n] \notin {"none", "embed", "sink", "dispatch", "fork"}
  PROVE  GoodPushes(n, v, << <<1, v>> >>)
  <1> DEFINE s == << <<1, v>> >>
  <1>1. s \in PushSeq /\ s # <<>> /\ Len(s) = 1 /\ DOMAIN s = {1} /\ s[1] = <<1, v>>
    BY DEF PushSeq
  <1>2. DOMAIN Out[n] = {1}
    BY Ports
  <1> HIDE DEF s
  <1>3. GoodPushes(n, v, s)
    BY <1>1, <1>2 DEF GoodPushes, ItemPushes, EofPushes
  <1> QED BY <1>3 DEF s

(* The loop over the outputs.                                              *)
LEMMA EveryOutput ==
  ASSUME net \in Nets, NEW n \in Node, NEW v \in Value, Kind[n] \in {"dispatch", "fork"}
  PROVE  GoodPushes(n, v, ToEveryOutput(n, v))
  <1> DEFINE s == ToEveryOutput(n, v)
  <1>1. Len(Out[n]) \in Nat /\ Len(Out[n]) >= 1 /\ DOMAIN Out[n] = 1..Len(Out[n]) /\ Out[n] \in Seq(Channel)
    BY Ports, NetFacts
  <1>2. s \in [DOMAIN Out[n] -> Nat \X Value] /\ \A j \in DOMAIN Out[n] : s[j] = <<j, v>>
    BY <1>1 DEF ToEveryOutput
  <1> HIDE DEF s
  <1>3. s \in PushSeq /\ DOMAIN s = DOMAIN Out[n]
    BY <1>1, <1>2, SeqOnDomain DEF PushSeq
  <1>4. Len(s) = Len(Out[n]) /\ s # <<>>
    BY <1>1, <1>3 DEF PushSeq
  <1> QED BY <1>1, <1>2, <1>3, <1>4 DEF GoodPushes, ItemPushes, EofPushes, s

(* The item that dispatch() sends to one output.                           *)
LEMMA DispatchOne ==
  ASSUME net \in Nets, NEW n \in Node, NEW v \in Value, v # EOF, NEW j \in DOMAIN Out[n]
  PROVE  GoodPushes(n, v, << <<j, v>> >>)
  <1> DEFINE s == << <<j, v>> >>
  <1>0. j \in Nat
    BY Ports
  <1>1. s \in PushSeq /\ s # <<>> /\ Len(s) = 1 /\ DOMAIN s = {1} /\ s[1] = <<j, v>>
    BY <1>0 DEF PushSeq
  <1> HIDE DEF s
  <1>2. GoodPushes(n, v, s)
    BY <1>1 DEF GoodPushes, ItemPushes
  <1> QED BY <1>2 DEF s

(* The result of Accumulate and EOF.                                       *)
LEMMA AccumulateTwo ==
  ASSUME net \in Nets, NEW n \in Node, made[n] \in Nat, Kind[n] = "accumulate"
  PROVE  GoodPushes(n, EOF, Accumulated(n, EOF))
  <1> DEFINE s == << <<1, <<n, made[n]>> >>, <<1, EOF>> >>
  <1>0. <<n, made[n]>> \in Item
    BY DEF Item
  <1>1. s \in PushSeq /\ s # <<>> /\ Len(s) = 2 /\ DOMAIN s = 1..2
    BY <1>0 DEF PushSeq, Value
  <1>2. s[1] = <<1, <<n, made[n]>> >> /\ s[2] = <<1, EOF>>
    OBVIOUS
  <1>3. DOMAIN Out[n] = {1}
    BY Ports
  <1>4. s = Accumulated(n, EOF)
    BY DEF Accumulated
  <1> HIDE DEF s
  <1>5. s[1][2] # EOF
    BY <1>0, <1>2, ValueAssumption
  <1>6. GoodPushes(n, EOF, s)
    BY <1>1, <1>2, <1>3, <1>5 DEF GoodPushes, EofPushes
  <1> QED BY <1>4, <1>6

(* What Apply pushes is in order: EOF goes to every output, and last.      *)
LEMMA PushesGood ==
  ASSUME net \in Nets, NEW n \in Node, NEW v \in Value, made[n] \in Nat,
         Kind[n] \notin {"none", "source", "embed"}, NEW todo \in Pushes(n, v)
  PROVE  \/ /\ todo = <<>>
            /\ v # EOF \/ NextInput(n, v) \/ Kind[n] \in {"sink", "channel_sink"}
         \/ GoodPushes(n, v, todo) /\ Kind[n] # "sink" /\ ~ NextInput(n, v)
  <1> USE PushesCases
  <1>1. CASE Kind[n] = "fork"
    BY <1>1, EveryOutput DEF NextInput
  <1>2. CASE Kind[n] = "dispatch"
    BY <1>2, EveryOutput, DispatchOne DEF Dispatched, NextInput
  <1>3. CASE Kind[n] = "accumulate"
    <2>1. CASE v = EOF
      BY <1>3, <2>1, AccumulateTwo DEF NextInput
    <2>2. CASE v # EOF
      BY <1>3, <2>2 DEF Accumulated
    <2> QED BY <2>1, <2>2
  <1>4. CASE Kind[n] \in {"channel_sink", "filter", "channel_source", "transform"}
    BY <1>4, OnePush DEF NextInput
  <1>5. CASE Kind[n] = "concat"
    BY <1>5, OnePush
  <1>6. CASE Kind[n] = "sink"
    BY <1>6
  <1>7. Kind[n] \in Kinds
    BY NetFacts
  <1> QED BY <1>1, <1>2, <1>3, <1>4, <1>5, <1>6, <1>7 DEF Kinds

(* A processor with all its outputs open may begin such pushes.            *)
LEMMA StartPush ==
  ASSUME NEW n \in Node, NEW v, NEW s, GoodPushes(n, v, s), AllOutputsOpen(n),
         UNCHANGED net, outOpen'[n] = outOpen[n], at'[n] = "Push", pending'[n] = s
  PROVE  /\ PendingInv(n)'
         /\ v # EOF <=> ItemsPending(n)'
  <1>1. Out' = Out
    BY DEF Out
  <1>2. s \in PushSeq /\ Len(s) \in Nat /\ s # <<>> /\ Len(s) \in DOMAIN s
    BY DEF GoodPushes, PushSeq
  <1>3. v # EOF <=> ItemsPending(n)'
    BY <1>2 DEF GoodPushes, ItemPushes, EofPushes, ItemsPending
  <1>4. CASE v # EOF
    BY <1>1, <1>2, <1>3, <1>4 DEF GoodPushes, ItemPushes, PendingInv, AllOutputsOpen, Reading
  <1>5. CASE v = EOF
    <2>1. EofPending(n, s)'
      BY <1>1, <1>2, <1>5 DEF GoodPushes, EofPushes, EofPending, AllOutputsOpen
    <2> QED BY <1>1, <1>2, <1>3, <1>5, <2>1 DEF GoodPushes, EofPushes, PendingInv, Reading
  <1> QED BY <1>3, <1>4, <1>5

-----------------------------------------------------------------------------

(* What the invariant says of m has not changed.                           *)
Same(m) ==
    /\ at'[m] = at[m] /\ val'[m] = val[m] /\ pending'[m] = pending[m] /\ index'[m] = index[m]
    /\ input_count'[m] = input_count[m] /\ inOpen'[m] = inOpen[m] /\ outOpen'[m] = outOpen[m]

LEMMA FrameNode ==
  ASSUME NEW m \in Node, NodeInv(m), UNCHANGED net, Same(m)
  PROVE  NodeInv(m)'
  <1>1. In' = In /\ Out' = Out /\ Kind' = Kind
    BY DEF In, Out, Kind
  <1>2. KindInv(m)'
    BY <1>1 DEF NodeInv, KindInv, Same
  <1>3. EofPending(m, pending[m])' <=> EofPending(m, pending[m])
    BY <1>1 DEF EofPending, Same
  <1>4. EofPending(m, Tail(pending[m]))' <=> EofPending(m, Tail(pending[m]))
    BY <1>1 DEF EofPending, Same
  <1>5. (ItemsPending(m)' <=> ItemsPending(m)) /\ (AllOutputsOpen(m)' <=> AllOutputsOpen(m))
    BY <1>1 DEF ItemsPending, AllOutputsOpen, Same
  <1>6. PendingInv(m)'
    BY <1>1, <1>3, <1>4, <1>5 DEF NodeInv, PendingInv, Same
  <1>7. InputInv(m)'
    <2>1. OpenInputs(m)' = OpenInputs(m)
      BY <1>1 DEF OpenInputs, Same
    <2> QED BY <1>1, <1>5, <2>1 DEF NodeInv, InputInv, Same
  <1>8. DomainInv(m)'
    BY <1>1 DEF NodeInv, DomainInv, Same
  <1> QED BY <1>2, <1>6, <1>7, <1>8 DEF NodeInv

(* A step of n leaves the other processors alone.                          *)
LEMMA OthersSame ==
  ASSUME TypeOK, NEW n \in Node, NEW m \in Node \ {n}, Step(n)
  PROVE  Same(m)
  <1> USE DEF TypeOK, Same, work, ports, run, Goto
  <1>1. CASE Generate(n)
    BY <1>1 DEF Generate
  <1>2. CASE UserThrow(n)
    BY <1>2 DEF UserThrow, Throw
  <1>3. CASE Pop(n)
    BY <1>3 DEF Pop
  <1>4. CASE PopAbort(n)
    BY <1>4 DEF PopAbort, AbortReceived, Throw
  <1>5. CASE Apply(n)
    BY <1>5 DEF Apply
  <1>6. CASE Push(n)
    BY <1>6 DEF Push, AfterPush
  <1>7. CASE PushAbort(n)
    BY <1>7 DEF PushAbort, AfterPush, AbortReceived, Throw
  <1>8. CASE AfterWork(n)
    BY <1>8 DEF AfterWork
  <1>9. CASE RunEmbedded(n)
    BY <1>9 DEF RunEmbedded
  <1>10. CASE NotifyAbort(n)
    BY <1>10 DEF NotifyAbort
  <1>11. CASE CloseInput(n)
    BY <1>11 DEF CloseInput
  <1>12. CASE InputsClosed(n)
    BY <1>12 DEF InputsClosed
  <1>13. CASE CloseOutput(n)
    BY <1>13 DEF CloseOutput
  <1>14. CASE Rethrow(n)
    BY <1>14 DEF Rethrow
  <1> QED BY <1>1, <1>2, <1>3, <1>4, <1>5, <1>6, <1>7, <1>8, <1>9, <1>10, <1>11, <1>12, <1>13, <1>14 DEF Step

-----------------------------------------------------------------------------

(* The queue operations.                                                   *)
LEMMA DequeueType ==
  ASSUME TypeOK, UNCHANGED net, NEW c \in Channel, Dequeue(c)
  PROVE  /\ Head(chan[c]) \in Value
         /\ chan' \in [Channel -> Seq(Item \cup {EOF})]
         /\ \A d \in Channel : Len(chan'[d]) <= Capacity'[d]
  <1>1. Capacity' = Capacity /\ Capacity \in [Channel -> Nat \ {0}]
    BY NetFacts DEF Capacity, TypeOK
  <1>2. chan[c] \in Seq(Item \cup {EOF}) /\ chan[c] # <<>>
    BY DEF TypeOK, Dequeue
  <1>3. Head(chan[c]) \in Value /\ Tail(chan[c]) \in Seq(Item \cup {EOF}) /\ Len(Tail(chan[c])) = Len(chan[c]) - 1
    BY <1>2 DEF Value
  <1>4. /\ chan \in [Channel -> Seq(Item \cup {EOF})] /\ \A d \in Channel : Len(chan[d]) <= Capacity[d]
        /\ chan' = [chan EXCEPT ![c] = Tail(chan[c])]
    BY DEF TypeOK, Dequeue
  <1>5. chan' \in [Channel -> Seq(Item \cup {EOF})]
    BY <1>3, <1>4
  <1>6. ASSUME NEW d \in Channel PROVE Len(chan'[d]) <= Capacity[d]
    <2>1. Len(chan[d]) <= Capacity[d] /\ Len(chan[d]) \in Nat /\ Capacity[d] \in Nat
      BY <1>1, <1>4
    <2>2. CASE d = c
      BY <1>2, <1>3, <1>4, <2>1, <2>2
    <2>3. CASE d # c
      BY <1>4, <2>1, <2>3
    <2> QED BY <2>2, <2>3
  <1> QED BY <1>1, <1>3, <1>5, <1>6

LEMMA EnqueueType ==
  ASSUME TypeOK, UNCHANGED net, NEW c \in Channel, NEW v \in Value, Enqueue(c, v)
  PROVE  /\ chan' \in [Channel -> Seq(Item \cup {EOF})]
         /\ \A d \in Channel : Len(chan'[d]) <= Capacity'[d]
  <1>1. Capacity' = Capacity /\ Capacity \in [Channel -> Nat \ {0}]
    BY NetFacts DEF Capacity, TypeOK
  <1>2. chan[c] \in Seq(Item \cup {EOF})
    BY DEF TypeOK
  <1>3. Append(chan[c], v) \in Seq(Item \cup {EOF}) /\ Len(Append(chan[c], v)) = Len(chan[c]) + 1
    BY <1>2 DEF Value
  <1>4. /\ chan \in [Channel -> Seq(Item \cup {EOF})] /\ \A d \in Channel : Len(chan[d]) <= Capacity[d]
        /\ chan' = [chan EXCEPT ![c] = Append(chan[c], v)] /\ Len(chan[c]) < Capacity[c]
    BY DEF TypeOK, Enqueue
  <1>5. chan' \in [Channel -> Seq(Item \cup {EOF})]
    BY <1>3, <1>4
  <1>6. ASSUME NEW d \in Channel PROVE Len(chan'[d]) <= Capacity[d]
    <2>1. Len(chan[d]) <= Capacity[d] /\ Len(chan[d]) \in Nat /\ Capacity[d] \in Nat
      BY <1>1, <1>4
    <2>2. CASE d = c
      BY <1>2, <1>3, <1>4, <2>1, <2>2
    <2>3. CASE d # c
      BY <1>4, <2>1, <2>3
    <2> QED BY <2>2, <2>3
  <1> QED BY <1>1, <1>5, <1>6

(* work_with_exception catches an exception: the ports stay as they are.   *)
LEMMA ThrowInv ==
  ASSUME PortInv, UNCHANGED <<net, val, pending, index, input_count, inOpen, outOpen>>,
         NEW n \in Node, Throw(n), at[n] \in Working
  PROVE  at' \in [Node -> Location] /\ crashed' \in BOOLEAN /\ NodeInv(n)'
  <1>0. TypeOK /\ NodeInv(n)
    BY DEF PortInv
  <1>1. CASE bound(n)
    <2>1. at'[n] = "TryPush" /\ at' \in [Node -> Location] /\ crashed' \in BOOLEAN
      BY <1>0, <1>1 DEF Throw, Goto, TypeOK, Location, Hosted
    <2>2. Kind' = Kind /\ In' = In /\ Out' = Out
      BY DEF Kind, In, Out
    <2>3. KindInv(n)' /\ PendingInv(n)'
      BY <2>1 DEF KindInv, PendingInv, Reading, Pushing
    <2>4. InputInv(n)' /\ DomainInv(n)'
      BY <1>0, <2>1, <2>2 DEF NodeInv, InputInv, DomainInv, Working, Reading, Pushing
    <2> QED BY <2>1, <2>3, <2>4 DEF NodeInv
  <1>2. CASE ~ bound(n)
    <2>1. at' = at /\ crashed' = TRUE
      BY <1>2 DEF Throw
    <2> QED BY <1>0, <2>1, FrameNode DEF Same, TypeOK
  <1> QED BY <1>1, <1>2

LEMMA GenerateInv ==
  ASSUME PortInv, UNCHANGED net, NEW n \in Node, Generate(n)
  PROVE  TypeOK' /\ NodeInv(n)'
  <1>0. TypeOK /\ NodeInv(n) /\ net \in Nets
    BY DEF PortInv, TypeOK
  <1>1. Kind[n] = "source" /\ at[n] = "generate" /\ AllOutputsOpen(n)
    BY <1>0 DEF Generate, NodeInv, KindInv, PendingInv
  <1>2. Kind' = Kind /\ In' = In /\ Out' = Out /\ Capacity' = Capacity
    BY DEF Kind, In, Out, Capacity
  <1>3. at'[n] = "Push" /\ at' \in [Node -> Location]
    BY <1>0 DEF Generate, Goto, TypeOK, Location, Working
  <1>4. PICK v \in Value : pending' = [pending EXCEPT ![n] = << <<1, v>> >>]
    <2>1. <<n, 0>> \in Value /\ <<n, made[n] + 1>> \in Value /\ EOF \in Value
      BY <1>0 DEF Value, Item, TypeOK
    <2> QED BY <2>1 DEF Generate
  <1>5. GoodPushes(n, v, << <<1, v>> >>)
    BY <1>0, <1>1, OnePush
  <1>6. pending'[n] = << <<1, v>> >> /\ pending' \in [Node -> Seq(Nat \X (Item \cup {EOF}))]
    BY <1>0, <1>4, <1>5 DEF TypeOK, GoodPushes, PushSeq, Value
  <1>7. made' \in [Node -> Nat]
    <2>1. made \in [Node -> Nat]
      BY <1>0 DEF TypeOK
    <2>2. made' = made \/ made' = [made EXCEPT ![n] = made[n] + 1]
      BY DEF Generate
    <2> QED BY <2>1, <2>2
  <1>8. TypeOK'
    BY <1>0, <1>2, <1>3, <1>6, <1>7 DEF Generate, TypeOK, ports, run
  <1>9. PendingInv(n)'
    BY <1>1, <1>3, <1>5, <1>6, StartPush DEF Generate, ports
  <1>10. KindInv(n)' /\ DomainInv(n)' /\ InputInv(n)'
    BY <1>0, <1>1, <1>2, <1>3 DEF Generate, ports, NodeInv, KindInv, DomainInv, InputInv, Reading, Pushing, Working
  <1> QED BY <1>8, <1>9, <1>10 DEF NodeInv

LEMMA UserThrowInv ==
  ASSUME PortInv, UNCHANGED net, NEW n \in Node, UserThrow(n)
  PROVE  TypeOK' /\ NodeInv(n)'
  <1>0. TypeOK
    BY DEF PortInv
  <1>1. at[n] \in Working
    BY DEF UserThrow, Working
  <1>2. at' \in [Node -> Location] /\ crashed' \in BOOLEAN /\ NodeInv(n)'
    BY <1>1, ThrowInv DEF UserThrow, work, ports
  <1>3. Capacity' = Capacity
    BY DEF Capacity
  <1> QED BY <1>0, <1>2, <1>3 DEF UserThrow, TypeOK, work, ports

LEMMA AbortReceivedInv ==
  ASSUME PortInv, NEW n \in Node, AbortReceived(n), at[n] \in Working,
         UNCHANGED <<net, chan, work, ports, thrown, returned>>
  PROVE  TypeOK' /\ NodeInv(n)'
  <1>0. TypeOK /\ net \in Nets
    BY DEF PortInv, TypeOK
  <1>1. at' \in [Node -> Location] /\ crashed' \in BOOLEAN /\ NodeInv(n)'
    BY ThrowInv DEF AbortReceived, work, ports
  <1>2. abort_channel' \in [Pipeline -> 0..AbortCapacity]
    <2>1. AbortOf(n) \in Pipeline
      BY <1>0, NetFacts DEF AbortOf
    <2> QED BY <1>0, <2>1, AbortAssumption DEF AbortReceived, token, TypeOK
  <1>3. Capacity' = Capacity
    BY DEF Capacity
  <1> QED BY <1>0, <1>1, <1>2, <1>3 DEF TypeOK, work, ports

(* Processor::Pop: the port that is read is open until the last EOF.       *)
LEMMA PopInv ==
  ASSUME PortInv, UNCHANGED net, NEW n \in Node, Pop(n)
  PROVE  TypeOK' /\ NodeInv(n)'
  <1> DEFINE i == index[n]
             v == Head(chan[In[n][i]])
             last == v = EOF /\ input_count[n][i] = 1
  <1>0. TypeOK /\ NodeInv(n) /\ net \in Nets /\ at[n] = "Pop"
    BY DEF PortInv, TypeOK, Pop
  <1>1. /\ Kind[n] \notin {"none", "source", "embed"} /\ AllOutputsOpen(n)
        /\ i \in DOMAIN In[n] /\ inOpen[n][i] /\ input_count[n][i] > 0
        /\ \A k \in DOMAIN In[n] : inOpen[n][k] <=> input_count[n][k] > 0
        /\ \A k \in DOMAIN In[n] : k > i => inOpen[n][k]
    BY <1>0 DEF NodeInv, KindInv, PendingInv, InputInv, Reading, Pushing, Working
  <1>2. Kind' = Kind /\ In' = In /\ Out' = Out /\ Capacity' = Capacity
    BY DEF Kind, In, Out, Capacity
  <1>3. In[n][i] \in Channel
    BY <1>0, <1>1, NetFacts
  <1>4. /\ v \in Value
        /\ chan' \in [Channel -> Seq(Item \cup {EOF})]
        /\ \A d \in Channel : Len(chan'[d]) <= Capacity'[d]
    BY <1>0, <1>3, DequeueType DEF Pop
  <1>5. /\ input_count[n] \in Seq(Nat) /\ DOMAIN input_count[n] = DOMAIN In[n]
        /\ inOpen[n] \in Seq(BOOLEAN) /\ DOMAIN inOpen[n] = DOMAIN In[n]
        /\ outOpen'[n] = outOpen[n] /\ DOMAIN outOpen[n] = DOMAIN Out[n]
        /\ index' = index
    BY <1>0 DEF TypeOK, NodeInv, DomainInv, Pop
  <1> HIDE DEF i, v
  <1>6. /\ input_count' = IF v = EOF THEN [input_count EXCEPT ![n] = [input_count[n] EXCEPT ![i] = input_count[n][i] - 1]]
                                     ELSE input_count
        /\ inOpen' = IF last THEN [inOpen EXCEPT ![n] = [inOpen[n] EXCEPT ![i] = FALSE]] ELSE inOpen
    BY DEF Pop, i, v
  <1>7. /\ at'[n] = (IF last THEN "apply" ELSE IF bound(n) THEN "PopAbort" ELSE IF v = EOF THEN "Pop" ELSE "apply")
        /\ at' \in [Node -> Location]
        /\ val'[n] = v /\ val' \in [Node -> Item \cup {EOF, Nil}]
    BY <1>0, <1>4 DEF Pop, Goto, TypeOK, Location, Working, Value, i, v
  <1>8. input_count[n][i] - 1 \in Nat
    BY <1>1, <1>5
  <1>9. /\ input_count' \in [Node -> Seq(Nat)] /\ DOMAIN input_count'[n] = DOMAIN In[n]
        /\ v = EOF => input_count'[n][i] = input_count[n][i] - 1
        /\ v # EOF => input_count'[n][i] = input_count[n][i]
        /\ \A k \in DOMAIN In[n] \ {i} : input_count'[n][k] = input_count[n][k]
    <2>1. input_count \in [Node -> Seq(Nat)]
      BY <1>0 DEF TypeOK
    <2>2. /\ [input_count[n] EXCEPT ![i] = input_count[n][i] - 1] \in Seq(Nat)
          /\ DOMAIN [input_count[n] EXCEPT ![i] = input_count[n][i] - 1] = DOMAIN In[n]
          /\ [input_count[n] EXCEPT ![i] = input_count[n][i] - 1][i] = input_count[n][i] - 1
          /\ \A k \in DOMAIN In[n] \ {i} : [input_count[n] EXCEPT ![i] = input_count[n][i] - 1][k] = input_count[n][k]
      BY <1>1, <1>5, <1>8, SeqExcept
    <2> QED BY <1>5, <1>6, <2>1, <2>2
  <1>10. /\ inOpen' \in [Node -> Seq(BOOLEAN)] /\ DOMAIN inOpen'[n] = DOMAIN In[n]
         /\ last => ~ inOpen'[n][i]
         /\ ~ last => (inOpen'[n][i] <=> inOpen[n][i])
         /\ \A k \in DOMAIN In[n] \ {i} : inOpen'[n][k] = inOpen[n][k]
    <2>1. inOpen \in [Node -> Seq(BOOLEAN)]
      BY <1>0 DEF TypeOK
    <2>2. /\ [inOpen[n] EXCEPT ![i] = FALSE] \in Seq(BOOLEAN)
          /\ DOMAIN [inOpen[n] EXCEPT ![i] = FALSE] = DOMAIN In[n]
          /\ [inOpen[n] EXCEPT ![i] = FALSE][i] = FALSE
          /\ \A k \in DOMAIN In[n] \ {i} : [inOpen[n] EXCEPT ![i] = FALSE][k] = inOpen[n][k]
      BY <1>1, <1>5, SeqExcept
    <2> QED BY <1>5, <1>6, <2>1, <2>2
  <1>11. TypeOK'
    BY <1>0, <1>2, <1>4, <1>7, <1>9, <1>10 DEF Pop, TypeOK, run
  <1>12. KindInv(n)'
    BY <1>1, <1>2, <1>4, <1>7, ValueAssumption DEF KindInv, Reading, Pushing, Value
  <1>13. PendingInv(n)'
    BY <1>1, <1>2, <1>5, <1>7 DEF PendingInv, Pushing, AllOutputsOpen
  <1>14. InputInv(n)'
    <2>1. at'[n] \in {"Pop", "PopAbort", "apply"} /\ (last => at'[n] = "apply")
      BY <1>7
    <2>2. index'[n] = i
      BY <1>5 DEF i
    <2>3. \A k \in DOMAIN In[n] : inOpen'[n][k] <=> input_count'[n][k] > 0
      <3>1. input_count[n][i] \in Nat
        BY <1>1, <1>5
      <3>2. inOpen'[n][i] <=> input_count'[n][i] > 0
        BY <1>1, <1>8, <1>9, <1>10, <3>1
      <3>3. \A k \in DOMAIN In[n] \ {i} : inOpen'[n][k] <=> input_count'[n][k] > 0
        BY <1>1, <1>9, <1>10
      <3> QED BY <3>2, <3>3
    <2>4. \A k \in DOMAIN In[n] : k > i => inOpen'[n][k]
      BY <1>0, <1>1, <1>10, Ports
    <2>5. inOpen'[n][i] \/ (at'[n] = "apply" /\ val'[n] = EOF)
      BY <1>1, <1>7, <1>10, <2>1
    <2> QED BY <1>1, <1>2, <2>1, <2>2, <2>3, <2>4, <2>5 DEF InputInv, Reading, Pushing
  <1>15. DomainInv(n)'
    BY <1>2, <1>5, <1>9, <1>10 DEF DomainInv
  <1> QED BY <1>11, <1>12, <1>13, <1>14, <1>15 DEF NodeInv

LEMMA PopAbortInv ==
  ASSUME PortInv, UNCHANGED net, NEW n \in Node, PopAbort(n)
  PROVE  TypeOK' /\ NodeInv(n)'
  <1>0. TypeOK /\ NodeInv(n) /\ at[n] = "PopAbort"
    BY DEF PortInv, PopAbort
  <1>1. CASE AbortReceived(n)
    BY <1>0, <1>1, AbortReceivedInv DEF PopAbort, Working
  <1>2. CASE ~ AbortReceived(n)
    <2>1. /\ abort_channel' = abort_channel /\ crashed' = crashed
          /\ at'[n] = (IF val[n] = EOF THEN "Pop" ELSE "apply") /\ at' \in [Node -> Location]
      BY <1>0, <1>2 DEF PopAbort, AbortChecked, Goto, TypeOK, Location, Working
    <2>2. Kind' = Kind /\ In' = In /\ Out' = Out /\ Capacity' = Capacity
      BY DEF Kind, In, Out, Capacity
    <2>3. TypeOK'
      BY <1>0, <2>1, <2>2 DEF PopAbort, TypeOK, work, ports
    <2>4. KindInv(n)' /\ DomainInv(n)'
      BY <1>0, <2>1, <2>2 DEF PopAbort, NodeInv, KindInv, DomainInv, Reading, Pushing, work, ports
    <2>5. PendingInv(n)'
      BY <1>0, <2>1, <2>2 DEF PopAbort, NodeInv, PendingInv, AllOutputsOpen, Reading, Pushing, work, ports
    <2>6. InputInv(n)'
      <3>1. /\ Kind[n] # "source" /\ index[n] \in DOMAIN In[n] /\ inOpen[n][index[n]]
            /\ \A k \in DOMAIN In[n] : inOpen[n][k] <=> input_count[n][k] > 0
            /\ \A k \in DOMAIN In[n] : k > index[n] => inOpen[n][k]
        BY <1>0 DEF NodeInv, KindInv, InputInv, Reading, Pushing, Working
      <3>2. index' = index /\ inOpen' = inOpen /\ input_count' = input_count
        BY DEF PopAbort, work, ports
      <3> QED BY <2>1, <2>2, <3>1, <3>2 DEF InputInv, Reading, Pushing
    <2> QED BY <2>3, <2>4, <2>5, <2>6 DEF NodeInv
  <1> QED BY <1>1, <1>2

(* work() with a value: it pushes, goes on, or ends.                       *)
LEMMA ApplyInv ==
  ASSUME PortInv, UNCHANGED net, NEW n \in Node, Apply(n)
  PROVE  TypeOK' /\ NodeInv(n)'
  <1> DEFINE v == val[n]
  <1>0. TypeOK /\ NodeInv(n) /\ net \in Nets /\ at[n] = "apply"
    BY DEF PortInv, TypeOK, Apply
  <1>1. /\ Kind[n] \notin {"none", "source", "embed"} /\ AllOutputsOpen(n)
        /\ index[n] \in DOMAIN In[n] /\ (v # EOF => inOpen[n][index[n]])
        /\ \A k \in DOMAIN In[n] : inOpen[n][k] <=> input_count[n][k] > 0
        /\ \A k \in DOMAIN In[n] : k > index[n] => inOpen[n][k]
        /\ v \in Value
    BY <1>0 DEF NodeInv, KindInv, PendingInv, InputInv, Reading, Pushing, Working, TypeOK, Value
  <1>2. Kind' = Kind /\ In' = In /\ Out' = Out /\ Capacity' = Capacity
    BY DEF Kind, In, Out, Capacity
  <1>3. PICK todo \in Pushes(n, v) : /\ pending' = [pending EXCEPT ![n] = todo]
                                     /\ at' = [at EXCEPT ![n] = IF todo = <<>> THEN AfterValue(n, v) ELSE "Push"]
    BY DEF Apply, Goto
  <1>4. UNCHANGED <<chan, abort_channel, ports, run>> /\ val' = [val EXCEPT ![n] = Nil]
    BY DEF Apply
  <1>5. index' = IF NextInput(n, v) THEN [index EXCEPT ![n] = index[n] + 1] ELSE index
    BY DEF Apply
  <1>6. \/ /\ todo = <<>>
           /\ v # EOF \/ NextInput(n, v) \/ Kind[n] \in {"sink", "channel_sink"}
        \/ GoodPushes(n, v, todo) /\ Kind[n] # "sink" /\ ~ NextInput(n, v)
    BY <1>0, <1>1, <1>3, PushesGood DEF TypeOK
  <1>7. todo \in Seq(Nat \X Value)
    <2>1. CASE todo = <<>>
      BY <2>1
    <2>2. CASE todo # <<>>
      BY <1>6, <2>2 DEF GoodPushes, PushSeq
    <2> QED BY <2>1, <2>2
  <1>8. pending' \in [Node -> Seq(Nat \X (Item \cup {EOF}))] /\ pending'[n] = todo
    BY <1>0, <1>3, <1>7 DEF TypeOK, Value
  <1>9. /\ AfterValue(n, v) \in {"Pop", "after_work", "done"}
        /\ (v # EOF \/ NextInput(n, v)) => AfterValue(n, v) = "Pop"
        /\ ~(v # EOF \/ NextInput(n, v)) =>
               AfterValue(n, v) = IF Kind[n] = "channel_sink" THEN "after_work" ELSE "done"
    <2>1. Begin(n) = "Pop"
      BY <1>1, BeginAt
    <2> QED BY <2>1 DEF AfterValue, NextInput
  <1>10. at'[n] = (IF todo = <<>> THEN AfterValue(n, v) ELSE "Push") /\ at' \in [Node -> Location]
    BY <1>0, <1>3, <1>9 DEF TypeOK, Location, Working
  <1>11. index' \in [Node -> Nat]
    BY <1>0, <1>5 DEF TypeOK
  <1>12. made' \in [Node -> Nat] /\ got' \in [Node -> Seq(Item)]
    <2>1. made \in [Node -> Nat] /\ got \in [Node -> Seq(Item)]
      BY <1>0 DEF TypeOK
    <2>2. made' = made \/ made' = [made EXCEPT ![n] = made[n] + 1]
      BY DEF Apply
    <2>3. got' = got \/ (got' = [got EXCEPT ![n] = Append(got[n], v)] /\ v # EOF)
      BY DEF Apply, Recorded
    <2>4. v # EOF => Append(got[n], v) \in Seq(Item)
      BY <1>1, <2>1 DEF Value
    <2>5. made' \in [Node -> Nat]
      <3>1. CASE made' = made
        BY <2>1, <3>1
      <3>2. CASE made' = [made EXCEPT ![n] = made[n] + 1]
        BY <2>1, <3>2
      <3> QED BY <2>2, <3>1, <3>2
    <2>6. got' \in [Node -> Seq(Item)]
      <3>1. CASE got' = got
        BY <2>1, <3>1
      <3>2. CASE got' = [got EXCEPT ![n] = Append(got[n], v)] /\ v # EOF
        BY <2>1, <2>4, <3>2
      <3> QED BY <2>3, <3>1, <3>2
    <2> QED BY <2>5, <2>6
  <1>13. val' \in [Node -> Item \cup {EOF, Nil}] /\ val'[n] = Nil
    BY <1>0, <1>4 DEF TypeOK
  <1>14. TypeOK'
    BY <1>0, <1>2, <1>4, <1>8, <1>10, <1>11, <1>12, <1>13 DEF TypeOK, ports, run
  <1> HIDE DEF v
  <1>15. KindInv(n)'
    <2>1. at'[n] \in {"Pop", "after_work", "done", "Push"}
      BY <1>9, <1>10
    <2>2. at'[n] = "Push" => Kind[n] # "sink"
      BY <1>6, <1>9, <1>10
    <2>3. at'[n] = "after_work" => Kind[n] = "channel_sink"
      BY <1>9, <1>10
    <2> QED BY <1>1, <1>2, <2>1, <2>2, <2>3 DEF KindInv, Reading, Pushing
  <1>16. outOpen'[n] = outOpen[n] /\ inOpen'[n] = inOpen[n] /\ input_count'[n] = input_count[n]
    BY <1>4 DEF ports, run
  <1>17. DomainInv(n)'
    BY <1>0, <1>2, <1>16 DEF NodeInv, DomainInv
  <1>18. CASE todo # <<>>
    <2>1. at'[n] = "Push" /\ GoodPushes(n, v, todo) /\ ~ NextInput(n, v)
      BY <1>6, <1>10, <1>18
    <2>2. PendingInv(n)' /\ (v # EOF <=> ItemsPending(n)')
      BY <1>1, <1>8, <1>16, <2>1, StartPush
    <2>3. index'[n] = index[n]
      BY <1>5, <2>1
    <2>4. InputInv(n)'
      BY <1>1, <1>2, <1>16, <2>1, <2>2, <2>3 DEF InputInv, Reading, Pushing
    <2> QED BY <1>14, <1>15, <1>17, <2>2, <2>4 DEF NodeInv
  <1>19. CASE todo = <<>>
    <2>1. at'[n] = AfterValue(n, v) /\ at'[n] \notin {"Push", "PushAbort", "apply", "PopAbort", "close_input"}
      BY <1>9, <1>10, <1>19
    <2>2. PendingInv(n)'
      BY <1>1, <1>2, <1>16, <2>1 DEF PendingInv, AllOutputsOpen, Pushing
    <2>3. at'[n] = "Pop" => /\ index'[n] \in DOMAIN In[n] /\ inOpen[n][index'[n]]
                            /\ index'[n] >= index[n]
      <3>1. Len(In[n]) \in Nat /\ DOMAIN In[n] = 1..Len(In[n])
        BY <1>0, Ports
      <3>2. CASE NextInput(n, v)
        <4>1. index'[n] = index[n] + 1 /\ index[n] < Len(In[n])
          BY <1>0, <1>5, <3>2 DEF TypeOK, NextInput
        <4> QED BY <1>1, <3>1, <4>1
      <3>3. CASE ~ NextInput(n, v)
        BY <1>1, <1>5, <1>9, <2>1, <3>1, <3>3
      <3> QED BY <3>2, <3>3
    <2>4. InputInv(n)'
      <3>1. Len(In[n]) \in Nat /\ DOMAIN In[n] = 1..Len(In[n])
        BY <1>0, Ports
      <3> QED BY <1>1, <1>2, <1>16, <2>1, <2>3, <3>1 DEF InputInv, Reading, Pushing
    <2> QED BY <1>14, <1>15, <1>17, <2>2, <2>4 DEF NodeInv
  <1> QED BY <1>18, <1>19

(* What is left of a sequence without its head.                            *)
LEMMA TailFacts ==
  ASSUME NEW S, NEW p \in Seq(S), p # <<>>
  PROVE  /\ Len(p) \in Nat /\ Len(p) >= 1 /\ DOMAIN p = 1..Len(p) /\ Head(p) = p[1] /\ Head(p) \in S
         /\ Tail(p) \in Seq(S) /\ Len(Tail(p)) = Len(p) - 1 /\ DOMAIN Tail(p) = 1..Len(Tail(p))
         /\ \A k \in DOMAIN Tail(p) : Tail(p)[k] = p[k + 1] /\ k + 1 \in DOMAIN p
         /\ Tail(p) = <<>> => Len(p) = 1
         /\ Tail(p) # <<>> => Len(Tail(p)) \in DOMAIN Tail(p)
  <1>1. Len(p) \in Nat /\ Len(p) >= 1 /\ DOMAIN p = 1..Len(p) /\ Head(p) = p[1] /\ Head(p) \in S
    OBVIOUS
  <1>2. Tail(p) \in Seq(S) /\ Len(Tail(p)) = Len(p) - 1
    OBVIOUS
  <1>3. DOMAIN Tail(p) = 1..Len(Tail(p)) /\ (Tail(p) = <<>> <=> Len(Tail(p)) = 0)
    BY <1>2, EmptySeq, LenProperties, Zenon
  <1>4. \A k \in 1..Len(p) - 1 : Tail(p)[k] = p[k + 1]
    OBVIOUS
  <1> QED BY <1>1, <1>2, <1>3, <1>4

(* An EOF that is pushed closes its port, and none is pushed through it    *)
(* afterwards.                                                             *)
LEMMA EofPendingTail ==
  ASSUME NEW n \in Node, NEW p \in PushSeq, p # <<>>, EofPending(n, p), UNCHANGED net,
         \A k \in DOMAIN Out[n] : outOpen'[n][k] <=> outOpen[n][k] /\ ~(k = p[1][1] /\ p[1][2] = EOF),
         \A k \in DOMAIN p : p[k][1] \in DOMAIN Out[n]
  PROVE  /\ EofPending(n, Tail(p))'
         /\ Len(p) = 1 => p[1][2] = EOF
         /\ \E k \in DOMAIN p : p[k][2] = EOF
         /\ Tail(p) # <<>> => \E k \in DOMAIN Tail(p) : Tail(p)[k][2] = EOF
  <1> DEFINE s == Tail(p)
  <1>1. /\ Len(p) \in Nat /\ Len(p) >= 1 /\ DOMAIN p = 1..Len(p)
        /\ s \in PushSeq /\ Len(s) = Len(p) - 1 /\ DOMAIN s = 1..Len(s)
        /\ \A k \in DOMAIN s : s[k] = p[k + 1] /\ k + 1 \in DOMAIN p
        /\ s # <<>> => Len(s) \in DOMAIN s /\ Len(s) + 1 = Len(p)
    BY DEF PushSeq
  <1> HIDE DEF s
  <1>2. Out' = Out
    BY DEF Out
  <1>3. p[Len(p)][2] = EOF
    BY DEF EofPending
  <1>4. s # <<>> => s[Len(s)][2] = EOF
    BY <1>1, <1>3
  <1>5. \A k \in DOMAIN s : outOpen'[n][s[k][1]]
    <2> SUFFICES ASSUME NEW k \in DOMAIN s PROVE outOpen'[n][s[k][1]]
      OBVIOUS
    <2>1. s[k] = p[k + 1] /\ k + 1 \in DOMAIN p /\ 1 \in DOMAIN p /\ 1 < k + 1
      BY <1>1
    <2>2. outOpen[n][p[k + 1][1]] /\ p[k + 1][1] \in DOMAIN Out[n]
      BY <2>1 DEF EofPending
    <2>3. ~ (p[k + 1][1] = p[1][1] /\ p[1][2] = EOF)
      BY <2>1 DEF EofPending
    <2> QED BY <2>1, <2>2, <2>3
  <1>6. \A k \in DOMAIN Out[n] : outOpen'[n][k] => \E l \in DOMAIN s : s[l] = <<k, EOF>>
    <2> SUFFICES ASSUME NEW k \in DOMAIN Out[n], outOpen'[n][k]
                 PROVE  \E l \in DOMAIN s : s[l] = <<k, EOF>>
      OBVIOUS
    <2>1. PICK l \in DOMAIN p : p[l] = <<k, EOF>>
      BY DEF EofPending
    <2>2. l # 1
      BY <2>1
    <2>3. l - 1 \in DOMAIN s /\ s[l - 1] = p[l]
      BY <1>1, <2>2
    <2> QED BY <2>1, <2>3
  <1>7. \A k, l \in DOMAIN s : k < l /\ s[k][2] = EOF => s[k][1] # s[l][1]
    <2> SUFFICES ASSUME NEW k \in DOMAIN s, NEW l \in DOMAIN s, k < l, s[k][2] = EOF
                 PROVE  s[k][1] # s[l][1]
      OBVIOUS
    <2>1. k + 1 \in DOMAIN p /\ l + 1 \in DOMAIN p /\ k + 1 < l + 1 /\ s[k] = p[k + 1] /\ s[l] = p[l + 1]
      BY <1>1
    <2> QED BY <2>1 DEF EofPending
  <1>8. EofPending(n, s)'
    BY <1>2, <1>4, <1>5, <1>6, <1>7 DEF EofPending
  <1>9. /\ Len(p) = 1 => p[1][2] = EOF
        /\ \E k \in DOMAIN p : p[k][2] = EOF
        /\ s # <<>> => \E k \in DOMAIN s : s[k][2] = EOF
    BY <1>1, <1>3, <1>4
  <1> QED BY <1>8, <1>9 DEF s

(* After a push: the next one, the next round, or the end.                 *)
LEMMA AfterPushInv ==
  ASSUME PortInv, NEW n \in Node, AfterPush(n), at[n] \in Pushing,
         UNCHANGED <<net, index, input_count, inOpen>>,
         NEW s, s = Tail(pending[n]),
         \/ ItemsPending(n) /\ AllOutputsOpen(n)'
         \/ /\ EofPending(n, s)' /\ ~ ItemsPending(n)
            /\ Len(pending[n]) = 1 => pending[n][1][2] = EOF
            /\ s # <<>> => \E k \in DOMAIN s : s[k][2] = EOF,
         DOMAIN outOpen'[n] = DOMAIN Out[n]
  PROVE  /\ pending' \in [Node -> Seq(Nat \X (Item \cup {EOF}))]
         /\ at' \in [Node -> Location]
         /\ NodeInv(n)'
  <1>0. TypeOK /\ NodeInv(n) /\ net \in Nets
    BY DEF PortInv, TypeOK
  <1>1. Kind' = Kind /\ In' = In /\ Out' = Out
    BY DEF Kind, In, Out
  <1>2. /\ Kind[n] \notin {"none", "embed", "sink"} /\ pending[n] \in PushSeq /\ pending[n] # <<>>
        /\ \A k \in DOMAIN pending[n] : pending[n][k][1] \in DOMAIN Out[n]
    BY <1>0 DEF NodeInv, KindInv, PendingInv, TypeOK, PushSeq, Value
  <1>3. /\ s \in PushSeq /\ Len(s) = Len(pending[n]) - 1
        /\ \A k \in DOMAIN s : s[k] = pending[n][k + 1] /\ k + 1 \in DOMAIN pending[n]
        /\ Head(pending[n]) = pending[n][1]
        /\ s = <<>> => Len(pending[n]) = 1
    <2>1. pending[n] \in Seq(Nat \X Value)
      BY <1>2 DEF PushSeq
    <2> QED BY <1>2, <2>1, TailFacts, Zenon DEF PushSeq
  <1>4. 1 \in DOMAIN pending[n]
    BY <1>2 DEF PushSeq
  <1>5. /\ pending'[n] = s
        /\ pending' \in [Node -> Seq(Nat \X (Item \cup {EOF}))]
    BY <1>0, <1>3 DEF AfterPush, TypeOK, PushSeq, Value
  <1>6. /\ s # <<>> => at'[n] = "Push"
        /\ s = <<>> /\ ItemsPending(n) => at'[n] = Begin(n)
        /\ s = <<>> /\ ~ ItemsPending(n) => at'[n] = "done"
    <2>1. at'[n] = (IF s # <<>> THEN "Push" ELSE IF pending[n][1][2] = EOF THEN "done" ELSE Begin(n))
      BY <1>0, <1>3 DEF AfterPush, Goto, TypeOK
    <2>2. ItemsPending(n) => pending[n][1][2] # EOF
      BY <1>4 DEF ItemsPending
    <2> QED BY <1>3, <2>1, <2>2
  <1>7. /\ Begin(n) \in {"generate", "Pop"}
        /\ Begin(n) = "generate" <=> Kind[n] = "source"
    BY <1>2, BeginAt
  <1>8. at' \in [Node -> Location]
    BY <1>0, <1>7 DEF AfterPush, Goto, TypeOK, Location, Working
  <1>9. at'[n] \in {"generate", "Pop", "done", "Push"}
    BY <1>6, <1>7
  <1>10. KindInv(n)'
    BY <1>1, <1>2, <1>6, <1>7, <1>9 DEF KindInv, Reading, Pushing
  <1>11. s # <<>> => (ItemsPending(n)' <=> ItemsPending(n))
    BY <1>3, <1>5 DEF ItemsPending
  <1>12. PendingInv(n)'
    <2>1. \A k \in DOMAIN s : s[k][1] \in DOMAIN Out[n]
      BY <1>2, <1>3
    <2>2. CASE s # <<>>
      <3>1. at'[n] = "Push"
        BY <1>6, <2>2
      <3>2. CASE ItemsPending(n)
        BY <1>1, <1>5, <1>11, <2>1, <2>2, <3>1, <3>2 DEF PendingInv, Reading
      <3>3. CASE ~ ItemsPending(n)
        <4>0. EofPending(n, s)'
          BY <3>3
        <4>1. EofPending(n, pending[n])'
          BY <1>5, <4>0, Zenon DEF EofPending
        <4> QED BY <1>1, <1>5, <2>1, <2>2, <3>1, <4>1 DEF PendingInv, Reading
      <3> QED BY <3>2, <3>3
    <2>3. CASE s = <<>>
      BY <1>6, <1>7, <2>3 DEF PendingInv, Reading, Pushing
    <2> QED BY <2>2, <2>3
  <1>13. InputInv(n)'
    <2>1. /\ \A i \in DOMAIN In[n] : inOpen[n][i] <=> input_count[n][i] > 0
          /\ Kind[n] # "source" =>
                /\ index[n] \in DOMAIN In[n]
                /\ \A i \in DOMAIN In[n] : i > index[n] => inOpen[n][i]
                /\ inOpen[n][index[n]] \/ ~ ItemsPending(n)
      BY <1>0 DEF NodeInv, InputInv, Reading, Pushing, Working
    <2>2. /\ at'[n] = "Pop" => inOpen[n][index[n]]
          /\ at'[n] = "Push" /\ Kind[n] # "source" => inOpen[n][index[n]] \/ ~ ItemsPending(n)'
      BY <1>6, <1>7, <1>11, <2>1
    <2> QED BY <1>1, <1>9, <2>1, <2>2 DEF InputInv, Reading, Pushing
  <1>14. DomainInv(n)'
    <2>1. input_count' = input_count /\ inOpen' = inOpen
      OBVIOUS
    <2>2. DOMAIN input_count[n] = DOMAIN In[n] /\ DOMAIN inOpen[n] = DOMAIN In[n]
      BY <1>0 DEF NodeInv, DomainInv
    <2> QED BY <1>1, <2>1, <2>2 DEF DomainInv
  <1> QED BY <1>5, <1>8, <1>10, <1>12, <1>13, <1>14 DEF NodeInv

(* The push at the head of pending goes through an open port, and closes   *)
(* it when it is an EOF.                                                   *)
LEMMA PushEffect ==
  ASSUME PortInv, UNCHANGED net, NEW n \in Node, Push(n), NEW p, p = pending[n]
  PROVE  /\ p \in PushSeq /\ p # <<>> /\ p[1] = Head(p) /\ p[1][2] \in Value
         /\ p[1][1] \in DOMAIN Out[n] /\ outOpen[n][p[1][1]] /\ Out[n][p[1][1]] \in Channel
         /\ Enqueue(Out[n][p[1][1]], p[1][2])
         /\ outOpen' \in [Node -> Seq(BOOLEAN)] /\ DOMAIN outOpen'[n] = DOMAIN Out[n]
         /\ \A k \in DOMAIN Out[n] :
                outOpen'[n][k] <=> outOpen[n][k] /\ ~(k = p[1][1] /\ p[1][2] = EOF)
         /\ \/ ItemsPending(n) /\ p[1][2] # EOF /\ AllOutputsOpen(n)'
            \/ /\ EofPending(n, Tail(p))' /\ ~ ItemsPending(n)
               /\ Len(p) = 1 => p[1][2] = EOF
               /\ Tail(p) # <<>> => \E k \in DOMAIN Tail(p) : Tail(p)[k][2] = EOF
  <1> DEFINE j == p[1][1]
             v == p[1][2]
  <1>0. TypeOK /\ NodeInv(n) /\ net \in Nets /\ at[n] = "Push"
    BY DEF PortInv, TypeOK, Push
  <1>1. Out' = Out
    BY DEF Out
  <1>2. /\ p \in PushSeq /\ p # <<>> /\ \A k \in DOMAIN p : p[k][1] \in DOMAIN Out[n]
        /\ \/ ItemsPending(n) /\ AllOutputsOpen(n)
           \/ EofPending(n, p)
    BY <1>0 DEF NodeInv, PendingInv, Pushing, TypeOK, PushSeq, Value
  <1>3. p[1] = Head(p) /\ 1 \in DOMAIN p /\ v \in Value
    BY <1>2 DEF PushSeq
  <1>4. j \in DOMAIN Out[n] /\ Out[n][j] \in Channel
    BY <1>0, <1>2, <1>3, NetFacts
  <1>5. outOpen[n][j]
    BY <1>2, <1>3, <1>4 DEF EofPending, AllOutputsOpen
  <1>6. /\ Enqueue(Out[n][j], v)
        /\ outOpen' = IF v = EOF THEN [outOpen EXCEPT ![n] = [outOpen[n] EXCEPT ![j] = FALSE]] ELSE outOpen
    BY <1>3 DEF Push
  <1> HIDE DEF j, v
  <1>7. /\ outOpen' \in [Node -> Seq(BOOLEAN)] /\ DOMAIN outOpen'[n] = DOMAIN Out[n]
        /\ \A k \in DOMAIN Out[n] : outOpen'[n][k] <=> outOpen[n][k] /\ ~(k = j /\ v = EOF)
    <2>1. outOpen \in [Node -> Seq(BOOLEAN)] /\ DOMAIN outOpen[n] = DOMAIN Out[n]
      BY <1>0 DEF TypeOK, NodeInv, DomainInv
    <2> DEFINE f == [outOpen[n] EXCEPT ![j] = FALSE]
    <2>2. f \in Seq(BOOLEAN) /\ DOMAIN f = DOMAIN Out[n]
      BY <1>4, <2>1, SeqExcept
    <2>3. ~ f[j] /\ \A k \in DOMAIN Out[n] \ {j} : f[k] <=> outOpen[n][k]
      BY <1>4, <2>1
    <2> HIDE DEF f
    <2>4. CASE v = EOF
      <3>1. outOpen' = [outOpen EXCEPT ![n] = f]
        BY <1>6, <2>4 DEF f
      <3> QED BY <2>1, <2>2, <2>3, <2>4, <3>1
    <2>5. CASE v # EOF
      BY <1>6, <2>1, <2>5
    <2> QED BY <2>4, <2>5
  <1>8. CASE ItemsPending(n) /\ AllOutputsOpen(n)
    <2>1. v # EOF
      BY <1>3, <1>8 DEF ItemsPending, v
    <2>2. AllOutputsOpen(n)'
      BY <1>1, <1>7, <1>8, <2>1 DEF AllOutputsOpen
    <2> QED BY <1>2, <1>3, <1>4, <1>5, <1>6, <1>7, <1>8, <2>1, <2>2 DEF j, v
  <1>9. CASE EofPending(n, p)
    <2>1. /\ EofPending(n, Tail(p))'
          /\ Len(p) = 1 => p[1][2] = EOF
          /\ \E k \in DOMAIN p : p[k][2] = EOF
          /\ Tail(p) # <<>> => \E k \in DOMAIN Tail(p) : Tail(p)[k][2] = EOF
      <3>1. \A k \in DOMAIN Out[n] : outOpen'[n][k] <=> outOpen[n][k] /\ ~(k = p[1][1] /\ p[1][2] = EOF)
        BY <1>7 DEF j, v
      <3> QED BY <1>2, <1>9, <3>1, EofPendingTail, Zenon
    <2>2. ~ ItemsPending(n)
      BY <2>1 DEF ItemsPending
    <2> QED BY <1>2, <1>3, <1>4, <1>5, <1>6, <1>7, <2>1, <2>2 DEF j, v
  <1> QED BY <1>2, <1>8, <1>9

LEMMA PushInv ==
  ASSUME PortInv, UNCHANGED net, NEW n \in Node, Push(n)
  PROVE  TypeOK' /\ NodeInv(n)'
  <1>0. TypeOK /\ NodeInv(n) /\ net \in Nets /\ at[n] = "Push"
    BY DEF PortInv, TypeOK, Push
  <1>1. Kind' = Kind /\ In' = In /\ Out' = Out /\ Capacity' = Capacity
    BY DEF Kind, In, Out, Capacity
  <1> PICK p : p = pending[n]
    OBVIOUS
  <1>2. /\ p \in PushSeq /\ p # <<>> /\ p[1][2] \in Value
        /\ Out[n][p[1][1]] \in Channel /\ Enqueue(Out[n][p[1][1]], p[1][2])
        /\ outOpen' \in [Node -> Seq(BOOLEAN)] /\ DOMAIN outOpen'[n] = DOMAIN Out[n]
    BY PushEffect
  <1>3. \/ ItemsPending(n) /\ AllOutputsOpen(n)'
        \/ /\ EofPending(n, Tail(p))' /\ ~ ItemsPending(n)
           /\ Len(p) = 1 => p[1][2] = EOF
           /\ Tail(p) # <<>> => \E k \in DOMAIN Tail(p) : Tail(p)[k][2] = EOF
    BY PushEffect
  <1>4. chan' \in [Channel -> Seq(Item \cup {EOF})] /\ \A d \in Channel : Len(chan'[d]) <= Capacity'[d]
    BY <1>0, <1>2, EnqueueType
  <1>5. UNCHANGED <<abort_channel, val, index, made, got, input_count, inOpen, run>>
    BY DEF Push
  <1>6. CASE bound(n)
    <2>1. pending' = pending /\ at'[n] = "PushAbort" /\ at' \in [Node -> Location]
      BY <1>0, <1>6 DEF Push, Goto, TypeOK, Location, Working
    <2>2. TypeOK'
      BY <1>0, <1>1, <1>2, <1>4, <1>5, <2>1 DEF TypeOK, run
    <2>3. KindInv(n)'
      BY <1>0, <1>1, <2>1 DEF NodeInv, KindInv, Reading, Pushing
    <2>4. ItemsPending(n)' <=> ItemsPending(n)
      BY <2>1 DEF ItemsPending
    <2>5. PendingInv(n)'
      <3>1. pending'[n] # <<>> /\ \A k \in DOMAIN pending'[n] : pending'[n][k][1] \in DOMAIN Out'[n]
        BY <1>0, <1>1, <2>1 DEF NodeInv, PendingInv, Pushing
      <3>2. \/ ItemsPending(n)' /\ AllOutputsOpen(n)'
            \/ /\ EofPending(n, Tail(pending[n]))'
               /\ Len(pending'[n]) = 1 => pending'[n][1][2] = EOF
        <4>1. CASE ItemsPending(n) /\ AllOutputsOpen(n)'
          BY <2>4, <4>1
        <4>2. CASE /\ EofPending(n, Tail(p))' /\ ~ ItemsPending(n)
                   /\ Len(p) = 1 => p[1][2] = EOF
          <5>1. EofPending(n, Tail(pending[n]))'
            BY <2>1, <4>2, Zenon DEF EofPending
          <5> QED BY <2>1, <4>2, <5>1
        <4> QED BY <1>3, <4>1, <4>2
      <3> QED BY <2>1, <3>1, <3>2 DEF PendingInv, Reading
    <2>6. InputInv(n)'
      <3>1. /\ \A i \in DOMAIN In[n] : inOpen[n][i] <=> input_count[n][i] > 0
            /\ Kind[n] # "source" =>
                  /\ index[n] \in DOMAIN In[n]
                  /\ \A i \in DOMAIN In[n] : i > index[n] => inOpen[n][i]
                  /\ inOpen[n][index[n]] \/ ~ ItemsPending(n)
        BY <1>0 DEF NodeInv, InputInv, Reading, Pushing, Working
      <3> QED BY <1>1, <1>5, <2>1, <2>4, <3>1 DEF InputInv, Pushing, run
    <2>7. DomainInv(n)'
      BY <1>0, <1>1, <1>2, <1>5 DEF NodeInv, DomainInv, run
    <2> QED BY <2>2, <2>3, <2>5, <2>6, <2>7 DEF NodeInv
  <1>7. CASE ~ bound(n)
    <2>1. AfterPush(n) /\ at[n] \in Pushing
      BY <1>0, <1>7 DEF Push, Pushing
    <2>2. /\ pending' \in [Node -> Seq(Nat \X (Item \cup {EOF}))]
          /\ at' \in [Node -> Location]
          /\ NodeInv(n)'
      BY <1>2, <1>3, <1>5, <2>1, AfterPushInv DEF run
    <2>3. TypeOK'
      BY <1>0, <1>1, <1>2, <1>4, <1>5, <2>2 DEF TypeOK, run
    <2> QED BY <2>2, <2>3
  <1> QED BY <1>6, <1>7

LEMMA PushAbortInv ==
  ASSUME PortInv, UNCHANGED net, NEW n \in Node, PushAbort(n)
  PROVE  TypeOK' /\ NodeInv(n)'
  <1>0. TypeOK /\ NodeInv(n) /\ at[n] = "PushAbort"
    BY DEF PortInv, PushAbort
  <1>1. CASE AbortReceived(n)
    <2>1. UNCHANGED <<net, chan, work, ports, thrown, returned>>
      <3>1. pending' = pending
        BY <1>0, <1>1 DEF PushAbort, AbortReceived, AbortChecked
      <3> QED BY <3>1 DEF PushAbort, work
    <2> QED BY <1>0, <1>1, <2>1, AbortReceivedInv DEF Working
  <1>2. CASE ~ AbortReceived(n)
    <2>1. AfterPush(n) /\ abort_channel' = abort_channel /\ crashed' = crashed
      BY <1>2 DEF PushAbort, AbortChecked
    <2>2. UNCHANGED <<chan, val, index, made, got, input_count, inOpen, outOpen, thrown, returned>>
      BY DEF PushAbort, ports
    <2>3. In' = In /\ Out' = Out /\ Capacity' = Capacity
      BY DEF In, Out, Capacity
    <2> PICK s : s = Tail(pending[n])
      OBVIOUS
    <2>4. DOMAIN outOpen'[n] = DOMAIN Out[n]
      BY <1>0, <2>2 DEF NodeInv, DomainInv
    <2>5. \/ ItemsPending(n) /\ AllOutputsOpen(n)'
          \/ /\ EofPending(n, s)' /\ ~ ItemsPending(n)
             /\ Len(pending[n]) = 1 => pending[n][1][2] = EOF
             /\ s # <<>> => \E k \in DOMAIN s : s[k][2] = EOF
      <3>1. \/ ItemsPending(n) /\ AllOutputsOpen(n)
            \/ EofPending(n, s) /\ (Len(pending[n]) = 1 => pending[n][1][2] = EOF)
        BY <1>0 DEF NodeInv, PendingInv
      <3>2. CASE ItemsPending(n) /\ AllOutputsOpen(n)
        BY <2>2, <2>3, <3>2 DEF AllOutputsOpen
      <3>3. CASE EofPending(n, s) /\ (Len(pending[n]) = 1 => pending[n][1][2] = EOF)
        <4>1. pending[n] \in Seq(Nat \X Value) /\ pending[n] # <<>>
          BY <1>0 DEF TypeOK, NodeInv, PendingInv, Pushing, Value
        <4>2. /\ 1 \in DOMAIN pending[n]
              /\ \A k \in DOMAIN s : s[k] = pending[n][k + 1] /\ k + 1 \in DOMAIN pending[n]
              /\ s = <<>> => Len(pending[n]) = 1
              /\ s # <<>> => Len(s) \in DOMAIN s
          BY <4>1, TailFacts
        <4>3. EofPending(n, s)'
          BY <2>2, <2>3, <3>3 DEF EofPending
        <4>4. s # <<>> => \E k \in DOMAIN s : s[k][2] = EOF
          BY <3>3, <4>2 DEF EofPending
        <4>5. ~ ItemsPending(n)
          BY <3>3, <4>2, <4>4 DEF ItemsPending
        <4> QED BY <3>3, <4>3, <4>4, <4>5
      <3> QED BY <3>1, <3>2, <3>3
    <2>6. /\ pending' \in [Node -> Seq(Nat \X (Item \cup {EOF}))]
          /\ at' \in [Node -> Location]
          /\ NodeInv(n)'
      BY <1>0, <2>1, <2>2, <2>4, <2>5, AfterPushInv DEF Pushing
    <2> QED BY <1>0, <2>1, <2>2, <2>3, <2>6 DEF TypeOK
  <1> QED BY <1>1, <1>2

LEMMA EndInv ==
  ASSUME PortInv, UNCHANGED net, NEW n \in Node, AfterWork(n) \/ RunEmbedded(n) \/ Rethrow(n)
  PROVE  TypeOK' /\ NodeInv(n)'
  <1>0. TypeOK /\ NodeInv(n) /\ net \in Nets
    BY DEF PortInv, TypeOK
  <1>1. Kind' = Kind /\ In' = In /\ Out' = Out /\ Capacity' = Capacity
    BY DEF Kind, In, Out, Capacity
  <1>2. at'[n] \in {"done", "error"} /\ at' \in [Node -> Location]
    BY <1>0 DEF AfterWork, RunEmbedded, Rethrow, Goto, TypeOK, Location
  <1>3. UNCHANGED <<abort_channel, work, ports, run>>
    BY DEF AfterWork, RunEmbedded, Rethrow
  <1>4. /\ chan' \in [Channel -> Seq(Item \cup {EOF})]
        /\ \A d \in Channel : Len(chan'[d]) <= Capacity'[d]
    <2>1. CASE AfterWork(n)
      <3>1. Kind[n] = "channel_sink"
        BY <1>0, <2>1 DEF AfterWork, NodeInv, KindInv
      <3>2. 1 \in DOMAIN Out[n] /\ Out[n] \in Seq(Channel)
        <4>1. Len(Out[n]) >= 1 /\ Len(Out[n]) \in Nat /\ DOMAIN Out[n] = 1..Len(Out[n])
          BY <1>0, <3>1, Ports
        <4> QED BY <1>0, <4>1, NetFacts
      <3>3. Out[n][1] \in Channel
        BY <3>2
      <3> QED BY <1>0, <2>1, <3>3, EnqueueType DEF AfterWork, Value
    <2>2. CASE chan' = chan
      BY <1>0, <1>1, <2>2 DEF TypeOK
    <2> QED BY <2>1, <2>2 DEF RunEmbedded, Rethrow
  <1>5. TypeOK'
    BY <1>0, <1>1, <1>2, <1>3, <1>4 DEF TypeOK, work, ports, run
  <1>6. KindInv(n)' /\ PendingInv(n)' /\ InputInv(n)'
    BY <1>2 DEF KindInv, PendingInv, InputInv, Reading, Pushing, Working
  <1>7. DomainInv(n)'
    BY <1>0, <1>1, <1>3 DEF NodeInv, DomainInv, ports, work, run
  <1> QED BY <1>5, <1>6, <1>7 DEF NodeInv

LEMMA NotifyAbortInv ==
  ASSUME PortInv, UNCHANGED net, NEW n \in Node, NotifyAbort(n)
  PROVE  TypeOK' /\ NodeInv(n)'
  <1>0. TypeOK /\ NodeInv(n) /\ net \in Nets /\ at[n] = "TryPush"
    BY DEF PortInv, TypeOK, NotifyAbort
  <1>1. Kind' = Kind /\ In' = In /\ Out' = Out /\ Capacity' = Capacity
    BY DEF Kind, In, Out, Capacity
  <1>2. at'[n] = "close_input" /\ at' \in [Node -> Location]
    BY <1>0 DEF NotifyAbort, Goto, TypeOK, Location, Hosted
  <1>3. abort_channel' \in [Pipeline -> 0..AbortCapacity]
    <2> DEFINE p == AbortOf(n)
    <2>1. p \in Pipeline /\ abort_channel \in [Pipeline -> 0..AbortCapacity]
      BY <1>0, NetFacts DEF AbortOf, TypeOK
    <2>2. abort_channel' = IF abort_channel[p] = AbortCapacity THEN abort_channel
                           ELSE [abort_channel EXCEPT ![p] = abort_channel[p] + 1]
      BY DEF NotifyAbort
    <2> HIDE DEF p
    <2> QED BY <2>1, <2>2, AbortAssumption
  <1>4. UNCHANGED <<chan, made, got, ports, run>>
    BY DEF NotifyAbort
  <1>5. /\ index' = [index EXCEPT ![n] = 1] /\ val' = [val EXCEPT ![n] = Nil]
        /\ pending' = [pending EXCEPT ![n] = <<>>]
    BY DEF NotifyAbort
  <1>6. /\ index' \in [Node -> Nat] /\ val' \in [Node -> Item \cup {EOF, Nil}]
        /\ pending' \in [Node -> Seq(Nat \X (Item \cup {EOF}))]
    BY <1>0, <1>5 DEF TypeOK
  <1>7. TypeOK'
    BY <1>0, <1>1, <1>2, <1>3, <1>4, <1>6 DEF TypeOK, ports, run
  <1>8. KindInv(n)' /\ PendingInv(n)'
    BY <1>2 DEF KindInv, PendingInv, Reading, Pushing
  <1>9. InputInv(n)'
    <2>1. \A i \in DOMAIN In[n] : inOpen[n][i] <=> input_count[n][i] > 0
      BY <1>0 DEF NodeInv, InputInv
    <2>2. inOpen' = inOpen /\ input_count' = input_count
      BY <1>4 DEF ports, run
    <2> QED BY <1>1, <1>2, <2>1, <2>2 DEF InputInv, OpenInputs, Working, Reading, Pushing
  <1>10. DomainInv(n)'
    BY <1>0, <1>1, <1>4 DEF NodeInv, DomainInv, ports, run
  <1> QED BY <1>7, <1>8, <1>9, <1>10 DEF NodeInv

(* hosted_mode: the loop over the inputs is at the first that is open.     *)
LEMMA CloseInputInv ==
  ASSUME PortInv, UNCHANGED net, NEW n \in Node, CloseInput(n)
  PROVE  TypeOK' /\ NodeInv(n)'
  <1>0. TypeOK /\ NodeInv(n) /\ net \in Nets /\ at[n] = "close_input"
    BY DEF PortInv, TypeOK, CloseInput
  <1>1. Kind' = Kind /\ In' = In /\ Out' = Out /\ Capacity' = Capacity
    BY DEF Kind, In, Out, Capacity
  <1>2. PICK i \in First(OpenInputs(n)) :
           /\ Dequeue(In[n][i])
           /\ \/ UNCHANGED <<input_count, index>>
              \/ /\ input_count' = [input_count EXCEPT ![n] = [input_count[n] EXCEPT ![i] = input_count[n][i] - 1]]
                 /\ index' = IF input_count[n][i] = 1 THEN [index EXCEPT ![n] = i + 1] ELSE index
    BY DEF CloseInput
  <1>3. /\ i \in DOMAIN In[n] /\ i >= index[n] /\ i \in Nat /\ i \in OpenInputs(n)
        /\ input_count[n][i] > 0 /\ DOMAIN input_count[n] = DOMAIN In[n]
    BY <1>0, Ports DEF First, OpenInputs, NodeInv, InputInv, DomainInv
  <1>4. In[n][i] \in Channel
    BY <1>0, <1>3, NetFacts
  <1>5. /\ chan' \in [Channel -> Seq(Item \cup {EOF})]
        /\ \A d \in Channel : Len(chan'[d]) <= Capacity'[d]
    BY <1>0, <1>2, <1>4, DequeueType
  <1>6. UNCHANGED <<abort_channel, at, val, pending, made, got, inOpen, outOpen, run>>
    BY DEF CloseInput
  <1>7. input_count \in [Node -> Seq(Nat)] /\ input_count[n][i] \in Nat /\ index \in [Node -> Nat]
    BY <1>0, <1>3 DEF TypeOK
  <1>8. /\ input_count' \in [Node -> Seq(Nat)] /\ DOMAIN input_count'[n] = DOMAIN In[n]
        /\ \A k \in DOMAIN In[n] \ {i} : input_count'[n][k] = input_count[n][k]
        /\ index' \in [Node -> Nat]
        /\ \/ input_count'[n][i] = input_count[n][i] /\ index' = index
           \/ /\ input_count'[n][i] = input_count[n][i] - 1
              /\ index'[n] = IF input_count[n][i] = 1 THEN i + 1 ELSE index[n]
    <2>1. CASE UNCHANGED <<input_count, index>>
      BY <1>3, <1>7, <2>1
    <2>2. CASE /\ input_count' = [input_count EXCEPT ![n] = [input_count[n] EXCEPT ![i] = input_count[n][i] - 1]]
               /\ index' = IF input_count[n][i] = 1 THEN [index EXCEPT ![n] = i + 1] ELSE index
      <3> DEFINE f == [input_count[n] EXCEPT ![i] = input_count[n][i] - 1]
      <3>1. /\ f \in Seq(Nat) /\ DOMAIN f = DOMAIN In[n] /\ f[i] = input_count[n][i] - 1
            /\ \A k \in DOMAIN In[n] \ {i} : f[k] = input_count[n][k]
        BY <1>3, <1>7, SeqExcept
      <3>2. input_count' = [input_count EXCEPT ![n] = f]
        BY <2>2
      <3> HIDE DEF f
      <3> QED BY <1>3, <1>7, <2>2, <3>1, <3>2
    <2> QED BY <1>2, <2>1, <2>2
  <1>9. TypeOK'
    BY <1>0, <1>1, <1>5, <1>6, <1>8 DEF TypeOK, run
  <1>10. at'[n] = "close_input"
    BY <1>0, <1>6
  <1>11. KindInv(n)' /\ PendingInv(n)'
    BY <1>10 DEF KindInv, PendingInv, Reading, Pushing
  <1>12. InputInv(n)'
    <2>1. \A k \in OpenInputs(n)' : input_count'[n][k] > 0
      <3> SUFFICES ASSUME NEW k \in OpenInputs(n)' PROVE input_count'[n][k] > 0
        OBVIOUS
      <3>1. k \in DOMAIN In[n] /\ k >= index'[n] /\ inOpen[n][k] /\ k \in Nat
        BY <1>0, <1>1, <1>6, Ports DEF OpenInputs
      <3>2. index'[n] >= index[n]
        BY <1>3, <1>7, <1>8
      <3>3. k \in OpenInputs(n) /\ input_count[n][k] > 0
        BY <1>0, <1>7, <1>8, <3>1, <3>2 DEF OpenInputs, NodeInv, InputInv
      <3>4. CASE k # i
        BY <1>8, <3>1, <3>3, <3>4
      <3>5. CASE k = i
        BY <1>3, <1>7, <1>8, <3>1, <3>3, <3>5
      <3> QED BY <3>4, <3>5
    <2> QED BY <1>10, <2>1 DEF InputInv, Working, Reading, Pushing
  <1>13. DomainInv(n)'
    BY <1>0, <1>1, <1>6, <1>8 DEF NodeInv, DomainInv, run
  <1> QED BY <1>9, <1>11, <1>12, <1>13 DEF NodeInv

LEMMA OutputsInv ==
  ASSUME PortInv, UNCHANGED net, NEW n \in Node, InputsClosed(n) \/ CloseOutput(n)
  PROVE  TypeOK' /\ NodeInv(n)'
  <1>0. TypeOK /\ NodeInv(n) /\ net \in Nets
    BY DEF PortInv, TypeOK
  <1>1. Kind' = Kind /\ In' = In /\ Out' = Out /\ Capacity' = Capacity
    BY DEF Kind, In, Out, Capacity
  <1>2. at'[n] = "close_output" /\ at' \in [Node -> Location]
    BY <1>0 DEF InputsClosed, CloseOutput, Goto, TypeOK, Location, Hosted
  <1>3. UNCHANGED <<abort_channel, val, pending, made, got, ports, run>>
    BY DEF InputsClosed, CloseOutput
  <1>4. /\ chan' \in [Channel -> Seq(Item \cup {EOF})]
        /\ \A d \in Channel : Len(chan'[d]) <= Capacity'[d]
        /\ index' \in [Node -> Nat]
    <2>1. CASE InputsClosed(n)
      BY <1>0, <1>1, <2>1 DEF InputsClosed, TypeOK
    <2>2. CASE CloseOutput(n)
      <3>1. PICK j \in OpenOutputs(n) : Enqueue(Out[n][j], EOF) /\ index' = [index EXCEPT ![n] = j + 1]
        BY <2>2 DEF CloseOutput, First
      <3>2. j \in DOMAIN Out[n] /\ j \in Nat /\ Out[n][j] \in Channel
        BY <1>0, Ports, NetFacts DEF OpenOutputs
      <3>3. /\ chan' \in [Channel -> Seq(Item \cup {EOF})]
            /\ \A d \in Channel : Len(chan'[d]) <= Capacity'[d]
        BY <1>0, <3>1, <3>2, EnqueueType DEF Value
      <3> QED BY <1>0, <3>1, <3>2, <3>3 DEF TypeOK
    <2> QED BY <2>1, <2>2
  <1>5. TypeOK'
    BY <1>0, <1>1, <1>2, <1>3, <1>4 DEF TypeOK, ports, run
  <1>6. KindInv(n)' /\ PendingInv(n)' /\ InputInv(n)'
    BY <1>2 DEF KindInv, PendingInv, InputInv, Reading, Pushing, Working
  <1>7. DomainInv(n)'
    BY <1>0, <1>1, <1>3 DEF NodeInv, DomainInv, ports, run
  <1> QED BY <1>5, <1>6, <1>7 DEF NodeInv

LEMMA StepPortInv ==
  ASSUME PortInv, UNCHANGED net, NEW n \in Node, Step(n)
  PROVE  PortInv'
  <1>1. TypeOK' /\ NodeInv(n)'
    BY GenerateInv, UserThrowInv, PopInv, PopAbortInv, ApplyInv, PushInv, PushAbortInv, EndInv,
       NotifyAbortInv, CloseInputInv, OutputsInv DEF Step
  <1>2. \A m \in Node \ {n} : NodeInv(m)'
    BY OthersSame, FrameNode DEF PortInv
  <1> QED BY <1>1, <1>2 DEF PortInv

LEMMA NextPortInv == PortInv /\ [Next]_vars => PortInv'
  <1> SUFFICES ASSUME PortInv, [Next]_vars PROVE PortInv'
    OBVIOUS
  <1>1. CASE UNCHANGED vars
    <2>1. UNCHANGED net /\ \A m \in Node : Same(m)
      BY <1>1 DEF vars, work, ports, Same
    <2>2. TypeOK'
      BY <1>1 DEF PortInv, TypeOK, vars, work, ports, run, Capacity
    <2> QED BY <2>1, <2>2, FrameNode DEF PortInv
  <1>2. CASE UNCHANGED net /\ \E n \in Node : Step(n)
    BY <1>2, StepPortInv
  <1>3. CASE UNCHANGED net /\ \E p \in Pipeline : Return(p)
    <2>1. \A m \in Node : Same(m)
      BY <1>3 DEF Return, work, ports, Same
    <2>2. TypeOK'
      BY <1>3 DEF Return, PortInv, TypeOK, work, ports, Capacity
    <2> QED BY <1>3, <2>1, <2>2, FrameNode DEF PortInv
  <1> QED BY <1>1, <1>2, <1>3 DEF Next

(* The state of a run is what TypeOK says, and the ports are in order.     *)
LEMMA PortsInOrder == Spec => []PortInv
  BY InitPortInv, NextPortInv, PTL DEF Spec

(* The queues never exceed their capacities, the abort channels never hold *)
(* more than AbortCapacity, and no count of EOFs that are still expected   *)
(* drops below zero (input_count_ is unsigned).                            *)
THEOREM TypeCorrect == Spec => []TypeOK
  <1>1. PortInv => TypeOK
    BY DEF PortInv
  <1> QED BY <1>1, PortsInOrder, PTL

(* No processor uses a port that it has reset, or pops an EOF that it does *)
(* not expect: GetQueue never dereferences a null pointer, whatever the    *)
(* processors do and wherever they throw.                                  *)
THEOREM PortsSafe == Spec => []PortsInUseAreOpen
  <1>1. PortInv => PortsInUseAreOpen
    <2> SUFFICES ASSUME PortInv, NEW n \in Node
                 PROVE  /\ at[n] = "Pop" => inOpen[n][index[n]] /\ input_count[n][index[n]] > 0
                        /\ at[n] = "close_input" => \A i \in OpenInputs(n) : input_count[n][i] > 0
                        /\ at[n] = "Push" => outOpen[n][Head(pending[n])[1]]
                        /\ at[n] = "after_work" => outOpen[n][1]
      BY DEF PortsInUseAreOpen
    <2>0. TypeOK /\ NodeInv(n) /\ net \in Nets
      BY DEF PortInv, TypeOK
    <2>1. at[n] = "Pop" => inOpen[n][index[n]] /\ input_count[n][index[n]] > 0
      BY <2>0 DEF NodeInv, KindInv, InputInv, Reading, Pushing, Working
    <2>2. at[n] = "close_input" => \A i \in OpenInputs(n) : input_count[n][i] > 0
      BY <2>0 DEF NodeInv, InputInv
    <2>3. ASSUME at[n] = "Push" PROVE outOpen[n][Head(pending[n])[1]]
      <3>1. pending[n] \in Seq(Nat \X Value) /\ pending[n] # <<>>
        BY <2>0, <2>3 DEF TypeOK, NodeInv, PendingInv, Pushing, Value
      <3>2. Head(pending[n]) = pending[n][1] /\ 1 \in DOMAIN pending[n]
        BY <3>1
      <3> QED BY <2>0, <2>3, <3>2 DEF NodeInv, PendingInv, Pushing, EofPending, AllOutputsOpen
    <2>4. ASSUME at[n] = "after_work" PROVE outOpen[n][1]
      <3>1. Kind[n] = "channel_sink" /\ AllOutputsOpen(n)
        BY <2>0, <2>4 DEF NodeInv, KindInv, PendingInv
      <3> QED BY <2>0, <3>1, Ports DEF AllOutputsOpen
    <2> QED BY <2>1, <2>2, <2>3, <2>4
  <1> QED BY <1>1, PortsInOrder, PTL

-----------------------------------------------------------------------------
(* What a step means for the EOFs: it does not touch them, takes a value   *)
(* out of a queue, or writes a value into one.                             *)

Owed(n) == {j \in DOMAIN Out[n] : OwesEof(n, j)}
OthersOwe(n) == \A m \in Node \ {n} : Owed(m)' = Owed(m)

Silent(n) == chan' = chan /\ input_count' = input_count /\ Owed(n)' = Owed(n)
Reads(n, i) ==
    /\ i \in DOMAIN In[n]
    /\ chan[In[n][i]] # <<>>
    /\ chan' = [chan EXCEPT ![In[n][i]] = Tail(chan[In[n][i]])]
    /\ input_count[n][i] \in Nat
    /\ input_count'[n][i] = IF Head(chan[In[n][i]]) = EOF THEN input_count[n][i] - 1
                                                         ELSE input_count[n][i]
    /\ \A k \in DOMAIN In[n] \ {i} : input_count'[n][k] = input_count[n][k]
    /\ Owed(n)' = Owed(n)
Writes(n, j, v) ==
    /\ j \in Owed(n) /\ v \in Value
    /\ chan' = [chan EXCEPT ![Out[n][j]] = Append(chan[Out[n][j]], v)]
    /\ input_count' = input_count
    /\ Owed(n)' = IF v = EOF THEN Owed(n) \ {j} ELSE Owed(n)

Effect(n) == \/ Silent(n)
             \/ \E i \in DOMAIN In[n] : Reads(n, i)
             \/ \E j \in DOMAIN Out[n], v \in Value : Writes(n, j, v)

(* What others owe is not changed by a step of n.                          *)
LEMMA OthersOweSame ==
  ASSUME PortInv, UNCHANGED net, NEW n \in Node, Step(n)
  PROVE  OthersOwe(n) /\ \A m \in Node \ {n} : input_count'[m] = input_count[m]
  <1> SUFFICES ASSUME NEW m \in Node \ {n} PROVE Owed(m)' = Owed(m) /\ input_count'[m] = input_count[m]
    BY DEF OthersOwe
  <1>1. Same(m)
    BY OthersSame DEF PortInv
  <1>2. Out' = Out
    BY DEF Out
  <1> QED BY <1>1, <1>2 DEF Same, Owed, OwesEof, finished

(* A processor that is at work owes an EOF to every open output.           *)
LEMMA OwedAtWork ==
  ASSUME NEW n \in Node, at[n] \notin {"close_output", "done", "error"}
  PROVE  Owed(n) = {j \in DOMAIN Out[n] : outOpen[n][j]}
  BY DEF Owed, OwesEof, finished

LEMMA OwedAtWorkNext ==
  ASSUME NEW n \in Node, UNCHANGED net, at'[n] \notin {"close_output", "done", "error"}
  PROVE  Owed(n)' = {j \in DOMAIN Out[n] : outOpen'[n][j]}
  BY DEF Owed, OwesEof, finished, Out

(* The steps that leave the queues alone.                                  *)
LEMMA SilentSteps ==
  ASSUME PortInv, UNCHANGED net, NEW n \in Node,
         \/ Generate(n) \/ UserThrow(n) \/ PopAbort(n) \/ NotifyAbort(n)
         \/ InputsClosed(n) \/ Rethrow(n) \/ RunEmbedded(n)
  PROVE  Silent(n)
  <1>0. TypeOK /\ NodeInv(n) /\ net \in Nets /\ Out' = Out
    BY DEF PortInv, TypeOK, Out
  <1>1. chan' = chan /\ input_count' = input_count /\ outOpen' = outOpen
    BY DEF Generate, UserThrow, PopAbort, NotifyAbort, InputsClosed, Rethrow, RunEmbedded, ports
  <1>2. CASE Generate(n) \/ UserThrow(n) \/ PopAbort(n) \/ NotifyAbort(n)
    <2>1. at[n] \notin {"close_output", "done", "error"}
      BY <1>2 DEF Generate, UserThrow, PopAbort, NotifyAbort
    <2>2. at'[n] \notin {"close_output", "done", "error"}
      BY <1>0, <1>2, <2>1 DEF Generate, UserThrow, PopAbort, NotifyAbort, AbortReceived, Throw, Goto, TypeOK
    <2> QED BY <1>1, <2>1, <2>2, OwedAtWork, OwedAtWorkNext DEF Silent
  <1>3. CASE InputsClosed(n)
    <2>1. at[n] = "close_input" /\ at'[n] = "close_output" /\ index'[n] = 1
      BY <1>0, <1>3 DEF InputsClosed, Goto, TypeOK
    <2>2. \A j \in DOMAIN Out[n] : j >= 1
      BY <1>0, Ports
    <2> QED BY <1>0, <1>1, <2>1, <2>2 DEF Silent, Owed, OwesEof, finished
  <1>4. CASE Rethrow(n)
    <2>1. at[n] = "close_output" /\ at'[n] = "error" /\ OpenOutputs(n) = {}
      BY <1>0, <1>4 DEF Rethrow, Goto, TypeOK
    <2>2. Owed(n) = {} /\ Owed(n)' = {}
      BY <2>1 DEF Owed, OwesEof, finished, OpenOutputs
    <2> QED BY <1>1, <2>2 DEF Silent
  <1>5. CASE RunEmbedded(n)
    <2>1. Kind[n] = "embed"
      BY <1>0, <1>5 DEF RunEmbedded, NodeInv, KindInv
    <2>2. DOMAIN Out[n] = {}
      BY <1>0, <2>1, NetFacts DEF Arity
    <2> QED BY <1>0, <1>1, <2>2 DEF Silent, Owed
  <1> QED BY <1>2, <1>3, <1>4, <1>5

LEMMA ApplySilent ==
  ASSUME PortInv, UNCHANGED net, NEW n \in Node, Apply(n)
  PROVE  Silent(n)
  <1>0. TypeOK /\ NodeInv(n) /\ net \in Nets /\ Out' = Out /\ at[n] = "apply"
    BY DEF PortInv, TypeOK, Out, Apply
  <1>1. chan' = chan /\ input_count' = input_count /\ outOpen' = outOpen
    BY DEF Apply, ports
  <1>2. PICK todo \in Pushes(n, val[n]) :
           at' = [at EXCEPT ![n] = IF todo = <<>> THEN AfterValue(n, val[n]) ELSE "Push"]
    BY DEF Apply, Goto
  <1>3. Kind[n] \notin {"none", "source", "embed"} /\ val[n] \in Value /\ made[n] \in Nat
    BY <1>0 DEF NodeInv, KindInv, Reading, TypeOK, Value
  <1>4. /\ todo = <<>> => val[n] # EOF \/ NextInput(n, val[n]) \/ Kind[n] \in {"sink", "channel_sink"}
    BY <1>0, <1>2, <1>3, PushesGood DEF GoodPushes
  <1>5. at'[n] = (IF todo = <<>> THEN AfterValue(n, val[n]) ELSE "Push")
    BY <1>0, <1>2 DEF TypeOK
  <1>6. Begin(n) = "Pop"
    BY <1>3, BeginAt
  <1>7. at'[n] \in {"Push", "Pop", "after_work"} \/ (at'[n] = "done" /\ Kind[n] = "sink")
    BY <1>4, <1>5, <1>6 DEF AfterValue, NextInput
  <1>8. CASE at'[n] \in {"Push", "Pop", "after_work"}
    BY <1>0, <1>1, <1>8, OwedAtWork, OwedAtWorkNext DEF Silent
  <1>9. CASE Kind[n] = "sink"
    <2>1. DOMAIN Out[n] = {}
      BY <1>0, <1>9, Ports
    <2> QED BY <1>0, <1>1, <2>1 DEF Silent, Owed
  <1> QED BY <1>7, <1>8, <1>9

LEMMA PopReads ==
  ASSUME PortInv, UNCHANGED net, NEW n \in Node, Pop(n)
  PROVE  Reads(n, index[n])
  <1> DEFINE i == index[n]
             v == Head(chan[In[n][i]])
  <1>0. TypeOK /\ NodeInv(n) /\ net \in Nets /\ at[n] = "Pop"
    BY DEF PortInv, TypeOK, Pop
  <1>1. i \in DOMAIN In[n] /\ DOMAIN input_count[n] = DOMAIN In[n]
    BY <1>0 DEF NodeInv, KindInv, InputInv, DomainInv, Reading
  <1>2. /\ chan[In[n][i]] # <<>>
        /\ chan' = [chan EXCEPT ![In[n][i]] = Tail(chan[In[n][i]])]
    BY DEF Pop, Dequeue
  <1>3. outOpen' = outOpen /\ at'[n] \in {"Pop", "PopAbort", "apply"}
    BY <1>0 DEF Pop, Goto, TypeOK
  <1>4. input_count' = IF v = EOF THEN [input_count EXCEPT ![n] = [input_count[n] EXCEPT ![i] = input_count[n][i] - 1]]
                                  ELSE input_count
    BY DEF Pop
  <1>5. input_count \in [Node -> Seq(Nat)] /\ input_count[n][i] \in Nat
    BY <1>0, <1>1 DEF TypeOK
  <1> HIDE DEF i, v
  <1>6. /\ input_count'[n][i] = IF v = EOF THEN input_count[n][i] - 1 ELSE input_count[n][i]
        /\ \A k \in DOMAIN In[n] \ {i} : input_count'[n][k] = input_count[n][k]
    BY <1>1, <1>4, <1>5
  <1>7. Owed(n)' = Owed(n)
    BY <1>0, <1>3, OwedAtWork, OwedAtWorkNext
  <1>8. Reads(n, i)
    BY <1>1, <1>2, <1>5, <1>6, <1>7 DEF Reads, v
  <1> QED BY <1>8 DEF i

LEMMA CloseInputReads ==
  ASSUME PortInv, UNCHANGED net, NEW n \in Node, CloseInput(n)
  PROVE  \E i \in DOMAIN In[n] : Reads(n, i)
  <1>0. TypeOK /\ NodeInv(n) /\ net \in Nets /\ at[n] = "close_input" /\ at' = at /\ outOpen' = outOpen
    BY DEF PortInv, TypeOK, CloseInput
  <1>1. PICK i \in First(OpenInputs(n)) :
           /\ chan[In[n][i]] # <<>>
           /\ chan' = [chan EXCEPT ![In[n][i]] = Tail(chan[In[n][i]])]
           /\ \/ Head(chan[In[n][i]]) # EOF /\ input_count' = input_count
              \/ /\ Head(chan[In[n][i]]) = EOF
                 /\ input_count' = [input_count EXCEPT ![n] = [input_count[n] EXCEPT ![i] = input_count[n][i] - 1]]
    BY DEF CloseInput, Dequeue
  <1>2. i \in DOMAIN In[n] /\ DOMAIN input_count[n] = DOMAIN In[n]
    BY <1>0 DEF First, OpenInputs, NodeInv, DomainInv
  <1>3. input_count \in [Node -> Seq(Nat)] /\ input_count[n][i] \in Nat
    BY <1>0, <1>2 DEF TypeOK
  <1>4. /\ input_count'[n][i] = IF Head(chan[In[n][i]]) = EOF THEN input_count[n][i] - 1 ELSE input_count[n][i]
        /\ \A k \in DOMAIN In[n] \ {i} : input_count'[n][k] = input_count[n][k]
    BY <1>1, <1>2, <1>3
  <1>5. Owed(n)' = Owed(n)
    BY <1>0, OwedAtWork, OwedAtWorkNext
  <1>6. Reads(n, i)
    BY <1>1, <1>2, <1>3, <1>4, <1>5 DEF Reads
  <1> QED BY <1>2, <1>6

(* When the last push is an EOF, every output port has been closed.        *)
LEMMA AllClosed ==
  ASSUME NEW n \in Node, UNCHANGED net, NEW s, s = <<>>, EofPending(n, s)'
  PROVE  \A j \in DOMAIN Out[n] : ~ outOpen'[n][j]
  BY DEF EofPending, Out

LEMMA PushWrites ==
  ASSUME PortInv, UNCHANGED net, NEW n \in Node, Push(n)
  PROVE  \E j \in DOMAIN Out[n], v \in Value : Writes(n, j, v)
  <1>0. TypeOK /\ NodeInv(n) /\ net \in Nets /\ at[n] = "Push"
    BY DEF PortInv, TypeOK, Push
  <1> PICK p : p = pending[n]
    OBVIOUS
  <1>1. /\ p \in PushSeq /\ p # <<>> /\ p[1] = Head(p) /\ p[1][2] \in Value
        /\ p[1][1] \in DOMAIN Out[n] /\ outOpen[n][p[1][1]]
        /\ chan' = [chan EXCEPT ![Out[n][p[1][1]]] = Append(chan[Out[n][p[1][1]]], p[1][2])]
        /\ \A k \in DOMAIN Out[n] :
               outOpen'[n][k] <=> outOpen[n][k] /\ ~(k = p[1][1] /\ p[1][2] = EOF)
    <2>1. Enqueue(Out[n][p[1][1]], p[1][2])
      BY PushEffect, Zenon
    <2>2. chan' = [chan EXCEPT ![Out[n][p[1][1]]] = Append(chan[Out[n][p[1][1]]], p[1][2])]
      BY <2>1 DEF Enqueue
    <2>3. /\ p \in PushSeq /\ p # <<>> /\ p[1] = Head(p) /\ p[1][2] \in Value
          /\ p[1][1] \in DOMAIN Out[n] /\ outOpen[n][p[1][1]]
          /\ \A k \in DOMAIN Out[n] :
                 outOpen'[n][k] <=> outOpen[n][k] /\ ~(k = p[1][1] /\ p[1][2] = EOF)
      BY PushEffect
    <2> QED BY <2>2, <2>3, Zenon
  <1>2. \/ ItemsPending(n) /\ p[1][2] # EOF
        \/ EofPending(n, Tail(p))' /\ ~ ItemsPending(n)
    BY PushEffect
  <1> DEFINE j == p[1][1]
             v == p[1][2]
  <1>3. input_count' = input_count
    BY DEF Push
  <1>4. \/ at'[n] \in {"Push", "PushAbort", "generate", "Pop"}
        \/ at'[n] = "done" /\ Tail(p) = <<>> /\ v = EOF
    <2>1. Begin(n) \in {"generate", "Pop"}
      BY <1>0, BeginAt DEF NodeInv, KindInv, Pushing
    <2> QED BY <1>0, <1>1, <2>1 DEF Push, AfterPush, Goto, TypeOK
  <1>5. at'[n] = "done" => \A k \in DOMAIN Out[n] : ~ outOpen'[n][k]
    BY <1>1, <1>2, <1>4, AllClosed
  <1>6. Owed(n) = {k \in DOMAIN Out[n] : outOpen[n][k]}
    BY <1>0, OwedAtWork
  <1>7. Owed(n)' = {k \in DOMAIN Out[n] : outOpen'[n][k]}
    <2>1. CASE at'[n] = "done"
      BY <1>5, <2>1 DEF Owed, OwesEof, finished
    <2>2. CASE at'[n] # "done"
      BY <1>4, <2>2, OwedAtWorkNext
    <2> QED BY <2>1, <2>2
  <1> HIDE DEF j, v
  <1>8. Owed(n)' = IF v = EOF THEN Owed(n) \ {j} ELSE Owed(n)
    BY <1>1, <1>6, <1>7 DEF j, v
  <1>9. Writes(n, j, v) /\ j \in DOMAIN Out[n] /\ v \in Value
    BY <1>1, <1>3, <1>6, <1>8 DEF Writes, j, v
  <1> QED BY <1>9

LEMMA PushAbortSilent ==
  ASSUME PortInv, UNCHANGED net, NEW n \in Node, PushAbort(n)
  PROVE  Silent(n)
  <1>0. TypeOK /\ NodeInv(n) /\ net \in Nets /\ at[n] = "PushAbort"
    BY DEF PortInv, TypeOK, PushAbort
  <1>1. chan' = chan /\ input_count' = input_count /\ outOpen' = outOpen
    BY DEF PushAbort, ports
  <1>2. Begin(n) \in {"generate", "Pop"}
    BY <1>0, BeginAt DEF NodeInv, KindInv, Pushing
  <1>3. \/ at'[n] \in {"TryPush", "PushAbort", "Push", "generate", "Pop"}
        \/ at'[n] = "done" /\ Tail(pending[n]) = <<>> /\ Head(pending[n])[2] = EOF
    BY <1>0, <1>2 DEF PushAbort, AbortReceived, Throw, AfterPush, Goto, TypeOK
  <1>4. at'[n] = "done" => \A k \in DOMAIN Out[n] : ~ outOpen[n][k]
    <2>1. pending[n] \in Seq(Nat \X Value) /\ pending[n] # <<>>
      BY <1>0 DEF TypeOK, NodeInv, PendingInv, Pushing, Value
    <2>2. Head(pending[n]) = pending[n][1] /\ 1 \in DOMAIN pending[n]
      BY <2>1
    <2> QED BY <1>0, <1>3, <2>2 DEF NodeInv, PendingInv, ItemsPending, EofPending
  <1>5. Owed(n) = {k \in DOMAIN Out[n] : outOpen[n][k]}
    BY <1>0, OwedAtWork
  <1>6. Owed(n)' = {k \in DOMAIN Out[n] : outOpen'[n][k]}
    <2>1. CASE at'[n] = "done"
      BY <1>1, <1>4, <2>1 DEF Owed, OwesEof, finished
    <2>2. CASE at'[n] # "done"
      BY <1>3, <2>2, OwedAtWorkNext
    <2> QED BY <2>1, <2>2
  <1> QED BY <1>1, <1>5, <1>6 DEF Silent

LEMMA EofWrites ==
  ASSUME PortInv, UNCHANGED net, NEW n \in Node, AfterWork(n) \/ CloseOutput(n)
  PROVE  \E j \in DOMAIN Out[n] : Writes(n, j, EOF)
  <1>0. TypeOK /\ NodeInv(n) /\ net \in Nets /\ Out' = Out /\ EOF \in Value
    BY DEF PortInv, TypeOK, Value, Out
  <1>1. CASE AfterWork(n)
    <2>1. /\ at[n] = "after_work" /\ at'[n] = "done" /\ input_count' = input_count
          /\ chan' = [chan EXCEPT ![Out[n][1]] = Append(chan[Out[n][1]], EOF)]
      BY <1>0, <1>1 DEF AfterWork, Enqueue, Goto, TypeOK, ports
    <2>2. Kind[n] = "channel_sink" /\ AllOutputsOpen(n)
      BY <1>0, <2>1 DEF NodeInv, KindInv, PendingInv
    <2>3. DOMAIN Out[n] = {1}
      BY <1>0, <2>2, Ports
    <2>4. Owed(n) = {1} /\ Owed(n)' = {}
      BY <1>0, <2>1, <2>2, <2>3 DEF Owed, OwesEof, finished, AllOutputsOpen
    <2>5. Writes(n, 1, EOF)
      BY <1>0, <2>1, <2>4 DEF Writes
    <2> QED BY <2>3, <2>5
  <1>2. CASE CloseOutput(n)
    <2>1. PICK j \in First(OpenOutputs(n)) :
             /\ chan' = [chan EXCEPT ![Out[n][j]] = Append(chan[Out[n][j]], EOF)]
             /\ index' = [index EXCEPT ![n] = j + 1]
      BY <1>2 DEF CloseOutput, Enqueue
    <2>2. /\ at[n] = "close_output" /\ at' = at /\ outOpen' = outOpen /\ input_count' = input_count
          /\ index'[n] = j + 1
      BY <1>0, <1>2, <2>1 DEF CloseOutput, TypeOK, ports
    <2>3. DOMAIN Out[n] \subseteq Nat /\ index[n] \in Nat
      BY <1>0, Ports DEF TypeOK
    <2>4. /\ j \in DOMAIN Out[n] /\ outOpen[n][j] /\ j >= index[n] /\ j \in Nat
          /\ \A k \in DOMAIN Out[n] : outOpen[n][k] /\ k >= index[n] => j <= k
      BY <2>3 DEF First, OpenOutputs
    <2>5. /\ Owed(n) = {k \in DOMAIN Out[n] : outOpen[n][k] /\ k >= index[n]}
          /\ Owed(n)' = {k \in DOMAIN Out[n] : outOpen[n][k] /\ k >= j + 1}
      BY <1>0, <2>2 DEF Owed, OwesEof, finished
    <2>6. Owed(n)' = Owed(n) \ {j} /\ j \in Owed(n)
      BY <2>3, <2>4, <2>5
    <2>7. Writes(n, j, EOF)
      BY <1>0, <2>1, <2>2, <2>6 DEF Writes
    <2> QED BY <2>4, <2>7
  <1> QED BY <1>1, <1>2

LEMMA StepEffect ==
  ASSUME PortInv, UNCHANGED net, NEW n \in Node, Step(n)
  PROVE  Effect(n)
  <1>1. CASE \/ Generate(n) \/ UserThrow(n) \/ PopAbort(n) \/ NotifyAbort(n)
             \/ InputsClosed(n) \/ Rethrow(n) \/ RunEmbedded(n) \/ Apply(n) \/ PushAbort(n)
    BY <1>1, SilentSteps, ApplySilent, PushAbortSilent DEF Effect
  <1>2. CASE Pop(n)
    BY <1>2, PopReads DEF Effect, Reads
  <1>3. CASE CloseInput(n)
    BY <1>3, CloseInputReads DEF Effect
  <1>4. CASE Push(n)
    BY <1>4, PushWrites DEF Effect
  <1>5. CASE AfterWork(n) \/ CloseOutput(n)
    BY <1>5, EofWrites DEF Effect, Value
  <1> QED BY <1>1, <1>2, <1>3, <1>4, <1>5 DEF Step

-----------------------------------------------------------------------------

(* The EOFs in a sequence, and how many are left without its head.         *)
Eofs(q) == {k \in DOMAIN q : q[k] = EOF}

LEMMA EofsFinite ==
  ASSUME NEW q \in Seq(Value)
  PROVE  IsFiniteSet(Eofs(q)) /\ Cardinality(Eofs(q)) \in Nat
  <1>1. Len(q) \in Nat /\ Eofs(q) \subseteq 1..Len(q)
    BY DEF Eofs
  <1>2. IsFiniteSet(1..Len(q))
    BY <1>1, FS_Interval
  <1> QED BY <1>1, <1>2, FS_Subset, FS_CardinalityType

LEMMA EofsTail ==
  ASSUME NEW q \in Seq(Value), q # <<>>
  PROVE  Cardinality(Eofs(Tail(q))) =
             IF Head(q) = EOF THEN Cardinality(Eofs(q)) - 1 ELSE Cardinality(Eofs(q))
  <1> DEFINE S == Eofs(q) \ {1}
             T == Eofs(Tail(q))
             f == [k \in S |-> k - 1]
  <1>1. /\ Len(q) \in Nat /\ DOMAIN q = 1..Len(q) /\ Head(q) = q[1] /\ Len(q) >= 1
        /\ DOMAIN Tail(q) = 1..(Len(q) - 1)
        /\ \A k \in DOMAIN Tail(q) : Tail(q)[k] = q[k + 1]
    BY TailFacts
  <1>2. IsFiniteSet(Eofs(q)) /\ Cardinality(Eofs(q)) \in Nat
    BY EofsFinite
  <1>3. /\ IsFiniteSet(S)
        /\ Cardinality(S) = IF 1 \in Eofs(q) THEN Cardinality(Eofs(q)) - 1 ELSE Cardinality(Eofs(q))
    BY <1>2, FS_RemoveElement
  <1>4. 1 \in Eofs(q) <=> Head(q) = EOF
    BY <1>1 DEF Eofs
  <1>5. ExistsBijection(S, T)
    <2>1. f \in [S -> T]
      BY <1>1 DEF Eofs
    <2>2. \A a, b \in S : f[a] = f[b] => a = b
      BY <1>1 DEF Eofs
    <2>3. \A t \in T : \E a \in S : f[a] = t
      <3> SUFFICES ASSUME NEW t \in T PROVE \E a \in S : f[a] = t
        OBVIOUS
      <3>1. t + 1 \in S /\ (t + 1) - 1 = t
        BY <1>1 DEF Eofs
      <3> QED BY <3>1
    <2> HIDE DEF f, S, T
    <2>4. f \in Bijection(S, T)
      BY <2>1, <2>2, <2>3 DEF Bijection, Injection, Surjection, IsInjective
    <2> QED BY <2>4 DEF ExistsBijection
  <1> HIDE DEF S, T
  <1>6. Cardinality(T) = Cardinality(S)
    BY <1>3, <1>5, FS_Bijection
  <1> QED BY <1>3, <1>4, <1>6 DEF T

LEMMA EofsAppend ==
  ASSUME NEW q \in Seq(Value), NEW v \in Value
  PROVE  Cardinality(Eofs(Append(q, v))) =
             IF v = EOF THEN Cardinality(Eofs(q)) + 1 ELSE Cardinality(Eofs(q))
  <1> DEFINE r == Append(q, v)
  <1>1. /\ Len(q) \in Nat /\ DOMAIN q = 1..Len(q) /\ DOMAIN r = 1..(Len(q) + 1)
        /\ r[Len(q) + 1] = v /\ \A k \in 1..Len(q) : r[k] = q[k]
    OBVIOUS
  <1> HIDE DEF r
  <1>2. IsFiniteSet(Eofs(q)) /\ Len(q) + 1 \notin Eofs(q)
    BY <1>1, EofsFinite DEF Eofs
  <1>3. CASE v = EOF
    <2>1. Eofs(r) = Eofs(q) \cup {Len(q) + 1}
      BY <1>1, <1>3 DEF Eofs
    <2> QED BY <1>2, <1>3, <2>1, FS_AddElement DEF r
  <1>4. CASE v # EOF
    <2>1. Eofs(r) = Eofs(q)
      BY <1>1, <1>4 DEF Eofs
    <2> QED BY <1>4, <2>1 DEF r
  <1> QED BY <1>3, <1>4

-----------------------------------------------------------------------------

(* A queue that nobody owes an EOF to is empty or ends with an EOF.        *)
EndsWithEof ==
    \A c \in Channel : OwingWriters(c) = {} =>
        chan[c] = <<>> \/ chan[c][Len(chan[c])] = EOF

EofInv == EofAccounting /\ EndsWithEof

LEMMA OwingByOwed ==
  ASSUME NEW c
  PROVE  OwingWriters(c) = {m \in Node : \E j \in Owed(m) : Out[m][j] = c}
  BY DEF OwingWriters, Owed

LEMMA OwingByOwedNext ==
  ASSUME NEW c, UNCHANGED net
  PROVE  OwingWriters(c)' = {m \in Node : \E j \in Owed(m)' : Out[m][j] = c}
  BY DEF OwingWriters, Owed, Out

LEMMA OwingSame ==
  ASSUME UNCHANGED net, \A m \in Node : Owed(m)' = Owed(m), NEW c
  PROVE  OwingWriters(c)' = OwingWriters(c)
  BY OwingByOwed, OwingByOwedNext

LEMMA OwingFinite ==
  ASSUME NEW c
  PROVE  IsFiniteSet(OwingWriters(c)) /\ Cardinality(OwingWriters(c)) \in Nat
  <1>1. OwingWriters(c) \subseteq Writers(c)
    BY DEF OwingWriters, Writers
  <1> QED BY <1>1, WritersFinite

(* The accounting, for one reader.                                         *)
Accounted(m, k) == input_count[m][k] = Cardinality(OwingWriters(In[m][k])) + Cardinality(Eofs(chan[In[m][k]]))

LEMMA AccountedAll ==
  ASSUME EofAccounting, NEW m \in Node, NEW k \in DOMAIN In[m]
  PROVE  Accounted(m, k)
  BY DEF EofAccounting, Accounted, EofsIn, Eofs

LEMMA AccountedAllNext ==
  ASSUME UNCHANGED net, \A m \in Node : \A k \in DOMAIN In[m] : Accounted(m, k)'
  PROVE  EofAccounting'
  <1>1. In' = In
    BY DEF In
  <1> QED BY <1>1, Zenon DEF EofAccounting, Accounted, EofsIn, Eofs

LEMMA SilentEof ==
  ASSUME PortInv, EofInv, UNCHANGED net, chan' = chan,
         \A m \in Node : Owed(m)' = Owed(m) /\ input_count'[m] = input_count[m]
  PROVE  EofInv'
  <1>1. \A c : OwingWriters(c)' = OwingWriters(c)
    BY OwingSame
  <1>2. In' = In
    BY DEF In
  <1>3. \A m \in Node : \A k \in DOMAIN In[m] : Accounted(m, k)'
    BY <1>1, <1>2, AccountedAll DEF EofInv, Accounted, Eofs
  <1>4. EndsWithEof'
    BY <1>1 DEF EofInv, EndsWithEof
  <1> QED BY <1>3, <1>4, AccountedAllNext DEF EofInv

LEMMA ReadsEof ==
  ASSUME PortInv, EofInv, UNCHANGED net, NEW n \in Node, NEW i \in DOMAIN In[n], Reads(n, i),
         OthersOwe(n), \A m \in Node \ {n} : input_count'[m] = input_count[m]
  PROVE  EofInv'
  <1> DEFINE c0 == In[n][i]
  <1>0. TypeOK /\ net \in Nets /\ In' = In
    BY DEF PortInv, TypeOK, In
  <1>1. c0 \in Channel /\ \A m \in Node : \A k \in DOMAIN In[m] : In[m][k] \in Channel
    BY <1>0, NetFacts
  <1>2. \A c : OwingWriters(c)' = OwingWriters(c)
    BY OwingSame DEF Reads, OthersOwe
  <1>3. chan \in [Channel -> Seq(Value)]
    BY <1>0 DEF TypeOK, Value
  <1>4. chan'[c0] = Tail(chan[c0]) /\ (\A c \in Channel \ {c0} : chan'[c] = chan[c]) /\ chan[c0] # <<>>
    BY <1>1, <1>3 DEF Reads
  <1> HIDE DEF c0
  <1>5. ASSUME NEW m \in Node, NEW k \in DOMAIN In[m] PROVE Accounted(m, k)'
    <2>1. Accounted(m, k)
      BY AccountedAll DEF EofInv
    <2>2. CASE m = n /\ k = i
      <3>1. Cardinality(OwingWriters(c0)) \in Nat /\ Cardinality(Eofs(chan[c0])) \in Nat
        BY <1>1, <1>3, OwingFinite, EofsFinite
      <3>2. Cardinality(Eofs(chan'[c0])) =
                IF Head(chan[c0]) = EOF THEN Cardinality(Eofs(chan[c0])) - 1 ELSE Cardinality(Eofs(chan[c0]))
        BY <1>1, <1>3, <1>4, EofsTail
      <3>3. input_count'[n][i] = IF Head(chan[c0]) = EOF THEN input_count[n][i] - 1 ELSE input_count[n][i]
        BY DEF Reads, c0
      <3>4. input_count[n][i] = Cardinality(OwingWriters(c0)) + Cardinality(Eofs(chan[c0]))
        BY <2>1, <2>2 DEF Accounted, c0
      <3>5. input_count'[n][i] = Cardinality(OwingWriters(c0)) + Cardinality(Eofs(chan'[c0]))
        BY <3>1, <3>2, <3>3, <3>4
      <3>6. Accounted(n, i)' <=> input_count'[n][i] = Cardinality(OwingWriters(c0)) + Cardinality(Eofs(chan'[c0]))
        BY <1>0, <1>2 DEF Accounted, c0, Eofs
      <3> QED BY <2>2, <3>5, <3>6
    <2>3. CASE ~ (m = n /\ k = i)
      <3>1. In[m][k] # c0 /\ In[m][k] \in Channel
        BY <1>0, <1>1, <2>3, NetFacts DEF c0
      <3>2. chan'[In[m][k]] = chan[In[m][k]]
        BY <1>4, <3>1
      <3>3. input_count'[m][k] = input_count[m][k]
        BY <2>3 DEF Reads
      <3> QED BY <1>0, <1>2, <2>1, <3>2, <3>3 DEF Accounted, Eofs
    <2> QED BY <2>2, <2>3
  <1>6. EndsWithEof'
    <2> SUFFICES ASSUME NEW c \in Channel, OwingWriters(c)' = {}
                 PROVE  chan'[c] = <<>> \/ chan'[c][Len(chan'[c])] = EOF
      BY DEF EndsWithEof
    <2>1. chan[c] = <<>> \/ chan[c][Len(chan[c])] = EOF
      BY <1>2 DEF EofInv, EndsWithEof
    <2>2. CASE c # c0
      BY <1>4, <2>1, <2>2
    <2>3. CASE c = c0
      <3>1. \A k \in DOMAIN Tail(chan[c]) : Tail(chan[c])[k] = chan[c][k + 1]
        BY <1>3, <1>4, <2>3, TailFacts
      <3>2. Tail(chan[c]) # <<>> => Len(Tail(chan[c])) \in DOMAIN Tail(chan[c])
        BY <1>3, <1>4, <2>3, TailFacts
      <3>3. Len(Tail(chan[c])) + 1 = Len(chan[c])
        BY <1>3, <1>4, <2>3
      <3> QED BY <1>4, <2>1, <2>3, <3>1, <3>2, <3>3
    <2> QED BY <2>2, <2>3
  <1> QED BY <1>5, <1>6, AccountedAllNext DEF EofInv

LEMMA WritesEof ==
  ASSUME PortInv, EofInv, UNCHANGED net, NEW n \in Node, NEW j \in DOMAIN Out[n], NEW v \in Value,
         Writes(n, j, v), OthersOwe(n), \A m \in Node \ {n} : input_count'[m] = input_count[m]
  PROVE  EofInv'
  <1> PICK c0 : c0 = Out[n][j]
    OBVIOUS
  <1>0. TypeOK /\ net \in Nets /\ In' = In
    BY DEF PortInv, TypeOK, In
  <1>1. c0 \in Channel /\ \A m \in Node : \A k \in DOMAIN In[m] : In[m][k] \in Channel
    BY <1>0, NetFacts
  <1>2. chan \in [Channel -> Seq(Value)]
    BY <1>0 DEF TypeOK, Value
  <1>3. chan'[c0] = Append(chan[c0], v) /\ \A c \in Channel \ {c0} : chan'[c] = chan[c]
    BY <1>1, <1>2 DEF Writes
  <1>4. \A k \in Owed(n) : Out[n][k] = c0 => k = j
    BY <1>0, NetFacts DEF Owed
  <1>5. Owed(n)' = (IF v = EOF THEN Owed(n) \ {j} ELSE Owed(n)) /\ j \in Owed(n)
    BY DEF Writes
  <1>6. n \in OwingWriters(c0)
    BY <1>5, OwingByOwed
  <1>7. OwingWriters(c0)' = IF v = EOF THEN OwingWriters(c0) \ {n} ELSE OwingWriters(c0)
    <2>1. ASSUME NEW m \in Node
          PROVE  (\E k \in Owed(m)' : Out[m][k] = c0) <=>
                 (\E k \in Owed(m) : Out[m][k] = c0) /\ ~ (v = EOF /\ m = n)
      <3>1. CASE m = n
        BY <1>4, <1>5, <3>1
      <3>2. CASE m # n
        BY <3>2 DEF OthersOwe
      <3> QED BY <3>1, <3>2
    <2>2. /\ OwingWriters(c0)' = {m \in Node : \E k \in Owed(m)' : Out[m][k] = c0}
          /\ OwingWriters(c0) = {m \in Node : \E k \in Owed(m) : Out[m][k] = c0}
      BY OwingByOwed, OwingByOwedNext
    <2> QED BY <2>1, <2>2
  <1>8. \A c : c # c0 => OwingWriters(c)' = OwingWriters(c)
    <2> SUFFICES ASSUME NEW c, c # c0 PROVE OwingWriters(c)' = OwingWriters(c)
      OBVIOUS
    <2>1. ASSUME NEW m \in Node
          PROVE  (\E k \in Owed(m)' : Out[m][k] = c) <=> (\E k \in Owed(m) : Out[m][k] = c)
      <3>1. CASE m = n
        BY <1>5, <3>1
      <3>2. CASE m # n
        BY <3>2 DEF OthersOwe
      <3> QED BY <3>1, <3>2
    <2>2. /\ OwingWriters(c)' = {m \in Node : \E k \in Owed(m)' : Out[m][k] = c}
          /\ OwingWriters(c) = {m \in Node : \E k \in Owed(m) : Out[m][k] = c}
      BY OwingByOwed, OwingByOwedNext
    <2> QED BY <2>1, <2>2
  <1>9. ASSUME NEW m \in Node, NEW k \in DOMAIN In[m] PROVE Accounted(m, k)'
    <2>1. Accounted(m, k) /\ input_count'[m][k] = input_count[m][k] /\ In[m][k] \in Channel
      BY <1>1, AccountedAll DEF EofInv, Writes
    <2>2. CASE In[m][k] = c0
      <3>1. /\ IsFiniteSet(OwingWriters(c0)) /\ Cardinality(OwingWriters(c0)) \in Nat
            /\ Cardinality(Eofs(chan[c0])) \in Nat
        BY <1>1, <1>2, OwingFinite, EofsFinite
      <3>2. Cardinality(OwingWriters(c0)') =
                IF v = EOF THEN Cardinality(OwingWriters(c0)) - 1 ELSE Cardinality(OwingWriters(c0))
        BY <1>6, <1>7, <3>1, FS_RemoveElement
      <3>3. Cardinality(Eofs(chan'[c0])) =
                IF v = EOF THEN Cardinality(Eofs(chan[c0])) + 1 ELSE Cardinality(Eofs(chan[c0]))
        BY <1>1, <1>2, <1>3, EofsAppend
      <3>4. input_count[m][k] = Cardinality(OwingWriters(c0)) + Cardinality(Eofs(chan[c0]))
        BY <2>1, <2>2 DEF Accounted
      <3>5. input_count'[m][k] = Cardinality(OwingWriters(c0)') + Cardinality(Eofs(chan'[c0]))
        BY <2>1, <3>1, <3>2, <3>3, <3>4
      <3>6. In'[m][k] = c0
        BY <1>0, <2>2 DEF Out
      <3> QED BY <3>5, <3>6 DEF Accounted, Eofs
    <2>3. CASE In[m][k] # c0
      <3>1. chan'[In[m][k]] = chan[In[m][k]] /\ OwingWriters(In[m][k])' = OwingWriters(In[m][k])
        BY <1>0, <1>3, <1>8, <2>1, <2>3
      <3> QED BY <1>0, <2>1, <3>1 DEF Accounted, Eofs
    <2> QED BY <2>2, <2>3
  <1>10. EndsWithEof'
    <2> SUFFICES ASSUME NEW c \in Channel, OwingWriters(c)' = {}
                 PROVE  chan'[c] = <<>> \/ chan'[c][Len(chan'[c])] = EOF
      BY DEF EndsWithEof
    <2>1. CASE c = c0
      <3>1. v = EOF
        BY <1>6, <1>7, <2>1
      <3> QED BY <1>2, <1>3, <2>1, <3>1
    <2>2. CASE c # c0
      BY <1>3, <1>8, <2>2 DEF EofInv, EndsWithEof
    <2> QED BY <2>1, <2>2
  <1> QED BY <1>9, <1>10, AccountedAllNext DEF EofInv

LEMMA InitEof == Init => EofInv
  <1> SUFFICES ASSUME Init PROVE EofInv
    OBVIOUS
  <1>0. net \in Nets /\ PortInv
    BY InitPortInv DEF Init
  <1>1. ASSUME NEW c \in Channel PROVE OwingWriters(c) = Writers(c) /\ Eofs(chan[c]) = {} /\ chan[c] = <<>>
    <2>1. ASSUME NEW m \in Node, NEW j \in DOMAIN Out[m] PROVE OwesEof(m, j)
      <3>1. outOpen[m][j] /\ at[m] = Begin(m)
        BY DEF Init
      <3>2. Kind[m] # "none"
        <4>1. Arity(Kind[m], Len(In[m]), Len(Out[m])) /\ Out[m] \in Seq(Channel)
          BY <1>0, NetFacts
        <4>2. Len(Out[m]) # 0
          BY <4>1
        <4> QED BY <4>1, <4>2 DEF Arity
      <3>3. Begin(m) \notin {"done", "error", "close_output"}
        BY <3>2 DEF Begin
      <3> QED BY <3>1, <3>3 DEF OwesEof, finished
    <2>2. chan[c] = <<>>
      BY DEF Init
    <2> QED BY <2>1, <2>2 DEF OwingWriters, Writers, Eofs
  <1>2. EofAccounting
    <2> SUFFICES ASSUME NEW n \in Node, NEW i \in DOMAIN In[n]
                 PROVE  input_count[n][i] = Cardinality(OwingWriters(In[n][i])) + Cardinality(EofsIn(In[n][i]))
      BY DEF EofAccounting
    <2>1. In[n][i] \in Channel
      BY <1>0, NetFacts
    <2>2. input_count[n][i] = InputCount(n, i)
      BY DEF Init
    <2>3. InputCount(n, i) = Cardinality(Writers(In[n][i])) /\ InputCount(n, i) \in Nat
      BY <1>0, InputCountIsWriters
    <2>4. OwingWriters(In[n][i]) = Writers(In[n][i]) /\ EofsIn(In[n][i]) = {}
      BY <1>1, <2>1 DEF EofsIn, Eofs
    <2> QED BY <2>2, <2>3, <2>4, FS_EmptySet
  <1>3. EndsWithEof
    BY <1>1 DEF EndsWithEof
  <1> QED BY <1>2, <1>3 DEF EofInv

LEMMA NextEof == PortInv /\ EofInv /\ [Next]_vars => EofInv'
  <1> SUFFICES ASSUME PortInv, EofInv, [Next]_vars PROVE EofInv'
    OBVIOUS
  <1>1. CASE UNCHANGED vars
    <2>1. UNCHANGED <<net, chan>> /\ \A m \in Node : Owed(m)' = Owed(m) /\ input_count'[m] = input_count[m]
      BY <1>1 DEF vars, work, ports, Owed, OwesEof, finished, Out
    <2> QED BY <2>1, SilentEof
  <1>2. ASSUME UNCHANGED net, NEW n \in Node, Step(n) PROVE EofInv'
    <2>1. OthersOwe(n) /\ (\A m \in Node \ {n} : input_count'[m] = input_count[m]) /\ Effect(n)
      BY <1>2, OthersOweSame, StepEffect
    <2>2. CASE Silent(n)
      <3>1. \A m \in Node : Owed(m)' = Owed(m) /\ input_count'[m] = input_count[m]
        BY <2>1, <2>2 DEF Silent, OthersOwe
      <3> QED BY <1>2, <2>2, <3>1, SilentEof DEF Silent
    <2>3. CASE \E i \in DOMAIN In[n] : Reads(n, i)
      BY <1>2, <2>1, <2>3, ReadsEof
    <2>4. CASE \E j \in DOMAIN Out[n], v \in Value : Writes(n, j, v)
      BY <1>2, <2>1, <2>4, WritesEof
    <2> QED BY <2>1, <2>2, <2>3, <2>4 DEF Effect
  <1>3. ASSUME UNCHANGED net, NEW p \in Pipeline, Return(p) PROVE EofInv'
    <2>1. UNCHANGED <<net, chan>> /\ \A m \in Node : Owed(m)' = Owed(m) /\ input_count'[m] = input_count[m]
      BY <1>3 DEF Return, work, ports, Owed, OwesEof, finished, Out
    <2> QED BY <2>1, SilentEof
  <1> QED BY <1>1, <1>2, <1>3 DEF Next

LEMMA EofsInOrder == Spec => []EofInv
  BY PortsInOrder, InitEof, NextEof, PTL DEF Spec

(* In every net, a reader expects exactly the EOFs that are in its queue   *)
(* or that its writers still owe: wherever user code throws and wherever a *)
(* processor is stopped by the abort channel, hosted_mode writes the EOFs  *)
(* that work() has not written, each of them once.                         *)
THEOREM EofsAccounted == Spec => []EofAccounting
  <1>1. EofInv => EofAccounting
    BY DEF EofInv
  <1> QED BY <1>1, EofsInOrder, PTL

(* A reader that has seen its last EOF has left nothing in the queue.      *)
THEOREM NothingLeft == Spec => []NothingAfterLastEof
  <1>1. PortInv /\ EofInv => NothingAfterLastEof
    <2> SUFFICES ASSUME PortInv, EofInv, NEW n \in Node, NEW i \in DOMAIN In[n], input_count[n][i] = 0
                 PROVE  chan[In[n][i]] = <<>>
      BY DEF NothingAfterLastEof
    <2>1. net \in Nets /\ chan \in [Channel -> Seq(Value)]
      BY DEF PortInv, TypeOK, Value
    <2>2. In[n][i] \in Channel
      BY <2>1, NetFacts
    <2> PICK c \in Channel : c = In[n][i]
      BY <2>2
    <2>3. IsFiniteSet(OwingWriters(c)) /\ Cardinality(OwingWriters(c)) \in Nat
      BY OwingFinite
    <2>4. IsFiniteSet(Eofs(chan[c])) /\ Cardinality(Eofs(chan[c])) \in Nat
      BY <2>1, EofsFinite
    <2>5. 0 = Cardinality(OwingWriters(c)) + Cardinality(Eofs(chan[c]))
      BY AccountedAll DEF Accounted, EofInv
    <2>6. OwingWriters(c) = {} /\ Eofs(chan[c]) = {}
      BY <2>3, <2>4, <2>5, FS_EmptySet
    <2>7. chan[c] = <<>> \/ chan[c][Len(chan[c])] = EOF
      BY <2>6 DEF EofInv, EndsWithEof
    <2>8. chan[c] # <<>> => Len(chan[c]) \in DOMAIN chan[c]
      BY <2>1
    <2> QED BY <2>6, <2>7, <2>8 DEF Eofs
  <1> QED BY <1>1, PortsInOrder, EofsInOrder, PTL

=============================================================================
