------------------------ MODULE PipelineGraphProofs ------------------------
(***************************************************************************)
(* Proofs about PipelineGraph, for every sequence of calls of the builder  *)
(* and of MergePipeline, without a bound on processors and branches, as    *)
(* long as no creater throws.  SetSink and Merge without leaves, and       *)
(* ConcatFrom with a leaf twice, are among the calls:                      *)
(*                                                                         *)
(*   TypeCorrect    ids, queues and the members of a Pipeline fit together *)
(*   LooseEnds      leaves_ are the processors without output              *)
(*   EofCounts      a reader counts its writers, unless it is a Concat     *)
(*                  that got a leaf twice                                  *)
(*   OneReader      a queue has one reader, in the pipeline of its writers *)
(*   Dags           dags_ shows the queues, and they form no cycle         *)
(*   QueuesHold     no queue is made without room                          *)
(*   CanRun         a completed pipeline is what PipelineRun assumes,      *)
(*                  if and only if none of these calls made a part of it   *)
(*                                                                         *)
(* The invariant says of every Pipeline by itself that it is well made     *)
(* (Good), and of any two that they share nothing (Apart).  The last two   *)
(* theorems add what holds of every processor (AllSound) and of every      *)
(* queue (Capacities).                                                     *)
(***************************************************************************)
EXTENDS PipelineGraph, FiniteSetTheorems, SequenceTheorems, TLAPS

PipelineRec == [nodes : SUBSET Nat, leaves : SUBSET Nat, dags : SUBSET (Nat \X Nat),
                sources : Seq(Nat), sinks : Seq(Nat), channel_size : Nat]
ProcessorRec == [kind : Kinds, ins : Seq(Nat), outs : Seq(Nat), count : Nat]

NoDup(s) == \A i, j \in DOMAIN s : s[i] = s[j] => i = j
Ins(n) == Range(node[n].ins)
Outs(n) == Range(node[n].outs)

(* The ports a processor of each class has, before and after it has been   *)
(* connected to a successor.                                               *)
Shape(x) ==
    /\ x.kind = "source" => x.ins = <<>> /\ Len(x.outs) <= 1
    /\ x.kind = "sink" => Len(x.ins) <= 1 /\ x.outs = <<>>
    /\ x.kind = "concat" => Len(x.ins) >= 1 /\ Len(x.outs) <= 1
    /\ x.kind \in {"dispatch", "fork"} => Len(x.ins) = 1 /\ Len(x.outs) >= 1
    /\ x.kind = "transform" => Len(x.ins) <= 1 /\ Len(x.outs) <= 1

(* A Pipeline P by itself.                                                 *)
MembersOK(P) ==
    /\ P.nodes \subseteq Id /\ P.leaves \subseteq P.nodes /\ P.dags \subseteq P.nodes \X P.nodes
    /\ Range(P.sources) = {n \in P.nodes : node[n].kind = "source"} /\ NoDup(P.sources)
    /\ Range(P.sinks) = {n \in P.nodes : node[n].kind = "sink"} /\ NoDup(P.sinks)
NodesOK(P) == \A n \in P.nodes : Shape(node[n])
LeavesOK(P) == P.leaves = {n \in P.nodes : node[n].kind # "sink" /\ node[n].outs = <<>>}
ReadersOK(P) ==
    /\ \A m, n \in P.nodes : \A a \in DOMAIN node[m].ins, b \in DOMAIN node[n].ins :
           node[m].ins[a] = node[n].ins[b] => m = n /\ a = b
    /\ \A m \in P.nodes : \A q \in Outs(m) : \E n \in P.nodes : q \in Ins(n)
WritersOf(P, q) == {m \in P.nodes : q \in Outs(m)}
Expected(x) == IF x.kind = "concat" THEN {0, 1} ELSE {x.count}
CountsOK(P) == \A n \in P.nodes : \A q \in Ins(n) : Cardinality(WritersOf(P, q)) \in Expected(node[n])
SinglesOK(P) ==
    \A m, n \in P.nodes : node[n].kind = "concat" /\ Outs(m) \cap Ins(n) # {} => Len(node[m].outs) <= 1
DagsOK(P) == \A m, n \in P.nodes : <<m, n>> \in P.dags <=> Outs(m) \cap Ins(n) # {}
Ranked(P) ==
    \E B \in Nat : \E rank \in [P.nodes -> 0..B] :
        \A m, n \in P.nodes : <<m, n>> \in P.dags => rank[m] < rank[n]

Good(P) == /\ MembersOK(P) /\ NodesOK(P) /\ LeavesOK(P) /\ ReadersOK(P)
           /\ CountsOK(P) /\ SinglesOK(P) /\ DagsOK(P) /\ Ranked(P)

(* Two Pipelines have no processor and no queue in common.                 *)
Apart(P, R) ==
    /\ P.nodes \cap R.nodes = {}
    /\ \A m \in P.nodes, n \in R.nodes : (Ins(m) \cup Outs(m)) \cap (Ins(n) \cup Outs(n)) = {}

Types == /\ node \in Seq(ProcessorRec) /\ queue \in Seq(Nat)
         /\ gone \subseteq Pipelines /\ pl \in [Pipelines -> PipelineRec]
         /\ \A n \in Id : Ins(n) \cup Outs(n) \subseteq Queue

Inv == /\ Types
       /\ \A p \in Pipelines : Good(pl[p])
       /\ \A p, r \in Pipelines : p # r => Apart(pl[p], pl[r])

-----------------------------------------------------------------------------

(* A Pipeline whose processors are left alone.                             *)
LEMMA FrameGood ==
  ASSUME NEW P, Good(P), Id \subseteq Id',
         \A n \in P.nodes : node'[n] = node[n]
  PROVE  Good(P)'
  <1>2. \A n \in P.nodes : Ins(n)' = Ins(n) /\ Outs(n)' = Outs(n) /\ node'[n] = node[n]
    BY DEF Ins, Outs
  <1>3. MembersOK(P)' /\ NodesOK(P)'
    <2>1. MembersOK(P)'
      BY <1>2 DEF Good, MembersOK
    <2>2. NodesOK(P)'
      BY <1>2 DEF Good, NodesOK, Shape
    <2> QED BY <2>1, <2>2
  <1>4. LeavesOK(P)' /\ ReadersOK(P)'
    BY <1>2 DEF Good, LeavesOK, ReadersOK
  <1>5. CountsOK(P)'
    <2>1. \A q : WritersOf(P, q)' = WritersOf(P, q)
      BY <1>2 DEF WritersOf
    <2> QED BY <1>2, <2>1 DEF Good, CountsOK, Expected
  <1>6. SinglesOK(P)' /\ DagsOK(P)' /\ Ranked(P)'
    BY <1>2 DEF Good, SinglesOK, DagsOK, Ranked
  <1> QED BY <1>3, <1>4, <1>5, <1>6 DEF Good

LEMMA FrameApart ==
  ASSUME NEW P, NEW R, Apart(P, R), \A n \in P.nodes \cup R.nodes : node'[n] = node[n]
  PROVE  Apart(P, R)'
  BY DEF Apart, Ins, Outs

LEMMA ApartSymmetric ==
  ASSUME NEW P, NEW R, Apart(P, R)
  PROVE  Apart(R, P)
  BY DEF Apart

LEMMA NoElements == Range(<<>>) = {} /\ NoDup(<<>>) /\ Len(<<>>) = 0
  BY DEF Range, NoDup

LEMMA Empty ==
  /\ Good(EmptyPipeline) /\ EmptyPipeline \in PipelineRec
  /\ \A P : Apart(EmptyPipeline, P) /\ Apart(P, EmptyPipeline)
  <1>1. /\ EmptyPipeline.nodes = {} /\ EmptyPipeline.leaves = {} /\ EmptyPipeline.dags = {}
        /\ EmptyPipeline.sources = <<>> /\ EmptyPipeline.sinks = <<>>
    BY DEF EmptyPipeline
  <1>2. EmptyPipeline \in PipelineRec
    BY SizeAssumption DEF EmptyPipeline, PipelineRec
  <1>3. Ranked(EmptyPipeline)
    <2>1. [n \in {} |-> 0] \in [EmptyPipeline.nodes -> 0..0]
      BY <1>1
    <2> QED BY <1>1, <2>1 DEF Ranked
  <1>4. MembersOK(EmptyPipeline)
    BY <1>1, NoElements DEF MembersOK
  <1>5. NodesOK(EmptyPipeline) /\ LeavesOK(EmptyPipeline) /\ ReadersOK(EmptyPipeline)
    BY <1>1 DEF NodesOK, LeavesOK, ReadersOK
  <1>6. CountsOK(EmptyPipeline) /\ SinglesOK(EmptyPipeline) /\ DagsOK(EmptyPipeline)
    BY <1>1 DEF CountsOK, SinglesOK, DagsOK
  <1>7. \A P : Apart(EmptyPipeline, P) /\ Apart(P, EmptyPipeline)
    BY <1>1 DEF Apart
  <1> QED BY <1>2, <1>3, <1>4, <1>5, <1>6, <1>7 DEF Good

LEMMA InitInv == Init => Inv
  <1> SUFFICES ASSUME Init PROVE Inv
    OBVIOUS
  <1>1. \A p \in Pipelines : pl[p] = EmptyPipeline
    BY DEF Init
  <1>2. Types
    <2>1. Id = {}
      BY DEF Init, Id
    <2> QED BY <2>1, Empty DEF Init, Types
  <1> QED BY <1>1, <1>2, Empty DEF Inv

(* Ids and queues that exist.                                              *)
LEMMA Counted ==
  ASSUME Types
  PROVE  /\ Len(node) \in Nat /\ Len(queue) \in Nat
         /\ \A n : n \in Id <=> n \in Nat /\ 1 <= n /\ n <= Len(node)
         /\ \A q : q \in Queue <=> q \in Nat /\ 1 <= q /\ q <= Len(queue)
  BY DEF Types, Id, Queue

-----------------------------------------------------------------------------

(* What a builder operation does to the pipeline O, which becomes P: the   *)
(* leaves S are connected, the processors N are new, and so is every queue *)
(* that an operation gives to S and N.                                     *)
FreshQueues == Queue' \ Queue
Cut(S) ==
    \A n \in S : /\ node'[n].kind = node[n].kind /\ node'[n].ins = node[n].ins
                 /\ node'[n].count = node[n].count
                 /\ Len(node'[n].outs) = 1 /\ Outs(n)' \subseteq FreshQueues
Made(S, N) ==
    /\ \A n \in N : Shape(node'[n]) /\ Ins(n)' \cup Outs(n)' \subseteq FreshQueues
    /\ \A m, n \in N : \A a \in DOMAIN node'[m].ins, b \in DOMAIN node'[n].ins :
           node'[m].ins[a] = node'[n].ins[b] => m = n /\ a = b
    /\ \A m \in S \cup N : \A q \in Outs(m)' : \E n \in N : q \in Ins(n)'
    /\ \A m, n \in N : Outs(m)' \cap Ins(n)' # {} => m < n
    /\ \A n \in N : \A q \in Ins(n)' :
           Cardinality({m \in S \cup N : q \in Outs(m)'}) \in Expected(node'[n])
    /\ \A m, n \in N : node'[n].kind = "concat" => Outs(m)' \cap Ins(n)' = {}
Listed(O, P, S, N) ==
    /\ P.nodes = O.nodes \cup N
    /\ P.leaves = (O.leaves \ S) \cup {n \in N : node'[n].kind # "sink" /\ node'[n].outs = <<>>}
    /\ P.dags \subseteq P.nodes \X P.nodes
    /\ \A m, n \in P.nodes :
           <<m, n>> \in P.dags <=>
               <<m, n>> \in O.dags \/ (m \in S \cup N /\ n \in N /\ Outs(m)' \cap Ins(n)' # {})
    /\ Range(P.sources) = Range(O.sources) \cup {n \in N : node'[n].kind = "source"}
    /\ Range(P.sinks) = Range(O.sinks) \cup {n \in N : node'[n].kind = "sink"}
    /\ NoDup(P.sources) /\ NoDup(P.sinks)
Grows(O, P, S, N) ==
    /\ Id' = Id \cup N /\ Id \cap N = {} /\ Queue \subseteq Queue'
    /\ S \subseteq O.leaves
    /\ \A n \in Id \ S : node'[n] = node[n]
    /\ Cut(S) /\ Made(S, N) /\ Listed(O, P, S, N)

(* The new ports of S and N meet no port that was there.                   *)
LEMMA GrowPorts ==
  ASSUME Types, NEW O, NEW P, NEW S, NEW N, Good(O), Grows(O, P, S, N)
  PROVE  /\ \A n \in Id : Ins(n)' = Ins(n) /\ node'[n].ins = node[n].ins
                          /\ node'[n].kind = node[n].kind /\ node'[n].count = node[n].count
         /\ \A n \in Id : Ins(n) \subseteq Queue /\ Outs(n) \subseteq Queue
         /\ \A n \in Id \ S : Outs(n)' = Outs(n) /\ node'[n].outs = node[n].outs
         /\ \A n \in S : node[n].outs = <<>> /\ Outs(n) = {} /\ node'[n].outs # <<>>
                         /\ node[n].kind # "sink" /\ Outs(n)' \cap Queue = {}
         /\ \A n \in N : Ins(n)' \cap Queue = {} /\ Outs(n)' \cap Queue = {}
         /\ S \subseteq O.nodes /\ O.nodes \subseteq Id /\ P.nodes = O.nodes \cup N /\ O.nodes \cap N = {}
  <1>1. S \subseteq O.nodes /\ O.nodes \subseteq Id /\ S \subseteq Id /\ O.nodes \cap N = {}
        /\ P.nodes = O.nodes \cup N
    BY DEF Good, MembersOK, Grows, Listed
  <1>2. \A n \in S : node[n].outs = <<>> /\ node[n].kind # "sink"
    BY DEF Grows, Good, LeavesOK
  <1>3. \A n \in S : Outs(n) = {}
    BY <1>2, NoElements DEF Outs
  <1>4. \A n \in S : node'[n].outs # <<>> /\ Outs(n)' \cap Queue = {}
    BY NoElements DEF Grows, Cut, FreshQueues
  <1>5. \A n \in N : Ins(n)' \cap Queue = {} /\ Outs(n)' \cap Queue = {}
    BY DEF Grows, Made, FreshQueues
  <1>6. \A n \in Id : node'[n].ins = node[n].ins /\ node'[n].kind = node[n].kind
                      /\ node'[n].count = node[n].count
    BY DEF Grows, Cut
  <1>7. \A n \in Id \ S : node'[n].outs = node[n].outs
    BY DEF Grows
  <1>8. \A n \in Id : Ins(n)' = Ins(n)
    BY <1>6 DEF Ins
  <1>9. \A n \in Id \ S : Outs(n)' = Outs(n)
    BY <1>7 DEF Outs
  <1>10. \A n \in Id : Ins(n) \subseteq Queue /\ Outs(n) \subseteq Queue
    BY DEF Types
  <1> QED BY <1>1, <1>2, <1>3, <1>4, <1>5, <1>6, <1>7, <1>8, <1>9, <1>10

(* A pipeline that grows stays well made: every conjunct by itself.        *)
LEMMA GrowMembers ==
  ASSUME Types, NEW O, NEW P, NEW S, NEW N, Good(O), Grows(O, P, S, N)
  PROVE  MembersOK(P)' /\ NodesOK(P)' /\ LeavesOK(P)'
  <1>1. P.nodes \subseteq Id'
    BY GrowPorts DEF Grows
  <1>2. P.leaves \subseteq P.nodes
    BY GrowPorts DEF Grows, Listed, Good, MembersOK
  <1>3. Range(P.sources) = {n \in P.nodes : node'[n].kind = "source"}
    <2>1. Range(P.sources) = Range(O.sources) \cup {n \in N : node'[n].kind = "source"}
      BY DEF Grows, Listed
    <2>2. Range(O.sources) = {n \in O.nodes : node[n].kind = "source"}
      BY DEF Good, MembersOK
    <2>3. \A n \in O.nodes : node'[n].kind = node[n].kind
      BY GrowPorts
    <2>4. P.nodes = O.nodes \cup N
      BY GrowPorts
    <2> QED BY ONLY <2>1, <2>2, <2>3, <2>4
  <1>4. Range(P.sinks) = {n \in P.nodes : node'[n].kind = "sink"}
    <2>1. Range(P.sinks) = Range(O.sinks) \cup {n \in N : node'[n].kind = "sink"}
      BY DEF Grows, Listed
    <2>2. Range(O.sinks) = {n \in O.nodes : node[n].kind = "sink"}
      BY DEF Good, MembersOK
    <2>3. \A n \in O.nodes : node'[n].kind = node[n].kind
      BY GrowPorts
    <2>4. P.nodes = O.nodes \cup N
      BY GrowPorts
    <2> QED BY ONLY <2>1, <2>2, <2>3, <2>4
  <1>5. MembersOK(P)'
    BY <1>1, <1>2, <1>3, <1>4 DEF Grows, Listed, MembersOK
  <1>6. NodesOK(P)'
    <2> SUFFICES ASSUME NEW n \in P.nodes PROVE Shape(node'[n])
      BY DEF NodesOK, Shape
    <2>1. CASE n \in N
      BY <2>1 DEF Grows, Made
    <2>2. CASE n \in O.nodes \ S
      <3>1. node'[n] = node[n]
        BY <2>2, GrowPorts DEF Grows
      <3> QED BY <2>2, <3>1 DEF Good, NodesOK
    <2>3. CASE n \in S
      <3>1. Shape(node[n]) /\ node[n].outs = <<>> /\ Len(node[n].outs) = 0 /\ node[n].kind # "sink"
        BY <2>3, GrowPorts, NoElements DEF Good, NodesOK
      <3>2. node'[n].kind = node[n].kind /\ node'[n].ins = node[n].ins /\ Len(node'[n].outs) = 1
        BY <2>3 DEF Grows, Cut
      <3> QED BY <3>1, <3>2 DEF Shape
    <2> QED BY <2>1, <2>2, <2>3, GrowPorts
  <1>7. LeavesOK(P)'
    <2> SUFFICES ASSUME NEW n
                 PROVE  n \in P.leaves <=> n \in P.nodes /\ node'[n].kind # "sink" /\ node'[n].outs = <<>>
      BY <1>2 DEF LeavesOK
    <2>1. n \in P.leaves <=> (n \in O.leaves /\ n \notin S)
                             \/ (n \in N /\ node'[n].kind # "sink" /\ node'[n].outs = <<>>)
      BY DEF Grows, Listed
    <2>2. n \in O.leaves <=> n \in O.nodes /\ node[n].kind # "sink" /\ node[n].outs = <<>>
      BY DEF Good, LeavesOK
    <2> QED BY <2>1, <2>2, GrowPorts
  <1> QED BY <1>5, <1>6, <1>7

LEMMA GrowReaders ==
  ASSUME Types, NEW O, NEW P, NEW S, NEW N, Good(O), Grows(O, P, S, N)
  PROVE  ReadersOK(P)'
  <1>1. ASSUME NEW m \in P.nodes, NEW n \in P.nodes,
               NEW a \in DOMAIN node'[m].ins, NEW b \in DOMAIN node'[n].ins,
               node'[m].ins[a] = node'[n].ins[b]
        PROVE  m = n /\ a = b
    <2>1. node'[m].ins[a] \in Ins(m)' /\ node'[n].ins[b] \in Ins(n)'
      BY DEF Ins, Range
    <2>2. CASE m \in N /\ n \in N
      BY <1>1, <2>2 DEF Grows, Made
    <2>3. CASE m \in O.nodes /\ n \in O.nodes
      <3>1. node'[m].ins = node[m].ins /\ node'[n].ins = node[n].ins
        BY <2>3, GrowPorts
      <3> QED BY <1>1, <2>3, <3>1 DEF Good, ReadersOK
    <2>4. CASE m \in O.nodes /\ n \in N
      BY <1>1, <2>1, <2>4, GrowPorts
    <2>5. CASE m \in N /\ n \in O.nodes
      BY <1>1, <2>1, <2>5, GrowPorts
    <2> QED BY <2>2, <2>3, <2>4, <2>5, GrowPorts
  <1>2. ASSUME NEW m \in P.nodes, NEW q \in Outs(m)'
        PROVE  \E n \in P.nodes : q \in Ins(n)'
    <2>1. CASE m \in S \cup N
      BY <2>1, GrowPorts DEF Grows, Made
    <2>2. CASE m \in O.nodes \ S
      <3>1. q \in Outs(m)
        BY <2>2, GrowPorts
      <3>2. PICK n \in O.nodes : q \in Ins(n)
        BY <2>2, <3>1 DEF Good, ReadersOK
      <3> QED BY <3>2, GrowPorts
    <2> QED BY <2>1, <2>2, GrowPorts
  <1> QED BY <1>1, <1>2 DEF ReadersOK

LEMMA GrowCounts ==
  ASSUME Types, NEW O, NEW P, NEW S, NEW N, Good(O), Grows(O, P, S, N)
  PROVE  CountsOK(P)'
  <1> SUFFICES ASSUME NEW n \in P.nodes, NEW q \in Ins(n)'
               PROVE  Cardinality({m \in P.nodes : q \in Outs(m)'}) \in Expected(node'[n])
    BY DEF CountsOK, WritersOf, Expected
  <1>1. CASE n \in N
    <2>1. q \notin Queue
      BY <1>1, GrowPorts
    <2>2. {m \in P.nodes : q \in Outs(m)'} = {m \in S \cup N : q \in Outs(m)'}
      BY <2>1, GrowPorts
    <2> QED BY <1>1, <2>2 DEF Grows, Made
  <1>2. CASE n \in O.nodes
    <2>1. q \in Ins(n) /\ q \in Queue
      BY <1>2, GrowPorts
    <2>2. {m \in P.nodes : q \in Outs(m)'} = WritersOf(O, q)
      BY <2>1, GrowPorts DEF WritersOf
    <2>3. Expected(node'[n]) = Expected(node[n])
      BY <1>2, GrowPorts DEF Expected
    <2> QED BY <1>2, <2>1, <2>2, <2>3 DEF Good, CountsOK
  <1> QED BY <1>1, <1>2, GrowPorts

LEMMA GrowSingles ==
  ASSUME Types, NEW O, NEW P, NEW S, NEW N, Good(O), Grows(O, P, S, N)
  PROVE  SinglesOK(P)'
  <1> SUFFICES ASSUME NEW m \in P.nodes, NEW n \in P.nodes, node'[n].kind = "concat",
                      Outs(m)' \cap Ins(n)' # {}
               PROVE  Len(node'[m].outs) <= 1
    BY DEF SinglesOK
  <1>1. CASE m \in S
    <2>1. Len(node'[m].outs) = 1
      BY <1>1 DEF Grows, Cut
    <2> QED BY ONLY <2>1
  <1>2. CASE m \in N
    <2>1. n \notin O.nodes
      BY <1>2, GrowPorts
    <2> QED BY <1>2, <2>1, GrowPorts DEF Grows, Made
  <1>3. CASE m \in O.nodes \ S
    <2>1. n \in O.nodes /\ node[n].kind = "concat" /\ Outs(m) \cap Ins(n) # {} /\ node'[m].outs = node[m].outs
      BY <1>3, GrowPorts
    <2> QED BY <1>3, <2>1 DEF Good, SinglesOK
  <1> QED BY <1>1, <1>2, <1>3, GrowPorts

LEMMA GrowDags ==
  ASSUME Types, NEW O, NEW P, NEW S, NEW N, Good(O), Grows(O, P, S, N)
  PROVE  DagsOK(P)'
  <1> SUFFICES ASSUME NEW m \in P.nodes, NEW n \in P.nodes
               PROVE  <<m, n>> \in P.dags <=> Outs(m)' \cap Ins(n)' # {}
    BY DEF DagsOK
  <1>1. <<m, n>> \in P.dags <=>
            <<m, n>> \in O.dags \/ (m \in S \cup N /\ n \in N /\ Outs(m)' \cap Ins(n)' # {})
    BY DEF Grows, Listed
  <1>2. <<m, n>> \in O.dags => m \in O.nodes /\ n \in O.nodes
    BY DEF Good, MembersOK
  <1>3. CASE n \in N
    <2>1. CASE m \in S \cup N
      BY <1>1, <1>2, <1>3, <2>1, GrowPorts
    <2>2. CASE m \in O.nodes \ S
      BY <1>1, <1>2, <1>3, <2>2, GrowPorts
    <2> QED BY <2>1, <2>2, GrowPorts
  <1>4. CASE n \in O.nodes
    <2>1. Ins(n)' = Ins(n) /\ Ins(n) \subseteq Queue /\ n \notin N
      BY <1>4, GrowPorts
    <2>2. CASE m \in N
      BY <1>1, <1>2, <2>1, <2>2, GrowPorts
    <2>3. CASE m \in S
      <3>1. <<m, n>> \in O.dags <=> Outs(m) \cap Ins(n) # {}
        <4>1. DagsOK(O)
          BY DEF Good
        <4>2. m \in O.nodes
          BY <2>3, GrowPorts
        <4> QED BY ONLY <1>4, <4>1, <4>2 DEF DagsOK
      <3> QED BY <1>1, <2>1, <2>3, <3>1, GrowPorts
    <2>4. CASE m \in O.nodes \ S
      <3>1. <<m, n>> \in O.dags <=> Outs(m) \cap Ins(n) # {}
        BY <1>4, <2>4, GrowPorts DEF Good, DagsOK
      <3> QED BY <1>1, <2>1, <2>4, <3>1, GrowPorts
    <2> QED BY <2>2, <2>3, <2>4, GrowPorts
  <1> QED BY <1>3, <1>4, GrowPorts

LEMMA GrowRanked ==
  ASSUME Types, NEW O, NEW P, NEW S, NEW N, Good(O), Grows(O, P, S, N), Len(node') \in Nat
  PROVE  Ranked(P)'
  <1>1. PICK B \in Nat : \E rank \in [O.nodes -> 0..B] :
            \A m, n \in O.nodes : <<m, n>> \in O.dags => rank[m] < rank[n]
    BY DEF Good, Ranked
  <1>2. PICK rank \in [O.nodes -> 0..B] :
            \A m, n \in O.nodes : <<m, n>> \in O.dags => rank[m] < rank[n]
    BY <1>1
  <1>3. N \subseteq 1..Len(node')
    BY DEF Grows, Id
  <1> DEFINE C == B + Len(node')
             longer == [n \in P.nodes |-> IF n \in N THEN B + n ELSE rank[n]]
  <1>4. longer \in [P.nodes -> 0..C]
    <2> SUFFICES ASSUME NEW n \in P.nodes PROVE (IF n \in N THEN B + n ELSE rank[n]) \in 0..C
      OBVIOUS
    <2>1. CASE n \in N
      BY <1>3, <2>1
    <2>2. CASE n \notin N
      <3>1. rank[n] \in 0..B
        BY <2>2, GrowPorts
      <3> QED BY <2>2, <3>1
    <2> QED BY <2>1, <2>2
  <1>5. ASSUME NEW m \in P.nodes, NEW n \in P.nodes, <<m, n>> \in P.dags
        PROVE  longer[m] < longer[n]
    <2>1. <<m, n>> \in O.dags \/ (m \in S \cup N /\ n \in N /\ Outs(m)' \cap Ins(n)' # {})
      BY <1>5 DEF Grows, Listed
    <2>2. CASE <<m, n>> \in O.dags
      <3>1. m \in O.nodes /\ n \in O.nodes /\ m \notin N /\ n \notin N
        BY <2>2, GrowPorts DEF Good, MembersOK
      <3> QED BY <1>2, <2>2, <3>1
    <2>3. CASE m \in N /\ n \in N /\ Outs(m)' \cap Ins(n)' # {}
      <3>1. m < n
        BY <2>3 DEF Grows, Made
      <3> QED BY <1>3, <2>3, <3>1
    <2>4. CASE m \in S /\ m \notin N /\ n \in N
      <3>1. rank[m] \in 0..B /\ n \in Nat /\ n >= 1
        BY <1>3, <2>4, GrowPorts
      <3> QED BY <2>4, <3>1
    <2> QED BY <2>1, <2>2, <2>3, <2>4
  <1>6. C \in Nat
    OBVIOUS
  <1> HIDE DEF C, longer
  <1>7. \E r \in [P.nodes -> 0..C] : \A m, n \in P.nodes : <<m, n>> \in P.dags => r[m] < r[n]
    BY <1>4, <1>5
  <1> QED BY <1>6, <1>7 DEF Ranked

LEMMA GrowGood ==
  ASSUME Types, NEW O, NEW P, NEW S, NEW N, Good(O), Grows(O, P, S, N), Len(node') \in Nat
  PROVE  Good(P)'
  BY GrowMembers, GrowReaders, GrowCounts, GrowSingles, GrowDags, GrowRanked DEF Good

(* Another pipeline has nothing to do with it.                             *)
LEMMA GrowApart ==
  ASSUME Types, NEW O, NEW P, NEW S, NEW N, Good(O), Grows(O, P, S, N),
         NEW R, Good(R), Apart(O, R)
  PROVE  Good(R)' /\ Apart(P, R)' /\ Apart(R, P)'
  <1>1. R.nodes \subseteq Id /\ R.nodes \cap S = {} /\ R.nodes \cap N = {}
    BY GrowPorts DEF Good, MembersOK, Apart, Grows
  <1>2. \A n \in R.nodes : node'[n] = node[n]
    BY <1>1 DEF Grows
  <1>3. Good(R)'
    BY <1>2, FrameGood DEF Grows
  <1>4. \A n \in R.nodes : /\ Ins(n)' = Ins(n) /\ Outs(n)' = Outs(n)
                           /\ Ins(n) \subseteq Queue /\ Outs(n) \subseteq Queue
    BY <1>1, GrowPorts
  <1>5. ASSUME NEW m \in P.nodes, NEW n \in R.nodes
        PROVE  m # n /\ (Ins(m) \cup Outs(m))' \cap (Ins(n) \cup Outs(n))' = {}
    <2>1. CASE m \in N
      BY <1>1, <1>4, <2>1, GrowPorts
    <2>2. CASE m \in S
      BY <1>1, <1>4, <2>2, GrowPorts DEF Apart
    <2>3. CASE m \in O.nodes \ S
      BY <1>1, <1>4, <2>3, GrowPorts DEF Apart
    <2> QED BY <2>1, <2>2, <2>3, GrowPorts
  <1> QED BY <1>3, <1>5 DEF Apart

(* All together: a builder operation on pipeline p.                        *)
LEMMA GrowInv ==
  ASSUME Inv, Types', NEW p \in Pipelines, NEW S, NEW N, NEW P,
         pl' = [pl EXCEPT ![p] = P], Grows(pl[p], P, S, N)
  PROVE  Inv'
  <1>1. PICK O : O = pl[p]
    OBVIOUS
  <1>2. Types /\ Good(O) /\ Grows(O, P, S, N) /\ Len(node') \in Nat
    BY <1>1 DEF Inv, Types
  <1>3. Good(P)'
    BY <1>2, GrowGood
  <1>4. \A r \in Pipelines \ {p} : pl'[r] = pl[r] /\ Good(pl[r]) /\ Apart(O, pl[r])
    BY <1>1 DEF Inv, Types
  <1>5. pl'[p] = P
    BY DEF Inv, Types
  <1>6. ASSUME NEW r \in Pipelines \ {p}, NEW R, R = pl[r]
        PROVE  Good(R)' /\ Apart(P, R)' /\ Apart(R, P)'
    BY <1>2, <1>4, <1>6, GrowApart
  <1>7. ASSUME NEW r \in Pipelines, NEW s \in Pipelines, r # p, s # p, r # s, NEW R, NEW Q, R = pl[r], Q = pl[s]
        PROVE  Apart(R, Q)'
    <2>1. Apart(R, Q) /\ R.nodes \subseteq Id /\ Q.nodes \subseteq Id
      BY <1>7 DEF Inv, Good, MembersOK
    <2>2. (R.nodes \cup Q.nodes) \cap S = {}
      BY <1>4, <1>7, <1>2, GrowPorts DEF Apart
    <2>3. \A n \in R.nodes \cup Q.nodes : node'[n] = node[n]
      BY <1>2, <2>1, <2>2 DEF Grows
    <2> QED BY <2>1, <2>3, FrameApart
  <1>8. ASSUME NEW r \in Pipelines PROVE Good(pl[r])'
    <2>1. CASE r = p
      BY <1>3, <1>5, <2>1 DEF Good, MembersOK, NodesOK, LeavesOK, ReadersOK, CountsOK, SinglesOK, DagsOK, Ranked, WritersOf
    <2>2. CASE r # p
      <3>1. PICK R : R = pl[r]
        OBVIOUS
      <3>2. Good(R)' /\ pl'[r] = R
        BY <1>4, <1>6, <2>2, <3>1
      <3> QED BY <3>2 DEF Good, MembersOK, NodesOK, LeavesOK, ReadersOK, CountsOK, SinglesOK, DagsOK, Ranked, WritersOf
    <2> QED BY <2>1, <2>2
  <1>9. ASSUME NEW r \in Pipelines, NEW s \in Pipelines, r # s PROVE Apart(pl[r], pl[s])'
    <2>1. CASE r = p
      BY <1>4, <1>5, <1>6, <1>9, <2>1 DEF Apart
    <2>2. CASE s = p
      BY <1>4, <1>5, <1>6, <1>9, <2>2 DEF Apart
    <2>3. CASE r # p /\ s # p
      BY <1>4, <1>7, <1>9, <2>3 DEF Apart
    <2> QED BY <2>1, <2>2, <2>3
  <1> QED BY <1>8, <1>9 DEF Inv

-----------------------------------------------------------------------------

LEMMA Joined ==
  ASSUME NEW T, NEW s \in Seq(T), NEW t \in Seq(T)
  PROVE  /\ s \o t \in Seq(T) /\ Len(s \o t) = Len(s) + Len(t) /\ Len(s) \in Nat /\ Len(t) \in Nat
         /\ \A i \in 1..Len(s) : (s \o t)[i] = s[i]
         /\ \A i \in 1..Len(t) : (s \o t)[Len(s) + i] = t[i]
  OBVIOUS

LEMMA OneElement == \A x : Range(<<x>>) = {x} /\ Len(<<x>>) = 1
  BY DEF Range

(* The state after connect(): the leaves S write into the new queues out,  *)
(* and the processors new have the ids N.                                  *)
Joins(S, out, new, k, N) ==
    /\ node' \in Seq(ProcessorRec) /\ queue' \in Seq(Nat) /\ gone' \subseteq Pipelines
    /\ Id' = Id \cup N /\ Id \cap N = {}
    /\ Queue \subseteq Queue' /\ FreshQueues = Len(queue) + 1 .. Len(queue) + k
    /\ \A n \in Id \ S : node'[n] = node[n]
    /\ Cut(S)
    /\ \A n \in S : Outs(n)' = {out[n]}
    /\ \A n : \A i \in DOMAIN new :
           n = NewId(i) => /\ node'[n] = new[i]
                           /\ Ins(n)' = Range(new[i].ins)
                           /\ Outs(n)' = Range(new[i].outs)
    /\ \A n \in Id' : Ins(n)' \cup Outs(n)' \subseteq Queue'

(* connect(), as the builder operations use it.                            *)
LEMMA Connected ==
  ASSUME Types, NEW p \in Pipelines, NEW S, S \subseteq Id, NEW out, DOMAIN out = S,
         NEW new \in Seq(ProcessorRec), NEW k \in Nat,
         \A n \in S : out[n] \in Len(queue) + 1 .. Len(queue) + k,
         \A i \in DOMAIN new : Range(new[i].ins) \cup Range(new[i].outs) \subseteq 1 .. Len(queue) + k,
         Connect(p, out, new, k),
         NEW N, N = {NewId(i) : i \in DOMAIN new}
  PROVE  Joins(S, out, new, k, N)
  <1> DEFINE old == [n \in Id |-> IF n \in S THEN [node[n] EXCEPT !.outs = <<out[n]>>] ELSE node[n]]
             more == [i \in 1..k |-> pl[p].channel_size]
  <1>1. node' = old \o new /\ queue' = queue \o more /\ gone' = gone
    BY DEF Connect
  <1>2. old \in Seq(ProcessorRec) /\ Len(old) = Len(node)
    <2>1. Len(node) \in Nat /\ Id = 1..Len(node) /\ \A n \in Id : node[n] \in ProcessorRec
      BY DEF Types, Id
    <2>2. ASSUME NEW n \in S PROVE [node[n] EXCEPT !.outs = <<out[n]>>] \in ProcessorRec
      <3>1. out[n] \in Nat /\ node[n] \in ProcessorRec
        BY <2>1 DEF Types
      <3>2. <<out[n]>> \in Seq(Nat)
        BY <3>1
      <3> QED BY <3>1, <3>2 DEF ProcessorRec
    <2>3. \A n \in Id : old[n] \in ProcessorRec
      BY <2>1, <2>2
    <2>4. old \in [1..Len(node) -> ProcessorRec]
      BY <2>1, <2>3
    <2> HIDE DEF old
    <2> QED BY <2>1, <2>4
  <1>3. more \in Seq(Nat) /\ Len(more) = k
    <2>1. pl[p].channel_size \in Nat
      BY DEF Types, PipelineRec
    <2> QED BY <2>1
  <1>4. \A n \in Id : old[n] = IF n \in S THEN [node[n] EXCEPT !.outs = <<out[n]>>] ELSE node[n]
    OBVIOUS
  <1> HIDE DEF old, more
  <1>5. node' \in Seq(ProcessorRec) /\ Len(node') = Len(node) + Len(new) /\ Len(new) \in Nat /\ Len(node) \in Nat
        /\ \A n \in Id : node'[n] = old[n]
    <2>1. node \in Seq(ProcessorRec) /\ Len(node) \in Nat
      BY DEF Types
    <2>2. /\ node' \in Seq(ProcessorRec) /\ Len(node') = Len(old) + Len(new) /\ Len(new) \in Nat
          /\ \A n \in 1..Len(old) : node'[n] = old[n]
      BY <1>1, <1>2, Joined
    <2> QED BY <1>2, <2>1, <2>2 DEF Id
  <1>6. queue' \in Seq(Nat) /\ Len(queue') = Len(queue) + k /\ Len(queue) \in Nat
    <2>1. queue \in Seq(Nat)
      BY DEF Types
    <2> QED BY ONLY <1>1, <1>3, <2>1, Joined
  <1>7. \A i \in DOMAIN new : node'[NewId(i)] = new[i]
    <2> SUFFICES ASSUME NEW i \in DOMAIN new PROVE node'[Len(node) + i] = new[i]
      BY DEF NewId
    <2>1. i \in 1..Len(new)
      OBVIOUS
    <2>2. node'[Len(old) + i] = new[i]
      BY <1>1, <1>2, <2>1, Joined
    <2> QED BY <1>2, <2>2
  <1>8. Id' = Id \cup N /\ Id \cap N = {}
    <2>1. DOMAIN new = 1..Len(new)
      OBVIOUS
    <2>2. N = Len(node) + 1 .. Len(node) + Len(new)
      <3>1. \A i \in DOMAIN new : NewId(i) \in Len(node) + 1 .. Len(node) + Len(new)
        BY <1>5, <2>1 DEF NewId
      <3>2. ASSUME NEW m \in Len(node) + 1 .. Len(node) + Len(new) PROVE m \in N
        <4>1. m - Len(node) \in 1..Len(new) /\ Len(node) + (m - Len(node)) = m
          BY <1>5
        <4> QED BY <2>1, <4>1 DEF NewId
      <3> QED BY <3>1, <3>2
    <2>3. \A m : m \in Id <=> m \in 1..Len(node)
      BY DEF Id
    <2>4. \A m : m \in Id' <=> m \in 1..Len(node')
      BY DEF Id
    <2>5. \A m : m \in 1..Len(node') <=> m \in 1..Len(node) \/ m \in Len(node) + 1 .. Len(node) + Len(new)
      BY ONLY <1>5
    <2>6. \A m : ~(m \in 1..Len(node) /\ m \in Len(node) + 1 .. Len(node) + Len(new))
      BY ONLY <1>5
    <2> QED BY <2>2, <2>3, <2>4, <2>5, <2>6
  <1>9. Queue \subseteq Queue' /\ FreshQueues = Len(queue) + 1 .. Len(queue) + k /\ Queue' = 1..Len(queue) + k
    BY <1>6 DEF Queue, FreshQueues
  <1>10. \A n \in Id \ S : node'[n] = node[n]
    BY <1>4, <1>5
  <1>11. ASSUME NEW n \in S
         PROVE  /\ node'[n].kind = node[n].kind /\ node'[n].ins = node[n].ins
                /\ node'[n].count = node[n].count /\ node'[n].outs = <<out[n]>>
    <2>1. node[n] \in ProcessorRec
      BY DEF Types, Id
    <2>2. node'[n] = [node[n] EXCEPT !.outs = <<out[n]>>]
      BY <1>4, <1>5
    <2> QED BY <2>1, <2>2 DEF ProcessorRec
  <1>12. \A n \in S : Outs(n)' = {out[n]} /\ Len(node'[n].outs) = 1
    <2> SUFFICES ASSUME NEW n \in S PROVE Outs(n)' = {out[n]} /\ Len(node'[n].outs) = 1
      OBVIOUS
    <2>1. node'[n].outs = <<out[n]>>
      BY <1>11
    <2> QED BY <2>1, OneElement DEF Outs
  <1>13. Cut(S)
    BY <1>9, <1>11, <1>12 DEF Cut
  <1>14. \A n : \A i \in DOMAIN new :
             n = NewId(i) => /\ node'[n] = new[i]
                             /\ Ins(n)' = Range(new[i].ins)
                             /\ Outs(n)' = Range(new[i].outs)
    <2>1. ASSUME NEW n PROVE Ins(n)' = Range(node'[n].ins) /\ Outs(n)' = Range(node'[n].outs)
      BY DEF Ins, Outs
    <2> QED BY <1>7, <2>1
  <1>15. \A n \in Id' : Ins(n)' \cup Outs(n)' \subseteq Queue'
    <2> SUFFICES ASSUME NEW n \in Id' PROVE Ins(n)' \cup Outs(n)' \subseteq Queue'
      OBVIOUS
    <2>1. CASE n \in N
      <3>1. PICK i \in DOMAIN new : n = NewId(i)
        BY <2>1
      <3> QED BY <1>9, <1>14, <3>1
    <2>2. CASE n \in Id \ S
      BY <1>9, <1>10, <2>2 DEF Types, Ins, Outs
    <2>3. CASE n \in S
      <3>1. Ins(n)' = Ins(n) /\ Ins(n) \subseteq Queue
        BY <1>11, <2>3 DEF Ins, Types
      <3> QED BY <1>9, <1>12, <2>3, <3>1 DEF FreshQueues
    <2> QED BY <1>8, <2>1, <2>2, <2>3
  <1>16. gone' \subseteq Pipelines
    BY <1>1 DEF Types
  <1> QED BY <1>5, <1>6, <1>8, <1>9, <1>10, <1>12, <1>13, <1>14, <1>15, <1>16 DEF Joins

LEMMA Appended ==
  ASSUME NEW s \in Seq(Nat), NEW x \in Nat, NoDup(s), x \notin Range(s)
  PROVE  Append(s, x) \in Seq(Nat) /\ Range(Append(s, x)) = Range(s) \cup {x} /\ NoDup(Append(s, x))
  <1>1. /\ Append(s, x) \in Seq(Nat) /\ Len(Append(s, x)) = Len(s) + 1 /\ Len(s) \in Nat
        /\ \A i \in 1..Len(s) : Append(s, x)[i] = s[i]
        /\ Append(s, x)[Len(s) + 1] = x
    OBVIOUS
  <1>2. DOMAIN s = 1..Len(s) /\ DOMAIN Append(s, x) = 1..Len(s) + 1
    BY <1>1
  <1>3. PICK t : t = Append(s, x)
    OBVIOUS
  <1>4. Range(t) = Range(s) \cup {x}
    <2>1. \A i \in DOMAIN t : t[i] \in Range(s) \cup {x}
      BY <1>1, <1>2, <1>3 DEF Range
    <2>2. x \in Range(t)
      BY <1>1, <1>2, <1>3 DEF Range
    <2>3. ASSUME NEW i \in DOMAIN s PROVE s[i] \in Range(t)
      BY <1>1, <1>2, <1>3 DEF Range
    <2> QED BY <2>1, <2>2, <2>3 DEF Range
  <1>5. \A i \in 1..Len(s) : s[i] # x
    BY <1>2 DEF Range
  <1>6. NoDup(t)
    <2> SUFFICES ASSUME NEW i \in DOMAIN t, NEW j \in DOMAIN t, t[i] = t[j] PROVE i = j
      BY DEF NoDup
    <2>1. CASE i \in 1..Len(s) /\ j \in 1..Len(s)
      <3>1. s[i] = s[j]
        BY <1>1, <1>3, <2>1
      <3> QED BY <1>2, <2>1, <3>1 DEF NoDup
    <2>2. CASE i = Len(s) + 1 /\ j \in 1..Len(s)
      BY <1>1, <1>3, <1>5, <2>2
    <2>3. CASE i \in 1..Len(s) /\ j = Len(s) + 1
      BY <1>1, <1>3, <1>5, <2>3
    <2>4. i \in 1..Len(s) + 1 /\ j \in 1..Len(s) + 1
      BY <1>2, <1>3
    <2> QED BY <1>1, <2>1, <2>2, <2>3, <2>4
  <1> QED BY <1>1, <1>3, <1>4, <1>6

(* An operation with one new processor x, which reads what S writes.       *)
Reads(x, S, out, k) ==
    /\ Shape(x) /\ x.outs = <<>> /\ NoDup(x.ins)
    /\ Range(x.ins) \subseteq Len(queue) + 1 .. Len(queue) + k
    /\ \A n \in S : out[n] \in Range(x.ins)
    /\ \A q \in Range(x.ins) : Cardinality({n \in S : out[n] = q}) \in Expected(x)
Gains(O, P, S, x, id) ==
    /\ P.nodes = O.nodes \cup {id}
    /\ P.leaves = (O.leaves \ S) \cup (IF x.kind = "sink" THEN {} ELSE {id})
    /\ P.dags = O.dags \cup {<<n, id>> : n \in S}
    /\ P.sources = IF x.kind = "source" THEN Append(O.sources, id) ELSE O.sources
    /\ P.sinks = IF x.kind = "sink" THEN Append(O.sinks, id) ELSE O.sinks
LEMMA OneNew ==
  ASSUME Inv, NEW p \in Pipelines, NEW S, S \subseteq pl[p].leaves, NEW out, DOMAIN out = S,
         NEW x \in ProcessorRec, NEW k \in Nat, Connect(p, out, <<x>>, k), NEW id, id = NewId(1),
         Reads(x, S, out, k), NEW P \in PipelineRec, pl' = [pl EXCEPT ![p] = P], Gains(pl[p], P, S, x, id)
  PROVE  Inv'
  <1>1. PICK O : O = pl[p]
    OBVIOUS
  <1>2. Types /\ Good(O) /\ O \in PipelineRec
    BY <1>1 DEF Inv, Types
  <1> USE DEF Reads, Gains
  <1>3. S \subseteq O.nodes /\ O.nodes \subseteq Id /\ O.leaves \subseteq O.nodes
        /\ O.dags \subseteq O.nodes \X O.nodes /\ S \subseteq Id
    BY <1>1, <1>2 DEF Good, MembersOK
  <1> DEFINE new == <<x>>
  <1>4. new \in Seq(ProcessorRec) /\ DOMAIN new = {1} /\ new[1] = x /\ Connect(p, out, new, k)
    OBVIOUS
  <1> HIDE DEF new
  <1> DEFINE N == {id}
  <1>5. N = {NewId(i) : i \in DOMAIN new}
    BY <1>4
  <1>6. Range(x.outs) = {}
    BY NoElements
  <1>7. Len(queue) \in Nat
    BY <1>2 DEF Types
  <1>8. Joins(S, out, new, k, N)
    <2>1. \A n \in S : out[n] \in Len(queue) + 1 .. Len(queue) + k
      OBVIOUS
    <2>2. \A i \in DOMAIN new : Range(new[i].ins) \cup Range(new[i].outs) \subseteq 1 .. Len(queue) + k
      <3>1. Len(queue) + 1 .. Len(queue) + k \subseteq 1 .. Len(queue) + k
        BY <1>7
      <3> QED BY <1>4, <1>6, <3>1
    <2> HIDE DEF N
    <2> QED BY <1>2, <1>3, <1>4, <1>5, <2>1, <2>2, Connected
  <1>9. node'[id] = x /\ Ins(id)' = Range(x.ins) /\ Outs(id)' = {}
    BY <1>4, <1>6, <1>8 DEF Joins
  <1>10. id \notin Id /\ id \notin O.nodes /\ id \in Nat
    <2>1. id \in Nat
      BY <1>2 DEF Types, NewId
    <2> QED BY <1>3, <1>8, <2>1 DEF Joins
  <1>11. Made(S, N)
    <2>1. \A n \in N : Shape(node'[n]) /\ Ins(n)' \cup Outs(n)' \subseteq FreshQueues
      BY <1>8, <1>9 DEF Joins
    <2>2. \A m, n \in N : \A a \in DOMAIN node'[m].ins, b \in DOMAIN node'[n].ins :
              node'[m].ins[a] = node'[n].ins[b] => m = n /\ a = b
      BY <1>9 DEF NoDup
    <2>3. \A m \in S \cup N : \A q \in Outs(m)' : \E n \in N : q \in Ins(n)'
      BY <1>8, <1>9 DEF Joins
    <2>4. \A m, n \in N : Outs(m)' \cap Ins(n)' # {} => m < n
      BY <1>9
    <2>5. ASSUME NEW n \in N, NEW q \in Ins(n)'
          PROVE  Cardinality({m \in S \cup N : q \in Outs(m)'}) \in Expected(node'[n])
      <3>1. {m \in S \cup N : q \in Outs(m)'} = {m \in S : out[m] = q}
        BY <1>8, <1>9 DEF Joins
      <3> QED BY <1>9, <3>1
    <2>6. \A m, n \in N : node'[n].kind = "concat" => Outs(m)' \cap Ins(n)' = {}
      BY <1>9
    <2> QED BY <2>1, <2>2, <2>3, <2>4, <2>5, <2>6 DEF Made
  <1>12. Listed(O, P, S, N)
    <2>1. P.nodes = O.nodes \cup N
      BY <1>1
    <2>2. P.leaves = (O.leaves \ S) \cup {n \in N : node'[n].kind # "sink" /\ node'[n].outs = <<>>}
      BY <1>1, <1>9
    <2>3. P.dags \subseteq P.nodes \X P.nodes
      BY <1>1, <1>3
    <2>4. ASSUME NEW m \in P.nodes, NEW n \in P.nodes
          PROVE  <<m, n>> \in P.dags <=>
                    <<m, n>> \in O.dags \/ (m \in S \cup N /\ n \in N /\ Outs(m)' \cap Ins(n)' # {})
      <3>1. <<m, n>> \in P.dags <=> <<m, n>> \in O.dags \/ (m \in S /\ n = id)
        BY <1>1
      <3>2. m \in S => Outs(m)' \cap Ins(id)' # {}
        BY <1>8, <1>9 DEF Joins
      <3> QED BY <1>9, <3>1, <3>2
    <2>5. /\ Range(P.sources) = Range(O.sources) \cup {n \in N : node'[n].kind = "source"}
          /\ NoDup(P.sources)
      <3>1. O.sources \in Seq(Nat) /\ NoDup(O.sources) /\ id \notin Range(O.sources)
        BY <1>2, <1>10 DEF Good, MembersOK, PipelineRec
      <3>2. CASE x.kind = "source"
        BY <1>1, <1>9, <1>10, <3>1, <3>2, Appended
      <3>3. CASE x.kind # "source"
        BY <1>1, <1>9, <3>1, <3>3
      <3> QED BY <3>2, <3>3
    <2>6. /\ Range(P.sinks) = Range(O.sinks) \cup {n \in N : node'[n].kind = "sink"}
          /\ NoDup(P.sinks)
      <3>1. O.sinks \in Seq(Nat) /\ NoDup(O.sinks) /\ id \notin Range(O.sinks)
        BY <1>2, <1>10 DEF Good, MembersOK, PipelineRec
      <3>2. CASE x.kind = "sink"
        BY <1>1, <1>9, <1>10, <3>1, <3>2, Appended
      <3>3. CASE x.kind # "sink"
        BY <1>1, <1>9, <3>1, <3>3
      <3> QED BY <3>2, <3>3
    <2> QED BY <2>1, <2>2, <2>3, <2>4, <2>5, <2>6 DEF Listed
  <1>13. Grows(O, P, S, N)
    BY <1>1, <1>8, <1>11, <1>12 DEF Grows, Joins
  <1>14. Types'
    <2>1. pl' \in [Pipelines -> PipelineRec]
      BY <1>2 DEF Types
    <2> QED BY <1>8, <2>1 DEF Types, Joins
  <1> HIDE DEF N, Reads, Gains
  <1> QED BY <1>1, <1>13, <1>14, GrowInv

LEMMA FiniteIds ==
  ASSUME Types, NEW S, S \subseteq Id
  PROVE  IsFiniteSet(S) /\ Cardinality(S) \in Nat
  <1>1. Len(node) \in Nat
    BY DEF Types
  <1>2. IsFiniteSet(Id)
    BY <1>1, FS_Interval DEF Id
  <1> QED BY <1>2, FS_Subset, FS_CardinalityType

(* Facts that every operation on pipeline p needs.                         *)
LEMMA Calls ==
  ASSUME Inv, NEW p \in Pipelines, NEW O, O = pl[p], NEW id, id = NewId(1)
  PROVE  /\ Types /\ Good(O) /\ O \in PipelineRec /\ O.leaves \subseteq Id /\ O.leaves \subseteq Nat
         /\ Len(node) \in Nat /\ Len(queue) \in Nat /\ id \in Nat /\ NewQueue(1) \in Nat
         /\ O.sources \in Seq(Nat) /\ O.sinks \in Seq(Nat)
         /\ Append(O.sources, id) \in Seq(Nat) /\ Append(O.sinks, id) \in Seq(Nat)
  <1>1. Types /\ Good(O) /\ O \in PipelineRec
    BY DEF Inv, Types
  <1>2. Len(node) \in Nat /\ Len(queue) \in Nat
    BY <1>1 DEF Types
  <1>3. O.leaves \subseteq Id /\ O.leaves \subseteq Nat
    BY <1>1 DEF Good, MembersOK, PipelineRec
  <1>4. O.sources \in Seq(Nat) /\ O.sinks \in Seq(Nat)
    BY <1>1 DEF PipelineRec
  <1>5. id \in Nat /\ NewQueue(1) \in Nat
    BY <1>2 DEF NewId, NewQueue
  <1> QED BY <1>1, <1>2, <1>3, <1>4, <1>5

LEMMA AddSourceKeeps ==
  ASSUME Inv, NEW p \in Pipelines, AddSource(p)
  PROVE  Inv'
  <1>1. PICK O : O = pl[p]
    OBVIOUS
  <1>2. PICK id : id = NewId(1)
    OBVIOUS
  <1>3. PICK x : x = Processor("source", <<>>, <<>>, 0)
    OBVIOUS
  <1>4. PICK P : P = [O EXCEPT !.nodes = @ \cup {id}, !.leaves = @ \cup {id}, !.sources = Append(@, id)]
    OBVIOUS
  <1>5. PICK out : out = <<>>
    OBVIOUS
  <1>6. O \in PipelineRec /\ id \in Nat /\ Append(O.sources, id) \in Seq(Nat)
    BY <1>1, <1>2, Calls
  <1>7. /\ P \in PipelineRec /\ P.nodes = O.nodes \cup {id} /\ P.leaves = O.leaves \cup {id}
        /\ P.dags = O.dags /\ P.sources = Append(O.sources, id) /\ P.sinks = O.sinks
    BY <1>4, <1>6 DEF PipelineRec
  <1>8. pl' = [pl EXCEPT ![p] = P]
    BY <1>1, <1>2, <1>4, Calls DEF AddSource, Types
  <1>9. /\ x \in ProcessorRec /\ x.kind = "source" /\ x.ins = <<>> /\ x.outs = <<>>
        /\ Shape(x) /\ Range(x.ins) = {} /\ NoDup(x.ins)
    BY <1>3, NoElements DEF Processor, ProcessorRec, Kinds, Shape
  <1>10. DOMAIN out = {} /\ Connect(p, out, <<x>>, 0)
    BY <1>3, <1>5 DEF AddSource
  <1>11. {<<n, id>> : n \in {}} = {}
    OBVIOUS
  <1>12. Reads(x, {}, out, 0)
    BY <1>9, <1>10 DEF Reads
  <1>13. Gains(O, P, {}, x, id)
    BY <1>7, <1>9, <1>11 DEF Gains
  <1> QED BY <1>1, <1>2, <1>7, <1>8, <1>9, <1>10, <1>12, <1>13, OneNew

LEMMA AddTransformKeeps ==
  ASSUME Inv, NEW p \in Pipelines, NEW leaf, AddTransform(p, leaf)
  PROVE  Inv'
  <1>1. PICK O : O = pl[p]
    OBVIOUS
  <1>2. PICK id, q : id = NewId(1) /\ q = NewQueue(1)
    OBVIOUS
  <1>3. PICK x : x = Processor("transform", <<q>>, <<>>, 1)
    OBVIOUS
  <1>4. PICK P : P = [O EXCEPT !.nodes = @ \cup {id}, !.leaves = (@ \ {leaf}) \cup {id},
                               !.dags = @ \cup {<<leaf, id>>}]
    OBVIOUS
  <1>5. PICK out : out = [n \in {leaf} |-> q]
    OBVIOUS
  <1>6. O \in PipelineRec /\ id \in Nat /\ leaf \in O.leaves /\ leaf \in Nat /\ Len(queue) \in Nat /\ q \in Nat
    BY <1>1, <1>2, Calls DEF AddTransform
  <1>7. /\ P \in PipelineRec /\ P.nodes = O.nodes \cup {id} /\ P.leaves = (O.leaves \ {leaf}) \cup {id}
        /\ P.dags = O.dags \cup {<<leaf, id>>} /\ P.sources = O.sources /\ P.sinks = O.sinks
    <2>1. PICK C : C = {<<leaf, id>>}
      OBVIOUS
    <2>2. P = [O EXCEPT !.nodes = @ \cup {id}, !.leaves = (@ \ {leaf}) \cup {id}, !.dags = @ \cup C]
      BY <1>4, <2>1
    <2>3. C \subseteq Nat \X Nat
      BY <1>6, <2>1
    <2>4. /\ P \in PipelineRec /\ P.nodes = O.nodes \cup {id} /\ P.leaves = (O.leaves \ {leaf}) \cup {id}
          /\ P.dags = O.dags \cup C /\ P.sources = O.sources /\ P.sinks = O.sinks
      BY ONLY <1>6, <2>2, <2>3 DEF PipelineRec
    <2> QED BY <2>1, <2>4
  <1>8. pl' = [pl EXCEPT ![p] = P]
    <2>1. pl \in [Pipelines -> PipelineRec]
      BY <1>1, <1>2, Calls DEF Types
    <2>2. PICK C : C = {<<leaf, id>>}
      OBVIOUS
    <2>3. pl' = [pl EXCEPT ![p].nodes = @ \cup {id}, ![p].leaves = (@ \ {leaf}) \cup {id},
                           ![p].dags = @ \cup C]
      BY <1>2, <2>2 DEF AddTransform
    <2>4. P = [O EXCEPT !.nodes = @ \cup {id}, !.leaves = (@ \ {leaf}) \cup {id}, !.dags = @ \cup C]
      BY <1>4, <2>2
    <2> QED BY ONLY <1>1, <2>1, <2>3, <2>4, p \in Pipelines DEF PipelineRec
  <1>9. /\ x \in ProcessorRec /\ x.kind = "transform" /\ x.ins = <<q>> /\ x.outs = <<>> /\ x.count = 1
        /\ Shape(x) /\ Range(x.ins) = {q} /\ NoDup(x.ins) /\ 1 \in Expected(x)
    <2>1. x.kind = "transform" /\ x.ins = <<q>> /\ x.outs = <<>> /\ x.count = 1
      BY <1>3 DEF Processor
    <2>2. x \in ProcessorRec
      BY <1>3, <1>6 DEF Processor, ProcessorRec, Kinds
    <2> QED BY <2>1, <2>2, OneElement, NoElements DEF Shape, NoDup, Expected
  <1>10. DOMAIN out = {leaf} /\ out[leaf] = q /\ Connect(p, out, <<x>>, 1)
    BY <1>2, <1>3, <1>5 DEF AddTransform
  <1>11. {<<n, id>> : n \in {leaf}} = {<<leaf, id>>}
    OBVIOUS
  <1>12. Range(x.ins) \subseteq Len(queue) + 1 .. Len(queue) + 1
    BY <1>2, <1>6, <1>9 DEF NewQueue
  <1>13. {n \in {leaf} : out[n] = q} = {leaf} /\ Cardinality({leaf}) = 1
    BY <1>10, FS_Singleton
  <1>14. \A r \in Range(x.ins) : Cardinality({n \in {leaf} : out[n] = r}) \in Expected(x)
    BY <1>9, <1>13
  <1>15. \A n \in {leaf} : out[n] \in Range(x.ins)
    BY <1>9, <1>10
  <1>16. Reads(x, {leaf}, out, 1)
    BY <1>9, <1>12, <1>14, <1>15 DEF Reads
  <1>17. Gains(O, P, {leaf}, x, id)
    BY <1>7, <1>9, <1>11 DEF Gains
  <1> QED BY <1>1, <1>2, <1>6, <1>7, <1>8, <1>9, <1>10, <1>16, <1>17, OneNew

LEMMA MergeIntoKeeps ==
  ASSUME Inv, NEW p \in Pipelines, NEW kind \in {"sink", "transform"}, NEW S, MergeInto(p, kind, S)
  PROVE  Inv'
  <1>1. PICK O : O = pl[p]
    OBVIOUS
  <1>2. PICK id, q : id = NewId(1) /\ q = NewQueue(1)
    OBVIOUS
  <1>3. PICK ins, x : /\ ins = (IF S = {} THEN <<>> ELSE <<q>>)
                      /\ x = Processor(kind, ins, <<>>, Cardinality(S))
    OBVIOUS
  <1>4. PICK P : P = [O EXCEPT !.nodes = @ \cup {id},
                               !.leaves = (@ \ S) \cup (IF kind = "sink" THEN {} ELSE {id}),
                               !.dags = @ \cup {<<n, id>> : n \in S},
                               !.sinks = IF kind = "sink" THEN Append(@, id) ELSE @]
    OBVIOUS
  <1>5. PICK out : out = [n \in S |-> q]
    OBVIOUS
  <1>6. /\ O \in PipelineRec /\ id \in Nat /\ S \subseteq O.leaves /\ S \subseteq Nat /\ Len(queue) \in Nat
        /\ q \in Nat /\ Append(O.sinks, id) \in Seq(Nat) /\ Cardinality(S) \in Nat
    <2>1. S \subseteq O.leaves
      BY <1>1 DEF MergeInto
    <2>2. Types /\ S \subseteq Id
      BY <1>1, <1>2, <2>1, Calls
    <2> QED BY <1>1, <1>2, <2>1, <2>2, Calls, FiniteIds
  <1>7. /\ P \in PipelineRec /\ P.nodes = O.nodes \cup {id}
        /\ P.leaves = (O.leaves \ S) \cup (IF kind = "sink" THEN {} ELSE {id})
        /\ P.dags = O.dags \cup {<<n, id>> : n \in S} /\ P.sources = O.sources
        /\ P.sinks = IF kind = "sink" THEN Append(O.sinks, id) ELSE O.sinks
    <2>1. PICK B, C : B = (IF kind = "sink" THEN {} ELSE {id}) /\ C = {<<n, id>> : n \in S}
      OBVIOUS
    <2>2. PICK D : D = IF kind = "sink" THEN Append(O.sinks, id) ELSE O.sinks
      OBVIOUS
    <2>3. P = [O EXCEPT !.nodes = @ \cup {id}, !.leaves = (@ \ S) \cup B, !.dags = @ \cup C, !.sinks = D]
      BY <1>4, <1>6, <2>1, <2>2 DEF PipelineRec
    <2>4. C \subseteq Nat \X Nat /\ B \subseteq Nat
      BY <1>6, <2>1
    <2>5. D \in Seq(Nat)
      BY <1>6, <2>2 DEF PipelineRec
    <2>6. /\ P \in PipelineRec /\ P.nodes = O.nodes \cup {id} /\ P.leaves = (O.leaves \ S) \cup B
          /\ P.dags = O.dags \cup C /\ P.sources = O.sources /\ P.sinks = D
      BY ONLY <1>6, <2>3, <2>4, <2>5 DEF PipelineRec
    <2> QED BY <2>1, <2>2, <2>6
  <1>8. pl' = [pl EXCEPT ![p] = P]
    <2>1. pl \in [Pipelines -> PipelineRec]
      BY <1>1, <1>2, Calls DEF Types
    <2>2. PICK B, C : B = (IF kind = "sink" THEN {} ELSE {id}) /\ C = {<<n, id>> : n \in S}
      OBVIOUS
    <2>3. pl' = [pl EXCEPT ![p].nodes = @ \cup {id}, ![p].leaves = (@ \ S) \cup B,
                           ![p].dags = @ \cup C,
                           ![p].sinks = IF kind = "sink" THEN Append(@, id) ELSE @]
      BY <1>2, <2>2 DEF MergeInto
    <2>4. P = [O EXCEPT !.nodes = @ \cup {id}, !.leaves = (@ \ S) \cup B, !.dags = @ \cup C,
                        !.sinks = IF kind = "sink" THEN Append(@, id) ELSE @]
      BY <1>4, <2>2
    <2> QED BY ONLY <1>1, <2>1, <2>3, <2>4, p \in Pipelines DEF PipelineRec
  <1>9. PICK k : k = Len(ins)
    OBVIOUS
  <1>10. /\ ins \in Seq(Nat) /\ k \in Nat /\ k <= 1 /\ NoDup(ins) /\ Range(ins) \subseteq {q}
         /\ S # {} => Range(ins) = {q} /\ k = 1
         /\ S = {} => Range(ins) = {} /\ k = 0
    <2>1. CASE S = {}
      BY <1>3, <1>9, <2>1, NoElements
    <2>2. CASE S # {}
      <3>1. ins = <<q>> /\ q \in Nat
        BY <1>3, <1>6, <2>2
      <3>2. NoDup(<<q>>)
        BY ONLY TRUE DEF NoDup
      <3>3. ins \in Seq(Nat) /\ Range(ins) = {q} /\ k = 1
        BY ONLY <1>9, <3>1, OneElement
      <3> QED BY ONLY <2>2, <3>1, <3>2, <3>3
    <2> QED BY <2>1, <2>2
  <1>11. /\ x \in ProcessorRec /\ x.kind = kind /\ x.ins = ins /\ x.outs = <<>> /\ x.count = Cardinality(S)
         /\ Shape(x) /\ Cardinality(S) \in Expected(x)
    <2>1. x.kind = kind /\ x.ins = ins /\ x.outs = <<>> /\ x.count = Cardinality(S)
      BY <1>3 DEF Processor
    <2>2. x \in ProcessorRec
      BY <1>3, <1>6, <1>10 DEF Processor, ProcessorRec, Kinds
    <2> QED BY <1>9, <1>10, <2>1, <2>2, NoElements DEF Shape, Expected
  <1>12. DOMAIN out = S /\ (\A n \in S : out[n] = q) /\ Connect(p, out, <<x>>, k)
    BY <1>2, <1>3, <1>5, <1>9 DEF MergeInto
  <1>13. Range(x.ins) \subseteq Len(queue) + 1 .. Len(queue) + k
    BY <1>2, <1>6, <1>10, <1>11 DEF NewQueue
  <1>14. {n \in S : out[n] = q} = S
    BY <1>12
  <1>15. \A r \in Range(x.ins) : Cardinality({n \in S : out[n] = r}) \in Expected(x)
    BY <1>10, <1>11, <1>14
  <1>16. \A n \in S : out[n] \in Range(x.ins)
    BY <1>10, <1>11, <1>12
  <1>17. Reads(x, S, out, k)
    BY <1>10, <1>11, <1>13, <1>15, <1>16 DEF Reads
  <1>18. Gains(O, P, S, x, id)
    BY <1>7, <1>11 DEF Gains
  <1> QED BY <1>1, <1>2, <1>6, <1>7, <1>8, <1>10, <1>11, <1>12, <1>17, <1>18, OneNew

(* Numbers have a least element.                                           *)
LEMMA Least ==
  ASSUME NEW T, T \subseteq Nat, T # {}
  PROVE  \E x \in T : \A y \in T : x <= y
  <1> DEFINE R == OpToRel(<, Nat)
  <1>1. IsWellFoundedOn(R, Nat)
    BY NatLessThanWellFounded
  <1>2. \A x, y \in Nat : <<y, x>> \in R <=> y < x
    BY DEF OpToRel
  <1> HIDE DEF R
  <1>3. \E x \in T : \A y \in T : ~ (<<y, x>> \in R)
    BY <1>1, WFMin
  <1>4. PICK x \in T : \A y \in T : ~ (<<y, x>> \in R)
    BY <1>3
  <1>5. ASSUME NEW y \in T PROVE x <= y
    <2>1. ~(y < x)
      BY <1>2, <1>4
    <2>2. x \in Nat /\ y \in Nat
      OBVIOUS
    <2> QED BY <2>1, <2>2
  <1> QED BY <1>5

LEMMA OrderedIsSeq ==
  ASSUME NEW p, NEW s \in OrderedLeaves(p), SizeAssumption
  PROVE  /\ s \in Seq(pl[p].leaves) /\ Len(s) \in Nat /\ Len(s) >= 1 /\ DOMAIN s = 1..Len(s)
         /\ Range(s) \subseteq pl[p].leaves
  <1>1. PICK k \in 1..MaxBranches : s \in [1..k -> pl[p].leaves]
    BY DEF OrderedLeaves, Leaves
  <1>2. k \in Nat /\ k >= 1
    BY DEF SizeAssumption
  <1>3. s \in Seq(pl[p].leaves) /\ Len(s) = k /\ DOMAIN s = 1..k
    BY <1>1, <1>2
  <1> QED BY <1>1, <1>2, <1>3 DEF Range

(* The place of an element in a sequence without duplicates.               *)
LEMMA PlaceOf ==
  ASSUME NEW s, NoDup(s), NEW i \in DOMAIN s
  PROVE  (CHOOSE j \in DOMAIN s : s[j] = s[i]) = i
  <1>1. PICK j : j = CHOOSE k \in DOMAIN s : s[k] = s[i]
    OBVIOUS
  <1>2. j \in DOMAIN s /\ s[j] = s[i]
    BY <1>1
  <1> QED BY <1>1, <1>2 DEF NoDup

(* Every element of a sequence has a last place.                           *)
LEMMA HasLastPlace ==
  ASSUME NEW s, NEW k \in Nat, DOMAIN s = 1..k, NEW n \in Range(s)
  PROVE  LastPlace(s, n) \in 1..k /\ s[LastPlace(s, n)] = n
  <1> DEFINE Ends(x) == \E i \in 1..k : s[i] = n /\ x = k - i
             T == {x \in Nat : Ends(x)}
  <1>1. PICK i \in 1..k : s[i] = n
    BY DEF Range
  <1>2. k - i \in Nat /\ Ends(k - i)
    BY <1>1
  <1>3. T # {} /\ T \subseteq Nat
    BY <1>2
  <1> HIDE DEF T
  <1>4. PICK x \in T : \A y \in T : x <= y
    BY <1>3, Least
  <1>5. PICK l \in 1..k : s[l] = n /\ x = k - l
    BY <1>4 DEF T
  <1>6. ASSUME NEW j \in 1..k, s[j] = n PROVE j <= l
    <2>1. k - j \in T
      BY <1>6 DEF T
    <2>2. k - l <= k - j
      BY <1>4, <1>5, <2>1
    <2> QED BY <2>2
  <1>7. \E a \in DOMAIN s : s[a] = n /\ \A j \in DOMAIN s : s[j] = n => j <= a
    BY <1>5, <1>6
  <1> QED BY <1>7 DEF LastPlace

LEMMA ConcatFromKeeps ==
  ASSUME Inv, NEW p \in Pipelines, NEW leaves \in OrderedLeaves(p), ConcatFrom(p, leaves)
  PROVE  Inv'
  <1>1. PICK O : O = pl[p]
    OBVIOUS
  <1>2. PICK id, S, ins : id = NewId(1) /\ S = Range(leaves) /\ ins = [i \in DOMAIN leaves |-> NewQueue(i)]
    OBVIOUS
  <1>3. PICK x : x = Processor("concat", ins, <<>>, 0)
    OBVIOUS
  <1>4. PICK C : C = {<<n, id>> : n \in S}
    OBVIOUS
  <1>5. PICK P : P = [O EXCEPT !.nodes = @ \cup {id}, !.leaves = (@ \ S) \cup {id}, !.dags = @ \cup C]
    OBVIOUS
  <1>6. PICK out : out = [n \in S |-> NewQueue(LastPlace(leaves, n))]
    OBVIOUS
  <1>7. PICK k : k = Len(leaves)
    OBVIOUS
  <1>8. /\ O \in PipelineRec /\ id \in Nat /\ S \subseteq O.leaves /\ S \subseteq Nat /\ Len(queue) \in Nat
        /\ k \in Nat /\ k >= 1 /\ DOMAIN leaves = 1..k /\ C \subseteq Nat \X Nat
    BY <1>1, <1>2, <1>4, <1>7, Calls, OrderedIsSeq, SizeAssumption
  <1>9. /\ P \in PipelineRec /\ P.nodes = O.nodes \cup {id} /\ P.leaves = (O.leaves \ S) \cup {id}
        /\ P.dags = O.dags \cup C /\ P.sources = O.sources /\ P.sinks = O.sinks
    BY ONLY <1>5, <1>8 DEF PipelineRec
  <1>10. pl' = [pl EXCEPT ![p] = P]
    <2>1. pl \in [Pipelines -> PipelineRec]
      BY <1>1, <1>2, Calls DEF Types
    <2>2. pl' = [pl EXCEPT ![p].nodes = @ \cup {id}, ![p].leaves = (@ \ S) \cup {id}, ![p].dags = @ \cup C]
      BY <1>2, <1>4 DEF ConcatFrom
    <2> QED BY ONLY <1>1, <1>5, <2>1, <2>2, p \in Pipelines DEF PipelineRec
  <1>11. /\ ins \in Seq(Nat) /\ Len(ins) = k /\ DOMAIN ins = 1..k
         /\ \A i \in 1..k : ins[i] = Len(queue) + i
    BY <1>2, <1>8 DEF NewQueue
  <1>12. ASSUME NEW n \in S
         PROVE  \E i \in 1..k : leaves[i] = n /\ out[n] = ins[i]
    <2>1. PICK i : i = LastPlace(leaves, n)
      OBVIOUS
    <2>2. i \in 1..k /\ leaves[i] = n
      BY <1>2, <1>8, <2>1, HasLastPlace
    <2>3. out[n] = NewQueue(i)
      BY <1>6, <2>1
    <2> QED BY <1>11, <2>2, <2>3 DEF NewQueue
  <1>13. \A i, j \in 1..k : ins[i] = ins[j] => i = j
    BY <1>8, <1>11
  <1>14. /\ x \in ProcessorRec /\ x.kind = "concat" /\ x.ins = ins /\ x.outs = <<>>
         /\ Shape(x) /\ NoDup(x.ins) /\ Expected(x) = {0, 1}
    <2>1. x.kind = "concat" /\ x.ins = ins /\ x.outs = <<>>
      BY <1>3 DEF Processor
    <2>2. x \in ProcessorRec
      BY <1>3, <1>11 DEF Processor, ProcessorRec, Kinds
    <2>3. NoDup(ins)
      BY <1>8, <1>11 DEF NoDup
    <2> QED BY <1>8, <1>11, <2>1, <2>2, <2>3, NoElements DEF Shape, Expected
  <1>15. DOMAIN out = S /\ Connect(p, out, <<x>>, k)
    BY <1>2, <1>3, <1>6, <1>7 DEF ConcatFrom
  <1>16. Reads(x, S, out, k)
    <2>1. Range(x.ins) \subseteq Len(queue) + 1 .. Len(queue) + k
      BY <1>8, <1>11, <1>14 DEF Range
    <2>2. \A n \in S : out[n] \in Range(x.ins)
      <3> SUFFICES ASSUME NEW n \in S PROVE out[n] \in Range(x.ins)
        OBVIOUS
      <3>1. PICK i \in 1..k : out[n] = ins[i]
        BY <1>12
      <3> QED BY <1>11, <1>14, <3>1 DEF Range
    <2>3. ASSUME NEW q \in Range(x.ins)
          PROVE  Cardinality({n \in S : out[n] = q}) \in Expected(x)
      <3>1. PICK W : W = {n \in S : out[n] = q}
        OBVIOUS
      <3>2. ASSUME NEW m \in W, NEW n \in W PROVE m = n
        <4>1. PICK i \in 1..k : leaves[i] = m /\ out[m] = ins[i]
          BY <1>12, <3>1
        <4>2. PICK j \in 1..k : leaves[j] = n /\ out[n] = ins[j]
          BY <1>12, <3>1
        <4>3. ins[i] = ins[j]
          BY <3>1, <4>1, <4>2
        <4>4. i = j
          BY <1>13, <4>3
        <4> QED BY <4>1, <4>2, <4>4
      <3>3. W = {} \/ \E n : W = {n}
        BY <3>2
      <3>4. Cardinality(W) \in {0, 1}
        BY <3>3, FS_EmptySet, FS_Singleton
      <3> QED BY <1>14, <3>1, <3>4
    <2> QED BY <1>14, <2>1, <2>2, <2>3 DEF Reads
  <1>17. Gains(O, P, S, x, id)
    BY <1>4, <1>9, <1>14 DEF Gains
  <1> QED BY <1>1, <1>2, <1>8, <1>9, <1>10, <1>14, <1>15, <1>16, <1>17, OneNew

LEMMA SetToSeqIsBijection ==
  ASSUME NEW S, IsFiniteSet(S), NEW s, s = SetToSeq(S)
  PROVE  \E k \in Nat : /\ s \in [1..k -> S] /\ s \in Seq(S) /\ Len(s) = k /\ DOMAIN s = 1..k
                        /\ NoDup(s) /\ Range(s) = S
  <1>1. PICK k \in Nat : k = Cardinality(S) /\ ExistsBijection(1..k, S)
    BY FS_CardinalityType
  <1>2. PICK f : f \in [1..k -> S] /\ IsInjective(f)
    BY <1>1 DEF ExistsBijection, Bijection, Injection
  <1>3. s \in [1..k -> S] /\ IsInjective(s)
    BY <1>1, <1>2 DEF SetToSeq
  <1>4. s \in Injection(1..k, S)
    BY <1>3 DEF Injection
  <1>5. IsFiniteSet(1..k) /\ Cardinality(1..k) = k
    BY FS_Interval
  <1>6. s \in Surjection(1..k, S)
    BY <1>1, <1>4, <1>5, FS_Injection
  <1>7. Range(s) = S
    BY <1>3, <1>6 DEF Surjection, Range
  <1>8. s \in Seq(S) /\ Len(s) = k /\ DOMAIN s = 1..k
    BY <1>3
  <1>9. NoDup(s)
    BY <1>3 DEF IsInjective, NoDup
  <1> QED BY <1>3, <1>7, <1>8, <1>9

LEMMA AddTransformsKeeps ==
  ASSUME Inv, "creater_throws" \notin Unusual, NEW p \in Pipelines, NEW S, AddTransforms(p, S)
  PROVE  Inv'
  <1>1. PICK O : O = pl[p]
    OBVIOUS
  <1> DEFINE order == SetToSeq(S)
  <1>2. order = SetToSeq(S)
    OBVIOUS
  <1> HIDE DEF order
  <1>3. S = O.leaves
    BY <1>1 DEF AddTransforms
  <1>4. /\ Types /\ Good(O) /\ O \in PipelineRec /\ S \subseteq Id /\ S \subseteq Nat
        /\ Len(node) \in Nat /\ Len(queue) \in Nat
    BY <1>1, <1>3, Calls
  <1>5. PICK k \in Nat : /\ order \in [1..k -> S] /\ Len(order) = k /\ DOMAIN order = 1..k
                         /\ NoDup(order) /\ Range(order) = S
    BY <1>2, <1>4, FiniteIds, SetToSeqIsBijection
  <1>6. PICK N, C : N = {NewId(i) : i \in DOMAIN order} /\ C = {<<order[i], NewId(i)>> : i \in DOMAIN order}
    OBVIOUS
  <1>7. PICK out : out = [n \in S |-> NewQueue(CHOOSE i \in DOMAIN order : order[i] = n)]
    OBVIOUS
  <1>8. PICK new : new = [i \in DOMAIN order |-> Processor("transform", <<NewQueue(i)>>, <<>>, 1)]
    OBVIOUS
  <1>9. PICK P : P = [O EXCEPT !.nodes = @ \cup N, !.leaves = N, !.dags = @ \cup C]
    OBVIOUS
  <1>10. \A i \in 1..k : NewId(i) \in N /\ NewId(i) = Len(node) + i
    BY <1>5, <1>6 DEF NewId
  <1>11. \A n \in N : n \in Nat /\ \E i \in 1..k : n = NewId(i)
    BY <1>4, <1>5, <1>6 DEF NewId
  <1>12. \A i \in 1..k : /\ new[i].kind = "transform" /\ new[i].ins = <<Len(queue) + i>>
                         /\ new[i].outs = <<>> /\ new[i].count = 1
                         /\ Range(new[i].ins) = {Len(queue) + i} /\ Range(new[i].outs) = {}
    <2> SUFFICES ASSUME NEW i \in 1..k
                 PROVE  /\ new[i].kind = "transform" /\ new[i].ins = <<Len(queue) + i>>
                        /\ new[i].outs = <<>> /\ new[i].count = 1
                        /\ Range(new[i].ins) = {Len(queue) + i} /\ Range(new[i].outs) = {}
      OBVIOUS
    <2>1. /\ new[i].kind = "transform" /\ new[i].ins = <<Len(queue) + i>>
          /\ new[i].outs = <<>> /\ new[i].count = 1
      BY <1>5, <1>8 DEF Processor, NewQueue
    <2> QED BY <2>1, OneElement, NoElements
  <1>13. new \in Seq(ProcessorRec) /\ DOMAIN new = 1..k
    <2>1. \A i \in 1..k : Processor("transform", <<NewQueue(i)>>, <<>>, 1) \in ProcessorRec
      <3> SUFFICES ASSUME NEW i \in 1..k PROVE Processor("transform", <<NewQueue(i)>>, <<>>, 1) \in ProcessorRec
        OBVIOUS
      <3>1. NewQueue(i) \in Nat
        BY <1>4 DEF NewQueue
      <3> QED BY <3>1 DEF Processor, ProcessorRec, Kinds
    <2>2. new \in [1..k -> ProcessorRec]
      BY <1>5, <1>8, <2>1
    <2> QED BY <2>2
  <1>14. \A i \in 1..k : order[i] \in S /\ out[order[i]] = Len(queue) + i
    <2> SUFFICES ASSUME NEW i \in 1..k PROVE order[i] \in S /\ out[order[i]] = Len(queue) + i
      OBVIOUS
    <2>1. order[i] \in S
      BY <1>5
    <2>2. (CHOOSE j \in DOMAIN order : order[j] = order[i]) = i
      BY <1>5, PlaceOf
    <2>3. out[order[i]] = NewQueue(CHOOSE j \in DOMAIN order : order[j] = order[i])
      BY <1>7, <2>1
    <2> QED BY <2>1, <2>2, <2>3 DEF NewQueue
  <1>15. \A n \in S : \E i \in 1..k : n = order[i]
    BY <1>5 DEF Range
  <1>16. Joins(S, out, new, k, N)
    <2>1. DOMAIN out = S /\ Connect(p, out, new, k)
      <3>1. Connect(p, [n \in S |-> NewQueue(CHOOSE i \in DOMAIN order : order[i] = n)],
                    [i \in DOMAIN order |-> Processor("transform", <<NewQueue(i)>>, <<>>, 1)], Len(order))
        BY ONLY AddTransforms(p, S), Zenon DEF AddTransforms, order
      <3>2. DOMAIN out = S
        BY <1>7
      <3> QED BY <1>5, <1>7, <1>8, <3>1, <3>2
    <2>2. \A n \in S : out[n] \in Len(queue) + 1 .. Len(queue) + k
      <3> SUFFICES ASSUME NEW n \in S PROVE out[n] \in Len(queue) + 1 .. Len(queue) + k
        OBVIOUS
      <3>1. PICK i \in 1..k : n = order[i]
        BY <1>15
      <3> QED BY <1>4, <1>14, <3>1
    <2>3. \A i \in DOMAIN new : Range(new[i].ins) \cup Range(new[i].outs) \subseteq 1 .. Len(queue) + k
      <3> SUFFICES ASSUME NEW i \in 1..k
                   PROVE  Range(new[i].ins) \cup Range(new[i].outs) \subseteq 1 .. Len(queue) + k
        BY <1>13
      <3>1. Range(new[i].ins) = {Len(queue) + i} /\ Range(new[i].outs) = {}
        BY <1>12
      <3>2. Len(queue) + i \in 1 .. Len(queue) + k
        BY <1>4
      <3> QED BY <3>1, <3>2
    <2>4. N = {NewId(i) : i \in DOMAIN new}
      BY <1>5, <1>6, <1>13
    <2> QED BY <1>4, <1>13, <2>1, <2>2, <2>3, <2>4, Connected
  <1>17. ASSUME NEW n \in N
         PROVE  \E i \in 1..k : /\ n = Len(node) + i /\ node'[n] = new[i] /\ Outs(n)' = {}
                                /\ Ins(n)' = {Len(queue) + i}
    <2>1. PICK i \in 1..k : n = NewId(i)
      BY <1>11
    <2>2. node'[n] = new[i] /\ Ins(n)' = Range(new[i].ins) /\ Outs(n)' = Range(new[i].outs)
      BY <1>13, <1>16, <2>1 DEF Joins
    <2>3. n = Len(node) + i /\ Range(new[i].ins) = {Len(queue) + i} /\ Range(new[i].outs) = {}
      BY <1>10, <1>12, <2>1
    <2> QED BY <2>2, <2>3
  <1>18. ASSUME NEW m \in S
         PROVE  \E i \in 1..k : m = order[i] /\ Outs(m)' = {Len(queue) + i}
    <2>1. PICK i \in 1..k : m = order[i]
      BY <1>15
    <2> QED BY <1>14, <1>16, <2>1 DEF Joins
  <1>19. S \cap N = {} /\ O.nodes \cap N = {} /\ N \subseteq Nat
    BY <1>4, <1>11, <1>16 DEF Joins, Good, MembersOK
  <1>20. Made(S, N)
    <2>1. ASSUME NEW n \in N PROVE Shape(node'[n]) /\ Ins(n)' \cup Outs(n)' \subseteq FreshQueues
      <3>1. PICK i \in 1..k : node'[n] = new[i] /\ Outs(n)' = {} /\ Ins(n)' = {Len(queue) + i}
        BY <1>17
      <3>2. Len(queue) + i \in FreshQueues
        BY <1>4, <1>16 DEF Joins
      <3>3. Shape(new[i])
        <4>1. new[i].kind = "transform" /\ Len(new[i].ins) = 1 /\ Len(new[i].outs) = 0
          BY <1>12, OneElement, NoElements
        <4> QED BY <4>1 DEF Shape
      <3> QED BY <3>1, <3>2, <3>3
    <2>2. ASSUME NEW m \in N, NEW n \in N, NEW a \in DOMAIN node'[m].ins, NEW b \in DOMAIN node'[n].ins,
                 node'[m].ins[a] = node'[n].ins[b]
          PROVE  m = n /\ a = b
      <3>1. PICK i \in 1..k : node'[m] = new[i] /\ m = Len(node) + i
        BY <1>17
      <3>2. PICK j \in 1..k : node'[n] = new[j] /\ n = Len(node) + j
        BY <1>17
      <3>3. node'[m].ins = <<Len(queue) + i>> /\ node'[n].ins = <<Len(queue) + j>>
        BY <1>12, <3>1, <3>2
      <3>4. a = 1 /\ b = 1 /\ Len(queue) + i = Len(queue) + j
        BY <2>2, <3>3
      <3> QED BY <1>4, <3>1, <3>2, <3>4
    <2>3. ASSUME NEW m \in S \cup N, NEW q \in Outs(m)' PROVE \E n \in N : q \in Ins(n)'
      <3>1. m \in S
        BY <1>17
      <3>2. PICK i \in 1..k : q = Len(queue) + i
        BY <1>18, <3>1
      <3>3. PICK n \in N : n = NewId(i)
        BY <1>10
      <3>4. Ins(n)' = Range(new[i].ins)
        BY <1>13, <1>16, <3>3 DEF Joins
      <3> QED BY <1>12, <3>2, <3>4
    <2>4. \A m, n \in N : Outs(m)' \cap Ins(n)' # {} => m < n
      BY <1>17
    <2>5. ASSUME NEW n \in N, NEW q \in Ins(n)'
          PROVE  Cardinality({m \in S \cup N : q \in Outs(m)'}) \in Expected(node'[n])
      <3>1. PICK i \in 1..k : node'[n] = new[i] /\ Ins(n)' = {Len(queue) + i}
        BY <1>17
      <3>2. q = Len(queue) + i /\ order[i] \in S
        BY <1>14, <3>1
      <3>3. \A m \in S : q \in Outs(m)' <=> m = order[i]
        <4> SUFFICES ASSUME NEW m \in S PROVE q \in Outs(m)' <=> m = order[i]
          OBVIOUS
        <4>1. PICK j \in 1..k : m = order[j] /\ Outs(m)' = {Len(queue) + j}
          BY <1>18
        <4>2. q = Len(queue) + j <=> i = j
          BY <1>4, <3>2
        <4>3. order[i] = order[j] => i = j
          BY <1>5 DEF NoDup
        <4> QED BY <4>1, <4>2, <4>3
      <3>4. \A m \in N : q \notin Outs(m)'
        BY <1>17
      <3>5. {m \in S \cup N : q \in Outs(m)'} = {order[i]}
        BY <3>2, <3>3, <3>4
      <3>6. 1 \in Expected(node'[n])
        BY <1>12, <3>1 DEF Expected
      <3> QED BY <3>5, <3>6, FS_Singleton
    <2>6. \A m, n \in N : node'[n].kind = "concat" => Outs(m)' \cap Ins(n)' = {}
      BY <1>17
    <2> QED BY <2>1, <2>2, <2>3, <2>4, <2>5, <2>6 DEF Made
  <1>21. C \subseteq Nat \X Nat
    <2> SUFFICES ASSUME NEW i \in 1..k PROVE <<order[i], NewId(i)>> \in Nat \X Nat
      BY <1>5, <1>6
    <2> QED BY <1>4, <1>5, <1>10, <1>19
  <1>22. /\ P \in PipelineRec /\ P.nodes = O.nodes \cup N /\ P.leaves = N
         /\ P.dags = O.dags \cup C /\ P.sources = O.sources /\ P.sinks = O.sinks
    BY ONLY <1>4, <1>9, <1>19, <1>21 DEF PipelineRec
  <1>23. pl' = [pl EXCEPT ![p] = P]
    <2>1. pl \in [Pipelines -> PipelineRec]
      BY <1>4 DEF Types
    <2>2. pl' = [pl EXCEPT ![p].nodes = @ \cup N, ![p].leaves = IF S = @ THEN N ELSE @, ![p].dags = @ \cup C]
      BY <1>2, <1>6 DEF AddTransforms
    <2> QED BY ONLY <1>1, <1>3, <1>9, <2>1, <2>2, p \in Pipelines DEF PipelineRec
  <1>24. ASSUME NEW m \in P.nodes, NEW n \in P.nodes
         PROVE  <<m, n>> \in P.dags <=>
                   <<m, n>> \in O.dags \/ (m \in S \cup N /\ n \in N /\ Outs(m)' \cap Ins(n)' # {})
    <2>1. <<m, n>> \in P.dags <=> <<m, n>> \in O.dags \/ <<m, n>> \in C
      BY <1>22
    <2>2. ASSUME <<m, n>> \in C PROVE m \in S /\ n \in N /\ Outs(m)' \cap Ins(n)' # {}
      <3>1. PICK i \in 1..k : m = order[i] /\ n = NewId(i)
        BY <1>5, <1>6, <2>2
      <3>2. Outs(m)' = {out[m]} /\ Ins(n)' = Range(new[i].ins)
        BY <1>13, <1>14, <1>16, <3>1 DEF Joins
      <3>3. Outs(m)' = {Len(queue) + i} /\ Ins(n)' = {Len(queue) + i}
        BY <1>12, <1>14, <3>1, <3>2
      <3> QED BY <1>10, <1>14, <3>1, <3>3
    <2>3. ASSUME m \in S \cup N, n \in N, Outs(m)' \cap Ins(n)' # {} PROVE <<m, n>> \in C
      <3>1. m \in S
        BY <1>17, <2>3
      <3>2. PICK i \in 1..k : m = order[i] /\ Outs(m)' = {Len(queue) + i}
        BY <1>18, <3>1
      <3>3. PICK j \in 1..k : n = Len(node) + j /\ Ins(n)' = {Len(queue) + j}
        BY <1>17, <2>3
      <3>4. i = j
        <4>1. Len(queue) + i = Len(queue) + j
          BY <2>3, <3>2, <3>3
        <4> QED BY <1>4, <4>1
      <3> QED BY <1>5, <1>6, <1>10, <3>2, <3>3, <3>4
    <2> QED BY <2>1, <2>2, <2>3
  <1>25. Listed(O, P, S, N)
    <2>1. \A n \in N : node'[n].kind = "transform" /\ node'[n].outs = <<>>
      BY <1>12, <1>17
    <2>2. P.leaves = (O.leaves \ S) \cup {n \in N : node'[n].kind # "sink" /\ node'[n].outs = <<>>}
      BY <1>3, <1>22, <2>1
    <2>3. O.dags \subseteq O.nodes \X O.nodes /\ S \subseteq O.nodes /\ NoDup(O.sources) /\ NoDup(O.sinks)
      BY <1>3, <1>4 DEF Good, MembersOK
    <2>4. C \subseteq P.nodes \X P.nodes
      BY <1>5, <1>6, <1>10, <1>14, <1>22, <2>3
    <2>5. P.dags \subseteq P.nodes \X P.nodes
      BY <1>22, <2>3, <2>4
    <2>6. /\ Range(P.sources) = Range(O.sources) \cup {n \in N : node'[n].kind = "source"}
          /\ Range(P.sinks) = Range(O.sinks) \cup {n \in N : node'[n].kind = "sink"}
      BY <1>22, <2>1
    <2> QED BY <1>22, <1>24, <2>2, <2>3, <2>5, <2>6 DEF Listed
  <1>26. Grows(O, P, S, N)
    BY <1>3, <1>16, <1>20, <1>25 DEF Grows, Joins
  <1>27. Types'
    <2>1. pl' \in [Pipelines -> PipelineRec]
      BY <1>4, <1>22, <1>23 DEF Types
    <2> QED BY <1>16, <2>1 DEF Types, Joins
  <1> QED BY <1>1, <1>23, <1>26, <1>27, GrowInv

LEMMA BranchFromKeeps ==
  ASSUME Inv, NEW p \in Pipelines, NEW kind \in {"dispatch", "fork"}, NEW leaf, NEW size \in Nat, size >= 1,
         BranchFrom(p, kind, leaf, size)
  PROVE  Inv'
  <1>1. PICK O, S : O = pl[p] /\ S = {leaf}
    OBVIOUS
  <1>2. PICK id : id = NewId(1)
    OBVIOUS
  <1>3. /\ Types /\ Good(O) /\ O \in PipelineRec /\ S \subseteq O.leaves /\ S \subseteq Id /\ S \subseteq Nat
        /\ Len(node) \in Nat /\ Len(queue) \in Nat /\ id = Len(node) + 1 /\ leaf \in O.leaves
    <2>1. leaf \in O.leaves
      BY <1>1 DEF BranchFrom
    <2> QED BY <1>1, <1>2, <2>1, Calls DEF NewId
  <1>4. PICK q, qs : q = NewQueue(size + 1) /\ qs = [i \in 1..size |-> NewQueue(i)]
    OBVIOUS
  <1>5. PICK x : x = Processor(kind, <<q>>, qs, 1)
    OBVIOUS
  <1>6. PICK tail : tail = [i \in 1..size |-> Processor("transform", <<NewQueue(i)>>, <<>>, 1)]
    OBVIOUS
  <1>7. PICK new : new = <<x>> \o tail
    OBVIOUS
  <1>8. PICK noops, N, C : /\ noops = {NewId(i + 1) : i \in 1..size} /\ N = noops \cup {id}
                           /\ C = ({id} \X noops) \cup {<<leaf, id>>}
    OBVIOUS
  <1>9. PICK out : out = [n \in {leaf} |-> q]
    OBVIOUS
  <1>10. PICK P : P = [O EXCEPT !.nodes = @ \cup N, !.leaves = (@ \ S) \cup noops, !.dags = @ \cup C]
    OBVIOUS
  <1>11. /\ q = Len(queue) + size + 1 /\ qs \in Seq(Nat) /\ Len(qs) = size /\ DOMAIN qs = 1..size
         /\ \A i \in 1..size : qs[i] = Len(queue) + i
    BY <1>3, <1>4 DEF NewQueue
  <1>12. Range(qs) = Len(queue) + 1 .. Len(queue) + size
    <2>1. ASSUME NEW r \in Len(queue) + 1 .. Len(queue) + size PROVE r \in Range(qs)
      <3>1. r - Len(queue) \in 1..size /\ qs[r - Len(queue)] = r
        BY <1>3, <1>11
      <3> QED BY <1>11, <3>1 DEF Range
    <2> QED BY <1>3, <1>11, <2>1 DEF Range
  <1>13. /\ x \in ProcessorRec /\ x.kind = kind /\ x.ins = <<q>> /\ x.outs = qs /\ x.count = 1
         /\ Range(x.ins) = {q} /\ Shape(x) /\ 1 \in Expected(x)
    <2>1. x.kind = kind /\ x.ins = <<q>> /\ x.outs = qs /\ x.count = 1
      BY <1>5 DEF Processor
    <2>2. q \in Nat
      BY <1>3, <1>11
    <2>3. x \in ProcessorRec
      BY <1>5, <1>11, <2>2 DEF Processor, ProcessorRec, Kinds
    <2> QED BY <1>11, <2>1, <2>3, OneElement DEF Shape, Expected
  <1>14. ASSUME NEW i \in 1..size
         PROVE  /\ tail[i] \in ProcessorRec /\ tail[i].kind = "transform" /\ tail[i].ins = <<Len(queue) + i>>
                /\ tail[i].outs = <<>> /\ tail[i].count = 1
                /\ Range(tail[i].ins) = {Len(queue) + i} /\ Range(tail[i].outs) = {}
                /\ Shape(tail[i]) /\ 1 \in Expected(tail[i])
    <2>1. tail[i] = Processor("transform", <<Len(queue) + i>>, <<>>, 1)
      BY <1>6 DEF NewQueue
    <2>2. /\ tail[i].kind = "transform" /\ tail[i].ins = <<Len(queue) + i>>
          /\ tail[i].outs = <<>> /\ tail[i].count = 1
      BY <2>1 DEF Processor
    <2>3. Len(queue) + i \in Nat
      BY <1>3
    <2>4. tail[i] \in ProcessorRec
      BY <2>1, <2>3 DEF Processor, ProcessorRec, Kinds
    <2> QED BY <2>2, <2>4, OneElement, NoElements DEF Shape, Expected
  <1>15. tail \in Seq(ProcessorRec) /\ Len(tail) = size /\ <<x>> \in Seq(ProcessorRec) /\ Len(<<x>>) = 1
    <2>1. tail \in [1..size -> ProcessorRec]
      BY <1>6, <1>14
    <2> QED BY <1>13, <2>1
  <1>16. new \in Seq(ProcessorRec) /\ DOMAIN new = 1..size + 1 /\ new[1] = x /\ \A i \in 1..size : new[i + 1] = tail[i]
    <2>1. PICK xs : xs = <<x>>
      OBVIOUS
    <2>2. xs \in Seq(ProcessorRec) /\ Len(xs) = 1 /\ xs[1] = x /\ new = xs \o tail
      BY <1>7, <1>15, <2>1
    <2>3. /\ new \in Seq(ProcessorRec) /\ Len(new) = 1 + size /\ new[1] = x
          /\ \A i \in 1..size : new[1 + i] = tail[i]
      <3>1. /\ xs \o tail \in Seq(ProcessorRec) /\ Len(xs \o tail) = Len(xs) + Len(tail)
            /\ \A i \in 1..Len(xs) : (xs \o tail)[i] = xs[i]
            /\ \A i \in 1..Len(tail) : (xs \o tail)[Len(xs) + i] = tail[i]
        <4>1. xs \in Seq(ProcessorRec) /\ tail \in Seq(ProcessorRec)
          BY <1>15, <2>2
        <4> QED BY ONLY <4>1, Joined
      <3>2. 1 \in 1..Len(xs)
        BY <2>2
      <3> QED BY <1>15, <2>2, <3>1, <3>2
    <2>4. DOMAIN new = 1..size + 1
      <3>1. DOMAIN new = 1..Len(new)
        BY <2>3
      <3>2. 1 + size = size + 1
        OBVIOUS
      <3> QED BY <2>3, <3>1, <3>2
    <2>5. \A i \in 1..size : 1 + i = i + 1
      OBVIOUS
    <2> QED BY <2>3, <2>4, <2>5
  <1>17. Joins(S, out, new, size + 1, N)
    <2>1. DOMAIN out = S
      BY <1>1, <1>9
    <2>2. Connect(p, out, new, size + 1)
      <3>1. Connect(p, [n \in {leaf} |-> NewQueue(size + 1)],
                    <<Processor(kind, <<NewQueue(size + 1)>>, [i \in 1..size |-> NewQueue(i)], 1)>>
                    \o [i \in 1..size |-> Processor("transform", <<NewQueue(i)>>, <<>>, 1)],
                    size + 1)
        BY ONLY BranchFrom(p, kind, leaf, size), Zenon DEF BranchFrom
      <3> QED BY ONLY <1>4, <1>5, <1>6, <1>7, <1>9, <3>1
    <2>3. \A n \in S : out[n] \in Len(queue) + 1 .. Len(queue) + (size + 1)
      BY <1>1, <1>3, <1>9, <1>11
    <2>4. \A i \in DOMAIN new : Range(new[i].ins) \cup Range(new[i].outs) \subseteq 1 .. Len(queue) + (size + 1)
      <3> SUFFICES ASSUME NEW i \in 1..size + 1
                   PROVE  Range(new[i].ins) \cup Range(new[i].outs) \subseteq 1 .. Len(queue) + (size + 1)
        BY <1>16
      <3>1. CASE i = 1
        <4>1. Range(new[i].ins) = {q} /\ Range(new[i].outs) = Len(queue) + 1 .. Len(queue) + size
          BY <1>12, <1>13, <1>16, <3>1
        <4>2. Len(queue) + 1 .. Len(queue) + size \subseteq 1 .. Len(queue) + (size + 1)
          BY <1>3
        <4>3. q \in 1 .. Len(queue) + (size + 1)
          BY <1>3, <1>11
        <4> QED BY <4>1, <4>2, <4>3
      <3>2. CASE i # 1
        <4>1. PICK j \in 1..size : i = j + 1
          <5>1. i - 1 \in 1..size /\ i = (i - 1) + 1
            BY <3>2
          <5> QED BY <5>1
        <4>2. new[i] = tail[j]
          BY <1>16, <4>1
        <4>3. Len(queue) + j \in 1 .. Len(queue) + (size + 1)
          BY <1>3
        <4> QED BY <1>14, <4>2, <4>3
      <3> QED BY <3>1, <3>2
    <2>5. N = {NewId(i) : i \in DOMAIN new}
      <3>1. \A i \in 1..size : i + 1 \in 1..size + 1
        OBVIOUS
      <3>2. \A j \in 1..size + 1 : j = 1 \/ (j - 1 \in 1..size /\ j = (j - 1) + 1)
        OBVIOUS
      <3>3. ASSUME NEW j \in 1..size + 1 PROVE NewId(j) \in N
        <4>1. CASE j = 1
          BY <1>2, <1>8, <4>1
        <4>2. CASE j - 1 \in 1..size /\ j = (j - 1) + 1
          <5>1. PICK i \in 1..size : j = i + 1
            BY <4>2
          <5> QED BY <1>8, <5>1
        <4> QED BY <3>2, <4>1, <4>2
      <3>4. 1 \in 1..size + 1
        OBVIOUS
      <3>5. ASSUME NEW n \in N PROVE \E j \in 1..size + 1 : n = NewId(j)
        BY <1>2, <1>8, <3>1, <3>4
      <3> QED BY <1>16, <3>3, <3>5
    <2>6. size + 1 \in Nat
      OBVIOUS
    <2> QED BY <1>3, <1>16, <2>1, <2>2, <2>3, <2>4, <2>5, <2>6, Connected
  <1>18. node'[id] = x /\ Ins(id)' = {q} /\ Outs(id)' = Len(queue) + 1 .. Len(queue) + size
    <2>1. 1 \in DOMAIN new
      BY <1>16
    <2>2. node'[id] = new[1] /\ Ins(id)' = Range(new[1].ins) /\ Outs(id)' = Range(new[1].outs)
      BY <1>2, <1>17, <2>1 DEF Joins
    <2> QED BY <1>12, <1>13, <1>16, <2>2
  <1>19. ASSUME NEW n \in noops
         PROVE  \E i \in 1..size : /\ n = Len(node) + i + 1 /\ node'[n] = tail[i]
                                   /\ Ins(n)' = {Len(queue) + i} /\ Outs(n)' = {}
    <2>1. PICK i \in 1..size : n = NewId(i + 1)
      BY <1>8
    <2>2. i + 1 \in DOMAIN new /\ new[i + 1] = tail[i]
      BY <1>16
    <2>3. node'[n] = new[i + 1] /\ Ins(n)' = Range(new[i + 1].ins) /\ Outs(n)' = Range(new[i + 1].outs)
      BY <1>17, <2>1, <2>2 DEF Joins
    <2>4. n = Len(node) + i + 1
      BY <1>3, <2>1 DEF NewId
    <2> QED BY <1>14, <2>2, <2>3, <2>4
  <1>20. ASSUME NEW i \in 1..size PROVE \E n \in noops : n = Len(node) + i + 1 /\ Ins(n)' = {Len(queue) + i}
    <2>1. PICK n \in noops : n = NewId(i + 1)
      BY <1>8
    <2>2. n = Len(node) + i + 1
      BY <1>3, <2>1 DEF NewId
    <2>3. PICK j \in 1..size : n = Len(node) + j + 1 /\ Ins(n)' = {Len(queue) + j}
      BY <1>19
    <2>4. i = j
      BY <1>3, <2>2, <2>3
    <2> QED BY <2>2, <2>3, <2>4
  <1>21. Outs(leaf)' = {q} /\ S \cap N = {} /\ O.nodes \cap N = {} /\ id \notin noops /\ N \subseteq Nat
    <2>1. Outs(leaf)' = {q}
      BY <1>1, <1>9, <1>17 DEF Joins
    <2>2. S \cap N = {} /\ O.nodes \cap N = {}
      BY <1>3, <1>17 DEF Joins, Good, MembersOK
    <2>3. id \notin noops /\ N \subseteq Nat
      <3>1. ASSUME NEW n \in noops PROVE n \in Nat /\ n # id
        <4>1. PICK i \in 1..size : n = Len(node) + i + 1
          BY <1>19
        <4> QED BY <1>3, <4>1
      <3>2. id \in Nat
        BY <1>3
      <3> QED BY <1>8, <3>1, <3>2
    <2> QED BY <2>1, <2>2, <2>3
  <1>22. FreshQueues = Len(queue) + 1 .. Len(queue) + (size + 1)
    BY <1>17 DEF Joins
  <1>23. \A n \in noops : q \notin Ins(n)' /\ n > id
    <2> SUFFICES ASSUME NEW n \in noops PROVE q \notin Ins(n)' /\ n > id
      OBVIOUS
    <2>1. PICK i \in 1..size : n = Len(node) + i + 1 /\ Ins(n)' = {Len(queue) + i}
      BY <1>19
    <2>2. Len(queue) + i # q /\ Len(node) + i + 1 > id
      BY <1>3, <1>11
    <2> QED BY <2>1, <2>2
  <1>24. q \notin Outs(id)'
    BY <1>3, <1>11, <1>18
  <1>25. Made(S, N)
    <2>1. ASSUME NEW n \in N PROVE Shape(node'[n]) /\ Ins(n)' \cup Outs(n)' \subseteq FreshQueues
      <3>1. CASE n = id
        <4>1. q \in FreshQueues /\ Len(queue) + 1 .. Len(queue) + size \subseteq FreshQueues
          BY <1>3, <1>11, <1>22
        <4> QED BY <1>13, <1>18, <3>1, <4>1
      <3>2. CASE n \in noops
        <4>1. PICK i \in 1..size : node'[n] = tail[i] /\ Ins(n)' = {Len(queue) + i} /\ Outs(n)' = {}
          BY <1>19, <3>2
        <4>2. Len(queue) + i \in FreshQueues
          BY <1>3, <1>22
        <4> QED BY <1>14, <4>1, <4>2
      <3> QED BY <1>8, <3>1, <3>2
    <2>2. ASSUME NEW m \in N, NEW n \in N, NEW a \in DOMAIN node'[m].ins, NEW b \in DOMAIN node'[n].ins,
                 node'[m].ins[a] = node'[n].ins[b]
          PROVE  m = n /\ a = b
      <3>1. ASSUME NEW r \in N, NEW c \in DOMAIN node'[r].ins
            PROVE  c = 1 /\ Ins(r)' = {node'[r].ins[c]}
        <4>1. CASE r = id
          <5>1. node'[r].ins = <<q>>
            BY <1>13, <1>18, <4>1
          <5> QED BY <1>18, <4>1, <5>1
        <4>2. CASE r \in noops
          <5>1. PICK i \in 1..size : node'[r] = tail[i] /\ Ins(r)' = {Len(queue) + i}
            BY <1>19, <4>2
          <5>2. node'[r].ins = <<Len(queue) + i>>
            BY <1>14, <5>1
          <5> QED BY <5>1, <5>2
        <4> QED BY <1>8, <4>1, <4>2
      <3>2. a = 1 /\ b = 1 /\ Ins(m)' = Ins(n)' /\ Ins(m)' # {}
        BY <2>2, <3>1
      <3>3. CASE m = id
        BY <1>8, <1>18, <1>23, <3>2, <3>3
      <3>4. CASE n = id
        BY <1>8, <1>18, <1>23, <3>2, <3>4
      <3>5. CASE m \in noops /\ n \in noops
        <4>1. PICK i \in 1..size : m = Len(node) + i + 1 /\ Ins(m)' = {Len(queue) + i}
          BY <1>19, <3>5
        <4>2. PICK j \in 1..size : n = Len(node) + j + 1 /\ Ins(n)' = {Len(queue) + j}
          BY <1>19, <3>5
        <4>3. Len(queue) + i = Len(queue) + j
          BY <3>2, <4>1, <4>2
        <4> QED BY <1>3, <3>2, <4>1, <4>2, <4>3
      <3> QED BY <1>8, <3>3, <3>4, <3>5
    <2>3. ASSUME NEW m \in S \cup N, NEW r \in Outs(m)' PROVE \E n \in N : r \in Ins(n)'
      <3>1. CASE m = leaf
        BY <1>8, <1>18, <1>21, <3>1
      <3>2. CASE m = id
        <4>1. PICK i \in 1..size : r = Len(queue) + i
          <5>1. r - Len(queue) \in 1..size /\ r = Len(queue) + (r - Len(queue))
            BY <1>3, <1>18, <3>2
          <5> QED BY <5>1
        <4> QED BY <1>8, <1>20, <4>1
      <3>3. CASE m \in noops
        BY <1>19, <3>3
      <3> QED BY <1>1, <1>8, <3>1, <3>2, <3>3
    <2>4. ASSUME NEW m \in N, NEW n \in N, Outs(m)' \cap Ins(n)' # {} PROVE m < n
      <3>1. m = id
        BY <1>8, <1>19, <2>4
      <3>2. n \in noops
        BY <1>8, <1>18, <1>24, <2>4, <3>1
      <3>3. n > id /\ id \in Nat /\ n \in Nat
        <4>1. n > id
          BY <1>23, <3>2
        <4>2. id \in Nat /\ n \in Nat
          BY <1>8, <1>21, <3>2
        <4> QED BY <4>1, <4>2
      <3> QED BY <3>1, <3>3
    <2>5. ASSUME NEW n \in N, NEW r \in Ins(n)'
          PROVE  Cardinality({m \in S \cup N : r \in Outs(m)'}) \in Expected(node'[n])
      <3>1. CASE n = id
        <4>1. r = q
          BY <1>18, <3>1
        <4>2. \A m \in noops : q \notin Outs(m)'
          BY <1>19
        <4>3. {m \in S \cup N : r \in Outs(m)'} = {leaf}
          BY <1>1, <1>8, <1>21, <1>24, <4>1, <4>2
        <4> QED BY <1>13, <1>18, <3>1, <4>3, FS_Singleton
      <3>2. CASE n \in noops
        <4>1. PICK i \in 1..size : node'[n] = tail[i] /\ Ins(n)' = {Len(queue) + i}
          BY <1>19, <3>2
        <4>2. r # q
          BY <1>23, <3>2
        <4>3. r \in Outs(id)'
          <5>1. r = Len(queue) + i
            BY <4>1
          <5>2. r \in Len(queue) + 1 .. Len(queue) + size
            BY <1>3, <5>1
          <5> QED BY <1>18, <5>2
        <4>4. \A m \in noops : r \notin Outs(m)'
          BY <1>19
        <4>5. {m \in S \cup N : r \in Outs(m)'} = {id}
          BY <1>1, <1>8, <1>21, <4>2, <4>3, <4>4
        <4>6. 1 \in Expected(node'[n])
          BY <1>14, <4>1
        <4> QED BY ONLY <4>5, <4>6, FS_Singleton
      <3> QED BY <1>8, <3>1, <3>2
    <2>6. ASSUME NEW n \in N PROVE node'[n].kind # "concat"
      <3>1. CASE n = id
        BY <1>13, <1>18, <3>1
      <3>2. CASE n \in noops
        BY <1>14, <1>19, <3>2
      <3> QED BY <1>8, <3>1, <3>2
    <2> QED BY <2>1, <2>2, <2>3, <2>4, <2>5, <2>6 DEF Made
  <1>26. C \subseteq Nat \X Nat
    <2>1. leaf \in Nat /\ id \in Nat /\ noops \subseteq Nat
      BY <1>1, <1>3, <1>8, <1>21
    <2> QED BY <1>8, <2>1
  <1>27. /\ P \in PipelineRec /\ P.nodes = O.nodes \cup N /\ P.leaves = (O.leaves \ S) \cup noops
         /\ P.dags = O.dags \cup C /\ P.sources = O.sources /\ P.sinks = O.sinks
    <2>1. N \subseteq Nat /\ noops \subseteq Nat
      BY <1>8, <1>21
    <2> QED BY ONLY <1>3, <1>10, <1>26, <2>1 DEF PipelineRec
  <1>28. pl' = [pl EXCEPT ![p] = P]
    <2>1. pl \in [Pipelines -> PipelineRec]
      BY <1>3 DEF Types
    <2>2. pl' = [pl EXCEPT ![p].nodes = @ \cup noops \cup {id}, ![p].leaves = (@ \ {leaf}) \cup noops,
                           ![p].dags = @ \cup ({id} \X noops) \cup {<<leaf, id>>}]
      BY <1>2, <1>8 DEF BranchFrom
    <2>3. pl' = [pl EXCEPT ![p] = [pl[p] EXCEPT !.nodes = @ \cup noops \cup {id}, !.leaves = (@ \ {leaf}) \cup noops,
                                                !.dags = @ \cup ({id} \X noops) \cup {<<leaf, id>>}]]
      <3>1. PICK D, E : D = ({id} \X noops) /\ E = {<<leaf, id>>}
        OBVIOUS
      <3>2. pl' = [pl EXCEPT ![p].nodes = @ \cup noops \cup {id}, ![p].leaves = (@ \ {leaf}) \cup noops,
                             ![p].dags = @ \cup D \cup E]
        BY <2>2, <3>1
      <3>3. pl' = [pl EXCEPT ![p] = [pl[p] EXCEPT !.nodes = @ \cup noops \cup {id},
                                                  !.leaves = (@ \ {leaf}) \cup noops,
                                                  !.dags = @ \cup D \cup E]]
        BY ONLY <2>1, <3>2, p \in Pipelines DEF PipelineRec
      <3> QED BY <3>1, <3>3
    <2>4. /\ O.nodes \cup noops \cup {id} = O.nodes \cup N
          /\ O.dags \cup ({id} \X noops) \cup {<<leaf, id>>} = O.dags \cup C
      BY <1>8
    <2>5. P = [pl[p] EXCEPT !.nodes = @ \cup noops \cup {id}, !.leaves = (@ \ {leaf}) \cup noops,
                            !.dags = @ \cup ({id} \X noops) \cup {<<leaf, id>>}]
      BY <1>1, <1>10, <2>4
    <2> QED BY <2>3, <2>5
  <1>29. ASSUME NEW m \in P.nodes, NEW n \in P.nodes
         PROVE  <<m, n>> \in P.dags <=>
                   <<m, n>> \in O.dags \/ (m \in S \cup N /\ n \in N /\ Outs(m)' \cap Ins(n)' # {})
    <2>1. <<m, n>> \in P.dags <=> <<m, n>> \in O.dags \/ (m = id /\ n \in noops) \/ (m = leaf /\ n = id)
      BY <1>8, <1>27
    <2>2. ASSUME m = id, n \in noops PROVE Outs(m)' \cap Ins(n)' # {}
      <3>1. PICK i \in 1..size : Ins(n)' = {Len(queue) + i}
        BY <1>19, <2>2
      <3>2. Len(queue) + i \in Outs(m)'
        BY <1>3, <1>18, <2>2
      <3> QED BY <3>1, <3>2
    <2>3. ASSUME m = leaf, n = id PROVE Outs(m)' \cap Ins(n)' # {}
      BY <1>18, <1>21, <2>3
    <2>4. ASSUME m \in S \cup N, n \in N, Outs(m)' \cap Ins(n)' # {}
          PROVE  (m = id /\ n \in noops) \/ (m = leaf /\ n = id)
      <3>1. m \notin noops
        BY <1>19, <2>4
      <3>2. m = id => n \in noops
        BY <1>8, <1>18, <1>24, <2>4
      <3>3. m = leaf => n = id
        BY <1>8, <1>21, <1>23, <2>4
      <3> QED BY <1>1, <1>8, <2>4, <3>1, <3>2, <3>3
    <2> QED BY <1>1, <1>8, <2>1, <2>2, <2>3, <2>4
  <1>30. Listed(O, P, S, N)
    <2>1. \A n \in noops : node'[n].kind = "transform" /\ node'[n].outs = <<>>
      BY <1>14, <1>19
    <2>2. node'[id].kind \in {"dispatch", "fork"} /\ node'[id].outs # <<>>
      BY <1>11, <1>13, <1>18, NoElements
    <2>3. P.leaves = (O.leaves \ S) \cup {n \in N : node'[n].kind # "sink" /\ node'[n].outs = <<>>}
      BY <1>8, <1>27, <2>1, <2>2
    <2>4. O.dags \subseteq O.nodes \X O.nodes /\ S \subseteq O.nodes /\ NoDup(O.sources) /\ NoDup(O.sinks)
      BY <1>3 DEF Good, MembersOK
    <2>5. P.dags \subseteq P.nodes \X P.nodes
      BY <1>1, <1>8, <1>27, <2>4
    <2>6. /\ Range(P.sources) = Range(O.sources) \cup {n \in N : node'[n].kind = "source"}
          /\ Range(P.sinks) = Range(O.sinks) \cup {n \in N : node'[n].kind = "sink"}
      BY <1>8, <1>27, <2>1, <2>2
    <2> QED BY <1>27, <1>29, <2>3, <2>4, <2>5, <2>6 DEF Listed
  <1>31. Grows(O, P, S, N)
    BY <1>3, <1>17, <1>25, <1>30 DEF Grows, Joins
  <1>32. Types'
    <2>1. pl' \in [Pipelines -> PipelineRec]
      BY <1>3, <1>27, <1>28 DEF Types
    <2> QED BY <1>17, <2>1 DEF Types, Joins
  <1> QED BY <1>1, <1>28, <1>31, <1>32, GrowInv

-----------------------------------------------------------------------------

(* MergePipeline makes M of L and R: a sink of L and a source of R become  *)
(* one of the processors N.  The processor n of L reads as f[n] in M, the  *)
(* processor n of R writes as g[n].                                        *)
Sinks(P) == {n \in P.nodes : node[n].kind = "sink"}
Sources(P) == {n \in P.nodes : node[n].kind = "source"}
Glues(L, R, M, N, f, g) ==
    /\ Good(L) /\ Good(R) /\ Apart(L, R) /\ L.leaves = {} /\ R.leaves = {}
    /\ Id' = Id \cup N /\ Id \cap N = {}
    /\ \A n \in Id : node'[n] = node[n]
    /\ f \in [L.nodes -> M.nodes] /\ g \in [R.nodes -> M.nodes]
    /\ \A n \in L.nodes \ Sinks(L) : f[n] = n
    /\ \A n \in R.nodes \ Sources(R) : g[n] = n
    /\ \A m, n \in L.nodes : f[m] = f[n] => m = n
    /\ \A m, n \in R.nodes : g[m] = g[n] => m = n
    /\ \A n \in Sinks(L) : f[n] \in N
    /\ \A n \in Sources(R) : g[n] \in N
    /\ \A x \in N : \E m \in Sinks(L), n \in Sources(R) : f[m] = x /\ g[n] = x
    /\ \A m \in Sinks(L), n \in Sources(R) : f[m] = g[n] =>
           node'[f[m]] = Processor("transform", node[m].ins, node[n].outs, node[m].count)
    /\ M.nodes = (L.nodes \ Sinks(L)) \cup (R.nodes \ Sources(R)) \cup N
    /\ M.leaves = {} /\ M.sources = L.sources /\ M.sinks = R.sinks
    /\ M.dags = {<<e[1], f[e[2]]>> : e \in L.dags} \cup {<<g[e[1]], e[2]>> : e \in R.dags}

LEMMA GluePorts ==
  ASSUME NEW L, NEW R, NEW M, NEW N, NEW f, NEW g, Glues(L, R, M, N, f, g)
  PROVE  /\ L.nodes \subseteq Id /\ R.nodes \subseteq Id /\ L.nodes \cap R.nodes = {}
         /\ L.nodes \cap N = {} /\ R.nodes \cap N = {}
         /\ \A n \in L.nodes : /\ node'[f[n]].ins = node[n].ins /\ Ins(f[n])' = Ins(n)
                               /\ Expected(node'[f[n]]) = Expected(node[n])
         /\ \A n \in R.nodes : node'[g[n]].outs = node[n].outs /\ Outs(g[n])' = Outs(n)
         /\ \A n \in L.nodes \cup R.nodes : node'[n] = node[n] /\ Ins(n)' = Ins(n) /\ Outs(n)' = Outs(n)
         /\ \A n \in Sinks(L) : Outs(n) = {}
         /\ \A n \in Sources(R) : Ins(n) = {} /\ node[n].ins = <<>>
         /\ \A n \in L.nodes, m \in R.nodes :
                Ins(n) \cap Ins(m) = {} /\ Ins(n) \cap Outs(m) = {} /\ Outs(n) \cap Ins(m) = {} /\ Outs(n) \cap Outs(m) = {}
         /\ \A x \in N : node'[x].kind = "transform"
  <1>1. L.nodes \subseteq Id /\ R.nodes \subseteq Id
    BY DEF Glues, Good, MembersOK
  <1>2. L.nodes \cap R.nodes = {} /\ L.nodes \cap N = {} /\ R.nodes \cap N = {}
    BY <1>1 DEF Glues, Apart
  <1>3. \A n \in L.nodes \cup R.nodes : node'[n] = node[n] /\ Ins(n)' = Ins(n) /\ Outs(n)' = Outs(n)
    BY <1>1 DEF Glues, Ins, Outs
  <1>4. ASSUME NEW m \in Sinks(L), NEW n \in Sources(R), f[m] = g[n], NEW x, x = f[m]
        PROVE  /\ node'[x].kind = "transform" /\ node'[x].ins = node[m].ins /\ node'[x].outs = node[n].outs
               /\ node'[x].count = node[m].count /\ Ins(x)' = Ins(m) /\ Outs(x)' = Outs(n)
    <2>1. node'[x] = Processor("transform", node[m].ins, node[n].outs, node[m].count)
      BY <1>4 DEF Glues
    <2>2. /\ node'[x].kind = "transform" /\ node'[x].ins = node[m].ins /\ node'[x].outs = node[n].outs
          /\ node'[x].count = node[m].count
      BY <2>1 DEF Processor
    <2> QED BY <2>2 DEF Ins, Outs
  <1>5. ASSUME NEW n \in L.nodes, NEW x, x = f[n]
        PROVE  node'[x].ins = node[n].ins /\ Ins(x)' = Ins(n) /\ Expected(node'[x]) = Expected(node[n])
    <2>1. CASE n \in Sinks(L)
      <3>1. x \in N
        BY <1>5, <2>1 DEF Glues
      <3>2. PICK m \in Sinks(L), w \in Sources(R) : f[m] = x /\ g[w] = x
        BY <3>1 DEF Glues
      <3>3. m = n
        BY <1>5, <2>1, <3>2 DEF Glues, Sinks
      <3>4. /\ node'[x].kind = "transform" /\ node'[x].ins = node[n].ins
            /\ node'[x].count = node[n].count /\ Ins(x)' = Ins(n)
        BY <1>4, <1>5, <3>2, <3>3
      <3>5. node[n].kind = "sink"
        BY <2>1 DEF Sinks
      <3> QED BY <3>4, <3>5 DEF Expected
    <2>2. CASE n \notin Sinks(L)
      BY <1>3, <1>5, <2>2 DEF Glues
    <2> QED BY <2>1, <2>2
  <1>6. ASSUME NEW n \in R.nodes, NEW x, x = g[n]
        PROVE  node'[x].outs = node[n].outs /\ Outs(x)' = Outs(n)
    <2>1. CASE n \in Sources(R)
      <3>1. x \in N
        BY <1>6, <2>1 DEF Glues
      <3>2. PICK m \in Sinks(L), w \in Sources(R) : f[m] = x /\ g[w] = x
        BY <3>1 DEF Glues
      <3>3. w = n
        BY <1>6, <2>1, <3>2 DEF Glues, Sources
      <3> QED BY <1>4, <1>6, <3>2, <3>3
    <2>2. CASE n \notin Sources(R)
      BY <1>3, <1>6, <2>2 DEF Glues
    <2> QED BY <2>1, <2>2
  <1>7. \A n \in Sinks(L) : Outs(n) = {}
    BY NoElements DEF Glues, Good, NodesOK, Shape, Sinks, Outs
  <1>8. \A n \in Sources(R) : node[n].ins = <<>> /\ Ins(n) = {}
    BY NoElements DEF Glues, Good, NodesOK, Shape, Sources, Ins
  <1>9. \A n \in L.nodes, m \in R.nodes :
            Ins(n) \cap Ins(m) = {} /\ Ins(n) \cap Outs(m) = {} /\ Outs(n) \cap Ins(m) = {} /\ Outs(n) \cap Outs(m) = {}
    BY DEF Glues, Apart
  <1>10. \A x \in N : node'[x].kind = "transform"
    <2> SUFFICES ASSUME NEW x \in N PROVE node'[x].kind = "transform"
      OBVIOUS
    <2>1. PICK m \in Sinks(L), w \in Sources(R) : f[m] = x /\ g[w] = x
      BY DEF Glues
    <2> QED BY <1>4, <2>1
  <1>11. \A n \in L.nodes : /\ node'[f[n]].ins = node[n].ins /\ Ins(f[n])' = Ins(n)
                            /\ Expected(node'[f[n]]) = Expected(node[n])
    BY <1>5
  <1>12. \A n \in R.nodes : node'[g[n]].outs = node[n].outs /\ Outs(g[n])' = Outs(n)
    BY <1>6
  <1> QED BY <1>1, <1>2, <1>3, <1>7, <1>8, <1>9, <1>10, <1>11, <1>12

(* Every processor of M reads like one of L or is one of R, and it writes  *)
(* like one of R or is one of L.                                           *)
LEMMA GlueParts ==
  ASSUME NEW L, NEW R, NEW M, NEW N, NEW f, NEW g, Glues(L, R, M, N, f, g)
  PROVE  /\ \A x \in M.nodes : x \in R.nodes \ Sources(R) \/ \E n \in L.nodes : x = f[n]
         /\ \A x \in M.nodes : x \in L.nodes \ Sinks(L) \/ \E n \in R.nodes : x = g[n]
         /\ \A n \in L.nodes : f[n] \in M.nodes /\ f[n] \notin R.nodes
         /\ \A n \in R.nodes : g[n] \in M.nodes /\ g[n] \notin L.nodes
  <1>1. ASSUME NEW x \in M.nodes PROVE x \in R.nodes \ Sources(R) \/ \E n \in L.nodes : x = f[n]
    BY DEF Glues, Sinks
  <1>2. ASSUME NEW x \in M.nodes PROVE x \in L.nodes \ Sinks(L) \/ \E n \in R.nodes : x = g[n]
    BY DEF Glues, Sources
  <1>3. L.nodes \cap R.nodes = {} /\ L.nodes \cap N = {} /\ R.nodes \cap N = {}
    BY GluePorts
  <1>4. ASSUME NEW n \in L.nodes PROVE f[n] \in M.nodes /\ f[n] \notin R.nodes
    <2>1. f[n] \in N \/ f[n] = n
      BY DEF Glues
    <2>2. f[n] \in M.nodes
      BY DEF Glues
    <2> QED BY <1>3, <2>1, <2>2
  <1>5. ASSUME NEW n \in R.nodes PROVE g[n] \in M.nodes /\ g[n] \notin L.nodes
    <2>1. g[n] \in N \/ g[n] = n
      BY DEF Glues
    <2>2. g[n] \in M.nodes
      BY DEF Glues
    <2> QED BY <1>3, <2>1, <2>2
  <1> QED BY <1>1, <1>2, <1>4, <1>5

LEMMA GlueMembers ==
  ASSUME NEW L, NEW R, NEW M, NEW N, NEW f, NEW g, Glues(L, R, M, N, f, g)
  PROVE  MembersOK(M)' /\ NodesOK(M)' /\ LeavesOK(M)'
  <1>1. /\ L.nodes \subseteq Id /\ R.nodes \subseteq Id /\ L.nodes \cap R.nodes = {}
        /\ L.nodes \cap N = {} /\ R.nodes \cap N = {}
        /\ \A n \in L.nodes \cup R.nodes : node'[n] = node[n]
        /\ \A x \in N : node'[x].kind = "transform"
    BY GluePorts
  <1>2. M.nodes = (L.nodes \ Sinks(L)) \cup (R.nodes \ Sources(R)) \cup N
        /\ M.sources = L.sources /\ M.sinks = R.sinks /\ M.leaves = {}
    BY DEF Glues
  <1>3. /\ Range(L.sources) = Sources(L) /\ NoDup(L.sources)
        /\ Range(R.sinks) = Sinks(R) /\ NoDup(R.sinks)
    BY DEF Glues, Good, MembersOK, Sources, Sinks
  <1>4. Range(M.sources) = {n \in M.nodes : node'[n].kind = "source"}
    <2>1. ASSUME NEW n PROVE n \in Sources(L) <=> n \in M.nodes /\ node'[n].kind = "source"
      BY <1>1, <1>2 DEF Sources, Sinks
    <2> QED BY <1>2, <1>3, <2>1
  <1>5. Range(M.sinks) = {n \in M.nodes : node'[n].kind = "sink"}
    <2>1. ASSUME NEW n PROVE n \in Sinks(R) <=> n \in M.nodes /\ node'[n].kind = "sink"
      BY <1>1, <1>2 DEF Sources, Sinks
    <2> QED BY <1>2, <1>3, <2>1
  <1>6. M.dags \subseteq M.nodes \X M.nodes
    <2>1. ASSUME NEW e \in L.dags PROVE <<e[1], f[e[2]]>> \in M.nodes \X M.nodes
      <3>1. e[1] \in L.nodes /\ e[2] \in L.nodes /\ <<e[1], e[2]>> \in L.dags
        BY DEF Glues, Good, MembersOK
      <3>2. Outs(e[1]) \cap Ins(e[2]) # {}
        BY <3>1 DEF Glues, Good, DagsOK
      <3>3. e[1] \notin Sinks(L)
        BY <3>2, GluePorts
      <3>4. f[e[2]] \in M.nodes
        BY <3>1, GlueParts
      <3> QED BY <1>2, <3>1, <3>3, <3>4
    <2>2. ASSUME NEW e \in R.dags PROVE <<g[e[1]], e[2]>> \in M.nodes \X M.nodes
      <3>1. e[1] \in R.nodes /\ e[2] \in R.nodes /\ <<e[1], e[2]>> \in R.dags
        BY DEF Glues, Good, MembersOK
      <3>2. Outs(e[1]) \cap Ins(e[2]) # {}
        BY <3>1 DEF Glues, Good, DagsOK
      <3>3. e[2] \notin Sources(R)
        BY <3>2, GluePorts
      <3>4. g[e[1]] \in M.nodes
        BY <3>1, GlueParts
      <3> QED BY <1>2, <3>1, <3>3, <3>4
    <2>3. M.dags = {<<e[1], f[e[2]]>> : e \in L.dags} \cup {<<g[e[1]], e[2]>> : e \in R.dags}
      BY DEF Glues
    <2> QED BY <2>1, <2>2, <2>3
  <1>7. MembersOK(M)'
    <2>1. M.nodes \subseteq Id'
      BY <1>1, <1>2 DEF Glues
    <2> QED BY <1>2, <1>3, <1>4, <1>5, <1>6, <2>1 DEF MembersOK
  <1>8. NodesOK(M)'
    <2> SUFFICES ASSUME NEW x \in M.nodes PROVE Shape(node'[x])
      BY DEF NodesOK, Shape
    <2>1. CASE x \in L.nodes \cup R.nodes
      <3>1. Shape(node[x])
        BY <2>1 DEF Glues, Good, NodesOK
      <3> QED BY <1>1, <2>1, <3>1
    <2>2. CASE x \in N
      <3>1. PICK m \in Sinks(L), n \in Sources(R) : f[m] = x /\ g[n] = x
        BY <2>2 DEF Glues
      <3>2. m \in L.nodes /\ n \in R.nodes /\ Shape(node[m]) /\ Shape(node[n])
            /\ node[m].kind = "sink" /\ node[n].kind = "source"
        BY DEF Glues, Good, NodesOK, Sinks, Sources
      <3>3. Len(node[m].ins) <= 1 /\ Len(node[n].outs) <= 1
        BY <3>2 DEF Shape
      <3>4. node'[x].ins = node[m].ins /\ node'[x].outs = node[n].outs
        BY <3>1, <3>2, GluePorts
      <3>5. node'[x].kind = "transform"
        BY <1>1, <2>2
      <3> QED BY <3>3, <3>4, <3>5 DEF Shape
    <2> QED BY <1>2, <2>1, <2>2
  <1>9. LeavesOK(M)'
    <2> SUFFICES ASSUME NEW x \in M.nodes, node'[x].kind # "sink" PROVE node'[x].outs # <<>>
      BY <1>2 DEF LeavesOK
    <2>1. CASE x \in L.nodes \ Sinks(L)
      BY <1>1, <2>1 DEF Glues, Good, LeavesOK, Sinks
    <2>2. CASE x \notin L.nodes \ Sinks(L)
      <3>1. PICK n \in R.nodes : x = g[n]
        BY <2>2, GlueParts
      <3>2. node'[x].outs = node[n].outs
        BY <3>1, GluePorts
      <3>3. node[n].kind # "sink"
        <4>1. CASE n \in Sources(R)
          BY <4>1 DEF Sources
        <4>2. CASE n \notin Sources(R)
          <5>1. x = n
            BY <3>1, <4>2 DEF Glues
          <5> QED BY <1>1, <5>1
        <4> QED BY <4>1, <4>2
      <3> QED BY <3>2, <3>3 DEF Glues, Good, LeavesOK
    <2> QED BY <2>1, <2>2
  <1> QED BY <1>7, <1>8, <1>9

LEMMA GlueReaders ==
  ASSUME NEW L, NEW R, NEW M, NEW N, NEW f, NEW g, Glues(L, R, M, N, f, g)
  PROVE  ReadersOK(M)'
  <1>1. ASSUME NEW m \in M.nodes, NEW n \in M.nodes,
               NEW a \in DOMAIN node'[m].ins, NEW b \in DOMAIN node'[n].ins,
               node'[m].ins[a] = node'[n].ins[b]
        PROVE  m = n /\ a = b
    <2>1. node'[m].ins[a] \in Ins(m)' /\ node'[n].ins[b] \in Ins(n)'
      BY DEF Ins, Range
    <2>2. CASE m \in R.nodes /\ n \in R.nodes
      <3>1. node'[m] = node[m] /\ node'[n] = node[n]
        BY <2>2, GluePorts
      <3> QED BY <1>1, <2>2, <3>1 DEF Glues, Good, ReadersOK
    <2>3. ASSUME NEW x \in L.nodes, m = f[x], NEW y \in L.nodes, n = f[y] PROVE m = n /\ a = b
      <3>1. node'[m].ins = node[x].ins /\ node'[n].ins = node[y].ins
        BY <2>3, GluePorts
      <3>2. x = y /\ a = b
        BY <1>1, <3>1 DEF Glues, Good, ReadersOK
      <3> QED BY <2>3, <3>2
    <2>4. ASSUME m \in R.nodes, NEW y \in L.nodes, n = f[y] PROVE FALSE
      <3>1. Ins(m)' = Ins(m) /\ Ins(n)' = Ins(y) /\ Ins(y) \cap Ins(m) = {}
        BY <2>4, GluePorts
      <3> QED BY <1>1, <2>1, <3>1
    <2>5. ASSUME n \in R.nodes, NEW x \in L.nodes, m = f[x] PROVE FALSE
      <3>1. Ins(n)' = Ins(n) /\ Ins(m)' = Ins(x) /\ Ins(x) \cap Ins(n) = {}
        BY <2>5, GluePorts
      <3> QED BY <1>1, <2>1, <3>1
    <2> QED BY <2>2, <2>3, <2>4, <2>5, GlueParts
  <1>2. ASSUME NEW m \in M.nodes, NEW q \in Outs(m)'
        PROVE  \E n \in M.nodes : q \in Ins(n)'
    <2>1. CASE m \in L.nodes \ Sinks(L)
      <3>1. q \in Outs(m)
        BY <2>1, GluePorts
      <3>2. PICK n \in L.nodes : q \in Ins(n)
        BY <2>1, <3>1 DEF Glues, Good, ReadersOK
      <3>3. f[n] \in M.nodes /\ Ins(f[n])' = Ins(n)
        BY GluePorts, GlueParts
      <3> QED BY <3>2, <3>3
    <2>2. CASE m \notin L.nodes \ Sinks(L)
      <3>1. PICK w \in R.nodes : m = g[w]
        BY <2>2, GlueParts
      <3>2. q \in Outs(w)
        BY <3>1, GluePorts
      <3>3. PICK n \in R.nodes : q \in Ins(n)
        BY <3>2 DEF Glues, Good, ReadersOK
      <3>4. n \notin Sources(R) /\ Ins(n)' = Ins(n)
        BY <3>3, GluePorts
      <3>5. n \in M.nodes
        BY <3>4 DEF Glues
      <3> QED BY <3>3, <3>4, <3>5
    <2> QED BY <2>1, <2>2
  <1> QED BY <1>1, <1>2 DEF ReadersOK

LEMMA GlueCounts ==
  ASSUME Types, NEW L, NEW R, NEW M, NEW N, NEW f, NEW g, Glues(L, R, M, N, f, g)
  PROVE  CountsOK(M)'
  <1> SUFFICES ASSUME NEW x \in M.nodes, NEW q \in Ins(x)'
               PROVE  Cardinality({m \in M.nodes : q \in Outs(m)'}) \in Expected(node'[x])
    BY DEF CountsOK, WritersOf, Expected
  <1>1. ASSUME NEW n \in L.nodes, x = f[n]
        PROVE  Cardinality({m \in M.nodes : q \in Outs(m)'}) \in Expected(node'[x])
    <2>1. q \in Ins(n) /\ Expected(node'[x]) = Expected(node[n])
      BY <1>1, GluePorts
    <2>2. {m \in M.nodes : q \in Outs(m)'} = WritersOf(L, q)
      <3>1. ASSUME NEW m \in M.nodes, q \in Outs(m)' PROVE m \in L.nodes /\ q \in Outs(m)
        <4>1. CASE m \in L.nodes \ Sinks(L)
          BY <3>1, <4>1, GluePorts
        <4>2. CASE m \notin L.nodes \ Sinks(L)
          <5>1. PICK w \in R.nodes : m = g[w]
            BY <4>2, GlueParts
          <5>2. q \in Outs(w) /\ Ins(n) \cap Outs(w) = {}
            BY <3>1, <5>1, GluePorts
          <5> QED BY <2>1, <5>2
        <4> QED BY <4>1, <4>2
      <3>2. ASSUME NEW m \in L.nodes, q \in Outs(m) PROVE m \in M.nodes /\ q \in Outs(m)'
        <4>1. m \notin Sinks(L) /\ Outs(m)' = Outs(m)
          BY <3>2, GluePorts
        <4>2. m \in M.nodes
          BY <4>1 DEF Glues
        <4> QED BY <3>2, <4>1, <4>2
      <3> QED BY <3>1, <3>2 DEF WritersOf
    <2>3. Cardinality(WritersOf(L, q)) \in Expected(node[n])
      BY <2>1 DEF Glues, Good, CountsOK
    <2> QED BY <2>1, <2>2, <2>3
  <1>2. CASE x \in R.nodes \ Sources(R)
    <2>1. q \in Ins(x) /\ node'[x] = node[x]
      BY <1>2, GluePorts
    <2>2. PICK W : W = WritersOf(R, q)
      OBVIOUS
    <2>3. PICK V : V = {m \in M.nodes : q \in Outs(m)'}
      OBVIOUS
    <2>4. W \subseteq R.nodes /\ \A w \in W : q \in Outs(w)
      BY <2>2 DEF WritersOf
    <2>5. IsFiniteSet(W)
      <3>1. W \subseteq Id
        BY <2>4, GluePorts
      <3> QED BY <3>1, FiniteIds
    <2>6. PICK h : h = [w \in W |-> g[w]]
      OBVIOUS
    <2>7. \A w \in W : g[w] \in V
      <3> SUFFICES ASSUME NEW w \in W PROVE g[w] \in V
        OBVIOUS
      <3>1. g[w] \in M.nodes /\ Outs(g[w])' = Outs(w)
        BY <2>4, GluePorts, GlueParts
      <3> QED BY <2>3, <2>4, <3>1
    <2>8. \A m \in V : \E w \in W : m = g[w]
      <3> SUFFICES ASSUME NEW m \in V PROVE \E w \in W : m = g[w]
        OBVIOUS
      <3>1. m \in M.nodes /\ q \in Outs(m)'
        BY <2>3
      <3>2. m \notin L.nodes
        <4> SUFFICES ASSUME m \in L.nodes PROVE FALSE
          OBVIOUS
        <4>1. q \in Outs(m) /\ Outs(m) \cap Ins(x) = {}
          BY <1>2, <3>1, GluePorts
        <4> QED BY <2>1, <4>1
      <3>3. PICK w \in R.nodes : m = g[w]
        BY <3>1, <3>2, GlueParts
      <3>4. q \in Outs(w)
        BY <3>1, <3>3, GluePorts
      <3> QED BY <2>2, <3>3, <3>4 DEF WritersOf
    <2>9. \A v, w \in W : g[v] = g[w] => v = w
      BY <2>4 DEF Glues
    <2>10. h \in Bijection(W, V)
      <3>1. h \in [W -> V]
        BY <2>6, <2>7
      <3>2. h \in Injection(W, V)
        BY <2>6, <2>9, <3>1 DEF Injection, IsInjective
      <3>3. h \in Surjection(W, V)
        BY <2>6, <2>8, <3>1 DEF Surjection
      <3> QED BY <3>2, <3>3 DEF Bijection
    <2>11. ExistsBijection(W, V)
      BY <2>10 DEF ExistsBijection
    <2>12. Cardinality(V) = Cardinality(W)
      BY <2>5, <2>11, FS_Bijection
    <2>13. Cardinality(W) \in Expected(node[x])
      BY <1>2, <2>1, <2>2 DEF Glues, Good, CountsOK
    <2> QED BY <2>1, <2>3, <2>12, <2>13
  <1> QED BY <1>1, <1>2, GlueParts

LEMMA GlueSingles ==
  ASSUME NEW L, NEW R, NEW M, NEW N, NEW f, NEW g, Glues(L, R, M, N, f, g)
  PROVE  SinglesOK(M)'
  <1> SUFFICES ASSUME NEW m \in M.nodes, NEW n \in M.nodes, node'[n].kind = "concat",
                      Outs(m)' \cap Ins(n)' # {}
               PROVE  Len(node'[m].outs) <= 1
    BY DEF SinglesOK
  <1>1. PICK q : q \in Outs(m)' /\ q \in Ins(n)'
    OBVIOUS
  <1>2. n \in L.nodes \/ n \in R.nodes
    <2>1. n \notin N
      BY GluePorts
    <2> QED BY <2>1 DEF Glues
  <1>3. node'[n] = node[n] /\ q \in Ins(n)
    BY <1>1, <1>2, GluePorts
  <1>4. CASE m \in L.nodes \ Sinks(L)
    <2>1. node'[m] = node[m] /\ q \in Outs(m)
      BY <1>1, <1>4, GluePorts
    <2>2. n \in L.nodes
      BY <1>2, <1>3, <1>4, <2>1, GluePorts
    <2> QED BY <1>3, <1>4, <2>1, <2>2 DEF Glues, Good, SinglesOK
  <1>5. CASE m \notin L.nodes \ Sinks(L)
    <2>1. PICK w \in R.nodes : m = g[w]
      BY <1>5, GlueParts
    <2>2. node'[m].outs = node[w].outs /\ q \in Outs(w)
      BY <1>1, <2>1, GluePorts
    <2>3. n \in R.nodes
      BY <1>2, <1>3, <2>2, GluePorts
    <2> QED BY <1>3, <2>2, <2>3 DEF Glues, Good, SinglesOK
  <1> QED BY <1>4, <1>5

(* The edges of M are those of L and those of R.                           *)
Edge(L, R, f, g, m, n) ==
    \/ \E x \in L.nodes : m \in L.nodes \ Sinks(L) /\ n = f[x] /\ <<m, x>> \in L.dags
    \/ \E w \in R.nodes : n \in R.nodes \ Sources(R) /\ m = g[w] /\ <<w, n>> \in R.dags
LEMMA GlueEdges ==
  ASSUME NEW L, NEW R, NEW M, NEW N, NEW f, NEW g, Glues(L, R, M, N, f, g), NEW m, NEW n, <<m, n>> \in M.dags
  PROVE  Edge(L, R, f, g, m, n)
  <1>1. <<m, n>> \in {<<e[1], f[e[2]]>> : e \in L.dags} \/ <<m, n>> \in {<<g[e[1]], e[2]>> : e \in R.dags}
    BY DEF Glues
  <1>2. CASE <<m, n>> \in {<<e[1], f[e[2]]>> : e \in L.dags}
    <2>1. PICK e \in L.dags : m = e[1] /\ n = f[e[2]]
      BY <1>2
    <2>2. e[1] \in L.nodes /\ e[2] \in L.nodes /\ e = <<e[1], e[2]>>
      BY DEF Glues, Good, MembersOK
    <2>3. Outs(e[1]) \cap Ins(e[2]) # {}
      BY <2>2 DEF Glues, Good, DagsOK
    <2>4. e[1] \notin Sinks(L)
      BY <2>3, GluePorts
    <2> QED BY <2>1, <2>2, <2>4 DEF Edge
  <1>3. CASE <<m, n>> \in {<<g[e[1]], e[2]>> : e \in R.dags}
    <2>1. PICK e \in R.dags : m = g[e[1]] /\ n = e[2]
      BY <1>3
    <2>2. e[1] \in R.nodes /\ e[2] \in R.nodes /\ e = <<e[1], e[2]>>
      BY DEF Glues, Good, MembersOK
    <2>3. Outs(e[1]) \cap Ins(e[2]) # {}
      BY <2>2 DEF Glues, Good, DagsOK
    <2>4. e[2] \notin Sources(R)
      BY <2>3, GluePorts
    <2> QED BY <2>1, <2>2, <2>4 DEF Edge
  <1> QED BY <1>1, <1>2, <1>3

LEMMA GlueDags ==
  ASSUME NEW L, NEW R, NEW M, NEW N, NEW f, NEW g, Glues(L, R, M, N, f, g)
  PROVE  DagsOK(M)'
  <1> SUFFICES ASSUME NEW m \in M.nodes, NEW n \in M.nodes
               PROVE  <<m, n>> \in M.dags <=> Outs(m)' \cap Ins(n)' # {}
    BY DEF DagsOK
  <1>1. ASSUME <<m, n>> \in M.dags PROVE Outs(m)' \cap Ins(n)' # {}
    <2>1. ASSUME NEW x \in L.nodes, m \in L.nodes \ Sinks(L), n = f[x], <<m, x>> \in L.dags
          PROVE  Outs(m)' \cap Ins(n)' # {}
      <3>1. Outs(m)' = Outs(m) /\ Ins(n)' = Ins(x)
        BY <2>1, GluePorts
      <3>2. Outs(m) \cap Ins(x) # {}
        BY <2>1 DEF Glues, Good, DagsOK
      <3> QED BY <3>1, <3>2
    <2>2. ASSUME NEW w \in R.nodes, n \in R.nodes \ Sources(R), m = g[w], <<w, n>> \in R.dags
          PROVE  Outs(m)' \cap Ins(n)' # {}
      <3>1. Outs(m)' = Outs(w) /\ Ins(n)' = Ins(n)
        BY <2>2, GluePorts
      <3>2. Outs(w) \cap Ins(n) # {}
        BY <2>2 DEF Glues, Good, DagsOK
      <3> QED BY <3>1, <3>2
    <2>3. Edge(L, R, f, g, m, n)
      BY <1>1, GlueEdges
    <2> QED BY <2>1, <2>2, <2>3 DEF Edge
  <1>2. ASSUME Outs(m)' \cap Ins(n)' # {} PROVE <<m, n>> \in M.dags
    <2>0. M.dags = {<<e[1], f[e[2]]>> : e \in L.dags} \cup {<<g[e[1]], e[2]>> : e \in R.dags}
      BY DEF Glues
    <2>1. ASSUME m \in L.nodes \ Sinks(L), NEW x \in L.nodes, n = f[x] PROVE <<m, n>> \in M.dags
      <3>1. Outs(m)' = Outs(m) /\ Ins(n)' = Ins(x)
        BY <2>1, GluePorts
      <3>2. <<m, x>> \in L.dags
        BY <1>2, <2>1, <3>1 DEF Glues, Good, DagsOK
      <3>3. PICK e \in L.dags : e[1] = m /\ e[2] = x
        BY <3>2
      <3> QED BY <2>0, <2>1, <3>3
    <2>2. ASSUME NEW w \in R.nodes, m = g[w], n \in R.nodes \ Sources(R) PROVE <<m, n>> \in M.dags
      <3>1. Outs(m)' = Outs(w) /\ Ins(n)' = Ins(n)
        BY <2>2, GluePorts
      <3>2. <<w, n>> \in R.dags
        BY <1>2, <2>2, <3>1 DEF Glues, Good, DagsOK
      <3>3. PICK e \in R.dags : e[1] = w /\ e[2] = n
        BY <3>2
      <3> QED BY <2>0, <2>2, <3>3
    <2>3. ASSUME m \in L.nodes \ Sinks(L), n \in R.nodes \ Sources(R) PROVE FALSE
      <3>1. Outs(m)' = Outs(m) /\ Ins(n)' = Ins(n) /\ Outs(m) \cap Ins(n) = {}
        BY <2>3, GluePorts
      <3> QED BY <1>2, <3>1
    <2>4. ASSUME NEW w \in R.nodes, m = g[w], NEW x \in L.nodes, n = f[x] PROVE FALSE
      <3>1. Outs(m)' = Outs(w) /\ Ins(n)' = Ins(x) /\ Ins(x) \cap Outs(w) = {}
        BY <2>4, GluePorts
      <3> QED BY <1>2, <3>1
    <2>5. m \in L.nodes \ Sinks(L) \/ \E w \in R.nodes : m = g[w]
      BY GlueParts
    <2>6. n \in R.nodes \ Sources(R) \/ \E x \in L.nodes : n = f[x]
      BY GlueParts
    <2> QED BY <2>1, <2>2, <2>3, <2>4, <2>5, <2>6
  <1> QED BY <1>1, <1>2

LEMMA GlueRanked ==
  ASSUME NEW L, NEW R, NEW M, NEW N, NEW f, NEW g, Glues(L, R, M, N, f, g)
  PROVE  Ranked(M)'
  <1>1. PICK B \in Nat : \E rank \in [L.nodes -> 0..B] :
            \A m, n \in L.nodes : <<m, n>> \in L.dags => rank[m] < rank[n]
    BY DEF Glues, Good, Ranked
  <1>2. PICK rl \in [L.nodes -> 0..B] : \A m, n \in L.nodes : <<m, n>> \in L.dags => rl[m] < rl[n]
    BY <1>1
  <1>3. PICK C \in Nat : \E rank \in [R.nodes -> 0..C] :
            \A m, n \in R.nodes : <<m, n>> \in R.dags => rank[m] < rank[n]
    BY DEF Glues, Good, Ranked
  <1>4. PICK rr \in [R.nodes -> 0..C] : \A m, n \in R.nodes : <<m, n>> \in R.dags => rr[m] < rr[n]
    BY <1>3
  <1> DEFINE D == B + C + 1
             after(x) == rr[CHOOSE w \in R.nodes : x = g[w]]
             rank == [x \in M.nodes |-> IF x \in L.nodes THEN rl[x] ELSE B + 1 + after(x)]
  <1>5. \A w \in R.nodes : after(g[w]) = rr[w]
    <2> SUFFICES ASSUME NEW w \in R.nodes PROVE (CHOOSE v \in R.nodes : g[w] = g[v]) = w
      OBVIOUS
    <2>1. PICK u : u = CHOOSE v \in R.nodes : g[w] = g[v]
      OBVIOUS
    <2>2. u \in R.nodes /\ g[w] = g[u]
      BY <2>1
    <2>3. u = w
      BY <2>2 DEF Glues
    <2> QED BY <2>1, <2>3
  <1> HIDE DEF after
  <1>6. \A w \in R.nodes : g[w] \in M.nodes /\ rank[g[w]] = B + 1 + rr[w]
    <2> SUFFICES ASSUME NEW w \in R.nodes PROVE g[w] \in M.nodes /\ rank[g[w]] = B + 1 + rr[w]
      OBVIOUS
    <2>1. g[w] \in M.nodes /\ g[w] \notin L.nodes
      BY GlueParts
    <2> QED BY <1>5, <2>1
  <1>7. \A x \in M.nodes : x \in L.nodes => rank[x] = rl[x]
    OBVIOUS
  <1>8. DOMAIN rank = M.nodes /\ rank = [x \in M.nodes |-> rank[x]]
    OBVIOUS
  <1> HIDE DEF rank
  <1>9. \A x \in M.nodes : rank[x] \in 0..D
    <2> SUFFICES ASSUME NEW x \in M.nodes PROVE rank[x] \in 0..D
      OBVIOUS
    <2>1. CASE x \in L.nodes
      <3>1. rl[x] \in 0..B
        BY <1>2, <2>1
      <3> QED BY <1>7, <2>1, <3>1
    <2>2. CASE x \notin L.nodes
      <3>1. PICK w \in R.nodes : x = g[w]
        BY <2>2, GlueParts
      <3>2. rr[w] \in 0..C /\ rank[x] = B + 1 + rr[w]
        BY <1>4, <1>6, <3>1
      <3> QED BY <3>2
    <2> QED BY <2>1, <2>2
  <1>10. rank \in [M.nodes -> 0..D]
    BY <1>8, <1>9
  <1>11. ASSUME NEW m \in M.nodes, NEW n \in M.nodes, <<m, n>> \in M.dags
         PROVE  rank[m] < rank[n]
    <2>1. ASSUME NEW x \in L.nodes, m \in L.nodes \ Sinks(L), n = f[x], <<m, x>> \in L.dags
          PROVE  rank[m] < rank[n]
      <3>1. rank[m] = rl[m] /\ rl[m] \in 0..B /\ rl[m] < rl[x]
        BY <1>2, <1>7, <2>1
      <3>2. CASE n \in L.nodes
        <4>1. n = x
          <5>1. x \notin Sinks(L)
            <6> SUFFICES ASSUME x \in Sinks(L) PROVE FALSE
              OBVIOUS
            <6>1. n \in N /\ L.nodes \cap N = {}
              <7>1. f[x] \in N
                BY DEF Glues
              <7>2. L.nodes \cap N = {}
                BY GluePorts
              <7> QED BY <2>1, <7>1, <7>2
            <6> QED BY <3>2, <6>1
          <5> QED BY <2>1, <5>1 DEF Glues
        <4> QED BY <1>7, <3>1, <3>2, <4>1
      <3>3. CASE n \notin L.nodes
        <4>1. PICK w \in R.nodes : n = g[w]
          BY <3>3, GlueParts
        <4>2. rank[n] = B + 1 + rr[w] /\ rr[w] \in 0..C
          BY <1>4, <1>6, <4>1
        <4> QED BY <3>1, <4>2
      <3> QED BY <3>2, <3>3
    <2>2. ASSUME NEW w \in R.nodes, n \in R.nodes \ Sources(R), m = g[w], <<w, n>> \in R.dags
          PROVE  rank[m] < rank[n]
      <3>1. n = g[n]
        BY <2>2 DEF Glues
      <3>2. rank[m] = B + 1 + rr[w] /\ rank[n] = B + 1 + rr[n]
        BY <1>6, <2>2, <3>1
      <3>3. rr[w] < rr[n] /\ rr[w] \in 0..C /\ rr[n] \in 0..C
        BY <1>4, <2>2
      <3> QED BY <3>2, <3>3
    <2>3. Edge(L, R, f, g, m, n)
      BY <1>11, GlueEdges
    <2> QED BY <2>1, <2>2, <2>3 DEF Edge
  <1>12. D \in Nat
    OBVIOUS
  <1> HIDE DEF D
  <1>13. \E r \in [M.nodes -> 0..D] : \A m, n \in M.nodes : <<m, n>> \in M.dags => r[m] < r[n]
    BY <1>10, <1>11
  <1> QED BY <1>12, <1>13 DEF Ranked

LEMMA GlueGood ==
  ASSUME Types, NEW L, NEW R, NEW M, NEW N, NEW f, NEW g, Glues(L, R, M, N, f, g)
  PROVE  Good(M)'
  BY GlueMembers, GlueReaders, GlueCounts, GlueSingles, GlueDags, GlueRanked DEF Good

LEMMA GlueApart ==
  ASSUME NEW L, NEW R, NEW M, NEW N, NEW f, NEW g, Glues(L, R, M, N, f, g),
         NEW Q, Good(Q), Apart(L, Q), Apart(R, Q)
  PROVE  Good(Q)' /\ Apart(M, Q)' /\ Apart(Q, M)'
  <1>1. Q.nodes \subseteq Id /\ Id \cap N = {} /\ Id \subseteq Id'
    BY DEF Good, MembersOK, Glues
  <1>2. \A n \in Q.nodes : node'[n] = node[n] /\ Ins(n)' = Ins(n) /\ Outs(n)' = Outs(n)
    BY <1>1 DEF Glues, Ins, Outs
  <1>3. Good(Q)'
    BY <1>1, <1>2, FrameGood
  <1>4. ASSUME NEW x \in M.nodes, NEW n \in Q.nodes
        PROVE  x # n /\ (Ins(x) \cup Outs(x))' \cap (Ins(n) \cup Outs(n))' = {}
    <2>1. x # n
      BY <1>1 DEF Glues, Apart
    <2>2. Ins(x)' \cap (Ins(n) \cup Outs(n)) = {}
      <3>1. CASE x \in R.nodes
        <4>1. Ins(x)' = Ins(x)
          BY <3>1, GluePorts
        <4> QED BY <3>1, <4>1 DEF Apart
      <3>2. CASE x \notin R.nodes
        <4>1. PICK y \in L.nodes : x = f[y]
          BY <3>2, GlueParts
        <4>2. Ins(x)' = Ins(y)
          BY <4>1, GluePorts
        <4> QED BY <4>2 DEF Apart
      <3> QED BY <3>1, <3>2
    <2>3. Outs(x)' \cap (Ins(n) \cup Outs(n)) = {}
      <3>1. CASE x \in L.nodes
        <4>1. Outs(x)' = Outs(x)
          BY <3>1, GluePorts
        <4> QED BY <3>1, <4>1 DEF Apart
      <3>2. CASE x \notin L.nodes
        <4>1. PICK y \in R.nodes : x = g[y]
          BY <3>2, GlueParts
        <4>2. Outs(x)' = Outs(y)
          BY <4>1, GluePorts
        <4> QED BY <4>2 DEF Apart
      <3> QED BY <3>1, <3>2
    <2> QED BY <1>2, <2>1, <2>2, <2>3
  <1> QED BY <1>3, <1>4 DEF Apart

(* MergePipeline changes two pipelines: left becomes X, right is emptied.  *)
LEMMA TwoChange ==
  ASSUME Inv, Types', NEW left \in Pipelines, NEW right \in Pipelines, left # right, NEW X,
         pl' = [pl EXCEPT ![left] = X, ![right] = EmptyPipeline], Good(X)',
         Id \subseteq Id', \A n \in Id : node'[n] = node[n],
         ASSUME NEW r \in Pipelines \ {left, right}, NEW Q, Q = pl[r] PROVE Apart(X, Q)' /\ Apart(Q, X)'
  PROVE  Inv'
  <1>1. PICK E : E = EmptyPipeline
    OBVIOUS
  <1>2. E.nodes = {} /\ Good(E)
    BY <1>1, Empty DEF EmptyPipeline
  <1>3. Good(E)' /\ \A P : Apart(E, P)' /\ Apart(P, E)'
    <2>1. Good(E)'
      BY <1>2, FrameGood
    <2> QED BY <1>2, <2>1 DEF Apart
  <1>4. pl'[left] = X /\ pl'[right] = E /\ \A r \in Pipelines \ {left, right} : pl'[r] = pl[r]
    BY <1>1 DEF Inv, Types
  <1>5. ASSUME NEW r \in Pipelines \ {left, right}, NEW Q, Q = pl[r]
        PROVE  Good(Q)' /\ pl'[r] = Q /\ Q.nodes \subseteq Id
    <2>1. Good(Q) /\ Q.nodes \subseteq Id
      BY <1>5 DEF Inv, Good, MembersOK
    <2>2. \A n \in Q.nodes : node'[n] = node[n]
      BY <2>1
    <2> QED BY <1>4, <1>5, <2>1, <2>2, FrameGood
  <1>6. ASSUME NEW r \in Pipelines, NEW Q, Q = pl'[r] PROVE Good(Q)'
    <2>1. CASE r = left
      BY <1>4, <1>6, <2>1
    <2>2. CASE r = right
      BY <1>3, <1>4, <1>6, <2>2
    <2>3. CASE r \notin {left, right}
      <3>1. Q = pl[r]
        BY <1>4, <1>6, <2>3
      <3> QED BY <1>5, <2>3, <3>1
    <2> QED BY <2>1, <2>2, <2>3
  <1>7. ASSUME NEW r \in Pipelines, NEW s \in Pipelines, r # s, NEW Q, Q = pl'[r], NEW T, T = pl'[s]
        PROVE  Apart(Q, T)'
    <2>1. CASE r = right \/ s = right
      BY <1>3, <1>4, <1>7, <2>1
    <2>2. CASE r = left /\ s \notin {left, right}
      <3>1. Q = X /\ T = pl[s]
        BY <1>4, <1>7, <2>2
      <3> QED BY <2>2, <3>1
    <2>3. CASE s = left /\ r \notin {left, right}
      <3>1. T = X /\ Q = pl[r]
        BY <1>4, <1>7, <2>3
      <3> QED BY <2>3, <3>1
    <2>4. CASE r \notin {left, right} /\ s \notin {left, right}
      <3>1. Q = pl[r] /\ T = pl[s] /\ Apart(pl[r], pl[s])
        BY <1>4, <1>7, <2>4 DEF Inv
      <3>2. Q.nodes \subseteq Id /\ T.nodes \subseteq Id
        BY <1>5, <2>4, <3>1
      <3>3. \A n \in Q.nodes \cup T.nodes : node'[n] = node[n]
        BY <3>2
      <3> QED BY <3>1, <3>3, FrameApart
    <2> QED BY <1>7, <2>1, <2>2, <2>3, <2>4
  <1>8. ASSUME NEW r \in Pipelines PROVE Good(pl[r])'
    <2>1. PICK Q : Q = pl'[r]
      OBVIOUS
    <2>2. Good(Q)'
      BY <1>6, <2>1
    <2> QED BY ONLY <2>1, <2>2 DEF Good, MembersOK, NodesOK, LeavesOK, ReadersOK, CountsOK, SinglesOK, DagsOK, Ranked, WritersOf
  <1>9. ASSUME NEW r \in Pipelines, NEW s \in Pipelines, r # s PROVE Apart(pl[r], pl[s])'
    <2>1. PICK Q, T : Q = pl'[r] /\ T = pl'[s]
      OBVIOUS
    <2>2. Apart(Q, T)'
      BY <1>7, <1>9, <2>1
    <2> QED BY <2>1, <2>2 DEF Apart
  <1> QED BY <1>8, <1>9 DEF Inv

(* One of the two is empty: the result is the other one.                   *)
LEMMA MergeEmptyKeeps ==
  ASSUME Inv, NEW left \in Pipelines, NEW right \in Pipelines, left # right,
         NEW X, X = pl[left] \/ X = pl[right],
         pl' = [pl EXCEPT ![left] = X, ![right] = EmptyPipeline],
         UNCHANGED <<node, queue>>, gone' = gone \cup {right}
  PROVE  Inv'
  <1>1. Id' = Id /\ Queue' = Queue
    BY DEF Id, Queue
  <1>2. Types /\ X \in PipelineRec /\ Good(X) /\ EmptyPipeline \in PipelineRec
    BY Empty DEF Inv, Types
  <1>3. Types'
    <2>1. pl' \in [Pipelines -> PipelineRec]
      BY <1>2 DEF Types
    <2>2. \A n \in Id : Ins(n)' = Ins(n) /\ Outs(n)' = Outs(n)
      BY DEF Ins, Outs
    <2> QED BY <1>1, <1>2, <2>1, <2>2 DEF Types
  <1>4. Good(X)'
    BY <1>1, <1>2, FrameGood
  <1>5. ASSUME NEW r \in Pipelines \ {left, right}, NEW Q, Q = pl[r] PROVE Apart(X, Q)' /\ Apart(Q, X)'
    <2>1. Apart(X, Q) /\ Apart(Q, X)
      BY <1>5 DEF Inv
    <2> QED BY <2>1, FrameApart
  <1>6. Id \subseteq Id' /\ \A n \in Id : node'[n] = node[n]
    BY <1>1
  <1> QED BY <1>3, <1>4, <1>5, <1>6, TwoChange

(* What MergePipeline does when neither pipeline is empty.                 *)
Merges(left, right, L, R, noops, M) ==
    /\ left # right /\ L = pl[left] /\ R = pl[right]
    /\ L.leaves = {} /\ R.leaves = {} /\ Len(L.sinks) = Len(R.sources)
    /\ noops = [i \in DOMAIN L.sinks |-> MergeSinkAndSource(L.sinks[i], R.sources[i])]
    /\ node' = node \o noops /\ UNCHANGED queue /\ gone' = gone \cup {right}
    /\ M = [nodes |-> (L.nodes \ Range(L.sinks)) \cup (R.nodes \ Range(R.sources))
                      \cup {NewId(i) : i \in DOMAIN noops},
            leaves |-> {},
            dags |-> {<<e[1], Replace(L.sinks, e[2])>> : e \in L.dags}
                     \cup {<<Replace(R.sources, e[1]), e[2]>> : e \in R.dags},
            sources |-> L.sources, sinks |-> R.sinks, channel_size |-> 0]
    /\ pl' = [pl EXCEPT ![left] = M, ![right] = EmptyPipeline]

LEMMA MergeFullKeeps ==
  ASSUME Inv, NEW left \in Pipelines, NEW right \in Pipelines,
         NEW L, NEW R, NEW noops, NEW M, Merges(left, right, L, R, noops, M)
  PROVE  Inv'
  <1> left # right /\ L = pl[left] /\ R = pl[right]
    BY DEF Merges
  <1> L.leaves = {} /\ R.leaves = {} /\ Len(L.sinks) = Len(R.sources)
    BY DEF Merges
  <1> noops = [i \in DOMAIN L.sinks |-> MergeSinkAndSource(L.sinks[i], R.sources[i])]
    BY DEF Merges
  <1> node' = node \o noops /\ UNCHANGED queue /\ gone' = gone \cup {right}
    BY DEF Merges
  <1> M = [nodes |-> (L.nodes \ Range(L.sinks)) \cup (R.nodes \ Range(R.sources))
                     \cup {NewId(i) : i \in DOMAIN noops},
           leaves |-> {},
           dags |-> {<<e[1], Replace(L.sinks, e[2])>> : e \in L.dags}
                    \cup {<<Replace(R.sources, e[1]), e[2]>> : e \in R.dags},
           sources |-> L.sources, sinks |-> R.sinks, channel_size |-> 0]
    BY Zenon DEF Merges
  <1> pl' = [pl EXCEPT ![left] = M, ![right] = EmptyPipeline]
    BY Zenon DEF Merges
  <1>1. Types /\ Good(L) /\ Good(R) /\ Apart(L, R) /\ L \in PipelineRec /\ R \in PipelineRec
    BY DEF Inv, Types
  <1>2. Len(node) \in Nat /\ Len(queue) \in Nat /\ node \in Seq(ProcessorRec)
    BY <1>1 DEF Types
  <1>3. PICK k \in Nat : k = Len(L.sinks) /\ DOMAIN L.sinks = 1..k /\ DOMAIN R.sources = 1..k
    <2>1. L.sinks \in Seq(Nat) /\ R.sources \in Seq(Nat)
      BY <1>1 DEF PipelineRec
    <2>2. Len(L.sinks) \in Nat /\ DOMAIN L.sinks = 1..Len(L.sinks) /\ DOMAIN R.sources = 1..Len(R.sources)
      BY ONLY <2>1
    <2>3. DOMAIN R.sources = 1..Len(L.sinks)
      BY <2>2
    <2> QED BY ONLY <2>2, <2>3
  <1>4. PICK N : N = {NewId(i) : i \in 1..k}
    OBVIOUS
  <1>5. /\ L.nodes \subseteq Id /\ R.nodes \subseteq Id
        /\ Range(L.sinks) = Sinks(L) /\ NoDup(L.sinks) /\ Range(R.sources) = Sources(R) /\ NoDup(R.sources)
        /\ L.dags \subseteq L.nodes \X L.nodes /\ R.dags \subseteq R.nodes \X R.nodes
    BY <1>1 DEF Good, MembersOK, Sinks, Sources
  <1>6. \A i \in 1..k : L.sinks[i] \in Sinks(L) /\ R.sources[i] \in Sources(R)
    BY <1>3, <1>5 DEF Range
  <1>7. ASSUME NEW i \in 1..k
        PROVE  /\ noops[i] \in ProcessorRec
               /\ noops[i].ins = node[L.sinks[i]].ins /\ noops[i].outs = node[R.sources[i]].outs
               /\ noops[i] = Processor("transform", node[L.sinks[i]].ins, node[R.sources[i]].outs,
                                       node[L.sinks[i]].count)
    <2>1. noops[i] = Processor("transform", node[L.sinks[i]].ins, node[R.sources[i]].outs, node[L.sinks[i]].count)
      BY <1>3 DEF MergeSinkAndSource
    <2>2. L.sinks[i] \in Id /\ R.sources[i] \in Id
      BY <1>5, <1>6 DEF Sinks, Sources
    <2>3. \A n \in Id : node[n] \in ProcessorRec
      BY ONLY <1>2 DEF Id
    <2>4. PICK a, b : a = node[L.sinks[i]] /\ b = node[R.sources[i]]
      OBVIOUS
    <2>5. a \in ProcessorRec /\ b \in ProcessorRec
      BY <2>2, <2>3, <2>4
    <2>6. noops[i] = Processor("transform", a.ins, b.outs, a.count)
      BY <2>1, <2>4
    <2>7. noops[i] \in ProcessorRec /\ noops[i].ins = a.ins /\ noops[i].outs = b.outs
      BY ONLY <2>5, <2>6 DEF Processor, ProcessorRec, Kinds
    <2> QED BY <2>1, <2>4, <2>7
  <1>8. noops \in Seq(ProcessorRec) /\ Len(noops) = k /\ DOMAIN noops = 1..k
    <2>1. noops \in [1..k -> ProcessorRec]
      <3>1. noops = [i \in 1..k |-> noops[i]]
        BY <1>3
      <3> QED BY ONLY <1>7, <3>1
    <2> QED BY ONLY <2>1, k \in Nat
  <1>9. /\ node' \in Seq(ProcessorRec) /\ Len(node') = Len(node) + k
        /\ \A n \in 1..Len(node) : node'[n] = node[n]
        /\ \A i \in 1..k : node'[Len(node) + i] = noops[i]
    <2>1. node' = node \o noops
      OBVIOUS
    <2>2. /\ node \o noops \in Seq(ProcessorRec) /\ Len(node \o noops) = Len(node) + Len(noops)
          /\ \A n \in 1..Len(node) : (node \o noops)[n] = node[n]
          /\ \A i \in 1..Len(noops) : (node \o noops)[Len(node) + i] = noops[i]
      <3>1. node \in Seq(ProcessorRec) /\ noops \in Seq(ProcessorRec)
        BY <1>2, <1>8
      <3> QED BY ONLY <3>1, Joined
    <2>3. Len(noops) = k
      BY <1>8
    <2> QED BY ONLY <2>1, <2>2, <2>3
  <1>10. Id' = Id \cup N /\ Id \cap N = {} /\ \A i \in 1..k : NewId(i) = Len(node) + i
    <2>1. \A i \in 1..k : NewId(i) = Len(node) + i
      BY DEF NewId
    <2>2. N = Len(node) + 1 .. Len(node) + k
      <3>1. \A i \in 1..k : NewId(i) \in Len(node) + 1 .. Len(node) + k
        BY <1>2, <2>1
      <3>2. ASSUME NEW m \in Len(node) + 1 .. Len(node) + k PROVE m \in N
        <4>1. m - Len(node) \in 1..k /\ Len(node) + (m - Len(node)) = m
          BY <1>2
        <4> QED BY <1>4, <2>1, <4>1
      <3> QED BY <1>4, <3>1, <3>2
    <2>3. Id = 1..Len(node) /\ Id' = 1..Len(node) + k
      BY <1>9 DEF Id
    <2>4. \A m : m \in 1..Len(node) + k <=> m \in 1..Len(node) \/ m \in Len(node) + 1 .. Len(node) + k
      BY ONLY <1>2, k \in Nat
    <2>5. \A m : ~(m \in 1..Len(node) /\ m \in Len(node) + 1 .. Len(node) + k)
      BY ONLY <1>2, k \in Nat
    <2> QED BY <2>1, <2>2, <2>3, <2>4, <2>5
  <1>11. \A n \in Id : node'[n] = node[n]
    BY <1>9 DEF Id
  <1>12. PICK f, g : f = [n \in L.nodes |-> Replace(L.sinks, n)] /\ g = [n \in R.nodes |-> Replace(R.sources, n)]
    OBVIOUS
  <1>13. \A i \in 1..k : f[L.sinks[i]] = NewId(i) /\ g[R.sources[i]] = NewId(i)
    <2> SUFFICES ASSUME NEW i \in 1..k PROVE f[L.sinks[i]] = NewId(i) /\ g[R.sources[i]] = NewId(i)
      OBVIOUS
    <2>1. (CHOOSE j \in DOMAIN L.sinks : L.sinks[j] = L.sinks[i]) = i
      BY <1>3, <1>5, PlaceOf
    <2>2. (CHOOSE j \in DOMAIN R.sources : R.sources[j] = R.sources[i]) = i
      BY <1>3, <1>5, PlaceOf
    <2>3. L.sinks[i] \in Range(L.sinks) /\ L.sinks[i] \in L.nodes
      BY <1>5, <1>6 DEF Sinks
    <2>4. R.sources[i] \in Range(R.sources) /\ R.sources[i] \in R.nodes
      BY <1>5, <1>6 DEF Sources
    <2>5. Replace(L.sinks, L.sinks[i]) = NewId(i)
      BY <2>1, <2>3 DEF Replace
    <2>6. Replace(R.sources, R.sources[i]) = NewId(i)
      BY <2>2, <2>4 DEF Replace
    <2> QED BY <1>12, <2>3, <2>4, <2>5, <2>6
  <1>14. /\ \A n \in L.nodes \ Sinks(L) : f[n] = n
         /\ \A n \in R.nodes \ Sources(R) : g[n] = n
    BY <1>5, <1>12 DEF Replace
  <1>15. /\ \A n \in Sinks(L) : \E i \in 1..k : n = L.sinks[i]
         /\ \A n \in Sources(R) : \E i \in 1..k : n = R.sources[i]
    BY <1>3, <1>5 DEF Range
  <1>16. /\ M.nodes = (L.nodes \ Sinks(L)) \cup (R.nodes \ Sources(R)) \cup N
         /\ M.leaves = {} /\ M.sources = L.sources /\ M.sinks = R.sinks /\ M.channel_size = 0
    BY <1>4, <1>5, <1>8
  <1>17. M.dags = {<<e[1], f[e[2]]>> : e \in L.dags} \cup {<<g[e[1]], e[2]>> : e \in R.dags}
    <2>1. M.dags = {<<e[1], Replace(L.sinks, e[2])>> : e \in L.dags}
                   \cup {<<Replace(R.sources, e[1]), e[2]>> : e \in R.dags}
      OBVIOUS
    <2>2. \A e \in L.dags : f[e[2]] = Replace(L.sinks, e[2])
      BY <1>5, <1>12
    <2>3. \A e \in R.dags : g[e[1]] = Replace(R.sources, e[1])
      BY <1>5, <1>12
    <2> QED BY ONLY <2>1, <2>2, <2>3
  <1>18. Glues(L, R, M, N, f, g)
    <2>1. f \in [L.nodes -> M.nodes] /\ g \in [R.nodes -> M.nodes]
      <3>1. ASSUME NEW n \in L.nodes PROVE f[n] \in M.nodes
        <4>1. n \in Sinks(L) => f[n] \in N
          BY <1>4, <1>13, <1>15
        <4> QED BY <1>14, <1>16, <4>1
      <3>2. ASSUME NEW n \in R.nodes PROVE g[n] \in M.nodes
        <4>1. n \in Sources(R) => g[n] \in N
          BY <1>4, <1>13, <1>15
        <4> QED BY <1>14, <1>16, <4>1
      <3>3. f = [n \in L.nodes |-> f[n]] /\ g = [n \in R.nodes |-> g[n]]
        BY <1>12
      <3> QED BY ONLY <3>1, <3>2, <3>3
    <2>2. /\ \A n \in Sinks(L) : f[n] \in N
          /\ \A n \in Sources(R) : g[n] \in N
      <3>1. ASSUME NEW n \in Sinks(L) PROVE f[n] \in N
        <4>1. PICK i \in 1..k : n = L.sinks[i]
          BY ONLY <1>15, n \in Sinks(L)
        <4> QED BY ONLY <1>4, <1>13, <4>1
      <3>2. ASSUME NEW n \in Sources(R) PROVE g[n] \in N
        <4>1. PICK i \in 1..k : n = R.sources[i]
          BY ONLY <1>15, n \in Sources(R)
        <4> QED BY ONLY <1>4, <1>13, <4>1
      <3> QED BY ONLY <3>1, <3>2
    <2>3. \A i, j \in 1..k : NewId(i) = NewId(j) => i = j
      BY ONLY <1>2, <1>10, k \in Nat
    <2>4. ASSUME NEW m \in L.nodes, NEW n \in L.nodes, f[m] = f[n] PROVE m = n
      <3>1. CASE m \in Sinks(L) /\ n \in Sinks(L)
        <4>1. PICK i \in 1..k : m = L.sinks[i]
          BY <1>15, <3>1
        <4>2. PICK j \in 1..k : n = L.sinks[j]
          BY <1>15, <3>1
        <4>3. NewId(i) = NewId(j)
          BY ONLY <1>13, <2>4, <4>1, <4>2
        <4> QED BY ONLY <2>3, <4>1, <4>2, <4>3
      <3>2. CASE m \notin Sinks(L) /\ n \notin Sinks(L)
        BY ONLY <1>14, <2>4, <3>2, m \in L.nodes, n \in L.nodes
      <3>3. CASE m \in Sinks(L) /\ n \notin Sinks(L)
        <4>1. f[m] \in N /\ f[n] = n
          BY <1>14, <2>2, <3>3
        <4> QED BY ONLY <1>5, <1>10, <2>4, <4>1, n \in L.nodes
      <3>4. CASE m \notin Sinks(L) /\ n \in Sinks(L)
        <4>1. f[n] \in N /\ f[m] = m
          BY <1>14, <2>2, <3>4
        <4> QED BY ONLY <1>5, <1>10, <2>4, <4>1, m \in L.nodes
      <3> QED BY <3>1, <3>2, <3>3, <3>4
    <2>5. ASSUME NEW m \in R.nodes, NEW n \in R.nodes, g[m] = g[n] PROVE m = n
      <3>1. CASE m \in Sources(R) /\ n \in Sources(R)
        <4>1. PICK i \in 1..k : m = R.sources[i]
          BY <1>15, <3>1
        <4>2. PICK j \in 1..k : n = R.sources[j]
          BY <1>15, <3>1
        <4>3. NewId(i) = NewId(j)
          BY ONLY <1>13, <2>5, <4>1, <4>2
        <4> QED BY ONLY <2>3, <4>1, <4>2, <4>3
      <3>2. CASE m \notin Sources(R) /\ n \notin Sources(R)
        BY ONLY <1>14, <2>5, <3>2, m \in R.nodes, n \in R.nodes
      <3>3. CASE m \in Sources(R) /\ n \notin Sources(R)
        <4>1. g[m] \in N /\ g[n] = n
          BY <1>14, <2>2, <3>3
        <4> QED BY ONLY <1>5, <1>10, <2>5, <4>1, n \in R.nodes
      <3>4. CASE m \notin Sources(R) /\ n \in Sources(R)
        <4>1. g[n] \in N /\ g[m] = m
          BY <1>14, <2>2, <3>4
        <4> QED BY ONLY <1>5, <1>10, <2>5, <4>1, m \in R.nodes
      <3> QED BY <3>1, <3>2, <3>3, <3>4
    <2>6. ASSUME NEW x \in N PROVE \E m \in Sinks(L), n \in Sources(R) : f[m] = x /\ g[n] = x
      <3>1. PICK i \in 1..k : x = NewId(i)
        BY ONLY <1>4, x \in N
      <3> QED BY ONLY <1>6, <1>13, <3>1
    <2>7. ASSUME NEW m \in Sinks(L), NEW n \in Sources(R), f[m] = g[n]
          PROVE  node'[f[m]] = Processor("transform", node[m].ins, node[n].outs, node[m].count)
      <3>1. PICK i \in 1..k : m = L.sinks[i]
        BY <1>15
      <3>2. PICK j \in 1..k : n = R.sources[j]
        BY <1>15
      <3>3. f[m] = NewId(i) /\ g[n] = NewId(j)
        BY ONLY <1>13, <3>1, <3>2
      <3>4. i = j
        BY ONLY <2>3, <2>7, <3>3
      <3>5. node'[f[m]] = noops[i]
        BY ONLY <1>9, <1>10, <3>3
      <3>6. noops[i] = Processor("transform", node[L.sinks[i]].ins, node[R.sources[i]].outs, node[L.sinks[i]].count)
        BY ONLY <1>7
      <3> QED BY ONLY <3>1, <3>2, <3>4, <3>5, <3>6
    <2>8. L.leaves = {} /\ R.leaves = {}
      OBVIOUS
    <2> QED BY ONLY <1>1, <1>10, <1>11, <1>14, <1>16, <1>17, <2>1, <2>2, <2>4, <2>5, <2>6, <2>7, <2>8 DEF Glues
  <1>19. Good(M)' /\ MembersOK(M)'
    <2>1. Good(M)'
      BY ONLY <1>1, <1>18, GlueGood
    <2> QED BY ONLY <2>1 DEF Good
  <1>20. M \in PipelineRec
    <2>1. M.nodes \subseteq Nat
      <3>1. Id \subseteq Nat /\ N \subseteq Nat
        BY ONLY <1>2, <1>4, <1>10, k \in Nat DEF Id
      <3> QED BY ONLY <1>5, <1>16, <3>1
    <2>2. M.dags \subseteq M.nodes \X M.nodes
      BY ONLY <1>19 DEF MembersOK
    <2>3. M.dags \subseteq Nat \X Nat
      BY ONLY <2>1, <2>2
    <2>4. L.sources \in Seq(Nat) /\ R.sinks \in Seq(Nat)
      BY ONLY <1>1 DEF PipelineRec
    <2>5. M = [nodes |-> M.nodes, leaves |-> M.leaves, dags |-> M.dags, sources |-> M.sources,
               sinks |-> M.sinks, channel_size |-> M.channel_size]
      OBVIOUS
    <2> QED BY ONLY <1>16, <2>1, <2>3, <2>4, <2>5 DEF PipelineRec
  <1>21. Types'
    <2>1. pl' \in [Pipelines -> PipelineRec]
      <3>1. pl \in [Pipelines -> PipelineRec] /\ EmptyPipeline \in PipelineRec
        BY <1>1, Empty DEF Types
      <3>2. pl' = [pl EXCEPT ![left] = M, ![right] = EmptyPipeline]
        OBVIOUS
      <3> QED BY ONLY <1>20, <3>1, <3>2
    <2>2. queue' \in Seq(Nat) /\ Queue' = Queue /\ gone' \subseteq Pipelines
      BY <1>1 DEF Types, Queue
    <2>3. ASSUME NEW n \in Id' PROVE Ins(n)' \cup Outs(n)' \subseteq Queue
      <3>1. \A x \in Id : Ins(x) \cup Outs(x) \subseteq Queue
        BY <1>1 DEF Types
      <3>2. CASE n \in Id
        BY ONLY <1>11, <3>1, <3>2 DEF Ins, Outs
      <3>3. CASE n \in N
        <4>1. PICK i \in 1..k : n = NewId(i)
          BY ONLY <1>4, <3>3
        <4>2. node'[n] = noops[i]
          BY ONLY <1>9, <1>10, <4>1
        <4>3. PICK a, b : a = L.sinks[i] /\ b = R.sources[i]
          OBVIOUS
        <4>4. a \in Id /\ b \in Id
          BY ONLY <1>5, <1>6, <4>3 DEF Sinks, Sources
        <4>5. noops[i].ins = node[a].ins /\ noops[i].outs = node[b].outs
          BY ONLY <1>7, <4>3
        <4>6. Ins(n)' = Ins(a) /\ Outs(n)' = Outs(b)
          BY ONLY <4>2, <4>5 DEF Ins, Outs
        <4> QED BY ONLY <3>1, <4>4, <4>6
      <3> QED BY ONLY <1>10, <3>2, <3>3, n \in Id'
    <2> QED BY ONLY <1>9, <2>1, <2>2, <2>3 DEF Types
  <1>22. ASSUME NEW r \in Pipelines \ {left, right}, NEW Q, Q = pl[r] PROVE Apart(M, Q)' /\ Apart(Q, M)'
    <2>1. Good(Q) /\ Apart(L, Q) /\ Apart(R, Q)
      BY <1>22 DEF Inv
    <2> QED BY ONLY <1>18, <2>1, GlueApart
  <1>23. /\ Id \subseteq Id' /\ left # right /\ Inv
         /\ pl' = [pl EXCEPT ![left] = M, ![right] = EmptyPipeline]
    BY <1>10
  <1> QED BY ONLY <1>11, <1>19, <1>21, <1>22, <1>23, left \in Pipelines, right \in Pipelines, TwoChange

LEMMA MergePipelineKeeps ==
  ASSUME Inv, NEW left \in Pipelines, NEW right \in Pipelines, MergePipeline(left, right)
  PROVE  Inv'
  <1> DEFINE L == pl[left]
             R == pl[right]
             noops == [i \in DOMAIN L.sinks |-> MergeSinkAndSource(L.sinks[i], R.sources[i])]
             M == [nodes |-> (L.nodes \ Range(L.sinks)) \cup (R.nodes \ Range(R.sources))
                             \cup {NewId(i) : i \in DOMAIN noops},
                   leaves |-> {},
                   dags |-> ReplaceSinkIdInDags(left) \cup ReplaceSourceIdInDags(right),
                   sources |-> L.sources, sinks |-> R.sinks, channel_size |-> 0]
  <1>1. /\ left # right /\ L.leaves = {} /\ R.leaves = {}
        /\ gone' = gone \cup {right} /\ UNCHANGED queue
    BY ONLY MergePipeline(left, right), Zenon DEF MergePipeline, IsCompleted
  <1>2. \/ /\ pl' = [pl EXCEPT ![left] = IF L.nodes = {} THEN R ELSE L, ![right] = EmptyPipeline]
           /\ UNCHANGED node
        \/ /\ Len(L.sinks) = Len(R.sources)
           /\ node' = node \o noops
           /\ pl' = [pl EXCEPT ![left] = M, ![right] = EmptyPipeline]
    BY ONLY MergePipeline(left, right), Zenon DEF MergePipeline
  <1>3. CASE /\ pl' = [pl EXCEPT ![left] = IF L.nodes = {} THEN R ELSE L, ![right] = EmptyPipeline]
             /\ UNCHANGED node
    <2>1. PICK X : X = IF L.nodes = {} THEN R ELSE L
      OBVIOUS
    <2>2. (X = pl[left] \/ X = pl[right]) /\ pl' = [pl EXCEPT ![left] = X, ![right] = EmptyPipeline]
      BY <1>3, <2>1
    <2> QED BY <1>1, <1>3, <2>2, MergeEmptyKeeps
  <1>4. CASE /\ Len(L.sinks) = Len(R.sources)
             /\ node' = node \o noops
             /\ pl' = [pl EXCEPT ![left] = M, ![right] = EmptyPipeline]
    <2>1. ReplaceSinkIdInDags(left) = {<<e[1], Replace(L.sinks, e[2])>> : e \in L.dags}
      BY ONLY Zenon DEF ReplaceSinkIdInDags
    <2>2. ReplaceSourceIdInDags(right) = {<<Replace(R.sources, e[1]), e[2]>> : e \in R.dags}
      BY ONLY Zenon DEF ReplaceSourceIdInDags
    <2>3. PICK l, r, ns, m : l = L /\ r = R /\ ns = noops /\ m = M
      BY ONLY Zenon
    <2>4. /\ l = pl[left] /\ r = pl[right] /\ l.leaves = {} /\ r.leaves = {} /\ left # right
          /\ Len(l.sinks) = Len(r.sources)
          /\ node' = node \o ns /\ UNCHANGED queue /\ gone' = gone \cup {right}
          /\ pl' = [pl EXCEPT ![left] = m, ![right] = EmptyPipeline]
      BY ONLY <1>1, <1>4, <2>3, Zenon
    <2>5. ns = [i \in DOMAIN l.sinks |-> MergeSinkAndSource(l.sinks[i], r.sources[i])]
      BY ONLY <2>3, Zenon
    <2>6. m = [nodes |-> (l.nodes \ Range(l.sinks)) \cup (r.nodes \ Range(r.sources))
                         \cup {NewId(i) : i \in DOMAIN ns},
               leaves |-> {},
               dags |-> {<<e[1], Replace(l.sinks, e[2])>> : e \in l.dags}
                        \cup {<<Replace(r.sources, e[1]), e[2]>> : e \in r.dags},
               sources |-> l.sources, sinks |-> r.sinks, channel_size |-> 0]
      BY ONLY <2>1, <2>2, <2>3, Zenon
    <2>7. Merges(left, right, l, r, ns, m)
      BY ONLY <2>4, <2>5, <2>6, Zenon DEF Merges
    <2> QED BY ONLY Inv, left \in Pipelines, right \in Pipelines, <2>7, MergeFullKeeps
  <1> QED BY <1>2, <1>3, <1>4

-----------------------------------------------------------------------------

LEMMA NextInv ==
  ASSUME Inv, "creater_throws" \notin Unusual, [Next]_vars
  PROVE  Inv'
  <1>1. CASE UNCHANGED vars
    <2>1. node' = node /\ queue' = queue /\ pl' = pl /\ gone' = gone
      BY <1>1 DEF vars
    <2>2. Types'
      BY <2>1 DEF Inv, Types, Id, Queue, Ins, Outs
    <2>3. Id' = Id
      BY <2>1 DEF Id
    <2>4. ASSUME NEW p \in Pipelines, NEW P, P = pl'[p] PROVE Good(P)'
      BY <2>1, <2>3, <2>4, FrameGood DEF Inv
    <2>5. ASSUME NEW p \in Pipelines, NEW r \in Pipelines, p # r, NEW P, NEW R, P = pl'[p], R = pl'[r]
          PROVE  Apart(P, R)'
      BY <2>1, <2>5, FrameApart DEF Inv
    <2> QED BY <2>2, <2>4, <2>5 DEF Inv
  <1>2. ASSUME NEW p \in Pipelines, AddSource(p) PROVE Inv'
    BY <1>2, AddSourceKeeps
  <1>3. ASSUME NEW p \in Pipelines, NEW leaf \in Leaves(p), AddTransform(p, leaf) PROVE Inv'
    BY <1>3, AddTransformKeeps
  <1>4. ASSUME NEW p \in Pipelines, NEW leaf \in Leaves(p), NEW size \in 1..MaxBranches,
               DispatchFrom(p, leaf, size) \/ ForkFrom(p, leaf, size)
        PROVE  Inv'
    <2>1. size \in Nat /\ size >= 1
      BY SizeAssumption
    <2>2. BranchFrom(p, "dispatch", leaf, size) \/ BranchFrom(p, "fork", leaf, size)
      BY <1>4, Zenon DEF DispatchFrom, ForkFrom
    <2>3. "dispatch" \in {"dispatch", "fork"} /\ "fork" \in {"dispatch", "fork"}
      OBVIOUS
    <2>4. CASE BranchFrom(p, "dispatch", leaf, size)
      BY ONLY Inv, p \in Pipelines, <2>1, <2>3, <2>4, BranchFromKeeps
    <2>5. CASE BranchFrom(p, "fork", leaf, size)
      BY ONLY Inv, p \in Pipelines, <2>1, <2>3, <2>5, BranchFromKeeps
    <2> QED BY <2>2, <2>4, <2>5
  <1>5. ASSUME NEW p \in Pipelines, NEW leaves \in SomeLeaves(p), AddTransforms(p, leaves) PROVE Inv'
    BY <1>5, AddTransformsKeeps
  <1>6. ASSUME NEW p \in Pipelines, NEW leaves \in SomeLeaves(p), SetSink(p, leaves) PROVE Inv'
    BY <1>6, MergeIntoKeeps DEF SetSink
  <1>7. ASSUME NEW p \in Pipelines, NEW leaves \in SomeLeaves(p), Merge(p, leaves) PROVE Inv'
    BY <1>7, MergeIntoKeeps DEF Merge
  <1>8. ASSUME NEW p \in Pipelines, NEW leaves \in OrderedLeaves(p), ConcatFrom(p, leaves) PROVE Inv'
    BY <1>8, ConcatFromKeeps
  <1>9. ASSUME NEW left \in Pipelines, NEW right \in Pipelines, MergePipeline(left, right) PROVE Inv'
    BY <1>9, MergePipelineKeeps
  <1> QED BY <1>1, <1>2, <1>3, <1>4, <1>5, <1>6, <1>7, <1>8, <1>9 DEF Next

(* Every call of the builder, and MergePipeline, leaves pipelines that are *)
(* well made and share no processor and no queue.                          *)
THEOREM Invariant ==
  ASSUME "creater_throws" \notin Unusual
  PROVE  Spec => []Inv
  <1>1. Inv /\ [Next]_vars => Inv'
    BY NextInv
  <1> QED BY <1>1, InitInv, PTL DEF Spec

(* The ids in nodes_, leaves_, dags_, sources_ and sinks_ are processors   *)
(* of the pipeline, and the ports lead to queues that exist.               *)
THEOREM TypeCorrect ==
  ASSUME "creater_throws" \notin Unusual
  PROVE  Spec => []TypeOK
  <1>1. Inv => TypeOK
    <2> SUFFICES ASSUME Inv PROVE TypeOK
      OBVIOUS
    <2>1. Types /\ \A n \in Id : Range(node[n].ins) \cup Range(node[n].outs) \subseteq Queue
      BY DEF Inv, Types, Ins, Outs
    <2>2. node \in Seq([kind : Kinds, ins : Seq(Nat), outs : Seq(Nat), count : Nat])
          /\ queue \in Seq(Nat) /\ gone \subseteq Pipelines
      BY <2>1 DEF Types, ProcessorRec
    <2>3. ASSUME NEW p \in Pipelines
          PROVE  /\ pl[p].nodes \subseteq Id
                 /\ pl[p].leaves \subseteq pl[p].nodes
                 /\ pl[p].dags \subseteq pl[p].nodes \X pl[p].nodes
                 /\ Range(pl[p].sources) \cup Range(pl[p].sinks) \subseteq pl[p].nodes
                 /\ pl[p].channel_size \in Nat
      <3>1. MembersOK(pl[p]) /\ pl[p] \in PipelineRec
        BY <2>1 DEF Inv, Good, Types
      <3>2. pl[p].channel_size \in Nat
        BY <3>1 DEF PipelineRec
      <3> QED BY <3>1, <3>2 DEF MembersOK
    <2> QED BY <2>1, <2>2, <2>3 DEF TypeOK
  <1> QED BY <1>1, Invariant, PTL

(* leaves_ is exactly the set of the processors without output, sinks      *)
(* aside: only these get a successor, and IsCompleted overlooks no loose   *)
(* end.                                                                    *)
THEOREM LooseEnds ==
  ASSUME "creater_throws" \notin Unusual
  PROVE  Spec => []LeavesAreUnconnected
  <1>1. Inv => LeavesAreUnconnected
    BY DEF Inv, Good, LeavesOK, LeavesAreUnconnected, Leaves, Nodes
  <1> QED BY <1>1, Invariant, PTL

(* The pairs in W relate every member of A to one input, and every input   *)
(* to at most one member: there are as many members as inputs if and only  *)
(* if no input is left out.                                                *)
LEMMA OneEach ==
  ASSUME NEW A, IsFiniteSet(A), NEW k \in Nat, NEW W,
         \A m \in A : \E i \in 1..k : <<m, i>> \in W,
         \A m \in A : \A i, j \in 1..k : <<m, i>> \in W /\ <<m, j>> \in W => i = j,
         \A l, m \in A : \A i \in 1..k : <<l, i>> \in W /\ <<m, i>> \in W => l = m
  PROVE  ~(Cardinality(A) < k) <=> \A i \in 1..k : \E m \in A : <<m, i>> \in W
  <1>1. PICK f : f = [m \in A |-> CHOOSE i \in 1..k : <<m, i>> \in W]
    OBVIOUS
  <1>2. f \in [A -> 1..k] /\ \A m \in A : <<m, f[m]>> \in W
    BY <1>1
  <1>3. \A m \in A : \A i \in 1..k : <<m, i>> \in W => f[m] = i
    BY <1>2
  <1>4. f \in Injection(A, 1..k)
    BY <1>2 DEF Injection, IsInjective
  <1>5. IsFiniteSet(1..k) /\ Cardinality(1..k) = k
    BY FS_Interval
  <1>6. Cardinality(A) <= k /\ (Cardinality(A) = k <=> f \in Surjection(A, 1..k))
    BY <1>4, <1>5, FS_Injection
  <1>7. f \in Surjection(A, 1..k) <=> \A i \in 1..k : \E m \in A : f[m] = i
    BY <1>2 DEF Surjection
  <1>8. Cardinality(A) \in Nat
    BY FS_CardinalityType
  <1>9. (\A i \in 1..k : \E m \in A : f[m] = i) <=> (\A i \in 1..k : \E m \in A : <<m, i>> \in W)
    BY <1>2, <1>3
  <1>10. PICK c : c = Cardinality(A)
    OBVIOUS
  <1>11. c \in Nat /\ c <= k /\ (c = k <=> \A i \in 1..k : \E m \in A : <<m, i>> \in W)
    BY ONLY <1>6, <1>7, <1>8, <1>9, <1>10
  <1>12. ~(c < k) <=> c = k
    BY ONLY <1>11, k \in Nat
  <1> QED BY ONLY <1>10, <1>11, <1>12

(* A Concat was given a leaf twice if and only if one of its queues has no *)
(* writer.                                                                 *)
LEMMA LeafTwice ==
  ASSUME Inv, NEW p \in Pipelines, NEW n \in Nodes(p), node[n].kind = "concat"
  PROVE  ~GotLeafTwice(p, n) <=> \A q \in Ins(n) : Cardinality(WritersOf(pl[p], q)) = 1
  <1>1. PICK P, x, A, W :
            /\ P = pl[p] /\ x = node[n]
            /\ A = {m \in P.nodes : <<m, n>> \in P.dags}
            /\ W = {e \in P.nodes \X DOMAIN x.ins : x.ins[e[2]] \in Outs(e[1])}
    OBVIOUS
  <1>2. Types /\ Good(P) /\ n \in P.nodes /\ P.nodes \subseteq Id /\ n \in Id /\ A \subseteq P.nodes
    BY <1>1 DEF Inv, Good, MembersOK, Nodes
  <1>3. PICK k \in Nat : k = Len(x.ins) /\ DOMAIN x.ins = 1..k
    <2>1. x \in ProcessorRec
      BY <1>1, <1>2 DEF Types, Id
    <2>2. x.ins \in Seq(Nat)
      BY ONLY <2>1 DEF ProcessorRec
    <2> QED BY ONLY <2>2
  <1>4. IsFiniteSet(A)
    BY <1>2, FiniteIds
  <1>5. \A m \in P.nodes, i \in 1..k : <<m, i>> \in W <=> x.ins[i] \in Outs(m)
    BY <1>1, <1>3
  <1>6. Ins(n) = {x.ins[i] : i \in 1..k}
    BY <1>1, <1>3 DEF Ins, Range
  <1>7. ASSUME NEW i \in 1..k
        PROVE  /\ Cardinality(WritersOf(P, x.ins[i])) = 1 <=> \E m \in A : <<m, i>> \in W
               /\ \A l, m \in A : <<l, i>> \in W /\ <<m, i>> \in W => l = m
    <2>1. PICK q, V : q = x.ins[i] /\ V = WritersOf(P, q)
      OBVIOUS
    <2>2. q \in Ins(n)
      BY <1>6, <2>1
    <2>3. V \subseteq Id /\ Cardinality(V) \in {0, 1}
      BY <1>1, <1>2, <2>1, <2>2 DEF WritersOf, Good, CountsOK, Expected
    <2>4. IsFiniteSet(V)
      BY <1>2, <2>3, FiniteIds
    <2>5. V = {} \/ \E m : V = {m}
      BY <2>3, <2>4, FS_EmptySet, FS_Singleton
    <2>6. \A m : m \in V <=> m \in A /\ <<m, i>> \in W
      <3>1. \A m \in P.nodes : q \in Outs(m) => m \in A
        BY <1>1, <1>2, <2>2 DEF Good, DagsOK
      <3> QED BY <1>2, <1>5, <2>1, <3>1 DEF WritersOf
    <2>7. Cardinality({}) = 0 /\ \A m : Cardinality({m}) = 1
      BY FS_EmptySet, FS_Singleton
    <2>8. Cardinality(V) = 1 <=> V # {}
      BY ONLY <2>5, <2>7
    <2>9. Cardinality(V) = 1 <=> \E m \in A : <<m, i>> \in W
      BY ONLY <2>6, <2>8
    <2>10. \A l, m \in A : <<l, i>> \in W /\ <<m, i>> \in W => l = m
      BY ONLY <2>5, <2>6
    <2> QED BY ONLY <2>1, <2>9, <2>10
  <1>8. ASSUME NEW m \in A
        PROVE  /\ \E i \in 1..k : <<m, i>> \in W
               /\ \A i, j \in 1..k : <<m, i>> \in W /\ <<m, j>> \in W => i = j
    <2>1. m \in P.nodes /\ Outs(m) \cap Ins(n) # {}
      BY <1>1, <1>2 DEF Good, DagsOK
    <2>2. \E i \in 1..k : <<m, i>> \in W
      BY <1>5, <1>6, <2>1
    <2>3. \A q, r \in Outs(m) : q = r
      <3>1. Len(node[m].outs) <= 1 /\ m \in Id
        BY <1>1, <1>2, <2>1 DEF Good, SinglesOK
      <3>2. PICK y : y = node[m]
        OBVIOUS
      <3>3. y \in ProcessorRec
        BY <1>2, <3>1, <3>2 DEF Types, Id
      <3>4. y.outs \in Seq(Nat)
        BY ONLY <3>3 DEF ProcessorRec
      <3>5. \A i, j \in DOMAIN y.outs : i = j
        BY ONLY <3>1, <3>2, <3>4
      <3> QED BY ONLY <3>2, <3>5 DEF Outs, Range
    <2>4. \A i, j \in 1..k : x.ins[i] = x.ins[j] => i = j
      BY <1>1, <1>2, <1>3 DEF Good, ReadersOK
    <2> QED BY <1>5, <2>1, <2>2, <2>3, <2>4
  <1>9. ~(Cardinality(A) < k) <=> \A i \in 1..k : \E m \in A : <<m, i>> \in W
    <2>1. \A m \in A : \E i \in 1..k : <<m, i>> \in W
      BY <1>8
    <2>2. \A m \in A : \A i, j \in 1..k : <<m, i>> \in W /\ <<m, j>> \in W => i = j
      BY <1>8
    <2>3. \A l, m \in A : \A i \in 1..k : <<l, i>> \in W /\ <<m, i>> \in W => l = m
      BY <1>7
    <2> QED BY ONLY k \in Nat, <1>4, <2>1, <2>2, <2>3, OneEach, Zenon
  <1>10. GotLeafTwice(p, n) <=> Cardinality(A) < k
    BY <1>1, <1>3 DEF GotLeafTwice, Nodes
  <1>11. (\A i \in 1..k : \E m \in A : <<m, i>> \in W)
         <=> \A q \in Ins(n) : Cardinality(WritersOf(P, q)) = 1
    BY ONLY <1>6, <1>7
  <1> QED BY ONLY <1>1, <1>9, <1>10, <1>11

(* input_count_ is the number of writers of the queue that Pop reads, and  *)
(* every queue of a Concat has one writer, also after MergePipeline.  The  *)
(* exception is a Concat that ConcatFrom was given a leaf twice for: none  *)
(* of its queues has more than one writer.                                 *)
THEOREM EofCounts ==
  ASSUME "creater_throws" \notin Unusual
  PROVE  Spec => []InputCountIsWriters
  <1>1. Inv => InputCountIsWriters
    <2> SUFFICES ASSUME Inv, NEW p \in Pipelines, NEW n \in Nodes(p), NEW i \in DOMAIN node[n].ins
                 PROVE  IF GotLeafTwice(p, n) THEN Cardinality(Writers(p, node[n].ins[i])) <= 1
                        ELSE Cardinality(Writers(p, node[n].ins[i]))
                             = IF node[n].kind = "concat" THEN 1 ELSE node[n].count
      BY DEF InputCountIsWriters
    <2>1. PICK q : q = node[n].ins[i]
      OBVIOUS
    <2>2. q \in Ins(n)
      BY <2>1 DEF Ins, Range
    <2>3. Writers(p, q) = WritersOf(pl[p], q)
      BY DEF Writers, WritersOf, Nodes, Outs
    <2>4. Cardinality(WritersOf(pl[p], q)) \in Expected(node[n])
      BY <2>2 DEF Inv, Good, CountsOK, Nodes
    <2>5. CASE node[n].kind = "concat"
      <3>1. Cardinality(WritersOf(pl[p], q)) <= 1
        BY <2>4, <2>5 DEF Expected
      <3>2. ~GotLeafTwice(p, n) => Cardinality(WritersOf(pl[p], q)) = 1
        BY <2>2, <2>5, LeafTwice
      <3> QED BY <2>1, <2>3, <2>5, <3>1, <3>2
    <2>6. CASE node[n].kind # "concat"
      <3>1. ~GotLeafTwice(p, n)
        BY <2>6 DEF GotLeafTwice
      <3> QED BY <2>1, <2>3, <2>4, <2>6, <3>1 DEF Expected
    <2> QED BY <2>5, <2>6
  <1> QED BY <1>1, Invariant, PTL

(* A queue that a processor writes has one reader, in the same pipeline,   *)
(* and no other pipeline reads it or writes it.                            *)
THEOREM OneReader ==
  ASSUME "creater_throws" \notin Unusual
  PROVE  Spec => []OneReaderPerQueue
  <1>1. Inv => OneReaderPerQueue
    <2> SUFFICES ASSUME Inv, NEW p \in Pipelines, NEW m \in Nodes(p), NEW q \in Range(node[m].outs)
                 PROVE  /\ Cardinality(Readers(p, q)) = 1
                        /\ \A r \in Pipelines \ {p} : Readers(r, q) = {} /\ Writers(r, q) = {}
      BY DEF OneReaderPerQueue
    <2>1. ReadersOK(pl[p]) /\ m \in pl[p].nodes /\ q \in Outs(m)
      BY DEF Inv, Good, Nodes, Outs
    <2>2. PICK n \in pl[p].nodes : q \in Ins(n)
      BY <2>1 DEF ReadersOK
    <2>3. Readers(p, q) = {n}
      <3>1. ASSUME NEW x \in pl[p].nodes, q \in Ins(x) PROVE x = n
        <4>1. PICK a \in DOMAIN node[x].ins : q = node[x].ins[a]
          BY <3>1 DEF Ins, Range
        <4>2. PICK b \in DOMAIN node[n].ins : q = node[n].ins[b]
          BY <2>2 DEF Ins, Range
        <4> QED BY <2>1, <4>1, <4>2 DEF ReadersOK
      <3> QED BY <2>2, <3>1 DEF Readers, Nodes, Ins
    <2>4. Cardinality(Readers(p, q)) = 1
      BY <2>3, FS_Singleton
    <2>5. ASSUME NEW r \in Pipelines \ {p} PROVE Readers(r, q) = {} /\ Writers(r, q) = {}
      <3>1. Apart(pl[p], pl[r])
        BY DEF Inv
      <3>2. \A x \in pl[r].nodes : q \notin Ins(x) /\ q \notin Outs(x)
        BY <2>1, <3>1 DEF Apart
      <3> QED BY <3>2 DEF Readers, Writers, Nodes, Ins, Outs
    <2> QED BY <2>4, <2>5
  <1> QED BY <1>1, Invariant, PTL

(* dags_ has an edge where a queue connects two processors and nowhere     *)
(* else, and no cycle, also after MergePipeline has replaced the ids: of   *)
(* any processors, one of the least rank is fed by no other.               *)
THEOREM Dags ==
  ASSUME "creater_throws" \notin Unusual
  PROVE  Spec => []EdgesAreQueues
  <1>1. Inv => EdgesAreQueues
    <2> SUFFICES ASSUME Inv, NEW p \in Pipelines
                 PROVE  /\ \A m, n \in Nodes(p) :
                               <<m, n>> \in pl[p].dags <=> Range(node[m].outs) \cap Range(node[n].ins) # {}
                        /\ Acyclic(p)
      BY DEF EdgesAreQueues
    <2>1. DagsOK(pl[p]) /\ Ranked(pl[p])
      BY DEF Inv, Good
    <2>2. ASSUME NEW m \in Nodes(p), NEW n \in Nodes(p)
          PROVE  <<m, n>> \in pl[p].dags <=> Range(node[m].outs) \cap Range(node[n].ins) # {}
      BY <2>1 DEF DagsOK, Nodes, Ins, Outs
    <2>3. PICK B \in Nat : \E rank \in [Nodes(p) -> 0..B] :
                \A m, n \in Nodes(p) : <<m, n>> \in pl[p].dags => rank[m] < rank[n]
      BY <2>1 DEF Ranked, Nodes
    <2>4. PICK rank \in [Nodes(p) -> 0..B] :
                \A m, n \in Nodes(p) : <<m, n>> \in pl[p].dags => rank[m] < rank[n]
      BY <2>3
    <2>5. ASSUME NEW some \in (SUBSET Nodes(p)) \ {{}}
          PROVE  \E n \in some : \A m \in some : <<m, n>> \notin pl[p].dags
      <3>1. PICK T : T = {rank[n] : n \in some}
        OBVIOUS
      <3>2. T \subseteq Nat /\ T # {}
        <4>1. ASSUME NEW n \in some PROVE rank[n] \in Nat
          <5>1. n \in Nodes(p) /\ B \in Nat /\ rank \in [Nodes(p) -> 0..B]
            BY <2>3, <2>4
          <5> QED BY ONLY <5>1
        <4>2. PICK n : n \in some
          OBVIOUS
        <4>3. rank[n] \in T
          BY <3>1, <4>2
        <4> QED BY ONLY <3>1, <4>1, <4>3
      <3>3. PICK x \in T : \A y \in T : x <= y
        BY <3>2, Least
      <3>4. PICK n \in some : x = rank[n]
        BY <3>1
      <3>5. ASSUME NEW m \in some PROVE <<m, n>> \notin pl[p].dags
        <4>1. rank[n] <= rank[m]
          BY <3>1, <3>3, <3>4
        <4>2. rank[m] \in Nat /\ rank[n] \in Nat
          BY <3>4
        <4>3. ~(rank[m] < rank[n])
          BY <4>1, <4>2
        <4> QED BY <2>4, <4>3
      <3> QED BY <3>5
    <2>6. Acyclic(p)
      BY <2>5 DEF Acyclic
    <2> QED BY <2>2, <2>6
  <1> QED BY <1>1, Invariant, PTL

-----------------------------------------------------------------------------

(* A processor with an input counts at least one EOF, a Concat aside, and  *)
(* its outputs are different queues.                                       *)
Sound(x) == /\ NoDup(x.outs)
            /\ x.kind \notin {"source", "concat"} /\ x.ins # <<>> => x.count >= 1
AllSound == \A n \in Id : Sound(node[n])
Capacities == "grow_merged" \notin Unusual => QueuesHoldSomething

(* The operations of the builder: connect() with new processors from T.    *)
Connects(p, T) == \E out : \E new \in Seq(T) : \E k \in Nat : Connect(p, out, new, k)
Builds(p) == \E T : (\A x \in T : Sound(x)) /\ Connects(p, T)

LEMMA ConnectSound ==
  ASSUME Types, AllSound, NEW p \in Pipelines, Builds(p)
  PROVE  AllSound'
  <1>1. PICK T : (\A x \in T : Sound(x)) /\ Connects(p, T)
    BY DEF Builds
  <1>2. PICK out : \E new \in Seq(T) : \E k \in Nat : Connect(p, out, new, k)
    BY <1>1 DEF Connects
  <1>3. PICK new \in Seq(T) : \E k \in Nat : Connect(p, out, new, k)
    BY <1>2
  <1>4. PICK old : old = [n \in Id |-> IF n \in DOMAIN out THEN [node[n] EXCEPT !.outs = <<out[n]>>] ELSE node[n]]
    OBVIOUS
  <1>5. node' = old \o new
    BY <1>3, <1>4 DEF Connect
  <1>6. Len(node) \in Nat /\ Id = 1..Len(node) /\ \A n \in Id : node[n] \in ProcessorRec
    BY DEF Types, Id
  <1>7. ASSUME NEW n \in Id PROVE Sound(old[n])
    <2>1. PICK x, y : x = node[n] /\ y = [node[n] EXCEPT !.outs = <<out[n]>>]
      OBVIOUS
    <2>2. x \in ProcessorRec /\ Sound(x)
      BY <1>6, <2>1 DEF AllSound
    <2>3. CASE n \in DOMAIN out
      <3>1. old[n] = y
        BY <1>4, <2>1, <2>3
      <3>2. y.kind = x.kind /\ y.ins = x.ins /\ y.count = x.count /\ y.outs = <<out[n]>>
        BY <2>1, <2>2 DEF ProcessorRec
      <3>3. NoDup(<<out[n]>>)
        BY DEF NoDup
      <3> QED BY <2>2, <3>1, <3>2, <3>3 DEF Sound
    <2>4. CASE n \notin DOMAIN out
      <3>1. old[n] = x
        BY <1>4, <2>1, <2>4
      <3> QED BY <2>2, <3>1
    <2> QED BY <2>3, <2>4
  <1>8. PICK U : U = T \cup {old[n] : n \in Id}
    OBVIOUS
  <1>9. \A x \in U : Sound(x)
    BY <1>1, <1>7, <1>8
  <1>10. old \in Seq(U)
    <2>1. old \in [1..Len(node) -> U]
      BY <1>4, <1>6, <1>8
    <2> QED BY ONLY <1>6, <2>1
  <1>11. new \in Seq(U)
    BY <1>8
  <1>12. old \o new \in Seq(U)
    BY ONLY <1>10, <1>11
  <1>13. \A n \in 1..Len(old \o new) : (old \o new)[n] \in U
    BY ONLY <1>12
  <1> QED BY <1>5, <1>9, <1>13 DEF AllSound, Id

LEMMA ConnectQueues ==
  ASSUME Types, Capacities, NEW p \in Pipelines, NEW new, Usable(p, new), NEW T, Connects(p, T)
  PROVE  Capacities'
  <1> SUFFICES ASSUME "grow_merged" \notin Unusual PROVE QueuesHoldSomething'
    BY DEF Capacities
  <1>1. QueuesHoldSomething
    BY DEF Capacities
  <1>2. PICK k \in Nat : queue' = queue \o [i \in 1..k |-> pl[p].channel_size]
    BY DEF Connects, Connect
  <1>3. PICK c : c = pl[p].channel_size
    OBVIOUS
  <1>4. c \in Nat \ {0}
    <2>1. c \in Nat
      BY <1>3 DEF Types, PipelineRec
    <2> QED BY <1>3, <2>1 DEF Usable
  <1>5. PICK more : more = [i \in 1..k |-> c]
    OBVIOUS
  <1>6. more \in Seq(Nat) /\ Len(more) = k /\ \A i \in 1..k : more[i] = c
    BY <1>4, <1>5
  <1>7. queue \in Seq(Nat) /\ queue' = queue \o more
    BY <1>2, <1>3, <1>5 DEF Types
  <1>8. /\ Len(queue') = Len(queue) + k /\ Len(queue) \in Nat
        /\ \A i \in 1..Len(queue) : queue'[i] = queue[i]
        /\ \A i \in 1..k : queue'[Len(queue) + i] = c
    <2>1. PICK Q : Q = queue
      OBVIOUS
    <2>2. Q \in Seq(Nat) /\ more \in Seq(Nat)
      BY <1>6, <1>7, <2>1
    <2>3. /\ Len(Q \o more) = Len(Q) + Len(more) /\ Len(Q) \in Nat
          /\ \A i \in 1..Len(Q) : (Q \o more)[i] = Q[i]
          /\ \A i \in 1..Len(more) : (Q \o more)[Len(Q) + i] = more[i]
      BY ONLY <2>2
    <2> QED BY ONLY <1>6, <1>7, <2>1, <2>3
  <1> SUFFICES ASSUME NEW q \in 1..Len(queue') PROVE queue'[q] > 0
    BY DEF QueuesHoldSomething, Queue
  <1>9. CASE q \in 1..Len(queue)
    BY <1>1, <1>8, <1>9 DEF QueuesHoldSomething, Queue
  <1>10. CASE q \notin 1..Len(queue)
    <2>1. q - Len(queue) \in 1..k /\ Len(queue) + (q - Len(queue)) = q
      BY <1>8, <1>10
    <2>2. queue'[q] = c
      BY <1>8, <2>1
    <2> QED BY <1>4, <2>2
  <1> QED BY <1>9, <1>10

(* Every operation of the builder connects sound processors.               *)
LEMMA SoundProcessor ==
  ASSUME NEW kind, NEW ins, NEW outs, NEW count, NoDup(outs),
         kind \in {"source", "concat"} \/ ins = <<>> \/ count >= 1
  PROVE  Sound(Processor(kind, ins, outs, count))
  BY DEF Sound, Processor

LEMMA OneBuilt ==
  ASSUME NEW p, NEW out, NEW x, Sound(x), NEW k \in Nat, Connect(p, out, <<x>>, k)
  PROVE  Builds(p)
  <1>1. <<x>> \in Seq({x})
    OBVIOUS
  <1>2. Connects(p, {x})
    BY <1>1 DEF Connects
  <1> QED BY <1>2 DEF Builds

LEMMA AddSourceBuilds ==
  ASSUME NEW p, AddSource(p)
  PROVE  Usable(p, 1) /\ Builds(p)
  <1>1. Usable(p, 1) /\ Connect(p, <<>>, <<Processor("source", <<>>, <<>>, 0)>>, 0)
    BY DEF AddSource
  <1>2. Sound(Processor("source", <<>>, <<>>, 0))
    BY NoElements, SoundProcessor
  <1> QED BY <1>1, <1>2, OneBuilt

LEMMA AddTransformBuilds ==
  ASSUME NEW p, NEW leaf, AddTransform(p, leaf)
  PROVE  Usable(p, 1) /\ Builds(p)
  <1>1. Usable(p, 1) /\ Connect(p, [n \in {leaf} |-> NewQueue(1)],
                                <<Processor("transform", <<NewQueue(1)>>, <<>>, 1)>>, 1)
    BY DEF AddTransform
  <1>2. Sound(Processor("transform", <<NewQueue(1)>>, <<>>, 1))
    BY NoElements, SoundProcessor
  <1> QED BY <1>1, <1>2, OneBuilt

LEMMA MergeIntoBuilds ==
  ASSUME Inv, NEW p \in Pipelines, NEW kind, NEW S, MergeInto(p, kind, S)
  PROVE  Usable(p, 1) /\ Builds(p)
  <1>1. PICK ins, x : /\ ins = IF S = {} THEN <<>> ELSE <<NewQueue(1)>>
                      /\ x = Processor(kind, ins, <<>>, Cardinality(S))
    OBVIOUS
  <1>2. /\ Usable(p, 1) /\ Connect(p, [n \in S |-> NewQueue(1)], <<x>>, Len(ins))
        /\ S \subseteq pl[p].leaves
    BY ONLY <1>1, MergeInto(p, kind, S), Zenon DEF MergeInto
  <1>3. ins = <<>> \/ Cardinality(S) >= 1
    <2>1. S \subseteq Id /\ Types
      BY <1>2, Calls
    <2>2. IsFiniteSet(S) /\ Cardinality(S) \in Nat
      BY <2>1, FiniteIds
    <2>3. S # {} => Cardinality(S) # 0
      BY <2>2, FS_EmptySet
    <2> QED BY <1>1, <2>2, <2>3
  <1>4. Sound(x)
    BY <1>1, <1>3, NoElements, SoundProcessor
  <1>5. Len(ins) \in Nat
    BY <1>1, NoElements, OneElement
  <1> QED BY <1>2, <1>4, <1>5, OneBuilt

LEMMA ConcatFromBuilds ==
  ASSUME NEW p, NEW leaves \in OrderedLeaves(p), ConcatFrom(p, leaves)
  PROVE  Usable(p, 1) /\ Builds(p)
  <1>1. PICK x, out : /\ x = Processor("concat", [i \in DOMAIN leaves |-> NewQueue(i)], <<>>, 0)
                      /\ out = [n \in Range(leaves) |-> NewQueue(LastPlace(leaves, n))]
    OBVIOUS
  <1>2. Usable(p, 1) /\ Connect(p, out, <<x>>, Len(leaves))
    BY <1>1, Zenon DEF ConcatFrom
  <1>3. Sound(x)
    BY <1>1, NoElements, SoundProcessor
  <1>4. Len(leaves) \in Nat
    BY OrderedIsSeq, SizeAssumption
  <1> QED BY <1>2, <1>3, <1>4, OneBuilt

LEMMA AddTransformsBuilds ==
  ASSUME Inv, NEW p \in Pipelines, NEW S, AddTransforms(p, S)
  PROVE  Usable(p, Len(SetToSeq(S))) /\ Builds(p)
  <1> DEFINE order == SetToSeq(S)
             out == [n \in S |-> NewQueue(CHOOSE i \in DOMAIN order : order[i] = n)]
             new == [i \in DOMAIN order |-> Processor("transform", <<NewQueue(i)>>, <<>>, 1)]
  <1>1. order = SetToSeq(S) /\ new = [i \in DOMAIN order |-> Processor("transform", <<NewQueue(i)>>, <<>>, 1)]
    OBVIOUS
  <1>2. /\ Usable(p, Len(order)) /\ S \subseteq pl[p].leaves
        /\ Connect(p, out, new, Len(order))
    BY ONLY AddTransforms(p, S), Zenon DEF AddTransforms
  <1> HIDE DEF order, out, new
  <1>3. PICK k \in Nat : Len(order) = k /\ DOMAIN order = 1..k
    <2>1. S \subseteq Id /\ Types
      BY <1>2, Calls
    <2>2. IsFiniteSet(S)
      BY <2>1, FiniteIds
    <2> QED BY <1>1, <2>2, SetToSeqIsBijection
  <1>4. PICK T : T = {Processor("transform", <<NewQueue(i)>>, <<>>, 1) : i \in 1..k}
    OBVIOUS
  <1>5. new \in Seq(T)
    <2>1. new \in [1..k -> T]
      BY <1>1, <1>3, <1>4
    <2> QED BY ONLY <2>1
  <1>6. \A x \in T : Sound(x)
    <2>1. \A i \in 1..k : Sound(Processor("transform", <<NewQueue(i)>>, <<>>, 1))
      BY NoElements, SoundProcessor
    <2> QED BY <1>4, <2>1
  <1>7. Connects(p, T)
    BY <1>2, <1>3, <1>5 DEF Connects
  <1> QED BY <1>1, <1>2, <1>6, <1>7 DEF Builds

LEMMA BranchFromBuilds ==
  ASSUME Inv, NEW p \in Pipelines, NEW kind, NEW leaf, NEW size \in Nat, BranchFrom(p, kind, leaf, size)
  PROVE  Usable(p, size + 1) /\ Builds(p)
  <1>1. PICK q, qs, x, tail :
            /\ q = NewQueue(size + 1) /\ qs = [i \in 1..size |-> NewQueue(i)]
            /\ x = Processor(kind, <<q>>, qs, 1)
            /\ tail = [i \in 1..size |-> Processor("transform", <<NewQueue(i)>>, <<>>, 1)]
    OBVIOUS
  <1>2. Usable(p, size + 1) /\ Connect(p, [n \in {leaf} |-> q], <<x>> \o tail, size + 1)
    BY ONLY <1>1, BranchFrom(p, kind, leaf, size), Zenon DEF BranchFrom
  <1>3. Len(queue) \in Nat
    BY DEF Inv, Types
  <1>4. Sound(x)
    <2>1. NoDup(qs)
      <3>1. DOMAIN qs = 1..size /\ \A i \in 1..size : qs[i] = Len(queue) + i
        BY ONLY <1>1 DEF NewQueue
      <3> QED BY <1>3, <3>1 DEF NoDup
    <2> QED BY <1>1, <2>1, SoundProcessor
  <1>5. PICK T : T = {x} \cup {Processor("transform", <<NewQueue(i)>>, <<>>, 1) : i \in 1..size}
    OBVIOUS
  <1>6. \A y \in T : Sound(y)
    <2>1. \A i \in 1..size : Sound(Processor("transform", <<NewQueue(i)>>, <<>>, 1))
      BY NoElements, SoundProcessor
    <2> QED BY <1>4, <1>5, <2>1
  <1>7. tail \in Seq(T)
    <2>1. tail \in [1..size -> T]
      BY <1>1, <1>5
    <2> QED BY ONLY <2>1, size \in Nat
  <1>8. <<x>> \o tail \in Seq(T)
    <2>1. <<x>> \in Seq(T)
      BY <1>5
    <2> QED BY ONLY <1>7, <2>1
  <1>9. size + 1 \in Nat
    OBVIOUS
  <1>10. Connects(p, T)
    BY <1>2, <1>8, <1>9 DEF Connects
  <1> QED BY <1>2, <1>6, <1>10 DEF Builds

(* The NoOpTransform takes the count of a sink and the outputs of a source.*)
LEMMA MergePipelineSound ==
  ASSUME Inv, AllSound, NEW left \in Pipelines, NEW right \in Pipelines, MergePipeline(left, right)
  PROVE  AllSound'
  <1>1. PICK L, R : L = pl[left] /\ R = pl[right]
    OBVIOUS
  <1>2. PICK noops : noops = [i \in DOMAIN L.sinks |-> MergeSinkAndSource(L.sinks[i], R.sources[i])]
    OBVIOUS
  <1>3. \/ UNCHANGED node
        \/ Len(L.sinks) = Len(R.sources) /\ node' = node \o noops
    BY ONLY <1>1, <1>2, MergePipeline(left, right), Zenon DEF MergePipeline
  <1>4. CASE UNCHANGED node
    BY <1>4 DEF AllSound, Id
  <1>5. CASE Len(L.sinks) = Len(R.sources) /\ node' = node \o noops
    <2>1. L.sinks \in Seq(Nat) /\ R.sources \in Seq(Nat)
      BY <1>1 DEF Inv, Types, PipelineRec
    <2>2. PICK k \in Nat : k = Len(L.sinks) /\ DOMAIN L.sinks = 1..k /\ DOMAIN R.sources = 1..k
      <3>1. Len(L.sinks) \in Nat /\ DOMAIN L.sinks = 1..Len(L.sinks) /\ DOMAIN R.sources = 1..Len(R.sources)
        BY ONLY <2>1
      <3> QED BY ONLY <1>5, <3>1
    <2>3. MembersOK(L) /\ MembersOK(R)
      BY <1>1 DEF Inv, Good
    <2>4. ASSUME NEW i \in 1..k PROVE Sound(noops[i])
      <3>1. PICK a, b : a = L.sinks[i] /\ b = R.sources[i]
        OBVIOUS
      <3>2. a \in Range(L.sinks) /\ b \in Range(R.sources)
        BY <2>2, <3>1 DEF Range
      <3>3. a \in Id /\ b \in Id /\ node[a].kind = "sink"
        BY <2>3, <3>2 DEF MembersOK
      <3>4. (node[a].ins = <<>> \/ node[a].count >= 1) /\ NoDup(node[b].outs)
        BY <3>3 DEF AllSound, Sound
      <3>5. noops[i] = Processor("transform", node[a].ins, node[b].outs, node[a].count)
        BY <1>2, <2>2, <3>1 DEF MergeSinkAndSource
      <3> QED BY <3>4, <3>5, SoundProcessor
    <2>5. Len(node) \in Nat /\ Id = 1..Len(node) /\ node \in Seq(ProcessorRec)
      BY DEF Inv, Types, Id
    <2>6. PICK U : U = {node[n] : n \in Id} \cup {noops[i] : i \in 1..k}
      OBVIOUS
    <2>7. \A x \in U : Sound(x)
      BY <2>4, <2>6 DEF AllSound
    <2>8. node \in Seq(U)
      <3>1. node \in [1..Len(node) -> U]
        BY <2>5, <2>6
      <3> QED BY ONLY <2>5, <3>1
    <2>9. noops \in Seq(U)
      <3>1. noops \in [1..k -> U]
        BY <1>2, <2>2, <2>6
      <3> QED BY ONLY <3>1
    <2>10. node \o noops \in Seq(U)
      BY ONLY <2>8, <2>9
    <2>11. \A n \in 1..Len(node \o noops) : (node \o noops)[n] \in U
      BY ONLY <2>10
    <2> QED BY <1>5, <2>7, <2>11 DEF AllSound, Id
  <1> QED BY <1>3, <1>4, <1>5

LEMMA NextSound ==
  ASSUME Inv, AllSound, Capacities, [Next]_vars
  PROVE  AllSound' /\ Capacities'
  <1>1. CASE UNCHANGED vars
    BY <1>1 DEF vars, AllSound, Capacities, QueuesHoldSomething, Id, Queue
  <1>2. ASSUME NEW p \in Pipelines, NEW new, Usable(p, new), Builds(p) PROVE AllSound' /\ Capacities'
    <2>1. Types
      BY DEF Inv
    <2>2. PICK T : Connects(p, T)
      BY <1>2 DEF Builds
    <2> QED BY <1>2, <2>1, <2>2, ConnectSound, ConnectQueues
  <1>3. ASSUME NEW p \in Pipelines, AddSource(p) PROVE AllSound' /\ Capacities'
    BY <1>2, <1>3, AddSourceBuilds
  <1>4. ASSUME NEW p \in Pipelines, NEW leaf \in Leaves(p), AddTransform(p, leaf)
        PROVE  AllSound' /\ Capacities'
    BY <1>2, <1>4, AddTransformBuilds
  <1>5. ASSUME NEW p \in Pipelines, NEW leaf \in Leaves(p), NEW size \in 1..MaxBranches,
               DispatchFrom(p, leaf, size) \/ ForkFrom(p, leaf, size)
        PROVE  AllSound' /\ Capacities'
    <2>1. size \in Nat
      OBVIOUS
    <2>2. PICK kind : BranchFrom(p, kind, leaf, size)
      BY <1>5, Zenon DEF DispatchFrom, ForkFrom
    <2>3. Usable(p, size + 1) /\ Builds(p)
      BY ONLY Inv, p \in Pipelines, <2>1, <2>2, BranchFromBuilds
    <2> QED BY <1>2, <2>3
  <1>6. ASSUME NEW p \in Pipelines, NEW leaves \in SomeLeaves(p), AddTransforms(p, leaves)
        PROVE  AllSound' /\ Capacities'
    BY <1>2, <1>6, AddTransformsBuilds
  <1>7. ASSUME NEW p \in Pipelines, NEW leaves \in SomeLeaves(p),
               SetSink(p, leaves) \/ Merge(p, leaves)
        PROVE  AllSound' /\ Capacities'
    <2>1. PICK kind : MergeInto(p, kind, leaves)
      BY <1>7, Zenon DEF SetSink, Merge
    <2> QED BY <1>2, <2>1, MergeIntoBuilds
  <1>8. ASSUME NEW p \in Pipelines, NEW leaves \in OrderedLeaves(p), ConcatFrom(p, leaves)
        PROVE  AllSound' /\ Capacities'
    BY <1>2, <1>8, ConcatFromBuilds
  <1>9. ASSUME NEW left \in Pipelines, NEW right \in Pipelines, MergePipeline(left, right)
        PROVE  AllSound' /\ Capacities'
    <2>1. UNCHANGED queue
      BY ONLY <1>9, Zenon DEF MergePipeline
    <2>2. Capacities'
      BY <2>1 DEF Capacities, QueuesHoldSomething, Queue
    <2> QED BY <1>9, <2>2, MergePipelineSound
  <1> QED BY <1>1, <1>3, <1>4, <1>5, <1>6, <1>7, <1>8, <1>9 DEF Next

LEMMA InitSound == ASSUME Init PROVE AllSound /\ Capacities
  BY DEF Init, AllSound, Capacities, QueuesHoldSomething, Id, Queue

LEMMA SoundInvariant ==
  ASSUME "creater_throws" \notin Unusual
  PROVE  Spec => [](AllSound /\ Capacities)
  <1>1. Init => AllSound /\ Capacities
    BY InitSound
  <1>2. Inv /\ AllSound /\ Capacities /\ [Next]_vars => AllSound' /\ Capacities'
    BY NextSound
  <1> QED BY <1>1, <1>2, Invariant, PTL DEF Spec

(* Unless a merged pipeline is extended, every queue holds at least one    *)
(* item: channel_size is 0 only in what MergePipeline returns, and the     *)
(* queues there have been made before.                                     *)
THEOREM QueuesHold ==
  ASSUME "creater_throws" \notin Unusual, "grow_merged" \notin Unusual
  PROVE  Spec => []QueuesHoldSomething
  <1>1. Capacities => QueuesHoldSomething
    BY DEF Capacities
  <1> QED BY <1>1, SoundInvariant, PTL

(* A pipeline whose leaves_ are empty can run, unless it has a Concat that *)
(* was given a leaf twice or a processor that was given no leaves: its     *)
(* processors have the ports that their classes need, every queue has one  *)
(* reader and at least one writer (an input of a Concat exactly one), as   *)
(* the theorems about PipelineRun assume.  With one of the two it cannot.  *)
(* In any case sources_ and sinks_ are complete.                           *)
THEOREM CanRun ==
  ASSUME "creater_throws" \notin Unusual
  PROVE  Spec => []CompletedCanRun
  <1>1. Inv /\ AllSound => CompletedCanRun
    <2> SUFFICES ASSUME Inv, AllSound, NEW p \in Pipelines, IsCompleted(p)
                 PROVE  /\ IsWired(Nodes(p), [n \in Nodes(p) |-> node[n].kind],
                                   [n \in Nodes(p) |-> node[n].ins], [n \in Nodes(p) |-> node[n].outs])
                           <=> \A n \in Nodes(p) : ~GotLeafTwice(p, n) /\ ~GotNoLeaves(n)
                        /\ Range(pl[p].sources) = {n \in Nodes(p) : node[n].kind = "source"}
                        /\ Range(pl[p].sinks) = {n \in Nodes(p) : node[n].kind = "sink"}
      BY Zenon DEF CompletedCanRun
    <2>1. Good(pl[p]) /\ Types /\ Nodes(p) \subseteq Id
      BY DEF Inv, Good, MembersOK, Nodes
    <2>2. PICK S, kind, in, out :
              /\ S = Nodes(p) /\ kind = [n \in S |-> node[n].kind]
              /\ in = [n \in S |-> node[n].ins] /\ out = [n \in S |-> node[n].outs]
      OBVIOUS
    <2>3. \A n \in S : kind[n] = node[n].kind /\ in[n] = node[n].ins /\ out[n] = node[n].outs
      BY <2>2
    <2>4. \A n \in S : node[n] \in ProcessorRec /\ Sound(node[n])
      BY <2>1, <2>2 DEF Types, Id, AllSound
    <2>5. ASSUME NEW n \in S, ~GotNoLeaves(n) PROVE Arity(kind[n], Len(in[n]), Len(out[n]))
      <3>1. PICK x : x = node[n]
        OBVIOUS
      <3>2. x \in ProcessorRec
        BY <2>4, <3>1
      <3>3. /\ Shape(x) /\ (x.kind # "sink" => x.outs # <<>>)
            /\ x.kind = "source" \/ x.ins # <<>>
        BY <2>1, <2>2, <2>5, <3>1 DEF Good, NodesOK, LeavesOK, IsCompleted, Nodes, GotNoLeaves
      <3>4. /\ x.kind \in Kinds /\ Len(x.ins) \in Nat /\ Len(x.outs) \in Nat
            /\ x.ins = <<>> <=> Len(x.ins) = 0
            /\ x.outs = <<>> <=> Len(x.outs) = 0
        <4>1. x.kind \in Kinds /\ x.ins \in Seq(Nat) /\ x.outs \in Seq(Nat)
          BY <3>2 DEF ProcessorRec
        <4> QED BY <4>1
      <3>5. PICK k, a, b : k = x.kind /\ a = Len(x.ins) /\ b = Len(x.outs)
        OBVIOUS
      <3>6. /\ k \in Kinds /\ a \in Nat /\ b \in Nat
            /\ k = "source" => a = 0 /\ b = 1
            /\ k = "sink" => a = 1 /\ b = 0
            /\ k = "concat" => a >= 1 /\ b = 1
            /\ k \in {"dispatch", "fork"} => a = 1 /\ b >= 1
            /\ k = "transform" => a = 1 /\ b = 1
        <4>1. /\ k = "source" => x.ins = <<>> /\ b <= 1
              /\ k = "sink" => a <= 1 /\ x.outs = <<>>
              /\ k = "concat" => a >= 1 /\ b <= 1
              /\ k \in {"dispatch", "fork"} => a = 1 /\ b >= 1
              /\ k = "transform" => a <= 1 /\ b <= 1
          BY ONLY <3>3, <3>5, Zenon DEF Shape
        <4>2. /\ k \in Kinds /\ a \in Nat /\ b \in Nat
              /\ x.ins = <<>> <=> a = 0
              /\ x.outs = <<>> <=> b = 0
              /\ k # "sink" => x.outs # <<>>
              /\ k = "source" \/ x.ins # <<>>
          BY ONLY <3>3, <3>4, <3>5, Zenon
        <4>3. PICK noin, noout : noin = (x.ins = <<>>) /\ noout = (x.outs = <<>>)
          OBVIOUS
        <4> QED BY ONLY <4>1, <4>2, <4>3
      <3>7. Arity(k, a, b)
        BY ONLY <3>6 DEF Arity, Kinds
      <3> QED BY <2>3, <3>1, <3>5, <3>7
    <2>6. \A m, n \in S : \A i \in DOMAIN in[m], j \in DOMAIN in[n] :
              in[m][i] = in[n][j] => m = n /\ i = j
      <3>1. ReadersOK(pl[p])
        BY <2>1 DEF Good
      <3> QED BY <2>2, <2>3, <3>1 DEF ReadersOK, Nodes
    <2>7. \A n \in S : \A i, j \in DOMAIN out[n] : out[n][i] = out[n][j] => i = j
      BY <2>3, <2>4 DEF Sound, NoDup
    <2>8. \A n \in S : \A i \in DOMAIN in[n] :
              /\ in[n][i] \in Ins(n)
              /\ {m \in S : \E j \in DOMAIN out[m] : out[m][j] = in[n][i]} = WritersOf(pl[p], in[n][i])
      <3> SUFFICES ASSUME NEW n \in S, NEW i \in DOMAIN in[n], NEW q, q = in[n][i]
                   PROVE  /\ q \in Ins(n)
                          /\ {m \in S : \E j \in DOMAIN out[m] : out[m][j] = q} = WritersOf(pl[p], q)
        OBVIOUS
      <3>1. q \in Ins(n)
        BY <2>3 DEF Ins, Range
      <3>2. \A m \in S : (\E j \in DOMAIN out[m] : out[m][j] = q) <=> q \in Outs(m)
        BY <2>3 DEF Outs, Range
      <3> QED BY <2>2, <3>1, <3>2 DEF WritersOf, Nodes
    <2>9. ASSUME NEW n \in S, ~GotLeafTwice(p, n), NEW q \in Ins(n), NEW W, W = WritersOf(pl[p], q)
          PROVE  W # {} /\ (kind[n] \in {"concat", "channel_source"} => Cardinality(W) = 1)
      <3>1. PICK x : x = node[n]
        OBVIOUS
      <3>2. n \in Nodes(p) /\ kind[n] = x.kind
        BY <2>2, <2>3, <3>1
      <3>3. x \in ProcessorRec /\ Sound(x) /\ x.kind # "source" /\ x.ins # <<>>
        <4>1. Shape(x)
          BY <2>1, <3>1, <3>2 DEF Good, NodesOK, Nodes
        <4>2. x.ins # <<>>
          BY <3>1, NoElements DEF Ins
        <4> QED BY <2>4, <3>1, <4>1, <4>2 DEF Shape
      <3>4. Cardinality({}) = 0 /\ x.kind # "channel_source"
        BY <3>3, FS_EmptySet DEF ProcessorRec, Kinds
      <3>5. CASE x.kind = "concat"
        <4>1. Cardinality(W) = 1
          BY <2>9, <3>1, <3>2, <3>5, LeafTwice
        <4> QED BY <3>4, <4>1
      <3>6. CASE x.kind # "concat"
        <4>1. Cardinality(W) = x.count
          BY <2>1, <2>9, <3>1, <3>2, <3>6 DEF Good, CountsOK, Expected, Nodes
        <4>2. x.count >= 1
          BY <3>3, <3>6 DEF Sound
        <4> QED BY <3>2, <3>4, <3>6, <4>1, <4>2
      <3> QED BY <3>5, <3>6
    <2>10. ASSUME \A n \in S : ~GotLeafTwice(p, n) /\ ~GotNoLeaves(n)
           PROVE  IsWired(S, kind, in, out)
      <3>1. \A n \in S : \A i \in DOMAIN in[n] :
                /\ {m \in S : \E j \in DOMAIN out[m] : out[m][j] = in[n][i]} # {}
                /\ kind[n] \in {"concat", "channel_source"} =>
                       Cardinality({m \in S : \E j \in DOMAIN out[m] : out[m][j] = in[n][i]}) = 1
        BY ONLY <2>8, <2>9, <2>10, Zenon
      <3>2. \A n \in S : Arity(kind[n], Len(in[n]), Len(out[n]))
        BY <2>5, <2>10
      <3> QED BY ONLY <2>6, <2>7, <3>1, <3>2, Zenon DEF IsWired
    <2>11. ASSUME IsWired(S, kind, in, out), NEW n \in S
           PROVE  ~GotLeafTwice(p, n) /\ ~GotNoLeaves(n)
      <3>1. ~GotNoLeaves(n)
        <4>1. Arity(kind[n], Len(in[n]), Len(out[n]))
          BY ONLY <2>11, Zenon DEF IsWired
        <4>2. kind[n] \in Kinds /\ kind[n] # "source" => Len(in[n]) >= 1
          BY <4>1 DEF Arity, Kinds
        <4>3. kind[n] \in Kinds
          BY <2>3, <2>4 DEF ProcessorRec
        <4> QED BY <2>3, <4>2, <4>3, NoElements DEF GotNoLeaves
      <3>2. ~GotLeafTwice(p, n)
        <4>1. CASE node[n].kind = "concat"
          <5>1. \A i \in DOMAIN in[n] :
                    Cardinality({m \in S : \E j \in DOMAIN out[m] : out[m][j] = in[n][i]}) = 1
            <6>1. kind[n] = "concat"
              BY <2>3, <4>1
            <6> QED BY ONLY <2>11, <6>1 DEF IsWired
          <5>2. \A i \in DOMAIN in[n] : Cardinality(WritersOf(pl[p], in[n][i])) = 1
            BY ONLY <2>8, <5>1, n \in S, Zenon
          <5>3. \A q \in Ins(n) : \E i \in DOMAIN in[n] : q = in[n][i]
            BY <2>3 DEF Ins, Range
          <5>4. n \in Nodes(p)
            BY <2>2
          <5> QED BY <4>1, <5>2, <5>3, <5>4, LeafTwice
        <4> QED BY <4>1 DEF GotLeafTwice
      <3> QED BY <3>1, <3>2
    <2>12. MembersOK(pl[p])
      BY <2>1 DEF Good
    <2>13. /\ Range(pl[p].sources) = {n \in Nodes(p) : node[n].kind = "source"}
           /\ Range(pl[p].sinks) = {n \in Nodes(p) : node[n].kind = "sink"}
      BY <2>12 DEF MembersOK, Nodes
    <2> QED BY ONLY <2>2, <2>10, <2>11, <2>13, Zenon
  <1> QED BY <1>1, Invariant, SoundInvariant, PTL

=============================================================================
