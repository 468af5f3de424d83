--------------------------- MODULE MCBoundedQueue ---------------------------
(***************************************************************************)
(* BoundedQueue for TLC: every client is given one of the operation        *)
(* sequences of at most MaxOps operations.                                 *)
(***************************************************************************)
EXTENDS BoundedQueue, FiniteSetsExt, SequencesExt

CONSTANT MaxOps  \* bound: operations per client

(* Every sequence of at most MaxOps operations for every client.           *)
MixedWorkloads == [Clients -> UNION {[1..n -> Operation] : n \in 1..MaxOps}]

(* Every client repeats one operation, up to MaxOps times.                 *)
UniformWorkloads ==
    [Clients -> {[i \in 1..n |-> o] : n \in 1..MaxOps, o \in Operation}]

(* Occurrences of operation name in the workload.                          *)
Count(name) == FoldSet(LAMBDA c, n : n + Len(SelectSeq(todo[c], LAMBDA o : o = name)),
                       0, Clients)

(* Every client is a producer or a consumer, and as many values are popped *)
(* as are pushed.                                                          *)
ProducersAndConsumers ==
    /\ \A c \in Clients : Range(todo[c]) \in {{"Pop"}, {"Push"}}
    /\ Count("Pop") = Count("Push")

(* Producers and consumers of the same number of values all finish: no     *)
(* Pop sleeps on empty_cv_ and no Push on filled_cv_ for ever.             *)
AllServed ==
    ProducersAndConsumers => <>(\A c \in Clients : pc[c] = "idle" /\ todo[c] = <<>>)

=============================================================================
