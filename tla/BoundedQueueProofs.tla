------------------------- MODULE BoundedQueueProofs -------------------------
(***************************************************************************)
(* Proofs about BoundedQueue, for every finite set of coroutines, every    *)
(* capacity (0 included) and all workloads:                                *)
(*                                                                         *)
(*   TypeCorrect    the type invariant, with the bound on the queue        *)
(*   Exclusion      the mutex protects the queue                           *)
(*   Order          values leave in the order in which they entered        *)
(*   NoLost...Wakeups  neither condition variable loses a wake-up          *)
(*   Refinement     the queue implements the atomic BoundedFifo            *)
(*                                                                         *)
(* The wake-up invariants are inductive only together with the fact that a *)
(* coroutine on a condition variable is in the operation that waits there. *)
(***************************************************************************)
EXTENDS BoundedQueue, FiniteSetTheorems, TLAPS

(* A coroutine is where its current operation can be: on empty_cv_ only in *)
(* Pop, on filled_cv_ only in Push.                                        *)
OperationOK ==
    \A c \in Clients :
        /\ pc[c] # "idle" => todo[c] # <<>>
        /\ pc[c] = "empty_cv" => op(c) = "Pop"
        /\ pc[c] = "filled_cv" => op(c) = "Push"
        /\ pc[c] = "woken" => op(c) \in {"Pop", "Push"}

TypeInv == TypeOK /\ OperationOK

-----------------------------------------------------------------------------

(* The empty queue with idle clients has its types.                        *)
LEMMA InitTypeInv == Init => TypeInv
  BY CapacityAssumption, WorkloadsAssumption
     DEF Init, TypeInv, TypeOK, OperationOK, Location

(* What returning from an operation does to the type invariant, whether or *)
(* not a coroutine was notified on the way.                                *)
LEMMA LeaveTypeInv ==
  ASSUME TypeInv, NEW c \in Clients, pc[c] = "critical",
         \/ pc' = [pc EXCEPT ![c] = "idle"]
         \/ \E w \in EmptyWaiters \cup FilledWaiters :
                pc' = [pc EXCEPT ![c] = "idle", ![w] = "woken"],
         Unlock(c)
  PROVE  /\ mut' \in Clients \cup {Nil}
         /\ pc' \in [Clients -> Location]
         /\ todo' \in [Clients -> Seq(Operation)]
         /\ OperationOK'
  <1>1. mut' \in Clients \cup {Nil}
    BY DEF Unlock
  <1>2. todo[c] \in Seq(Operation) /\ todo[c] # <<>>
    BY DEF TypeInv, TypeOK, OperationOK
  <1>3. /\ todo' \in [Clients -> Seq(Operation)]
        /\ \A d \in Clients \ {c} : todo'[d] = todo[d]
    BY <1>2 DEF Unlock, TypeInv, TypeOK
  <1>4. pc' \in [Clients -> Location]
    BY DEF TypeInv, TypeOK, Location, EmptyWaiters, FilledWaiters
  <1>5. pc'[c] = "idle"
    BY DEF TypeInv, TypeOK, EmptyWaiters, FilledWaiters
  <1>6. \A d \in Clients \ {c} :
           \/ pc'[d] = pc[d]
           \/ pc'[d] = "woken" /\ pc[d] \in {"empty_cv", "filled_cv"}
    BY DEF TypeInv, TypeOK, EmptyWaiters, FilledWaiters
  <1>7. OperationOK'
    BY <1>3, <1>5, <1>6 DEF TypeInv, OperationOK, op
  <1> QED BY <1>1, <1>3, <1>4, <1>7

(* Taking the first element (pop_front) keeps the types.                   *)
LEMMA PopFrontTypeInv ==
  ASSUME TypeInv, queue # <<>>, PopFront
  PROVE  /\ queue' \in Seq(Clients \X Nat)
         /\ Len(queue') = Len(queue) - 1
         /\ Len(queue') <= Capacity
         /\ sent' \in Seq(Clients \X Nat)
         /\ taken' \in Seq(Clients \X Nat)
  BY CapacityAssumption DEF TypeInv, TypeOK, PopFront

(* Appending an element to a queue that is not full keeps the types.       *)
LEMMA EmplaceBackTypeInv ==
  ASSUME TypeInv, NEW c \in Clients, Len(queue) # Capacity, EmplaceBack(c)
  PROVE  /\ queue' \in Seq(Clients \X Nat)
         /\ Len(queue') = Len(queue) + 1
         /\ Len(queue') <= Capacity
         /\ sent' \in Seq(Clients \X Nat)
         /\ taken' \in Seq(Clients \X Nat)
  <1>1. Value(c) \in Clients \X Nat
    BY DEF Value, TypeInv, TypeOK
  <1> QED BY <1>1, CapacityAssumption DEF TypeInv, TypeOK, EmplaceBack

(* Every step of every client keeps the types.                             *)
LEMMA NextTypeInv == TypeInv /\ [Next]_vars => TypeInv'
  <1> SUFFICES ASSUME TypeInv, [Next]_vars PROVE TypeInv'
    OBVIOUS
  <1>1. CASE UNCHANGED vars
    BY <1>1 DEF vars, TypeInv, TypeOK, OperationOK, op
  <1>2. ASSUME NEW c \in Clients, Call(c) PROVE TypeInv'
    BY <1>2 DEF Call, TypeInv, TypeOK, OperationOK, op, Location
  <1>3. ASSUME NEW c \in Clients, AcquireLock(c) PROVE TypeInv'
    BY <1>3 DEF AcquireLock, TypeInv, TypeOK, OperationOK, op, Location
  <1>4. ASSUME NEW c \in Clients, Pop(c) PROVE TypeInv'
    <2>1. CASE queue = <<>> /\ Wait(c, "empty_cv")
      BY <1>4, <2>1 DEF Pop, InCritical, Wait, TypeInv, TypeOK, OperationOK, op, Location
    <2>2. CASE queue # <<>> /\ PopFront /\ NotifyOneAndLeave(c, FilledWaiters)
      BY <1>4, <2>2, PopFrontTypeInv, LeaveTypeInv
         DEF Pop, InCritical, NotifyOneAndLeave, TypeInv, TypeOK
    <2> QED BY <1>4, <2>1, <2>2 DEF Pop
  <1>5. ASSUME NEW c \in Clients, TryPop(c) PROVE TypeInv'
    <2>1. CASE Leave(c)
      BY <1>5, <2>1, LeaveTypeInv DEF TryPop, InCritical, Leave, TypeInv, TypeOK
    <2>2. CASE queue # <<>> /\ PopFront /\ NotifyOneAndLeave(c, FilledWaiters)
      BY <1>5, <2>2, PopFrontTypeInv, LeaveTypeInv
         DEF TryPop, InCritical, NotifyOneAndLeave, TypeInv, TypeOK
    <2> QED BY <1>5, <2>1, <2>2 DEF TryPop
  <1>6. ASSUME NEW c \in Clients, Push(c) PROVE TypeInv'
    <2>1. CASE Wait(c, "filled_cv")
      BY <1>6, <2>1 DEF Push, InCritical, Wait, TypeInv, TypeOK, OperationOK, op, Location
    <2>2. CASE Len(queue) # Capacity /\ EmplaceBack(c) /\ NotifyOneAndLeave(c, EmptyWaiters)
      BY <1>6, <2>2, EmplaceBackTypeInv, LeaveTypeInv
         DEF Push, InCritical, NotifyOneAndLeave, TypeInv, TypeOK
    <2> QED BY <1>6, <2>1, <2>2 DEF Push
  <1>7. ASSUME NEW c \in Clients, TryPush(c) PROVE TypeInv'
    <2>1. CASE Leave(c)
      BY <1>7, <2>1, LeaveTypeInv DEF TryPush, InCritical, Leave, TypeInv, TypeOK
    <2>2. CASE Len(queue) # Capacity /\ EmplaceBack(c) /\ NotifyOneAndLeave(c, EmptyWaiters)
      BY <1>7, <2>2, EmplaceBackTypeInv, LeaveTypeInv
         DEF TryPush, InCritical, NotifyOneAndLeave, TypeInv, TypeOK
    <2> QED BY <1>7, <2>1, <2>2 DEF TryPush
  <1> QED BY <1>1, <1>2, <1>3, <1>4, <1>5, <1>6, <1>7 DEF Next, Step

(* The queue never holds more than capacity_ elements, and its state is of *)
(* the expected types, whatever the clients do.                            *)
THEOREM TypeCorrect == Spec => []TypeOK
  <1>1. TypeInv => TypeOK
    BY DEF TypeInv
  <1> QED BY <1>1, InitTypeInv, NextTypeInv, PTL DEF Spec

-----------------------------------------------------------------------------

(* Every step keeps the mutex with one owner.                              *)
LEMMA NextMutualExclusion ==
  TypeInv /\ MutualExclusion /\ [Next]_vars => MutualExclusion'
  <1> SUFFICES ASSUME TypeInv, MutualExclusion, [Next]_vars
               PROVE  MutualExclusion'
    OBVIOUS
  <1> USE ClientsAssumption DEF TypeInv, TypeOK, MutualExclusion
  <1>1. CASE UNCHANGED vars
    BY <1>1 DEF vars
  <1>2. ASSUME NEW c \in Clients, Call(c) PROVE MutualExclusion'
    BY <1>2 DEF Call
  <1>3. ASSUME NEW c \in Clients, AcquireLock(c) PROVE MutualExclusion'
    BY <1>3 DEF AcquireLock
  <1>4. ASSUME NEW c \in Clients, NEW name, InCritical(c, name),
               \/ Wait(c, "empty_cv")
               \/ Wait(c, "filled_cv")
               \/ Leave(c)
               \/ NotifyOneAndLeave(c, EmptyWaiters)
               \/ NotifyOneAndLeave(c, FilledWaiters)
        PROVE  MutualExclusion'
    BY <1>4 DEF InCritical, Wait, Leave, NotifyOneAndLeave, Unlock, EmptyWaiters, FilledWaiters
  <1> QED BY <1>1, <1>2, <1>3, <1>4 DEF Next, Step, Pop, TryPop, Push, TryPush

(* The scoped lock keeps two coroutines from being inside an operation's   *)
(* body at the same time, through waits, notifications and returns.        *)
THEOREM Exclusion == Spec => []MutualExclusion
  <1>1. Init => MutualExclusion
    BY ClientsAssumption DEF Init, MutualExclusion
  <1> QED BY <1>1, InitTypeInv, NextTypeInv, NextMutualExclusion, PTL DEF Spec

-----------------------------------------------------------------------------

(* Two sequences of the same length with the same elements are equal.      *)
LEMMA SeqEqual ==
  ASSUME NEW V, NEW s \in Seq(V), NEW t \in Seq(V), Len(s) = Len(t),
         \A i \in 1..Len(s) : s[i] = t[i]
  PROVE  s = t
  OBVIOUS

(* Moving the head of one sequence to the end of another keeps their       *)
(* concatenation.                                                          *)
LEMMA MoveHead ==
  ASSUME NEW V, NEW s \in Seq(V), NEW t \in Seq(V), t # <<>>
  PROVE  s \o t = Append(s, Head(t)) \o Tail(t)
  <1>1. s \o t \in Seq(V) /\ Append(s, Head(t)) \o Tail(t) \in Seq(V)
    OBVIOUS
  <1>2. Len(s \o t) = Len(Append(s, Head(t)) \o Tail(t))
    OBVIOUS
  <1>3. \A i \in 1..Len(s \o t) : (s \o t)[i] = (Append(s, Head(t)) \o Tail(t))[i]
    OBVIOUS
  <1> QED BY <1>1, <1>2, <1>3, SeqEqual

(* pop_front moves a value from the queue to the values taken.             *)
LEMMA PopFrontOrder ==
  ASSUME TypeInv, FifoOrder, queue # <<>>, PopFront
  PROVE  FifoOrder'
  BY MoveHead DEF TypeInv, TypeOK, FifoOrder, PopFront

(* emplace_back appends the same value to the queue and to those sent.     *)
LEMMA EmplaceBackOrder ==
  ASSUME TypeInv, FifoOrder, NEW c \in Clients, EmplaceBack(c)
  PROVE  FifoOrder'
  <1> DEFINE v == Value(c)
             s == Append(taken \o queue, v)
             t == taken \o Append(queue, v)
  <1>1. /\ v \in Clients \X Nat
        /\ taken \in Seq(Clients \X Nat)
        /\ queue \in Seq(Clients \X Nat)
    BY DEF Value, TypeInv, TypeOK
  <1> HIDE DEF v
  <1>2. /\ s \in Seq(Clients \X Nat)
        /\ t \in Seq(Clients \X Nat)
        /\ Len(s) = Len(taken) + Len(queue) + 1
        /\ Len(t) = Len(taken) + Len(queue) + 1
    BY <1>1
  <1>3. ASSUME NEW i \in 1..Len(s) PROVE s[i] = t[i]
    <2>1. CASE i <= Len(taken)
      BY <1>1, <1>2, <2>1
    <2>2. CASE i > Len(taken) /\ i <= Len(taken) + Len(queue)
      BY <1>1, <1>2, <2>2
    <2>3. CASE i = Len(taken) + Len(queue) + 1
      BY <1>1, <1>2, <2>3
    <2> QED BY <1>1, <1>2, <2>1, <2>2, <2>3
  <1> HIDE DEF s, t
  <1>4. s = t
    BY <1>2, <1>3, SeqEqual
  <1> QED BY <1>4 DEF s, t, v, FifoOrder, EmplaceBack

(* First in, first out, without loss or duplication, for any number of     *)
(* concurrent producers and consumers.                                     *)
THEOREM Order == Spec => []FifoOrder
  <1>1. Init => FifoOrder
    BY DEF Init, FifoOrder
  <1>2. TypeInv /\ FifoOrder /\ [Next]_vars => FifoOrder'
    <2> SUFFICES ASSUME TypeInv, FifoOrder, [Next]_vars PROVE FifoOrder'
      OBVIOUS
    <2>1. CASE UNCHANGED <<queue, sent, taken>>
      BY <2>1 DEF FifoOrder
    <2>2. ASSUME NEW c \in Clients, Call(c) \/ AcquireLock(c) PROVE FifoOrder'
      BY <2>1, <2>2 DEF Call, AcquireLock
    <2>3. ASSUME NEW c \in Clients, Pop(c) \/ TryPop(c) PROVE FifoOrder'
      BY <2>1, <2>3, PopFrontOrder DEF Pop, TryPop, Wait, Leave
    <2>4. ASSUME NEW c \in Clients, Push(c) \/ TryPush(c) PROVE FifoOrder'
      BY <2>1, <2>4, EmplaceBackOrder DEF Push, TryPush, Wait, Leave
    <2> QED BY <2>1, <2>2, <2>3, <2>4 DEF Next, Step, vars
  <1> QED BY <1>1, <1>2, InitTypeInv, NextTypeInv, PTL DEF Spec

-----------------------------------------------------------------------------

(* The clients on their way to a slot or an element can be counted.        *)
LEMMA ArrivingFinite ==
  /\ IsFiniteSet(ArrivingPushers) /\ Cardinality(ArrivingPushers) \in Nat
  /\ IsFiniteSet(ArrivingPoppers) /\ Cardinality(ArrivingPoppers) \in Nat
  BY ClientsAssumption, FS_Subset, FS_CardinalityType DEF ArrivingPushers, ArrivingPoppers

(* What a returning coroutine does to the coroutines on their way, when it *)
(* wakes one of the Push coroutines ...                                    *)
LEMMA NotifyFilled ==
  ASSUME TypeInv, NEW c \in Clients, pc[c] = "critical", op(c) # "Push",
         NotifyOneAndLeave(c, FilledWaiters)
  PROVE  /\ ArrivingPoppers' = ArrivingPoppers \ {c}
         /\ EmptyWaiters' = EmptyWaiters
         /\ \/ /\ FilledWaiters = {} /\ FilledWaiters' = {}
            \/ /\ FilledWaiters # {}
               /\ \E w \in Clients : /\ w \notin ArrivingPushers
                                     /\ ArrivingPushers' = ArrivingPushers \cup {w}
  <1> USE DEF TypeInv, TypeOK, OperationOK, op, Unlock, EmptyWaiters, FilledWaiters,
              ArrivingPushers, ArrivingPoppers
  <1>0. \A d \in Clients \ {c} : todo'[d] = todo[d]
    BY DEF NotifyOneAndLeave
  <1>1. CASE FilledWaiters = {} /\ pc' = [pc EXCEPT ![c] = "idle"]
    BY <1>0, <1>1
  <1>2. ASSUME NEW w \in FilledWaiters, pc' = [pc EXCEPT ![c] = "idle", ![w] = "woken"]
        PROVE  /\ ArrivingPoppers' = ArrivingPoppers \ {c}
               /\ EmptyWaiters' = EmptyWaiters
               /\ w \notin ArrivingPushers
               /\ ArrivingPushers' = ArrivingPushers \cup {w}
    <2>1. w \in Clients /\ w # c /\ op(w) = "Push" /\ pc[w] = "filled_cv"
      OBVIOUS
    <2>2. \A d \in Clients : pc'[d] = IF d = w THEN "woken" ELSE IF d = c THEN "idle" ELSE pc[d]
      BY <1>2
    <2> QED BY <1>0, <2>1, <2>2
  <1> QED BY <1>1, <1>2 DEF NotifyOneAndLeave

(* ... and when it wakes one of the Pop coroutines.                        *)
LEMMA NotifyEmpty ==
  ASSUME TypeInv, NEW c \in Clients, pc[c] = "critical", op(c) # "Pop",
         NotifyOneAndLeave(c, EmptyWaiters)
  PROVE  /\ ArrivingPushers' = ArrivingPushers \ {c}
         /\ FilledWaiters' = FilledWaiters
         /\ \/ /\ EmptyWaiters = {} /\ EmptyWaiters' = {}
            \/ /\ EmptyWaiters # {}
               /\ \E w \in Clients : /\ w \notin ArrivingPoppers
                                     /\ ArrivingPoppers' = ArrivingPoppers \cup {w}
  <1> USE DEF TypeInv, TypeOK, OperationOK, op, Unlock, EmptyWaiters, FilledWaiters,
              ArrivingPushers, ArrivingPoppers
  <1>0. \A d \in Clients \ {c} : todo'[d] = todo[d]
    BY DEF NotifyOneAndLeave
  <1>1. CASE EmptyWaiters = {} /\ pc' = [pc EXCEPT ![c] = "idle"]
    BY <1>0, <1>1
  <1>2. ASSUME NEW w \in EmptyWaiters, pc' = [pc EXCEPT ![c] = "idle", ![w] = "woken"]
        PROVE  /\ ArrivingPushers' = ArrivingPushers \ {c}
               /\ FilledWaiters' = FilledWaiters
               /\ w \notin ArrivingPoppers
               /\ ArrivingPoppers' = ArrivingPoppers \cup {w}
    <2>1. w \in Clients /\ w # c /\ op(w) = "Pop" /\ pc[w] = "empty_cv"
      OBVIOUS
    <2>2. \A d \in Clients : pc'[d] = IF d = w THEN "woken" ELSE IF d = c THEN "idle" ELSE pc[d]
      BY <1>2
    <2> QED BY <1>0, <2>1, <2>2
  <1> QED BY <1>1, <1>2 DEF NotifyOneAndLeave

(* Every step keeps as many pushes on their way as there are free slots.   *)
LEMMA NextNoLostFilledWakeup ==
  TypeInv /\ NoLostFilledWakeup /\ [Next]_vars => NoLostFilledWakeup'
  <1> SUFFICES ASSUME TypeInv, NoLostFilledWakeup, [Next]_vars
               PROVE  NoLostFilledWakeup'
    OBVIOUS
  <1> USE CapacityAssumption, ArrivingFinite
  <1>0. Len(queue) \in Nat
    BY DEF TypeInv, TypeOK
  <1>1. CASE UNCHANGED vars
    BY <1>1 DEF vars, NoLostFilledWakeup, FilledWaiters, ArrivingPushers, op
  <1>2. ASSUME NEW c \in Clients, Call(c) PROVE NoLostFilledWakeup'
    <2>1. FilledWaiters' = FilledWaiters /\ ArrivingPushers' = ArrivingPushers
      BY <1>2 DEF Call, TypeInv, TypeOK, FilledWaiters, ArrivingPushers, op
    <2> QED BY <1>2, <2>1 DEF Call, NoLostFilledWakeup
  <1>3. ASSUME NEW c \in Clients, AcquireLock(c) PROVE NoLostFilledWakeup'
    <2>1. FilledWaiters' = FilledWaiters /\ ArrivingPushers \subseteq ArrivingPushers'
      BY <1>3 DEF AcquireLock, TypeInv, TypeOK, FilledWaiters, ArrivingPushers, op
    <2>2. IsFiniteSet(ArrivingPushers')
      BY ClientsAssumption, FS_Subset DEF ArrivingPushers
    <2>3. /\ Cardinality(ArrivingPushers) <= Cardinality(ArrivingPushers')
          /\ Cardinality(ArrivingPushers') \in Nat
      BY <2>1, <2>2, FS_Subset, FS_CardinalityType
    <2> QED BY <1>0, <1>3, <2>1, <2>3 DEF AcquireLock, NoLostFilledWakeup
  <1>4. ASSUME NEW c \in Clients, Pop(c) \/ TryPop(c) PROVE NoLostFilledWakeup'
    <2>1. pc[c] = "critical" /\ op(c) # "Push"
      BY <1>4 DEF Pop, TryPop, InCritical
    <2>2. CASE Wait(c, "empty_cv") \/ Leave(c)
      <3>1. FilledWaiters' = FilledWaiters /\ ArrivingPushers' = ArrivingPushers
        BY <2>1, <2>2
           DEF Wait, Leave, Unlock, TypeInv, TypeOK, FilledWaiters, ArrivingPushers, op
      <3> QED BY <2>2, <3>1 DEF Wait, Leave, NoLostFilledWakeup
    <2>3. CASE queue # <<>> /\ PopFront /\ NotifyOneAndLeave(c, FilledWaiters)
      <3>1. Len(queue') = Len(queue) - 1
        BY <2>3, PopFrontTypeInv
      <3>2. CASE FilledWaiters' = {}
        BY <3>2 DEF NoLostFilledWakeup
      <3>3. ASSUME FilledWaiters # {}, NEW w \in Clients, w \notin ArrivingPushers,
                   ArrivingPushers' = ArrivingPushers \cup {w}
            PROVE  NoLostFilledWakeup'
        <4>1. Cardinality(ArrivingPushers') = Cardinality(ArrivingPushers) + 1
          BY <3>3, FS_AddElement
        <4> QED BY <1>0, <3>1, <3>3, <4>1 DEF NoLostFilledWakeup
      <3> QED BY <2>1, <2>3, <3>2, <3>3, NotifyFilled
    <2> QED BY <1>4, <2>2, <2>3 DEF Pop, TryPop
  <1>5. ASSUME NEW c \in Clients, Push(c) PROVE NoLostFilledWakeup'
    <2>1. pc[c] = "critical" /\ op(c) = "Push"
      BY <1>5 DEF Push, InCritical
    <2>2. CASE Len(queue) = Capacity /\ Wait(c, "filled_cv")
      <3>1. Capacity - Len(queue') = 0
        BY <2>2 DEF Wait
      <3>2. Cardinality(ArrivingPushers') \in Nat
        BY ClientsAssumption, FS_Subset, FS_CardinalityType DEF ArrivingPushers
      <3> QED BY <3>1, <3>2 DEF NoLostFilledWakeup
    <2>3. CASE Len(queue) # Capacity /\ EmplaceBack(c) /\ NotifyOneAndLeave(c, EmptyWaiters)
      <3>1. Len(queue') = Len(queue) + 1
        BY <2>3, EmplaceBackTypeInv
      <3>2. ArrivingPushers' = ArrivingPushers \ {c} /\ FilledWaiters' = FilledWaiters
        BY <2>1, <2>3, NotifyEmpty
      <3>3. c \in ArrivingPushers
        BY <2>1 DEF ArrivingPushers
      <3>4. Cardinality(ArrivingPushers') = Cardinality(ArrivingPushers) - 1
        BY <3>2, <3>3, FS_RemoveElement
      <3> QED BY <1>0, <3>1, <3>2, <3>4 DEF NoLostFilledWakeup
    <2> QED BY <1>5, <2>2, <2>3 DEF Push
  <1>6. ASSUME NEW c \in Clients, TryPush(c) PROVE NoLostFilledWakeup'
    <2>1. pc[c] = "critical" /\ op(c) = "TryPush" /\ c \notin ArrivingPushers
      BY <1>6 DEF TryPush, InCritical, ArrivingPushers
    <2>2. CASE Leave(c)
      <3>1. FilledWaiters' = FilledWaiters /\ ArrivingPushers' = ArrivingPushers
        BY <2>1, <2>2 DEF Leave, Unlock, TypeInv, TypeOK, FilledWaiters, ArrivingPushers, op
      <3> QED BY <2>2, <3>1 DEF Leave, NoLostFilledWakeup
    <2>3. CASE Len(queue) # Capacity /\ EmplaceBack(c) /\ NotifyOneAndLeave(c, EmptyWaiters)
      <3>1. Len(queue') = Len(queue) + 1
        BY <2>3, EmplaceBackTypeInv
      <3>2. ArrivingPushers' = ArrivingPushers /\ FilledWaiters' = FilledWaiters
        BY <2>1, <2>3, NotifyEmpty
      <3> QED BY <1>0, <3>1, <3>2 DEF NoLostFilledWakeup
    <2> QED BY <1>6, <2>2, <2>3 DEF TryPush
  <1> QED BY <1>1, <1>2, <1>3, <1>4, <1>5, <1>6 DEF Next, Step

(* Every step keeps as many pops on their way as there are elements.       *)
LEMMA NextNoLostEmptyWakeup ==
  TypeInv /\ NoLostEmptyWakeup /\ [Next]_vars => NoLostEmptyWakeup'
  <1> SUFFICES ASSUME TypeInv, NoLostEmptyWakeup, [Next]_vars
               PROVE  NoLostEmptyWakeup'
    OBVIOUS
  <1> USE ArrivingFinite
  <1>0. Len(queue) \in Nat
    BY DEF TypeInv, TypeOK
  <1>1. CASE UNCHANGED vars
    BY <1>1 DEF vars, NoLostEmptyWakeup, EmptyWaiters, ArrivingPoppers, op
  <1>2. ASSUME NEW c \in Clients, Call(c) PROVE NoLostEmptyWakeup'
    <2>1. EmptyWaiters' = EmptyWaiters /\ ArrivingPoppers' = ArrivingPoppers
      BY <1>2 DEF Call, TypeInv, TypeOK, EmptyWaiters, ArrivingPoppers, op
    <2> QED BY <1>2, <2>1 DEF Call, NoLostEmptyWakeup
  <1>3. ASSUME NEW c \in Clients, AcquireLock(c) PROVE NoLostEmptyWakeup'
    <2>1. EmptyWaiters' = EmptyWaiters /\ ArrivingPoppers \subseteq ArrivingPoppers'
      BY <1>3 DEF AcquireLock, TypeInv, TypeOK, EmptyWaiters, ArrivingPoppers, op
    <2>2. IsFiniteSet(ArrivingPoppers')
      BY ClientsAssumption, FS_Subset DEF ArrivingPoppers
    <2>3. /\ Cardinality(ArrivingPoppers) <= Cardinality(ArrivingPoppers')
          /\ Cardinality(ArrivingPoppers') \in Nat
      BY <2>1, <2>2, FS_Subset, FS_CardinalityType
    <2> QED BY <1>0, <1>3, <2>1, <2>3 DEF AcquireLock, NoLostEmptyWakeup
  <1>4. ASSUME NEW c \in Clients, Push(c) \/ TryPush(c) PROVE NoLostEmptyWakeup'
    <2>1. pc[c] = "critical" /\ op(c) # "Pop"
      BY <1>4 DEF Push, TryPush, InCritical
    <2>2. CASE Wait(c, "filled_cv") \/ Leave(c)
      <3>1. EmptyWaiters' = EmptyWaiters /\ ArrivingPoppers' = ArrivingPoppers
        BY <2>1, <2>2
           DEF Wait, Leave, Unlock, TypeInv, TypeOK, EmptyWaiters, ArrivingPoppers, op
      <3> QED BY <2>2, <3>1 DEF Wait, Leave, NoLostEmptyWakeup
    <2>3. CASE Len(queue) # Capacity /\ EmplaceBack(c) /\ NotifyOneAndLeave(c, EmptyWaiters)
      <3>1. Len(queue') = Len(queue) + 1
        BY <2>3, EmplaceBackTypeInv
      <3>2. CASE EmptyWaiters' = {}
        BY <3>2 DEF NoLostEmptyWakeup
      <3>3. ASSUME EmptyWaiters # {}, NEW w \in Clients, w \notin ArrivingPoppers,
                   ArrivingPoppers' = ArrivingPoppers \cup {w}
            PROVE  NoLostEmptyWakeup'
        <4>1. Cardinality(ArrivingPoppers') = Cardinality(ArrivingPoppers) + 1
          BY <3>3, FS_AddElement
        <4> QED BY <1>0, <3>1, <3>3, <4>1 DEF NoLostEmptyWakeup
      <3> QED BY <2>1, <2>3, <3>2, <3>3, NotifyEmpty
    <2> QED BY <1>4, <2>2, <2>3 DEF Push, TryPush
  <1>5. ASSUME NEW c \in Clients, Pop(c) PROVE NoLostEmptyWakeup'
    <2>1. pc[c] = "critical" /\ op(c) = "Pop"
      BY <1>5 DEF Pop, InCritical
    <2>2. CASE queue = <<>> /\ Wait(c, "empty_cv")
      <3>1. Len(queue') = 0
        BY <2>2 DEF Wait
      <3>2. Cardinality(ArrivingPoppers') \in Nat
        BY ClientsAssumption, FS_Subset, FS_CardinalityType DEF ArrivingPoppers
      <3> QED BY <3>1, <3>2 DEF NoLostEmptyWakeup
    <2>3. CASE queue # <<>> /\ PopFront /\ NotifyOneAndLeave(c, FilledWaiters)
      <3>1. Len(queue') = Len(queue) - 1
        BY <2>3, PopFrontTypeInv
      <3>2. ArrivingPoppers' = ArrivingPoppers \ {c} /\ EmptyWaiters' = EmptyWaiters
        BY <2>1, <2>3, NotifyFilled
      <3>3. c \in ArrivingPoppers
        BY <2>1 DEF ArrivingPoppers
      <3>4. Cardinality(ArrivingPoppers') = Cardinality(ArrivingPoppers) - 1
        BY <3>2, <3>3, FS_RemoveElement
      <3> QED BY <1>0, <3>1, <3>2, <3>4 DEF NoLostEmptyWakeup
    <2> QED BY <1>5, <2>2, <2>3 DEF Pop
  <1>6. ASSUME NEW c \in Clients, TryPop(c) PROVE NoLostEmptyWakeup'
    <2>1. pc[c] = "critical" /\ op(c) = "TryPop" /\ c \notin ArrivingPoppers
      BY <1>6 DEF TryPop, InCritical, ArrivingPoppers
    <2>2. CASE Leave(c)
      <3>1. EmptyWaiters' = EmptyWaiters /\ ArrivingPoppers' = ArrivingPoppers
        BY <2>1, <2>2 DEF Leave, Unlock, TypeInv, TypeOK, EmptyWaiters, ArrivingPoppers, op
      <3> QED BY <2>2, <3>1 DEF Leave, NoLostEmptyWakeup
    <2>3. CASE queue # <<>> /\ PopFront /\ NotifyOneAndLeave(c, FilledWaiters)
      <3>1. Len(queue') = Len(queue) - 1
        BY <2>3, PopFrontTypeInv
      <3>2. ArrivingPoppers' = ArrivingPoppers /\ EmptyWaiters' = EmptyWaiters
        BY <2>1, <2>3, NotifyFilled
      <3> QED BY <1>0, <3>1, <3>2 DEF NoLostEmptyWakeup
    <2> QED BY <1>6, <2>2, <2>3 DEF TryPop
  <1> QED BY <1>1, <1>2, <1>3, <1>4, <1>5, <1>6 DEF Next, Step

LEMMA Wakeups == Spec => [](NoLostFilledWakeup /\ NoLostEmptyWakeup)
  <1>1. Init => NoLostFilledWakeup /\ NoLostEmptyWakeup
    BY DEF Init, NoLostFilledWakeup, NoLostEmptyWakeup, FilledWaiters, EmptyWaiters
  <1> QED BY <1>1, InitTypeInv, NextTypeInv, NextNoLostFilledWakeup,
             NextNoLostEmptyWakeup, PTL DEF Spec

(* filled_cv_ loses no wake-up: one notifyOne per free slot is enough,     *)
(* also when a TryPush takes the slot a notified Push was woken for.       *)
THEOREM NoLostFilledWakeups == Spec => []NoLostFilledWakeup
  BY Wakeups, PTL

(* empty_cv_ loses no wake-up: one notifyOne per element is enough, also   *)
(* when a TryPop takes the element a notified Pop was woken for.           *)
THEOREM NoLostEmptyWakeups == Spec => []NoLostEmptyWakeup
  BY Wakeups, PTL

-----------------------------------------------------------------------------

Called == {c \in Clients : pc[c] # "idle"}

(* A client that becomes idle leaves the set of those inside an operation. *)
LEMMA LeaveCalled ==
  ASSUME TypeInv, NEW c \in Clients, pc[c] = "critical",
         \/ pc' = [pc EXCEPT ![c] = "idle"]
         \/ \E w \in EmptyWaiters \cup FilledWaiters :
                pc' = [pc EXCEPT ![c] = "idle", ![w] = "woken"]
  PROVE  Called' = Called \ {c} /\ c \in Called
  BY DEF Called, TypeInv, TypeOK, EmptyWaiters, FilledWaiters

(* Every step of the queue is one step of the atomic queue, or none.       *)
LEMMA NextRefines == TypeInv /\ [Next]_vars => [Fifo!Next]_(Fifo!vars)
  <1> SUFFICES ASSUME TypeInv, [Next]_vars PROVE [Fifo!Next]_(Fifo!vars)
    OBVIOUS
  <1> USE DEF Fifo!vars
  <1>1. CASE UNCHANGED vars
    BY <1>1 DEF vars
  <1>2. ASSUME NEW c \in Clients, Call(c) PROVE Fifo!Call(c)
    <2>1. Called' = Called \cup {c} /\ c \notin Called
      BY <1>2 DEF Call, Called, TypeInv, TypeOK
    <2> QED BY <1>2, <2>1 DEF Call, Called, Fifo!Call
  <1>3. ASSUME NEW c \in Clients,
               \/ AcquireLock(c)
               \/ InCritical(c, "Pop") /\ Wait(c, "empty_cv")
               \/ InCritical(c, "Push") /\ Wait(c, "filled_cv")
        PROVE  UNCHANGED Fifo!vars
    <2>1. Called' = Called
      BY <1>3 DEF AcquireLock, InCritical, Wait, Called, TypeInv, TypeOK
    <2> QED BY <1>3, <2>1 DEF AcquireLock, Wait, Called
  <1>4. ASSUME NEW c \in Clients, NEW name, InCritical(c, name)
        PROVE  Fifo!Running(c, name)
    BY <1>4 DEF InCritical, op, Fifo!Running
  <1>5. ASSUME NEW c \in Clients, NEW name, InCritical(c, name),
               \/ Leave(c)
               \/ NotifyOneAndLeave(c, EmptyWaiters)
               \/ NotifyOneAndLeave(c, FilledWaiters)
        PROVE  Fifo!Return(c)
    <2>1. Called' = Called \ {c}
      BY <1>5, LeaveCalled DEF InCritical, Leave, NotifyOneAndLeave
    <2> QED BY <1>5, <2>1 DEF Called, Leave, NotifyOneAndLeave, Unlock, Fifo!Return
  <1>6. ASSUME queue # <<>>, PopFront PROVE Fifo!Take
    BY <1>6 DEF PopFront, Fifo!Take
  <1>7. ASSUME NEW c \in Clients, Len(queue) # Capacity, EmplaceBack(c) PROVE Fifo!Put(c)
    BY <1>7, CapacityAssumption DEF TypeInv, TypeOK, EmplaceBack, Value, Fifo!Put, Fifo!Value
  <1>8. ASSUME NEW c \in Clients, Pop(c) PROVE Fifo!Pop(c) \/ UNCHANGED Fifo!vars
    BY <1>3, <1>4, <1>5, <1>6, <1>8 DEF Pop, Fifo!Pop
  <1>9. ASSUME NEW c \in Clients, TryPop(c) PROVE Fifo!TryPop(c)
    BY <1>4, <1>5, <1>6, <1>9 DEF TryPop, Leave, Fifo!TryPop
  <1>10. ASSUME NEW c \in Clients, Push(c) PROVE Fifo!Push(c) \/ UNCHANGED Fifo!vars
    BY <1>3, <1>4, <1>5, <1>7, <1>10 DEF Push, Fifo!Push
  <1>11. ASSUME NEW c \in Clients, TryPush(c) PROVE Fifo!TryPush(c)
    BY <1>4, <1>5, <1>7, <1>11 DEF TryPush, Leave, Fifo!TryPush
  <1> QED BY <1>1, <1>2, <1>3, <1>8, <1>9, <1>10, <1>11 DEF Next, Step, Fifo!Next

(* Every operation of the queue is atomic for its clients: the mutex and   *)
(* the condition variables are an implementation of the bounded FIFO.      *)
THEOREM Refinement == Spec => ImplementsFifo
  <1>1. Init => Fifo!Init
    BY DEF Init, Fifo!Init
  <1> QED BY <1>1, InitTypeInv, NextTypeInv, NextRefines, PTL
          DEF Spec, ImplementsFifo, Fifo!Spec

=============================================================================
