---------------------------- MODULE BoundedQueue ----------------------------
(***************************************************************************)
(* tunnel::BoundedQueue (include/queue/boundedqueue.h): a deque guarded by *)
(* a coroutine mutex and two condition variables.                          *)
(*                                                                         *)
(* async_simple::coro::Mutex and ConditionVariable are external.  The      *)
(* model uses of them what the code relies on: at most one owner of the    *)
(* mutex; wait puts the coroutine on the list of the condition variable    *)
(* and unlocks in one step; notifyOne removes one coroutine from the list, *)
(* whichever; a coroutine that was notified takes the mutex again and      *)
(* evaluates its predicate again before it goes on.                        *)
(***************************************************************************)
EXTENDS Integers, Sequences, FiniteSets

CONSTANTS
    Clients,    \* the coroutines that use the queue
    Capacity,   \* capacity_
    Workloads,  \* the operation sequences the clients may be given
    Nil         \* no coroutine

Operation == {"Pop", "TryPop", "Push", "TryPush"}

ASSUME ClientsAssumption == IsFiniteSet(Clients) /\ Nil \notin Clients
ASSUME CapacityAssumption == Capacity \in Nat
ASSUME WorkloadsAssumption == Workloads \subseteq [Clients -> Seq(Operation)]

VARIABLES
    queue,      \* queue_
    mut,        \* mut_: the owner of the mutex, or Nil
    pc,         \* where each coroutine is in its current operation
    todo,       \* the operations each client has not completed, first one first
    sent,       \* history: the values accepted by Push and TryPush, in order
    taken       \* history: the values returned by Pop and TryPop, in order

vars == <<queue, mut, pc, todo, sent, taken>>

(***************************************************************************)
(* idle      : not in an operation                                         *)
(* locking   : in co_await mut_.coScopedLock()                             *)
(* critical  : holds mut_ and is about to look at queue_                   *)
(* empty_cv  : suspended on empty_cv_                                      *)
(* filled_cv : suspended on filled_cv_                                     *)
(* woken     : notified, and taking mut_ again inside wait                 *)
(***************************************************************************)
Location == {"idle", "locking", "critical", "empty_cv", "filled_cv", "woken"}

op(c) == Head(todo[c])
Value(c) == <<c, Len(todo[c])>>

EmptyWaiters == {c \in Clients : pc[c] = "empty_cv"}
FilledWaiters == {c \in Clients : pc[c] = "filled_cv"}

TypeOK ==
    /\ queue \in Seq(Clients \X Nat)
    /\ Len(queue) <= Capacity
    /\ mut \in Clients \cup {Nil}
    /\ pc \in [Clients -> Location]
    /\ todo \in [Clients -> Seq(Operation)]
    /\ sent \in Seq(Clients \X Nat)
    /\ taken \in Seq(Clients \X Nat)

-----------------------------------------------------------------------------

Init == /\ queue = <<>>
        /\ mut = Nil
        /\ pc = [c \in Clients |-> "idle"]
        /\ todo \in Workloads
        /\ sent = <<>>
        /\ taken = <<>>

(* Mutant: the Try operations do not take the scoped lock.                 *)
CallTryUnlocked(c) ==
    /\ pc[c] = "idle"
    /\ todo[c] # <<>>
    /\ pc' = [pc EXCEPT ![c] = IF op(c) \in {"TryPop", "TryPush"} THEN "critical" ELSE "locking"]
    /\ UNCHANGED <<queue, mut, todo, sent, taken>>

(* A client starts its next operation, with co_await mut_.coScopedLock().  *)
Call(c) == /\ pc[c] = "idle"
           /\ todo[c] # <<>>
           /\ pc' = [pc EXCEPT ![c] = "locking"]
           /\ UNCHANGED <<queue, mut, todo, sent, taken>>

(* The mutex goes to a coroutine that asks for it, in coScopedLock or in   *)
(* the wait of a condition variable.                                       *)
AcquireLock(c) == /\ pc[c] \in {"locking", "woken"}
                  /\ mut = Nil
                  /\ mut' = c
                  /\ pc' = [pc EXCEPT ![c] = "critical"]
                  /\ UNCHANGED <<queue, todo, sent, taken>>

InCritical(c, name) == /\ pc[c] = "critical"
                       /\ op(c) = name

(* cv.wait(mut_, pred) when pred does not hold.                            *)
Wait(c, cv) == /\ pc' = [pc EXCEPT ![c] = cv]
               /\ mut' = Nil
               /\ UNCHANGED <<queue, todo, sent, taken>>

(* co_return: the scoped lock is released.                                 *)
Unlock(c) == /\ mut' = Nil
             /\ todo' = [todo EXCEPT ![c] = Tail(@)]

(* co_return of an operation that changed nothing.                         *)
Leave(c) == /\ pc' = [pc EXCEPT ![c] = "idle"]
            /\ UNCHANGED <<queue, sent, taken>>
            /\ Unlock(c)

(* cv.notifyOne() and co_return.                                           *)
NotifyOneAndLeave(c, waiters) ==
    /\ \/ /\ waiters = {}
          /\ pc' = [pc EXCEPT ![c] = "idle"]
       \/ \E w \in waiters : pc' = [pc EXCEPT ![c] = "idle", ![w] = "woken"]
    /\ Unlock(c)

(* Mutant: front() paired with pop_back().                                 *)
PopFrontDropBack == /\ taken' = Append(taken, Head(queue))
                    /\ queue' = SubSeq(queue, 1, Len(queue) - 1)
                    /\ UNCHANGED sent

(* queue_.front(), queue_.pop_front()                                      *)
PopFront == /\ taken' = Append(taken, Head(queue))
            /\ queue' = Tail(queue)
            /\ UNCHANGED sent

(* queue_.emplace_back(element)                                            *)
EmplaceBack(c) == /\ sent' = Append(sent, Value(c))
                  /\ queue' = Append(queue, Value(c))
                  /\ UNCHANGED taken

(* Mutants: Pop gives up on an empty queue; Pop forgets filled_cv_.        *)
PopNoWait(c) == /\ InCritical(c, "Pop")
                /\ \/ queue = <<>> /\ Leave(c)
                   \/ queue # <<>> /\ PopFront /\ NotifyOneAndLeave(c, FilledWaiters)
PopNoNotify(c) == /\ InCritical(c, "Pop")
                  /\ \/ queue = <<>> /\ Wait(c, "empty_cv")
                     \/ queue # <<>> /\ PopFront /\ NotifyOneAndLeave(c, {})

Pop(c) == /\ InCritical(c, "Pop")
          /\ \/ /\ queue = <<>>
                /\ Wait(c, "empty_cv")
             \/ /\ queue # <<>>
                /\ PopFront
                /\ NotifyOneAndLeave(c, FilledWaiters)

(* Mutant: TryPop forgets filled_cv_.                                      *)
TryPopNoNotify(c) == /\ InCritical(c, "TryPop")
                     /\ \/ queue = <<>> /\ Leave(c)
                        \/ queue # <<>> /\ PopFront /\ NotifyOneAndLeave(c, {})

TryPop(c) == /\ InCritical(c, "TryPop")
             /\ \/ /\ queue = <<>>
                   /\ Leave(c)
                \/ /\ queue # <<>>
                   /\ PopFront
                   /\ NotifyOneAndLeave(c, FilledWaiters)

(* Mutants: Push notifies the wrong condition variable; Push notifies only *)
(* when the queue was empty.                                               *)
PushWrongCv(c) == /\ InCritical(c, "Push")
                  /\ \/ Len(queue) = Capacity /\ Wait(c, "filled_cv")
                     \/ /\ Len(queue) # Capacity
                        /\ EmplaceBack(c)
                        /\ NotifyOneAndLeave(c, FilledWaiters)
PushNotifyFirst(c) ==
    /\ InCritical(c, "Push")
    /\ \/ Len(queue) = Capacity /\ Wait(c, "filled_cv")
       \/ /\ Len(queue) # Capacity
          /\ EmplaceBack(c)
          /\ NotifyOneAndLeave(c, IF queue = <<>> THEN EmptyWaiters ELSE {})

Push(c) == /\ InCritical(c, "Push")
           /\ \/ /\ Len(queue) = Capacity
                 /\ Wait(c, "filled_cv")
              \/ /\ Len(queue) # Capacity
                 /\ EmplaceBack(c)
                 /\ NotifyOneAndLeave(c, EmptyWaiters)

(* Mutant: TryPush does not test for room.                                 *)
TryPushUnbounded(c) == /\ InCritical(c, "TryPush")
                       /\ EmplaceBack(c)
                       /\ NotifyOneAndLeave(c, EmptyWaiters)

TryPush(c) == /\ InCritical(c, "TryPush")
              /\ \/ /\ Len(queue) = Capacity
                    /\ Leave(c)
                 \/ /\ Len(queue) # Capacity
                    /\ EmplaceBack(c)
                    /\ NotifyOneAndLeave(c, EmptyWaiters)

Step(c) == \/ AcquireLock(c)
           \/ Pop(c)
           \/ TryPop(c)
           \/ Push(c)
           \/ TryPush(c)

Next == \E c \in Clients : Call(c) \/ Step(c)

Spec == Init /\ [][Next]_vars

(* The executor resumes every coroutine that can run, and async_simple's   *)
(* mutex hands itself to the coroutines that wait for it, so no coroutine  *)
(* that could go on is passed over for ever.                               *)
Fairness == \A c \in Clients : WF_vars(Call(c) \/ Step(c))

FairSpec == Spec /\ Fairness

-----------------------------------------------------------------------------

(* The mutex protects every look at queue_: whoever is in the critical     *)
(* section owns mut_, so two coroutines never act on the same element.     *)
MutualExclusion == \A c \in Clients : pc[c] = "critical" <=> mut = c

(* Nothing is lost, duplicated or overtaken between emplace_back and       *)
(* pop_front: the accepted values are the returned values followed by what *)
(* is still in queue_.                                                     *)
FifoOrder == sent = taken \o queue

(* The coroutines that were promised a slot or an element, or are already  *)
(* at the predicate.                                                       *)
ArrivingPushers == {c \in Clients : pc[c] \in {"woken", "critical"} /\ op(c) = "Push"}
ArrivingPoppers == {c \in Clients : pc[c] \in {"woken", "critical"} /\ op(c) = "Pop"}

(* No wake-up of Push is lost: while a Push sleeps on filled_cv_, every    *)
(* free slot has a Push that is on its way to it.  A TryPush may take the  *)
(* slot a notified Push was woken for.                                     *)
NoLostFilledWakeup ==
    FilledWaiters # {} => Capacity - Len(queue) <= Cardinality(ArrivingPushers)

(* No wake-up of Pop is lost: while a Pop sleeps on empty_cv_, every       *)
(* element has a Pop that is on its way to it.                             *)
NoLostEmptyWakeup ==
    EmptyWaiters # {} => Len(queue) <= Cardinality(ArrivingPoppers)

(* The queue implements the atomic bounded queue: taking the front or      *)
(* appending under mut_ is the step at which an operation takes effect.    *)
Fifo == INSTANCE BoundedFifo WITH called <- {c \in Clients : pc[c] # "idle"}

(* Every operation of boundedqueue.h is atomic for its clients.            *)
ImplementsFifo == Fifo!Spec

(* A coroutine that is suspended for good waits for what really is not     *)
(* there: a Pop for an element of an empty queue, a Push for room in a     *)
(* full one.  Everybody else returns from all of its operations.           *)
EventuallySettles ==
    <>[](\A c \in Clients :
            \/ pc[c] = "idle" /\ todo[c] = <<>>
            \/ pc[c] = "empty_cv" /\ queue = <<>>
            \/ pc[c] = "filled_cv" /\ Len(queue) = Capacity)

=============================================================================
