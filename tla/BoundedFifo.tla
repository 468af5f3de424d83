---------------------------- MODULE BoundedFifo ----------------------------
(***************************************************************************)
(* What tunnel::BoundedQueue promises its clients: every one of the four   *)
(* operations takes effect in one indivisible step between its call and    *)
(* its return, on a first-in first-out queue of at most Capacity elements. *)
(* Nothing is said about locks, condition variables or wake-ups.           *)
(*                                                                         *)
(* A client is one coroutine.  It carries out the operations of todo[c] in *)
(* order; the value pushed by an operation is a name of that operation, so *)
(* that no two pushes of a behaviour push the same value.                  *)
(***************************************************************************)
EXTENDS Integers, Sequences

CONSTANTS
    Clients,    \* the coroutines that use the queue
    Capacity,   \* capacity_
    Workloads   \* the operation sequences the clients may be given

VARIABLES
    queue,      \* the elements, oldest first
    called,     \* the clients inside an operation
    todo,       \* the operations each client has not completed, first one first
    sent,       \* history: the values accepted by Push and TryPush, in order
    taken       \* history: the values returned by Pop and TryPop, in order

vars == <<queue, called, todo, sent, taken>>

Operation == {"Pop", "TryPop", "Push", "TryPush"}

Value(c) == <<c, Len(todo[c])>>

Running(c, op) == /\ c \in called
                  /\ Head(todo[c]) = op

Return(c) == /\ called' = called \ {c}
             /\ todo' = [todo EXCEPT ![c] = Tail(@)]

Take == /\ queue # <<>>
        /\ taken' = Append(taken, Head(queue))
        /\ queue' = Tail(queue)
        /\ UNCHANGED sent

Put(c) == /\ Len(queue) < Capacity
          /\ sent' = Append(sent, Value(c))
          /\ queue' = Append(queue, Value(c))
          /\ UNCHANGED taken

-----------------------------------------------------------------------------

Init == /\ queue = <<>>
        /\ called = {}
        /\ todo \in Workloads
        /\ sent = <<>>
        /\ taken = <<>>

Call(c) == /\ c \notin called
           /\ todo[c] # <<>>
           /\ called' = called \cup {c}
           /\ UNCHANGED <<queue, todo, sent, taken>>

Pop(c) == /\ Running(c, "Pop")
          /\ Take
          /\ Return(c)

Push(c) == /\ Running(c, "Push")
           /\ Put(c)
           /\ Return(c)

TryPop(c) == /\ Running(c, "TryPop")
             /\ \/ Take
                \/ queue = <<>> /\ UNCHANGED <<queue, sent, taken>>
             /\ Return(c)

TryPush(c) == /\ Running(c, "TryPush")
              /\ \/ Put(c)
                 \/ Len(queue) = Capacity /\ UNCHANGED <<queue, sent, taken>>
              /\ Return(c)

Next == \E c \in Clients :
            \/ Call(c)
            \/ Pop(c)
            \/ Push(c)
            \/ TryPop(c)
            \/ TryPush(c)

Spec == Init /\ [][Next]_vars

=============================================================================
