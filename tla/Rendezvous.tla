----------------------------- MODULE Rendezvous -----------------------------
(***************************************************************************)
(* What the switcher promises to its clients: a topic is a meeting point.  *)
(* A value is handed from one Push to at most one Pop of the same topic,   *)
(* while the Pop is under way; a Push returns after its value was handed   *)
(* over, a Pop after it was given one.  A client may end at any time; what *)
(* it has offered may still be handed to somebody, and what is handed to a *)
(* client that has ended is lost.                                          *)
(***************************************************************************)
EXTENDS Sequences

CONSTANTS
    Client,     \* the clients
    Plans,      \* what the clients may do: functions to sequences of calls
    Nil         \* no value

VARIABLES
    todo,       \* todo[c]: the calls of c that have not returned
    inside,     \* the clients inside a call
    offered,    \* offered[c]: the last Push of c, unless it was handed over
    has         \* has[c]: the value that was handed to the Pop of c

vars == <<todo, inside, offered, has>>

Init ==
    /\ todo \in Plans
    /\ inside = {}
    /\ offered = [c \in Client |-> Nil]
    /\ has = [c \in Client |-> Nil]

Begin(c) ==
    /\ c \notin inside
    /\ todo[c] # <<>>
    /\ inside' = inside \cup {c}
    /\ offered' = IF Head(todo[c]).op = "push" THEN [offered EXCEPT ![c] = Head(todo[c])] ELSE offered
    /\ UNCHANGED <<todo, has>>

Hand(p, c) ==
    /\ offered[p] # Nil
    /\ c \in inside
    /\ Head(todo[c]).op = "pop"
    /\ Head(todo[c]).topic = offered[p].topic
    /\ has[c] = Nil
    /\ has' = [has EXCEPT ![c] = offered[p].value]
    /\ offered' = [offered EXCEPT ![p] = Nil]
    /\ UNCHANGED <<todo, inside>>

(* The value was meant for a client that has ended.                        *)
Lose(p) ==
    /\ offered[p] # Nil
    /\ \E c \in Client \ {p} : c \notin inside /\ todo[c] = <<>>
    /\ offered' = [offered EXCEPT ![p] = Nil]
    /\ UNCHANGED <<todo, inside, has>>

Return(c) ==
    /\ c \in inside
    /\ Head(todo[c]).op = "push" => offered[c] = Nil
    /\ Head(todo[c]).op = "pop" => has[c] # Nil
    /\ inside' = inside \ {c}
    /\ todo' = [todo EXCEPT ![c] = Tail(@)]
    /\ has' = [has EXCEPT ![c] = Nil]
    /\ UNCHANGED offered

End(c) ==
    /\ inside' = inside \ {c}
    /\ todo' = [todo EXCEPT ![c] = <<>>]
    /\ has' = [has EXCEPT ![c] = Nil]
    /\ UNCHANGED offered

Next ==
    \/ \E c \in Client : Begin(c) \/ Return(c) \/ End(c)
    \/ \E p \in Client : Lose(p) \/ \E c \in Client : Hand(p, c)

Spec == Init /\ [][Next]_vars

=============================================================================
