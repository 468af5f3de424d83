----------------------------- MODULE MCSwitcher -----------------------------
(***************************************************************************)
(* Switcher for TLC: what the clients do.                                  *)
(***************************************************************************)
EXTENDS Switcher, TLC

push(t, v) == [op |-> "push", topic |-> t, value |-> v]
pop(t) == [op |-> "pop", topic |-> t]
close(t) == [op |-> "close", topic |-> t]
check(t) == [op |-> "check", topic |-> t]

Plan(calls) == calls @@ [c \in Client |-> <<>>]

(* A producer and two consumers of one topic; two producers and a consumer *)
(* while the topic is closed; the same client on both sides, two topics.   *)
AllPlans == {
    Plan("a" :> <<push("t", 1), push("t", 2)>> @@ "b" :> <<pop("t"), pop("t")>> @@ "c" :> <<pop("t")>>),
    Plan("a" :> <<push("t", 1)>> @@ "b" :> <<pop("t")>> @@ "c" :> <<close("t"), check("t")>>
             @@ "d" :> <<push("t", 2)>>),
    Plan("a" :> <<push("t", 1), pop("u")>> @@ "b" :> <<pop("t"), push("u", 2)>>
             @@ "c" :> <<push("u", 3)>>)}

=============================================================================
