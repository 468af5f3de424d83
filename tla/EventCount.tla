----------------------------- MODULE EventCount -----------------------------
(***************************************************************************)
(* EventCount: a thread waits until event_count_ events have succeeded or  *)
(* failed.  Succ, Fail and the predicate of Wait are evaluated under mut_. *)
(***************************************************************************)
EXTENDS Naturals

CONSTANT event_count_   \* positive (asserted in the constructor)

VARIABLES
    succ_count_,
    fail_count_,
    waiter      \* the thread in Wait: "check", "asleep" or "returned"

Init == succ_count_ = 0 /\ fail_count_ = 0 /\ waiter = "check"

(* Mutant: the event is counted and nobody is told.                        *)
NotifyOmitted == UNCHANGED waiter

(* cv_.notify_one, with one thread in Wait.                                *)
notify_one == waiter' = IF waiter = "asleep" THEN "check" ELSE waiter

(* Mutant: the event is not counted.                                       *)
SuccLost == notify_one /\ UNCHANGED <<succ_count_, fail_count_>>

Succ == succ_count_' = succ_count_ + 1 /\ notify_one /\ UNCHANGED fail_count_
Fail == fail_count_' = fail_count_ + 1 /\ notify_one /\ UNCHANGED succ_count_

(* The predicate of Wait.                                                  *)
AllEvents == event_count_ = succ_count_ + fail_count_

(* cv_.wait: the predicate holds, or the thread sleeps.                    *)
Wait == /\ waiter = "check"
        /\ waiter' = IF AllEvents THEN "returned" ELSE "asleep"
        /\ UNCHANGED <<succ_count_, fail_count_>>

(* A condition variable may wake up by itself.                             *)
WakeUp == /\ waiter = "asleep"
          /\ waiter' = "check"
          /\ UNCHANGED <<succ_count_, fail_count_>>

=============================================================================
