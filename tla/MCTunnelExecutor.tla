-------------------------- MODULE MCTunnelExecutor --------------------------
(***************************************************************************)
(* TunnelExecutor for TLC.                                                 *)
(***************************************************************************)
EXTENDS TunnelExecutor, TLC

CONSTANTS main, other  \* the threads that use the executor

(* a schedules b and sets a timer for d, the others do nothing.            *)
MCSpawns == [f \in Task |-> IF f = "a" THEN <<"b", "d">> ELSE <<>>]

(* main, which may call Stop, schedules a; another thread schedules x.     *)
MCCalls == [t \in Caller |-> IF t = main THEN <<"a">> ELSE <<"x">>]

=============================================================================
