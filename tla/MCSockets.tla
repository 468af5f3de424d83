------------------------------ MODULE MCSockets ------------------------------
(***************************************************************************)
(* SocketPipelines for TLC: what two SocketSinks may have to send.         *)
(***************************************************************************)
EXTENDS SocketPipelines

(* The sinks only differ in their names, so x has no less to send than y.  *)
MCLoads == {load \in [{"x", "y"} -> 0..2] : load["x"] >= load["y"] /\ load["y"] <= 1}

=============================================================================
