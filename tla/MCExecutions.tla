--------------------------- MODULE MCExecutions ---------------------------
(* Executions for TLC.                                                     *)
EXTENDS Executions, TLC
=============================================================================
