------------------------------- MODULE MCHistory -------------------------------
(***************************************************************************)
(* Values of the constants for the runs that record what happened.         *)
(***************************************************************************)
EXTENDS MCOperator, OperatorHistory
=============================================================================
