--------------------------- MODULE MCTwoOperators ---------------------------
(***************************************************************************)
(* The values of MCOperator, for the runs of two processes.                *)
(***************************************************************************)
EXTENDS TwoOperators, MCOperator
=============================================================================
