---------------------------- MODULE MCRunWorkflow ----------------------------
(* RunWorkflow for TLC. *)
EXTENDS RunWorkflow
=============================================================================
