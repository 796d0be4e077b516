-------------------------- MODULE MCMutationCommand --------------------------
(* MutationCommand for TLC. *)
EXTENDS MutationCommand
=============================================================================
