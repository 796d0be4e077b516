---------------------------- MODULE MCRunLaunch ----------------------------
(* RunLaunch for TLC. *)
EXTENDS RunLaunch
=============================================================================
