------------------------- MODULE MCGithubWorkspace -------------------------
(* GithubWorkspace for TLC. *)
EXTENDS GithubWorkspace
=============================================================================
