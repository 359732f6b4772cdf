--------------------------- MODULE MCGitHubLogin ---------------------------
(* An instance of signing in for TLC.                                      *)
EXTENDS GitHubLogin
=============================================================================
