----------------------------- MODULE MCLifecycle -----------------------------
(* The life of the process for TLC.                                        *)
EXTENDS Lifecycle
=============================================================================
