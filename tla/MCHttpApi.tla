----------------------------- MODULE MCHttpApi -----------------------------
(* An instance of the HTTP interface for TLC.                              *)
EXTENDS HttpApi, TLC

(* The keys have no name of their own in any property.                     *)
AnyKey == Permutations(Keys)
=============================================================================
