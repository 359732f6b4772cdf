---------------------------- MODULE MCEndpoints ----------------------------
(* Instances of the endpoint service for TLC.                              *)
EXTENDS Endpoints, TLC

(* None of these has a name of its own in any property.                    *)
AnyName ==
  Permutations(Users) \cup Permutations(IDs) \cup Permutations(Slugs) \cup Permutations(Requests)
=============================================================================
