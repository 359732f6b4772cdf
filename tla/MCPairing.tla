------------------------------ MODULE MCPairing ------------------------------
(* Instances of pairing for TLC.                                           *)
EXTENDS Pairing, TLC

(* None of these has a name of its own in any property.                    *)
AnyName ==
  Permutations(Endpoints) \cup Permutations(Requests) \cup Permutations(Codes)
    \cup Permutations(Devices)
=============================================================================
