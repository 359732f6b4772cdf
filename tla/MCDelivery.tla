----------------------------- MODULE MCDelivery -----------------------------
(* Instances of webhook delivery for TLC.                                  *)
EXTENDS Delivery, TLC
CONSTANTS e1, d1, d2, s1, s2

AllOnE1 == [d \in Devices |-> e1]
(* No device connects twice at a time.                                     *)
OneEach == [s \in Streams |-> IF s = s1 THEN d1 ELSE d2]
(* The requests have no name of their own in any property, nor has a       *)
(* device with its connection.                                             *)
AnyName ==
  Permutations(Senders) \cup {d1 :> d2 @@ d2 :> d1 @@ s1 :> s2 @@ s2 :> s1}
=============================================================================
