------------------------------- MODULE MCHub --------------------------------
(* Instances of the hub for TLC.                                           *)
EXTENDS Hub, TLC
CONSTANTS e1, e2, d1, d2, s1, s2, s3

(* Both devices are paired with e1; e2 has none.                           *)
BothOnE1 == [d \in Devices |-> e1]
(* d1 reconnects: s1 and s2 are connections of d1, s3 is one of d2.        *)
Reconnecting == [s \in Streams |-> IF s = s3 THEN d2 ELSE d1]
(* No device connects twice at a time.                                     *)
OneEach == [s \in Streams |-> IF s = s1 THEN d1 ELSE d2]

(* The events have no name of their own in any safety property.            *)
AnyEvent == Permutations(Events)
=============================================================================
