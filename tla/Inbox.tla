-------------------------------- MODULE Inbox --------------------------------
(***************************************************************************)
(* What the server promises of an event, without requests, hub or          *)
(* failures: it is kept under the endpoint it came in at; a device is sent *)
(* it only when it is kept, only if it is paired with that endpoint, and   *)
(* at most once for each time a client has asked: the sender of the        *)
(* webhook, and whoever replays it.  A client is answered with its ID when *)
(* it is kept and has been asked for.  A device may miss it at any time.   *)
(***************************************************************************)
EXTENDS Naturals

CONSTANTS Events, Endpoints, Devices, EndpointOf

VARIABLES
  kept,   \* the events kept: event -> endpoint, partial
  asked,  \* asked[v]: how often clients have asked for v to be sent
  sent,   \* sent[<<v, d>>]: how often d was sent v
  acked   \* the events clients were answered with

vars == <<kept, asked, sent, acked>>

Init ==
  /\ kept = [v \in {} |-> v]
  /\ asked = [v \in Events |-> 0]
  /\ sent = [p \in Events \X Devices |-> 0]
  /\ acked = {}

Ask(v) == asked' = [asked EXCEPT ![v] = @ + 1]

(* The event is kept; its sender may be gone before it asks for more.      *)
Accept(v, e) ==
  /\ v \notin DOMAIN kept
  /\ kept' = [k \in DOMAIN kept \cup {v} |-> IF k = v THEN e ELSE kept[k]]
  /\ UNCHANGED asked \/ Ask(v)
  /\ UNCHANGED <<sent, acked>>

Replay(v) ==
  /\ v \in DOMAIN kept
  /\ Ask(v)
  /\ UNCHANGED <<kept, sent, acked>>

Send(v, d) ==
  /\ v \in DOMAIN kept
  /\ kept[v] = EndpointOf[d]
  /\ sent[<<v, d>>] < asked[v]
  /\ sent' = [sent EXCEPT ![<<v, d>>] = @ + 1]
  /\ UNCHANGED <<kept, asked, acked>>

Acknowledge(v) ==
  /\ v \in DOMAIN kept
  /\ asked[v] > 0
  /\ acked' = acked \cup {v}
  /\ UNCHANGED <<kept, asked, sent>>

Next ==
  \E v \in Events :
    \/ \E e \in Endpoints : Accept(v, e)
    \/ Replay(v)
    \/ \E d \in Devices : Send(v, d)
    \/ Acknowledge(v)

Spec == Init /\ [][Next]_vars
=============================================================================
