-------------------------------- MODULE Feeds --------------------------------
(***************************************************************************)
(* What the hub promises each connection, without its map, its locks or    *)
(* its loop: a connection has a private bounded FIFO queue; while it is    *)
(* attached, messages for its own endpoint may be put on the queue, never  *)
(* when the queue is full; at most one connection of a device is attached, *)
(* the last one to attach; and a closed queue is never written again.      *)
(***************************************************************************)
EXTENDS Naturals, Sequences

CONSTANTS Streams, Devices, Endpoints, Events, EndpointOf, DeviceOf, BufferSize

VARIABLES
  opened,    \* the connections whose queue exists and is not closed
  attached,  \* the connections that senders reach
  queue      \* queue[s]: the messages waiting for s

vars == <<opened, attached, queue>>

Message == [endpoint : Endpoints, event : Events]

Siblings(s) == {t \in Streams : DeviceOf[t] = DeviceOf[s]}

Init ==
  /\ opened = {}
  /\ attached = {}
  /\ queue = [s \in Streams |-> <<>>]

Open(s) ==
  /\ s \notin opened
  /\ opened' = opened \cup {s}
  /\ queue' = [queue EXCEPT ![s] = <<>>]
  /\ UNCHANGED attached

(* The newest connection of a device takes over from the others.           *)
Attach(s) ==
  /\ s \in opened
  /\ attached' = (attached \ Siblings(s)) \cup {s}
  /\ UNCHANGED <<opened, queue>>

Offer(s, m) ==
  /\ s \in attached
  /\ m.endpoint = EndpointOf[DeviceOf[s]]
  /\ Len(queue[s]) < BufferSize
  /\ queue' = [queue EXCEPT ![s] = Append(queue[s], m)]
  /\ UNCHANGED <<opened, attached>>

Take(s) ==
  /\ s \in opened
  /\ queue[s] # <<>>
  /\ queue' = [queue EXCEPT ![s] = Tail(queue[s])]
  /\ UNCHANGED <<opened, attached>>

(* Closing any connection of a device detaches the device.                 *)
Close(s) ==
  /\ s \in opened
  /\ opened' = opened \ {s}
  /\ attached' = attached \ Siblings(s)
  /\ UNCHANGED queue

Next ==
  \E s \in Streams :
    Open(s) \/ Attach(s) \/ Take(s) \/ Close(s) \/ \E m \in Message : Offer(s, m)

Spec == Init /\ [][Next]_vars
=============================================================================
