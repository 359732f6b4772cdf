--------------------------------- MODULE Hub ---------------------------------
(***************************************************************************)
(* The in-memory SSE hub (internal/domain/push/hub.go): a two-level map    *)
(* endpoint -> device -> channel under an RWMutex.  A stream is one        *)
(* connection of a device: a goroutine that registers, takes messages off  *)
(* its channel, and unregisters.  A sender is one goroutine inside         *)
(* SendToEndpoint.  Both come back for ever: a stream's name is reused by  *)
(* the next connection of its device, with a channel made afresh.          *)
(*                                                                         *)
(* The edits made under the write lock are one step with the unlock (no    *)
(* other goroutine reads the map then); the loop under the read lock is    *)
(* one step per device, since other senders and the receivers interleave   *)
(* with it.                                                                *)
(***************************************************************************)
EXTENDS Naturals, Sequences

CONSTANTS
  Endpoints,   \* endpoint IDs
  Devices,     \* device record IDs
  Streams,     \* connections; also names the channel each one made
  Senders,     \* goroutines that call SendToEndpoint
  Events,      \* what a message carries
  EndpointOf,  \* device.EndpointID, fixed when the device is paired
  DeviceOf,    \* the device a connection was authenticated as
  BufferSize   \* capacity of a channel, 16 in the code

ASSUME HubAssumption ==
  /\ Endpoints # {}
  /\ Events # {}
  /\ EndpointOf \in [Devices -> Endpoints]
  /\ DeviceOf \in [Streams -> Devices]
  /\ BufferSize \in Nat \ {0}

VARIABLES
  streams,    \* Hub.streams: endpoint -> device -> channel, both partial
  chan,       \* chan[s]: the messages buffered in the channel of s
  open,       \* the channels made and not closed yet
  phase,      \* phase[s]: where the goroutine of connection s is
  pc,         \* pc[g]: "idle", "sending" (in SendToEndpoint), "returned"
  target,     \* target[g]: the message of g's call, with its endpoint
  attempts,   \* attempts[g]: the delivery attempts of g's call
  writing, reading, waiting   \* Hub.mu

mu == INSTANCE RWMutex WITH Readers <- Senders, Writers <- Streams

muVars == <<writing, reading, waiting>>
senderVars == <<pc, target, attempts>>
vars == <<streams, chan, open, phase, pc, target, attempts, muVars>>

Message == [endpoint : Endpoints, event : Events]
Attempt == [device : Devices, status : {"delivered", "failed"}]

Home(s) == EndpointOf[DeviceOf[s]]

(* The value of a sender's message variable while it is in no call.        *)
NoCall == CHOOSE m \in Message : TRUE
-----------------------------------------------------------------------------
(* Lookups and edits of the two-level map.                                 *)

(* h.streams[e]: a missing key reads as the nil, empty map.                *)
Inner(e) == IF e \in DOMAIN streams THEN streams[e] ELSE [d \in {} |-> d]

Put(map, key, value) ==
  [k \in DOMAIN map \cup {key} |-> IF k = key THEN value ELSE map[k]]

Delete(map, key) == [k \in DOMAIN map \ {key} |-> map[k]]

(* The channels a sender can reach.                                        *)
Mapped == {s \in Streams :
             \E e \in DOMAIN streams : \E d \in DOMAIN streams[e] : streams[e][d] = s}
-----------------------------------------------------------------------------
(* A stream: Register, the receive loop of its handler, unregister.        *)

(* Mutant: one channel for each device instead of one for each connection. *)
ConnectReusesChannel(s) ==
  /\ phase[s] = "idle"
  /\ phase' = [phase EXCEPT ![s] = "registering"]
  /\ open' = open \cup {s}
  /\ UNCHANGED <<streams, chan, senderVars, muVars>>

(* Register makes the channel and calls Lock.                              *)
Connect(s) ==
  /\ phase[s] = "idle"
  /\ phase' = [phase EXCEPT ![s] = "registering"]
  /\ open' = open \cup {s}
  /\ chan' = [chan EXCEPT ![s] = <<>>]
  /\ UNCHANGED <<streams, senderVars, muVars>>

AcquireLock(s) ==
  /\ phase[s] \in {"registering", "unregistering"}
  /\ mu!Lock(s)
  /\ UNCHANGED <<streams, chan, open, phase, senderVars>>

(* Mutant: the map is written under RLock.                                 *)
RegisterUnderRLock(s) ==
  /\ phase[s] = "registering"
  /\ writing = {}
  /\ streams' = Put(streams, Home(s), Put(Inner(Home(s)), DeviceOf[s], s))
  /\ phase' = [phase EXCEPT ![s] = "registered"]
  /\ UNCHANGED <<chan, open, senderVars, muVars>>

Register(s) ==
  /\ phase[s] = "registering"
  /\ mu!Locked(s)
  /\ streams' = Put(streams, Home(s), Put(Inner(Home(s)), DeviceOf[s], s))
  /\ mu!Unlock(s)
  /\ phase' = [phase EXCEPT ![s] = "registered"]
  /\ UNCHANGED <<chan, open, senderVars>>

(* The handler takes the next message off the channel.                     *)
Receive(s) ==
  /\ phase[s] = "registered"
  /\ chan[s] # <<>>
  /\ chan' = [chan EXCEPT ![s] = Tail(chan[s])]
  /\ UNCHANGED <<streams, open, phase, senderVars, muVars>>

(* Mutant: the channel is closed before the lock is taken.                 *)
DisconnectCloses(s) ==
  /\ phase[s] = "registered"
  /\ phase' = [phase EXCEPT ![s] = "unregistering"]
  /\ open' = open \ {s}
  /\ UNCHANGED <<streams, chan, senderVars, muVars>>

(* The connection ends and the handler calls the unregister closure, once. *)
Disconnect(s) ==
  /\ phase[s] = "registered"
  /\ phase' = [phase EXCEPT ![s] = "unregistering"]
  /\ UNCHANGED <<streams, chan, open, senderVars, muVars>>

(* Mutants: the emptied inner map is kept; the inner map is dropped with   *)
(* the other devices in it.                                                *)
WithoutPruning(s) == Put(streams, Home(s), Delete(Inner(Home(s)), DeviceOf[s]))
WithoutEndpoint(s) == Delete(streams, Home(s))

(* unregister deletes by device ID, whichever channel that entry holds.    *)
WithoutDevice(s) ==
  LET rest == Delete(Inner(Home(s)), DeviceOf[s])
  IN  IF DOMAIN rest = {}
      THEN Delete(streams, Home(s))
      ELSE Put(streams, Home(s), rest)

Unregister(s) ==
  /\ phase[s] = "unregistering"
  /\ mu!Locked(s)
  /\ streams' = WithoutDevice(s)
  /\ open' = open \ {s}
  /\ mu!Unlock(s)
  /\ phase' = [phase EXCEPT ![s] = "idle"]
  /\ UNCHANGED <<chan, senderVars>>
-----------------------------------------------------------------------------
(* A sender: SendToEndpoint.                                               *)

(* endpointStreams, the inner map g ranges over.                           *)
Ranged(g) == Inner(target[g].endpoint)

Visited(g) == {a.device : a \in attempts[g]}
Pending(g) == DOMAIN Ranged(g) \ Visited(g)

(* Mutant: a buffer of one more than was made.                             *)
HasRoomForOneMore(s) == Len(chan[s]) <= BufferSize

HasRoom(s) == Len(chan[s]) < BufferSize

CallSend(g, m) ==
  /\ pc[g] = "idle"
  /\ pc' = [pc EXCEPT ![g] = "sending"]
  /\ target' = [target EXCEPT ![g] = m]
  /\ mu!RLock(g)
  /\ UNCHANGED <<streams, chan, open, phase, attempts>>

(* Mutant: no default case, so the send blocks on a full channel.          *)
DeliverBlocking(g, d) ==
  LET s == Ranged(g)[d]
  IN
  /\ pc[g] = "sending"
  /\ g \in reading
  /\ d \in Pending(g)
  /\ HasRoom(s)
  /\ chan' = [chan EXCEPT ![s] = Append(chan[s], target[g])]
  /\ attempts' = [attempts EXCEPT ![g] =
                    attempts[g] \cup {[device |-> d, status |-> "delivered"]}]
  /\ UNCHANGED <<streams, open, phase, pc, target, muVars>>

(* One turn of the loop over the map, in any order: a non-blocking send.   *)
(* A send on a closed channel would panic; NoSendOnClosed is why this      *)
(* action need not say what happens then.                                  *)
Deliver(g, d) ==
  LET s == Ranged(g)[d]
  IN
  /\ pc[g] = "sending"
  /\ g \in reading
  /\ d \in Pending(g)
  /\ \/ /\ HasRoom(s)
        /\ chan' = [chan EXCEPT ![s] = Append(chan[s], target[g])]
        /\ attempts' = [attempts EXCEPT ![g] =
                          attempts[g] \cup {[device |-> d, status |-> "delivered"]}]
     \/ /\ ~ HasRoom(s)
        /\ attempts' = [attempts EXCEPT ![g] =
                          attempts[g] \cup {[device |-> d, status |-> "failed"]}]
        /\ UNCHANGED chan
  /\ UNCHANGED <<streams, open, phase, pc, target, muVars>>

(* Mutants: the loop gives up at the first full channel; an endpoint       *)
(* without streams returns early, without RUnlock.                         *)
ReturnSendOnFull(g) ==
  /\ pc[g] = "sending"
  /\ g \in reading
  /\ Pending(g) = {} \/ \E a \in attempts[g] : a.status = "failed"
  /\ mu!RUnlock(g)
  /\ pc' = [pc EXCEPT ![g] = "returned"]
  /\ UNCHANGED <<streams, chan, open, phase, target, attempts>>

ReturnSendKeepsLock(g) ==
  /\ pc[g] = "sending"
  /\ g \in reading
  /\ Pending(g) = {}
  /\ IF Visited(g) = {} THEN UNCHANGED muVars ELSE mu!RUnlock(g)
  /\ pc' = [pc EXCEPT ![g] = "returned"]
  /\ UNCHANGED <<streams, chan, open, phase, target, attempts>>

ReturnSend(g) ==
  /\ pc[g] = "sending"
  /\ g \in reading
  /\ Pending(g) = {}
  /\ mu!RUnlock(g)
  /\ pc' = [pc EXCEPT ![g] = "returned"]
  /\ UNCHANGED <<streams, chan, open, phase, target, attempts>>

(* The caller is done with the slice of attempts it was handed.            *)
TakeAttempts(g) ==
  /\ pc[g] = "returned"
  /\ pc' = [pc EXCEPT ![g] = "idle"]
  /\ target' = [target EXCEPT ![g] = NoCall]
  /\ attempts' = [attempts EXCEPT ![g] = {}]
  /\ UNCHANGED <<streams, chan, open, phase, muVars>>
-----------------------------------------------------------------------------
Init ==
  /\ streams = [e \in {} |-> e]
  /\ chan = [s \in Streams |-> <<>>]
  /\ open = {}
  /\ phase = [s \in Streams |-> "idle"]
  /\ pc = [g \in Senders |-> "idle"]
  /\ target = [g \in Senders |-> NoCall]
  /\ attempts = [g \in Senders |-> {}]
  /\ mu!Init

(* The process starts again: NewHub, and none of the goroutines in it. For *)
(* the modules that compose the hub with what survives a crash.            *)
NewHub ==
  /\ streams' = [e \in {} |-> e]
  /\ chan' = [s \in Streams |-> <<>>]
  /\ open' = {}
  /\ phase' = [s \in Streams |-> "idle"]
  /\ pc' = [g \in Senders |-> "idle"]
  /\ target' = [g \in Senders |-> NoCall]
  /\ attempts' = [g \in Senders |-> {}]
  /\ writing' = {} /\ reading' = {} /\ waiting' = {}

StreamStep(s) ==
  Connect(s) \/ AcquireLock(s) \/ Register(s) \/ Receive(s) \/ Disconnect(s) \/ Unregister(s)

SenderStep(g) ==
  \/ \E m \in Message : CallSend(g, m)
  \/ \E d \in Devices : Deliver(g, d)
  \/ ReturnSend(g)
  \/ TakeAttempts(g)

Next == (\E s \in Streams : StreamStep(s)) \/ (\E g \in Senders : SenderStep(g))

Spec == Init /\ [][Next]_vars

(* A goroutine that can run is run.  The inner mutex of the RWMutex hands  *)
(* itself to a waiter that has lost it for a millisecond, so a writer that *)
(* keeps asking is served: strong fairness.  Nothing is assumed of the     *)
(* receivers: a handler may never read its channel, never disconnect.      *)
Fairness ==
  /\ \A s \in Streams : /\ SF_vars(AcquireLock(s))
                        /\ WF_vars(Register(s))
                        /\ WF_vars(Unregister(s))
  /\ \A g \in Senders : /\ WF_vars(\E d \in Devices : Deliver(g, d))
                        /\ WF_vars(ReturnSend(g))

FairSpec == Spec /\ Fairness
-----------------------------------------------------------------------------
(* The type of every variable, and that senders hold the read lock they    *)
(* wait for only while they are in a call.                                 *)
TypeOK ==
  /\ streams = [e \in DOMAIN streams |-> streams[e]]
  /\ DOMAIN streams \subseteq Endpoints
  /\ \A e \in DOMAIN streams :
       /\ DOMAIN streams[e] \subseteq Devices
       /\ streams[e] \in [DOMAIN streams[e] -> Streams]
  /\ chan \in [Streams -> Seq(Message)]
  /\ \A s \in Streams : Len(chan[s]) <= BufferSize
  /\ open \subseteq Streams
  /\ phase \in [Streams -> {"idle", "registering", "registered", "unregistering"}]
  /\ pc \in [Senders -> {"idle", "sending", "returned"}]
  /\ target \in [Senders -> Message]
  /\ attempts \in [Senders -> SUBSET Attempt]
  /\ mu!TypeOK

(* No sender ever meets a closed channel (the send in SendToEndpoint would *)
(* panic with the read lock held, and the lock would never be released):   *)
(* every channel in the table is open, whatever order the connections of   *)
(* one device register and unregister in.                                  *)
NoSendOnClosed == Mapped \subseteq open

(* The table files each channel under its own device and endpoint, and an  *)
(* endpoint with no connection has no entry left in it: unregister prunes  *)
(* the inner map it empties.                                               *)
TableSound ==
  \A e \in DOMAIN streams :
    /\ DOMAIN streams[e] # {}
    /\ \A d \in DOMAIN streams[e] : EndpointOf[d] = e /\ DeviceOf[streams[e][d]] = d

(* A connection buffers messages of its own endpoint only, across          *)
(* reconnections and concurrent sends to other endpoints.                  *)
OwnEndpointOnly ==
  \A s \in Streams : \A i \in DOMAIN chan[s] : chan[s][i].endpoint = Home(s)

(* The map is never written while a sender iterates over it (Go aborts the *)
(* process on such a write).                                               *)
FrozenWhileIterated == [][reading # {} => streams' = streams]_vars

(* SendToEndpoint returns one attempt for each device that has a channel   *)
(* in the table at that moment, no more and no fewer, although the         *)
(* connections come and go while other senders are inside the loop.        *)
OneAttemptEach ==
  [][\A g \in Senders : pc[g] = "sending" /\ pc'[g] = "returned" =>
       /\ Visited(g) = {DeviceOf[s] : s \in {t \in Mapped : Home(t) = target[g].endpoint}}
       /\ \A a, b \in attempts[g] : a.device = b.device => a = b]_vars

(* A device with a connection whose Register has returned and that has not *)
(* disconnected is one that SendToEndpoint reaches.                        *)
ConnectedDeviceIsReached ==
  \A s \in Streams : phase[s] = "registered" => DeviceOf[s] \in DOMAIN Inner(Home(s))

(* Every call into the hub returns: SendToEndpoint, though no receiver     *)
(* ever reads (the send never blocks, and the lock it waits for is always  *)
(* given up); Register and unregister, under an endless load of sends.     *)
CallsReturn ==
  /\ \A g \in Senders : pc[g] = "sending" ~> pc[g] = "returned"
  /\ \A s \in Streams : /\ phase[s] = "registering" ~> phase[s] = "registered"
                        /\ phase[s] = "unregistering" ~> phase[s] = "idle"

(* The hub implements Feeds: its lock steps and failed attempts stutter,   *)
(* Register attaches, unregister closes, and each turn of the send loop    *)
(* that finds room is one offer to one attached connection.                *)
Feed == INSTANCE Feeds WITH opened <- open, attached <- Mapped, queue <- chan
ImplementsFeeds == Feed!Spec
=============================================================================
