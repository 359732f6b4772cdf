------------------------------ MODULE HubProofs ------------------------------
(***************************************************************************)
(* The safety of the hub for any devices, connections, senders and buffer. *)
(***************************************************************************)
EXTENDS Hub, TLAPS

(* The lock: at most one writer, and only goroutines inside Register,      *)
(* unregister or SendToEndpoint hold it or wait for it.                    *)
LockInv ==
  /\ \A s, t \in writing : s = t
  /\ \A s \in writing : phase[s] \in {"registering", "unregistering"}
  /\ \A g \in Senders : g \in reading \cup waiting <=> pc[g] = "sending"
  /\ reading \cap waiting = {}

(* A channel is open while its goroutine is between Connect and            *)
(* Unregister, and in the table only after Register.                       *)
ChannelInv ==
  /\ \A s \in Streams : s \in open <=> phase[s] # "idle"
  /\ \A s \in Mapped : phase[s] \in {"registered", "unregistering"}

(* What a sender has attempted so far are entries of the map it iterates,  *)
(* each once; a sender that waits for the lock has attempted nothing.      *)
AttemptInv ==
  \A g \in Senders :
    /\ g \in reading => Visited(g) \subseteq DOMAIN Ranged(g)
    /\ g \in waiting \/ pc[g] = "idle" => attempts[g] = {}
    /\ \A a, b \in attempts[g] : a.device = b.device => a = b

IInv ==
  /\ TypeOK
  /\ LockInv
  /\ ChannelInv
  /\ TableSound
  /\ OwnEndpointOnly
  /\ AttemptInv
-----------------------------------------------------------------------------
(* Facts about the two-level map.                                          *)

LEMMA InnerType ==
  ASSUME TypeOK, NEW e
  PROVE  /\ Inner(e) = [d \in DOMAIN Inner(e) |-> Inner(e)[d]]
         /\ DOMAIN Inner(e) \subseteq Devices
         /\ \A d \in DOMAIN Inner(e) : Inner(e)[d] \in Streams /\ Inner(e)[d] \in Mapped
         /\ DOMAIN Inner(e) # {} => e \in DOMAIN streams
<1>1. CASE e \in DOMAIN streams
  BY <1>1 DEF Inner, TypeOK, Mapped
<1>2. CASE e \notin DOMAIN streams
  BY <1>2 DEF Inner
<1>3. QED
  BY <1>1, <1>2

(* Home and DeviceOf stay within their sets.                               *)
LEMMA HomeType ==
  ASSUME NEW s \in Streams
  PROVE  Home(s) \in Endpoints /\ DeviceOf[s] \in Devices
BY HubAssumption DEF Home

LEMMA NoCallType == NoCall \in Message
<1>1. PICK e \in Endpoints, v \in Events : TRUE
  BY HubAssumption
<1>2. [endpoint |-> e, event |-> v] \in Message
  BY DEF Message
<1>3. QED
  BY <1>2 DEF NoCall
-----------------------------------------------------------------------------
LEMMA TypeInit == Init => TypeOK
BY NoCallType, HubAssumption DEF Init, TypeOK, mu!Init, mu!TypeOK

LEMMA TypeNext == TypeOK /\ [Next]_vars => TypeOK'
<1> SUFFICES ASSUME TypeOK, [Next]_vars
             PROVE  TypeOK'
  OBVIOUS
<1>1. ASSUME NEW s \in Streams, Connect(s)
      PROVE  TypeOK'
  BY <1>1, HubAssumption DEF Connect, TypeOK, muVars, senderVars, mu!TypeOK
<1>2. ASSUME NEW s \in Streams, AcquireLock(s)
      PROVE  TypeOK'
  BY <1>2 DEF AcquireLock, TypeOK, senderVars, mu!Lock, mu!TypeOK
<1>3. ASSUME NEW s \in Streams, Register(s)
      PROVE  TypeOK'
  <2>1. /\ DOMAIN streams' = DOMAIN streams \cup {Home(s)}
        /\ streams' = [e \in DOMAIN streams' |-> streams'[e]]
        /\ \A e \in DOMAIN streams' :
             streams'[e] = IF e = Home(s) THEN Put(Inner(Home(s)), DeviceOf[s], s) ELSE streams[e]
    BY <1>3 DEF Register, Put
  <2>2. /\ DOMAIN Put(Inner(Home(s)), DeviceOf[s], s) \subseteq Devices
        /\ Put(Inner(Home(s)), DeviceOf[s], s)
             \in [DOMAIN Put(Inner(Home(s)), DeviceOf[s], s) -> Streams]
    BY InnerType, HomeType DEF Put
  <2>3. mu!TypeOK'
    BY <1>3 DEF Register, TypeOK, mu!Unlock, mu!TypeOK
  <2>4. QED
    BY <1>3, <2>1, <2>2, <2>3, HomeType DEF Register, TypeOK, senderVars
<1>4. ASSUME NEW s \in Streams, Receive(s)
      PROVE  TypeOK'
  <2>1. Tail(chan[s]) \in Seq(Message) /\ Len(Tail(chan[s])) <= BufferSize
    BY <1>4, HubAssumption DEF Receive, TypeOK
  <2>2. QED
    BY <1>4, <2>1 DEF Receive, TypeOK, senderVars, muVars, mu!TypeOK
<1>5. ASSUME NEW s \in Streams, Disconnect(s)
      PROVE  TypeOK'
  BY <1>5 DEF Disconnect, TypeOK, senderVars, muVars, mu!TypeOK
<1>6. ASSUME NEW s \in Streams, Unregister(s)
      PROVE  TypeOK'
  <2> DEFINE rest == Delete(Inner(Home(s)), DeviceOf[s])
  <2>1. DOMAIN rest \subseteq Devices /\ rest \in [DOMAIN rest -> Streams]
    BY InnerType DEF Delete
  <2>2. mu!TypeOK'
    BY <1>6 DEF Unregister, TypeOK, mu!Unlock, mu!TypeOK
  <2>3. CASE DOMAIN rest = {}
    <3>1. streams' = Delete(streams, Home(s))
      BY <1>6, <2>3 DEF Unregister, WithoutDevice
    <3>2. QED
      BY <1>6, <2>2, <3>1 DEF Unregister, TypeOK, Delete, senderVars
  <2>4. CASE DOMAIN rest # {}
    <3>1. streams' = Put(streams, Home(s), rest)
      BY <1>6, <2>4 DEF Unregister, WithoutDevice
    <3> HIDE DEF rest
    <3>2. QED
      BY <1>6, <2>1, <2>2, <3>1, HomeType DEF Unregister, TypeOK, Put, senderVars
  <2>5. QED
    BY <2>3, <2>4
<1>7. ASSUME NEW g \in Senders, NEW m \in Message, CallSend(g, m)
      PROVE  TypeOK'
  BY <1>7 DEF CallSend, TypeOK, mu!RLock, mu!TypeOK
<1>8. ASSUME NEW g \in Senders, NEW d \in Devices, Deliver(g, d)
      PROVE  TypeOK'
  <2> DEFINE s == Ranged(g)[d]
  <2>1. s \in Streams
    BY <1>8, InnerType DEF Deliver, Pending, Ranged
  <2>2. PICK a \in Attempt : attempts' = [attempts EXCEPT ![g] = attempts[g] \cup {a}]
    BY <1>8 DEF Deliver, Attempt
  <2>3. attempts' \in [Senders -> SUBSET Attempt]
    <3>1. attempts \in [Senders -> SUBSET Attempt]
      BY DEF TypeOK
    <3>2. QED
      BY <2>2, <3>1
  <2>4. chan' \in [Streams -> Seq(Message)] /\ \A t \in Streams : Len(chan'[t]) <= BufferSize
    <3> HIDE DEF s
    <3>1. target[g] \in Message
      BY DEF TypeOK
    <3>2. CASE UNCHANGED chan
      BY <3>2 DEF TypeOK
    <3>3. CASE Len(chan[s]) < BufferSize /\ chan' = [chan EXCEPT ![s] = Append(chan[s], target[g])]
      <4>1. /\ Append(chan[s], target[g]) \in Seq(Message)
            /\ Len(Append(chan[s], target[g])) <= BufferSize
        BY <2>1, <3>1, <3>3, HubAssumption DEF TypeOK
      <4>2. QED
        BY <2>1, <3>3, <4>1 DEF TypeOK
    <3>4. QED
      BY <1>8, <3>2, <3>3 DEF Deliver, HasRoom, s
  <2>5. QED
    BY <1>8, <2>3, <2>4 DEF Deliver, TypeOK, muVars, mu!TypeOK
<1>9. ASSUME NEW g \in Senders, ReturnSend(g)
      PROVE  TypeOK'
  BY <1>9 DEF ReturnSend, TypeOK, mu!RUnlock, mu!TypeOK
<1>10. ASSUME NEW g \in Senders, TakeAttempts(g)
       PROVE  TypeOK'
  BY <1>10, NoCallType DEF TakeAttempts, TypeOK, muVars, mu!TypeOK
<1>11. CASE UNCHANGED vars
  BY <1>11 DEF vars, muVars, TypeOK, mu!TypeOK
<1>12. QED
  BY <1>1, <1>2, <1>3, <1>4, <1>5, <1>6, <1>7, <1>8, <1>9, <1>10, <1>11
     DEF Next, StreamStep, SenderStep

(* Every variable of the hub keeps its type, and no channel holds more     *)
(* than its capacity, in every behaviour of the hub.                       *)
THEOREM TypeCorrect == Spec => []TypeOK
BY TypeInit, TypeNext, PTL DEF Spec
-----------------------------------------------------------------------------
(* What the two edits of the map do to the set of channels in it.          *)

Siblings(s) == {t \in Streams : DeviceOf[t] = DeviceOf[s]}

(* Under TableSound a channel can only be in its device's entry.           *)
LEMMA MappedEntry ==
  ASSUME TypeOK, TableSound, NEW s \in Streams
  PROVE  s \in Mapped <=> /\ Home(s) \in DOMAIN streams
                          /\ DeviceOf[s] \in DOMAIN streams[Home(s)]
                          /\ streams[Home(s)][DeviceOf[s]] = s
BY HomeType DEF Mapped, TableSound, TypeOK, Home

LEMMA RegisterMapped ==
  ASSUME TypeOK, TableSound, NEW s \in Streams, Register(s)
  PROVE  /\ TableSound'
         /\ Mapped' = (Mapped \ Siblings(s)) \cup {s}
<1> DEFINE inner == Put(Inner(Home(s)), DeviceOf[s], s)
<1>1. /\ DOMAIN inner = DOMAIN Inner(Home(s)) \cup {DeviceOf[s]}
      /\ \A d \in DOMAIN inner : inner[d] = IF d = DeviceOf[s] THEN s ELSE Inner(Home(s))[d]
  BY DEF Put
<1>2. \A d \in DOMAIN Inner(Home(s)) :
         EndpointOf[d] = Home(s) /\ DeviceOf[Inner(Home(s))[d]] = d
  BY DEF Inner, TableSound
<1> HIDE DEF inner
<1>3. /\ DOMAIN streams' = DOMAIN streams \cup {Home(s)}
      /\ \A e \in DOMAIN streams' :
           streams'[e] = IF e = Home(s) THEN inner ELSE streams[e]
  BY DEF Register, Put, inner
<1>4. TableSound'
  BY <1>1, <1>2, <1>3 DEF TableSound, Home
<1>5. TypeOK'
  BY TypeNext DEF Next, StreamStep
<1>6. ASSUME NEW t \in Streams
      PROVE  t \in Mapped' <=> t \in (Mapped \ Siblings(s)) \cup {s}
  <2>1. t \in Mapped' <=> /\ Home(t) \in DOMAIN streams'
                          /\ DeviceOf[t] \in DOMAIN streams'[Home(t)]
                          /\ streams'[Home(t)][DeviceOf[t]] = t
    BY <1>4, <1>3, HomeType DEF TableSound, Mapped, Home
  <2>2. CASE t \in Siblings(s)
    <3>1. Home(t) = Home(s) /\ DeviceOf[t] = DeviceOf[s]
      BY <2>2 DEF Siblings, Home
    <3>2. QED
      BY <2>1, <2>2, <3>1, <1>1, <1>3
  <2>3. CASE t \notin Siblings(s)
    <3>1. DeviceOf[t] # DeviceOf[s] /\ t # s
      BY <2>3 DEF Siblings
    <3>2. t \in Mapped <=> /\ DeviceOf[t] \in DOMAIN Inner(Home(t))
                           /\ Inner(Home(t))[DeviceOf[t]] = t
      BY MappedEntry DEF Inner
    <3>3. CASE Home(t) = Home(s)
      BY <2>1, <2>3, <3>1, <3>2, <3>3, <1>1, <1>3
    <3>4. CASE Home(t) # Home(s)
      BY <2>1, <2>3, <3>1, <3>4, <1>3, MappedEntry
    <3>5. QED
      BY <3>3, <3>4
  <2>4. QED
    BY <2>2, <2>3
<1>7. Mapped' \subseteq Streams /\ (Mapped \ Siblings(s)) \cup {s} \subseteq Streams
  BY DEF Mapped
<1>8. QED
  BY <1>4, <1>6, <1>7

LEMMA UnregisterMapped ==
  ASSUME TypeOK, TableSound, NEW s \in Streams, Unregister(s)
  PROVE  /\ TableSound'
         /\ Mapped' = Mapped \ Siblings(s)
<1> DEFINE rest == Delete(Inner(Home(s)), DeviceOf[s])
<1>1. /\ DOMAIN rest = DOMAIN Inner(Home(s)) \ {DeviceOf[s]}
      /\ \A d \in DOMAIN rest : rest[d] = Inner(Home(s))[d]
  BY DEF Delete
<1>2. \A d \in DOMAIN Inner(Home(s)) :
         EndpointOf[d] = Home(s) /\ DeviceOf[Inner(Home(s))[d]] = d
  BY DEF Inner, TableSound
<1>3. streams' = IF DOMAIN rest = {} THEN Delete(streams, Home(s))
                                     ELSE Put(streams, Home(s), rest)
  BY DEF Unregister, WithoutDevice
<1> HIDE DEF rest
<1>4. /\ DOMAIN streams' \ {Home(s)} = DOMAIN streams \ {Home(s)}
      /\ Home(s) \in DOMAIN streams' <=> DOMAIN rest # {}
      /\ \A e \in DOMAIN streams' : streams'[e] = IF e = Home(s) THEN rest ELSE streams[e]
  BY <1>3 DEF Put, Delete
<1>5. TableSound'
  BY <1>1, <1>2, <1>4 DEF TableSound, Home
<1>6. ASSUME NEW t \in Streams
      PROVE  t \in Mapped' <=> t \in Mapped \ Siblings(s)
  <2>1. t \in Mapped' <=> /\ Home(t) \in DOMAIN streams'
                          /\ DeviceOf[t] \in DOMAIN streams'[Home(t)]
                          /\ streams'[Home(t)][DeviceOf[t]] = t
    BY <1>5, <1>4, HomeType DEF TableSound, Mapped, Home
  <2>2. CASE t \in Siblings(s)
    <3>1. Home(t) = Home(s) /\ DeviceOf[t] = DeviceOf[s]
      BY <2>2 DEF Siblings, Home
    <3>2. QED
      BY <2>1, <2>2, <3>1, <1>1, <1>4
  <2>3. CASE t \notin Siblings(s)
    <3>1. DeviceOf[t] # DeviceOf[s]
      BY <2>3 DEF Siblings
    <3>2. t \in Mapped <=> /\ DeviceOf[t] \in DOMAIN Inner(Home(t))
                           /\ Inner(Home(t))[DeviceOf[t]] = t
      BY MappedEntry DEF Inner
    <3>3. CASE Home(t) = Home(s)
      BY <2>1, <2>3, <3>1, <3>2, <3>3, <1>1, <1>4
    <3>4. CASE Home(t) # Home(s)
      BY <2>1, <2>3, <3>1, <3>4, <1>4, MappedEntry
    <3>5. QED
      BY <3>3, <3>4
  <2>4. QED
    BY <2>2, <2>3
<1>7. Mapped' \subseteq Streams
  BY DEF Mapped
<1>8. QED
  BY <1>5, <1>6, <1>7 DEF Mapped
-----------------------------------------------------------------------------
(* The inductive step, one lemma for each part of IInv.                    *)

LEMMA InvInit == Init => IInv
<1> SUFFICES ASSUME Init
             PROVE  IInv
  OBVIOUS
<1>1. TypeOK
  BY TypeInit
<1>2. LockInv
  BY DEF Init, LockInv, mu!Init
<1>3. Mapped = {}
  BY DEF Init, Mapped
<1>4. ChannelInv
  BY <1>3 DEF Init, ChannelInv
<1>5. TableSound /\ OwnEndpointOnly
  BY DEF Init, TableSound, OwnEndpointOnly
<1>6. AttemptInv
  BY DEF Init, AttemptInv, Visited, mu!Init
<1>7. QED
  BY <1>1, <1>2, <1>4, <1>5, <1>6 DEF IInv

LEMMA LockNext == IInv /\ [Next]_vars => LockInv'
<1> SUFFICES ASSUME IInv, [Next]_vars
             PROVE  LockInv'
  OBVIOUS
<1> USE DEF IInv, LockInv, TypeOK, mu!TypeOK
<1>1. ASSUME NEW s \in Streams, Connect(s)
      PROVE  LockInv'
  BY <1>1 DEF Connect, senderVars, muVars
<1>2. ASSUME NEW s \in Streams, AcquireLock(s)
      PROVE  LockInv'
  BY <1>2 DEF AcquireLock, senderVars, mu!Lock
<1>3. ASSUME NEW s \in Streams, Register(s)
      PROVE  LockInv'
  BY <1>3 DEF Register, senderVars, mu!Locked, mu!Unlock
<1>4. ASSUME NEW s \in Streams, Receive(s)
      PROVE  LockInv'
  BY <1>4 DEF Receive, senderVars, muVars
<1>5. ASSUME NEW s \in Streams, Disconnect(s)
      PROVE  LockInv'
  BY <1>5 DEF Disconnect, senderVars, muVars
<1>6. ASSUME NEW s \in Streams, Unregister(s)
      PROVE  LockInv'
  BY <1>6 DEF Unregister, senderVars, mu!Locked, mu!Unlock
<1>7. ASSUME NEW g \in Senders, NEW m \in Message, CallSend(g, m)
      PROVE  LockInv'
  BY <1>7 DEF CallSend, mu!RLock
<1>8. ASSUME NEW g \in Senders, NEW d \in Devices, Deliver(g, d)
      PROVE  LockInv'
  BY <1>8 DEF Deliver, muVars
<1>9. ASSUME NEW g \in Senders, ReturnSend(g)
      PROVE  LockInv'
  BY <1>9 DEF ReturnSend, mu!RUnlock
<1>10. ASSUME NEW g \in Senders, TakeAttempts(g)
       PROVE  LockInv'
  BY <1>10 DEF TakeAttempts, muVars
<1>11. CASE UNCHANGED vars
  BY <1>11 DEF vars, muVars
<1>12. QED
  BY <1>1, <1>2, <1>3, <1>4, <1>5, <1>6, <1>7, <1>8, <1>9, <1>10, <1>11
     DEF Next, StreamStep, SenderStep

(* Only Register and Unregister change the table.                          *)
LEMMA TableNext == IInv /\ [Next]_vars => TableSound'
<1> SUFFICES ASSUME IInv, [Next]_vars
             PROVE  TableSound'
  OBVIOUS
<1>1. ASSUME UNCHANGED streams
      PROVE  TableSound'
  BY <1>1 DEF IInv, TableSound
<1>2. ASSUME NEW s \in Streams, Register(s)
      PROVE  TableSound'
  BY <1>2, RegisterMapped DEF IInv
<1>3. ASSUME NEW s \in Streams, Unregister(s)
      PROVE  TableSound'
  BY <1>3, UnregisterMapped DEF IInv
<1>4. QED
  BY <1>1, <1>2, <1>3
     DEF Next, StreamStep, SenderStep, vars, Connect, AcquireLock, Receive, Disconnect,
         CallSend, Deliver, ReturnSend, TakeAttempts

LEMMA ChannelNext == IInv /\ [Next]_vars => ChannelInv'
<1> SUFFICES ASSUME IInv, [Next]_vars
             PROVE  ChannelInv'
  OBVIOUS
<1>0. UNCHANGED streams => Mapped' = Mapped
  BY DEF Mapped
<1> USE DEF IInv, ChannelInv
<1>1. ASSUME NEW s \in Streams, Connect(s)
      PROVE  ChannelInv'
  BY <1>0, <1>1 DEF Connect, TypeOK
<1>2. ASSUME NEW s \in Streams, Register(s)
      PROVE  ChannelInv'
  <2>1. Mapped' = (Mapped \ Siblings(s)) \cup {s}
    BY <1>2, RegisterMapped
  <2>2. phase[s] = "registering" /\ phase' = [phase EXCEPT ![s] = "registered"] /\ open' = open
    BY <1>2 DEF Register
  <2>3. Mapped \subseteq Streams
    BY DEF Mapped
  <2>4. QED
    BY <2>1, <2>2, <2>3 DEF TypeOK
<1>3. ASSUME NEW s \in Streams, Disconnect(s)
      PROVE  ChannelInv'
  BY <1>0, <1>3 DEF Disconnect, TypeOK
<1>4. ASSUME NEW s \in Streams, Unregister(s)
      PROVE  ChannelInv'
  <2>1. Mapped' = Mapped \ Siblings(s)
    BY <1>4, UnregisterMapped
  <2>2. s \notin Mapped'
    BY <2>1 DEF Siblings
  <2>3. phase[s] = "unregistering" /\ phase' = [phase EXCEPT ![s] = "idle"] /\ open' = open \ {s}
    BY <1>4 DEF Unregister
  <2>4. Mapped \subseteq Streams
    BY DEF Mapped
  <2>5. QED
    BY <2>1, <2>2, <2>3, <2>4 DEF TypeOK
<1>5. ASSUME UNCHANGED <<streams, open, phase>>
      PROVE  ChannelInv'
  BY <1>0, <1>5
<1>6. QED
  BY <1>1, <1>2, <1>3, <1>4, <1>5
     DEF Next, StreamStep, SenderStep, vars, AcquireLock, Receive, CallSend, Deliver,
         ReturnSend, TakeAttempts

(* Only Deliver adds to a channel, and what it reaches is in the table.    *)
LEMMA OwnNext == IInv /\ [Next]_vars => OwnEndpointOnly'
<1> SUFFICES ASSUME IInv, [Next]_vars
             PROVE  OwnEndpointOnly'
  OBVIOUS
<1> USE DEF Ranged
<1>1. ASSUME NEW s \in Streams, Connect(s)
      PROVE  OwnEndpointOnly'
  BY <1>1 DEF IInv, TypeOK, OwnEndpointOnly, Home, Connect
<1>2. ASSUME NEW s \in Streams, Receive(s)
      PROVE  OwnEndpointOnly'
  <2>1. chan[s] \in Seq(Message) /\ chan[s] # <<>>
    BY <1>2 DEF IInv, TypeOK, Receive
  <2>2. \A i \in DOMAIN Tail(chan[s]) :
          i + 1 \in DOMAIN chan[s] /\ Tail(chan[s])[i] = chan[s][i + 1]
    BY <2>1
  <2>3. QED
    BY <1>2, <2>2 DEF IInv, TypeOK, OwnEndpointOnly, Home, Receive
<1>3. ASSUME NEW g \in Senders, NEW d \in Devices, Deliver(g, d)
      PROVE  OwnEndpointOnly'
  <2> DEFINE s == Ranged(g)[d]
  <2>1. s \in Streams /\ Home(s) = target[g].endpoint
    <3>1. d \in DOMAIN Ranged(g)
      BY <1>3 DEF Deliver, Pending
    <3>2. target[g].endpoint \in DOMAIN streams /\ s \in Streams
      BY <3>1, InnerType DEF IInv
    <3>3. d \in DOMAIN streams[target[g].endpoint] /\ s = streams[target[g].endpoint][d]
      BY <3>1, <3>2 DEF Inner
    <3>4. QED
      BY <3>2, <3>3 DEF IInv, TableSound, Home
  <2> HIDE DEF s
  <2>2. CASE UNCHANGED chan
    BY <2>2 DEF IInv, OwnEndpointOnly, Home
  <2>3. CASE chan' = [chan EXCEPT ![s] = Append(chan[s], target[g])]
    <3>1. chan[s] \in Seq(Message) /\ target[g] \in Message
      BY <2>1 DEF IInv, TypeOK
    <3>2. \A i \in DOMAIN Append(chan[s], target[g]) :
            Append(chan[s], target[g])[i].endpoint = Home(s)
      BY <2>1, <3>1 DEF IInv, OwnEndpointOnly
    <3>3. QED
      BY <2>1, <2>3, <3>2 DEF IInv, TypeOK, OwnEndpointOnly, Home
  <2>4. QED
    BY <1>3, <2>2, <2>3 DEF Deliver, s
<1>4. ASSUME UNCHANGED chan
      PROVE  OwnEndpointOnly'
  BY <1>4 DEF IInv, OwnEndpointOnly, Home
<1>5. QED
  BY <1>1, <1>2, <1>3, <1>4
     DEF Next, StreamStep, SenderStep, vars, AcquireLock, Register, Disconnect, Unregister,
         CallSend, ReturnSend, TakeAttempts

LEMMA AttemptNext == IInv /\ [Next]_vars => AttemptInv'
<1> SUFFICES ASSUME IInv, [Next]_vars, NEW g \in Senders
             PROVE  /\ g \in reading' => Visited(g)' \subseteq (DOMAIN Ranged(g))'
                    /\ g \in waiting' \/ pc'[g] = "idle" => attempts'[g] = {}
                    /\ \A a, b \in attempts'[g] : a.device = b.device => a = b
  BY DEF AttemptInv
<1> USE DEF Ranged
<1> DEFINE Goal == /\ g \in reading' => Visited(g)' \subseteq (DOMAIN Ranged(g))'
                   /\ g \in waiting' \/ pc'[g] = "idle" => attempts'[g] = {}
                   /\ \A a, b \in attempts'[g] : a.device = b.device => a = b
<1>0. /\ g \in reading => Visited(g) \subseteq DOMAIN Ranged(g)
      /\ g \in waiting \/ pc[g] = "idle" => attempts[g] = {}
      /\ \A a, b \in attempts[g] : a.device = b.device => a = b
  BY DEF IInv, AttemptInv

(* Those who change the map wait until no sender is inside; the senders    *)
(* they let in when they unlock were waiting, and have attempted nothing.  *)
<1>1. ASSUME reading = {}, reading' = waiting, waiting' = {}, UNCHANGED senderVars
      PROVE  Goal
  BY <1>0, <1>1 DEF senderVars, Visited
<1>2. ASSUME NEW s \in Streams, Register(s) \/ Unregister(s)
      PROVE  Goal
  <2>1. reading = {} /\ reading' = waiting /\ waiting' = {} /\ UNCHANGED senderVars
    BY <1>2 DEF Register, Unregister, mu!Locked, mu!Unlock
  <2>2. QED
    BY <1>1, <2>1
<1>3. ASSUME UNCHANGED <<streams, senderVars, reading, waiting>>
      PROVE  Goal
  BY <1>0, <1>3 DEF senderVars, Visited, Inner
<1>4. ASSUME NEW h \in Senders, NEW m \in Message, CallSend(h, m)
      PROVE  Goal
  <2>1. /\ pc[h] = "idle" /\ pc' = [pc EXCEPT ![h] = "sending"]
        /\ target' = [target EXCEPT ![h] = m]
        /\ UNCHANGED <<streams, attempts>>
        /\ \A r \in Senders \ {h} : /\ r \in reading' <=> r \in reading
                                    /\ r \in waiting' <=> r \in waiting
    BY <1>4 DEF CallSend, mu!RLock
  <2>2. CASE g = h
    BY <1>0, <2>1, <2>2 DEF Visited
  <2>3. CASE g # h
    <3>1. target'[g] = target[g] /\ pc'[g] = pc[g]
      BY <2>1, <2>3 DEF IInv, TypeOK
    <3>2. (Ranged(g))' = Ranged(g) /\ Visited(g)' = Visited(g)
      BY <2>1, <3>1 DEF Inner, Visited
    <3>3. QED
      BY <1>0, <2>1, <2>3, <3>1, <3>2
  <2>4. QED
    BY <2>2, <2>3
<1>5. ASSUME NEW h \in Senders, NEW d \in Devices, Deliver(h, d)
      PROVE  Goal
  <2>1. /\ h \in reading /\ d \in Pending(h) /\ pc[h] = "sending"
        /\ UNCHANGED <<streams, pc, target, reading, waiting>>
    BY <1>5 DEF Deliver, muVars
  <2>2. PICK st \in {"delivered", "failed"} :
          attempts' = [attempts EXCEPT ![h] = attempts[h] \cup {[device |-> d, status |-> st]}]
    BY <1>5 DEF Deliver
  <2>3. (Ranged(g))' = Ranged(g)
    BY <2>1 DEF Inner
  <2>4. CASE g = h
    <3>1. attempts'[g] = attempts[g] \cup {[device |-> d, status |-> st]}
      BY <2>2, <2>4 DEF IInv, TypeOK
    <3>2. Visited(g)' = Visited(g) \cup {d}
      <4> DEFINE new == [device |-> d, status |-> st]
      <4>1. attempts'[g] = attempts[g] \cup {new} /\ new.device = d
        BY <3>1
      <4> HIDE DEF new
      <4>2. \A x : x \in Visited(g)' <=> x \in Visited(g) \cup {d}
        BY <4>1 DEF Visited
      <4>3. QED
        BY <4>2
    <3>3. d \in DOMAIN Ranged(g) /\ \A a \in attempts[g] : a.device # d
      BY <2>1, <2>4 DEF Pending, Visited
    <3>4. g \notin waiting
      BY <2>1, <2>4 DEF IInv, LockInv
    <3>5. QED
      BY <1>0, <2>1, <2>3, <2>4, <3>1, <3>2, <3>3, <3>4
  <2>5. CASE g # h
    <3>1. attempts'[g] = attempts[g]
      BY <2>2, <2>5 DEF IInv, TypeOK
    <3>2. Visited(g)' = Visited(g)
      BY <3>1 DEF Visited
    <3>3. QED
      BY <1>0, <2>1, <2>3, <3>1, <3>2
  <2>6. QED
    BY <2>4, <2>5
<1>6. ASSUME NEW h \in Senders, ReturnSend(h)
      PROVE  Goal
  <2>1. /\ pc' = [pc EXCEPT ![h] = "returned"]
        /\ reading' = reading \ {h}
        /\ UNCHANGED <<streams, target, attempts, waiting>>
    BY <1>6 DEF ReturnSend, mu!RUnlock
  <2>2. /\ (Ranged(g))' = Ranged(g)
        /\ Visited(g)' = Visited(g)
    BY <2>1 DEF Inner, Visited
  <2>3. pc'[g] = "idle" => pc[g] = "idle"
    BY <2>1 DEF IInv, TypeOK
  <2>4. QED
    BY <1>0, <2>1, <2>2, <2>3
<1>7. ASSUME NEW h \in Senders, TakeAttempts(h)
      PROVE  Goal
  <2>1. /\ pc[h] = "returned" /\ pc' = [pc EXCEPT ![h] = "idle"]
        /\ target' = [target EXCEPT ![h] = NoCall]
        /\ attempts' = [attempts EXCEPT ![h] = {}]
        /\ UNCHANGED <<streams, reading, waiting>>
    BY <1>7 DEF TakeAttempts, muVars
  <2>2. CASE g = h
    <3>1. attempts'[g] = {}
      BY <2>1, <2>2 DEF IInv, TypeOK
    <3>2. QED
      BY <3>1 DEF Visited
  <2>3. CASE g # h
    <3>1. target'[g] = target[g] /\ pc'[g] = pc[g] /\ attempts'[g] = attempts[g]
      BY <2>1, <2>3 DEF IInv, TypeOK
    <3>2. (Ranged(g))' = Ranged(g) /\ Visited(g)' = Visited(g)
      BY <2>1, <3>1 DEF Inner, Visited
    <3>3. QED
      BY <1>0, <2>1, <3>1, <3>2
  <2>4. QED
    BY <2>2, <2>3
<1>8. QED
  <2>1. Goal
    BY <1>2, <1>3, <1>4, <1>5, <1>6, <1>7
       DEF Next, StreamStep, SenderStep, vars, muVars, senderVars, Connect, AcquireLock,
           Receive, Disconnect, mu!Lock
  <2>2. QED
    BY <2>1
-----------------------------------------------------------------------------
(* The invariant and its consequences.                                     *)

LEMMA InvNext == IInv /\ [Next]_vars => IInv'
BY TypeNext, LockNext, ChannelNext, TableNext, OwnNext, AttemptNext DEF IInv

LEMMA Invariant == Spec => []IInv
BY InvInit, InvNext, PTL DEF Spec

(* A sender in SendToEndpoint never meets a closed channel: whatever the   *)
(* connections do, the channels in Hub.streams have not been closed.       *)
THEOREM NeverSendsOnClosed == Spec => []NoSendOnClosed
<1>1. IInv => NoSendOnClosed
  BY DEF IInv, ChannelInv, NoSendOnClosed, Mapped
<1>2. QED
  BY Invariant, <1>1, PTL

(* Hub.streams files every channel under its own device and endpoint and   *)
(* keeps no empty inner map.                                               *)
THEOREM TableStaysSound == Spec => []TableSound
<1>1. IInv => TableSound
  BY DEF IInv
<1>2. QED
  BY Invariant, <1>1, PTL

(* SendToEndpoint never gives a device a message of another endpoint.      *)
THEOREM NoCrossDelivery == Spec => []OwnEndpointOnly
<1>1. IInv => OwnEndpointOnly
  BY DEF IInv
<1>2. QED
  BY Invariant, <1>1, PTL

(* Hub.streams is not written while SendToEndpoint ranges over it.         *)
THEOREM MapFrozenUnderReaders == Spec => FrozenWhileIterated
<1>1. [Next]_vars => [reading # {} => streams' = streams]_vars
  BY DEF Next, StreamStep, SenderStep, vars, Connect, AcquireLock, Register, Receive,
         Disconnect, Unregister, CallSend, Deliver, ReturnSend, TakeAttempts, mu!Locked
<1>2. QED
  BY <1>1, PTL DEF Spec, FrozenWhileIterated

(* The slice SendToEndpoint returns has exactly one attempt for each       *)
(* device that is in the table at the moment of the return.                *)
THEOREM AttemptsAreComplete == Spec => OneAttemptEach
<1> USE DEF Ranged
<1> DEFINE Complete == \A g \in Senders : pc[g] = "sending" /\ pc'[g] = "returned" =>
       /\ Visited(g) = {DeviceOf[s] : s \in {t \in Mapped : Home(t) = target[g].endpoint}}
       /\ \A a, b \in attempts[g] : a.device = b.device => a = b
<1>1. ASSUME IInv, [Next]_vars, NEW g \in Senders, pc[g] = "sending", pc'[g] = "returned"
      PROVE  /\ Visited(g) = {DeviceOf[s] : s \in {t \in Mapped : Home(t) = target[g].endpoint}}
             /\ \A a, b \in attempts[g] : a.device = b.device => a = b
  <2>1. ReturnSend(g)
    BY <1>1 DEF IInv, TypeOK, Next, StreamStep, SenderStep, vars, senderVars, Connect,
                AcquireLock, Register, Receive, Disconnect, Unregister, CallSend, Deliver,
                ReturnSend, TakeAttempts
  <2>2. g \in reading /\ DOMAIN Ranged(g) \subseteq Visited(g)
    BY <2>1 DEF ReturnSend, Pending
  <2>3. /\ Visited(g) = DOMAIN Ranged(g)
        /\ \A a, b \in attempts[g] : a.device = b.device => a = b
    BY <1>1, <2>2 DEF IInv, AttemptInv
  <2>4. ASSUME NEW e
        PROVE  DOMAIN Inner(e) = {DeviceOf[s] : s \in {t \in Mapped : Home(t) = e}}
    <3>1. ASSUME NEW d \in DOMAIN Inner(e)
          PROVE  /\ Inner(e)[d] \in {t \in Mapped : Home(t) = e}
                 /\ d = DeviceOf[Inner(e)[d]]
      <4>1. Inner(e)[d] \in Mapped /\ e \in DOMAIN streams /\ Inner(e) = streams[e]
        BY <1>1, <3>1, InnerType DEF IInv, Inner
      <4>2. QED
        BY <1>1, <3>1, <4>1 DEF IInv, TableSound, Home
    <3>2. ASSUME NEW s \in Mapped, Home(s) = e
          PROVE  DeviceOf[s] \in DOMAIN Inner(e)
      <4>1. s \in Streams
        BY DEF Mapped
      <4>2. QED
        BY <1>1, <3>2, <4>1, MappedEntry DEF IInv, Inner
    <3>3. QED
      BY <3>1, <3>2
  <2>5. QED
    BY <2>3, <2>4
<1>2. IInv /\ [Next]_vars => [Complete]_vars
  BY <1>1
<1>3. QED
  BY Invariant, <1>2, PTL DEF Spec, OneAttemptEach
-----------------------------------------------------------------------------
(* No device has two connections at a time.                                *)
OneConnection == \A s, t \in open : DeviceOf[s] = DeviceOf[t] => s = t

(* A connected device can be missed by SendToEndpoint, but only because    *)
(* two connections of a device overlapped, and the unregister of one took  *)
(* the entry of the other: connections and disconnections of the other     *)
(* devices of the endpoint never do.                                       *)
THEOREM OneConnectionIsReached == Spec /\ []OneConnection => []ConnectedDeviceIsReached
<1> DEFINE Inv == IInv /\ ConnectedDeviceIsReached
<1>1. Init => Inv
  BY InvInit DEF Init, ConnectedDeviceIsReached
<1>2. ASSUME Inv, OneConnection, [Next]_vars,
             NEW s \in Streams, phase'[s] = "registered"
      PROVE  DeviceOf[s] \in DOMAIN Inner(Home(s))'
  <2>t. phase \in [Streams -> {"idle", "registering", "registered", "unregistering"}]
    BY <1>2 DEF IInv, TypeOK
  <2>1. ASSUME NEW t \in Streams, Register(t)
        PROVE  DeviceOf[s] \in DOMAIN Inner(Home(s))'
    <3>1. /\ Inner(Home(t))' = Put(Inner(Home(t)), DeviceOf[t], t)
          /\ \A e : e # Home(t) => Inner(e)' = Inner(e)
      BY <2>1 DEF Register, Put, Inner
    <3>2. CASE s = t
      BY <3>1, <3>2 DEF Put
    <3>3. CASE s # t
      <4>1. DeviceOf[s] \in DOMAIN Inner(Home(s))
        BY <1>2, <2>t, <2>1, <3>3 DEF Register, ConnectedDeviceIsReached
      <4>2. QED
        BY <3>1, <4>1 DEF Put
    <3>4. QED
      BY <3>2, <3>3
  <2>2. ASSUME NEW t \in Streams, Unregister(t)
        PROVE  DeviceOf[s] \in DOMAIN Inner(Home(s))'
    <3>1. s # t /\ phase[s] = "registered" /\ phase[t] = "unregistering"
      BY <1>2, <2>t, <2>2 DEF Unregister
    <3>2. DeviceOf[s] # DeviceOf[t]
      BY <1>2, <3>1 DEF IInv, ChannelInv, OneConnection
    <3>3. DeviceOf[s] \in DOMAIN Inner(Home(s))
      BY <1>2, <3>1 DEF ConnectedDeviceIsReached
    <3>4. CASE Home(s) = Home(t)
      <4> DEFINE rest == Delete(Inner(Home(t)), DeviceOf[t])
      <4>1. DeviceOf[s] \in DOMAIN rest
        BY <3>2, <3>3, <3>4 DEF Delete
      <4>2. streams' = Put(streams, Home(t), rest)
        BY <2>2, <4>1 DEF Unregister, WithoutDevice
      <4>3. Inner(Home(t))' = rest
        BY <4>2 DEF Inner, Put
      <4>4. QED
        BY <3>4, <4>1, <4>3
    <3>5. CASE Home(s) # Home(t)
      <4>1. Inner(Home(s))' = Inner(Home(s))
        BY <2>2, <3>5 DEF Unregister, WithoutDevice, Inner, Put, Delete
      <4>2. QED
        BY <3>3, <4>1
    <3>6. QED
      BY <3>4, <3>5
  <2>3. ASSUME UNCHANGED streams, phase[s] = "registered"
        PROVE  DeviceOf[s] \in DOMAIN Inner(Home(s))'
    BY <1>2, <2>3 DEF ConnectedDeviceIsReached, Inner
  <2>4. QED
    BY <1>2, <2>t, <2>1, <2>2, <2>3
       DEF Next, StreamStep, SenderStep, vars, Connect, AcquireLock, Receive, Disconnect,
           CallSend, Deliver, ReturnSend, TakeAttempts
<1>3. Inv /\ OneConnection /\ [Next]_vars => Inv'
  BY <1>2, InvNext DEF ConnectedDeviceIsReached
<1>4. QED
  BY <1>1, <1>3, PTL DEF Spec
-----------------------------------------------------------------------------
(* The hub implements Feeds: each step of the hub is a step of Feeds over  *)
(* the open channels, the channels in the table and the buffers, or leaves *)
(* all three alone.                                                        *)
LEMMA FeedInit == Init => Feed!Init
BY DEF Init, Feed!Init, Mapped

LEMMA FeedNext == IInv /\ [Next]_vars => [Feed!Next]_(Feed!vars)
<1> SUFFICES ASSUME IInv, [Next]_vars
             PROVE  Feed!Next \/ UNCHANGED Feed!vars
  BY DEF Feed!vars
<1> USE DEF Ranged
<1>0. UNCHANGED streams => UNCHANGED Mapped
  BY DEF Mapped
<1>1. ASSUME NEW s \in Streams, Connect(s)
      PROVE  Feed!Open(s)
  BY <1>0, <1>1 DEF Connect, IInv, ChannelInv, Feed!Open
<1>2. ASSUME NEW s \in Streams, Register(s)
      PROVE  Feed!Attach(s)
  <2>1. Mapped' = (Mapped \ Siblings(s)) \cup {s}
    BY <1>2, RegisterMapped DEF IInv
  <2>2. s \in open /\ UNCHANGED <<open, chan>>
    BY <1>2 DEF Register, IInv, ChannelInv
  <2>3. QED
    BY <2>1, <2>2 DEF Feed!Attach, Feed!Siblings, Siblings
<1>3. ASSUME NEW s \in Streams, Receive(s)
      PROVE  Feed!Take(s)
  BY <1>0, <1>3 DEF Receive, IInv, ChannelInv, Feed!Take
<1>4. ASSUME NEW s \in Streams, Unregister(s)
      PROVE  Feed!Close(s)
  <2>1. Mapped' = Mapped \ Siblings(s)
    BY <1>4, UnregisterMapped DEF IInv
  <2>2. s \in open /\ open' = open \ {s} /\ UNCHANGED chan
    BY <1>4 DEF Unregister, IInv, ChannelInv
  <2>3. QED
    BY <2>1, <2>2 DEF Feed!Close, Feed!Siblings, Siblings
<1>5. ASSUME NEW g \in Senders, NEW d \in Devices, Deliver(g, d), ~ UNCHANGED chan
      PROVE  \E s \in Streams : \E m \in Feed!Message : Feed!Offer(s, m)
  <2> DEFINE s == Ranged(g)[d]
  <2>1. d \in DOMAIN Ranged(g)
    BY <1>5 DEF Deliver, Pending
  <2>2. s \in Streams /\ s \in Mapped /\ target[g].endpoint \in DOMAIN streams
    BY <2>1, InnerType DEF IInv
  <2>3. target[g].endpoint = EndpointOf[DeviceOf[s]]
    <3>1. d \in DOMAIN streams[target[g].endpoint] /\ s = streams[target[g].endpoint][d]
      BY <2>1, <2>2 DEF Inner
    <3>2. QED
      BY <2>2, <3>1 DEF IInv, TableSound
  <2>4. target[g] \in Feed!Message
    BY DEF IInv, TypeOK, Message, Feed!Message
  <2>5. /\ Len(chan[s]) < BufferSize
        /\ chan' = [chan EXCEPT ![s] = Append(chan[s], target[g])]
        /\ UNCHANGED <<open, streams>>
    BY <1>5 DEF Deliver, HasRoom
  <2> HIDE DEF s
  <2>6. Feed!Offer(s, target[g])
    BY <1>0, <2>2, <2>3, <2>5 DEF Feed!Offer
  <2>7. QED
    BY <2>2, <2>4, <2>6
<1>6. ASSUME UNCHANGED <<streams, chan, open>>
      PROVE  UNCHANGED Feed!vars
  BY <1>0, <1>6 DEF Feed!vars
<1>7. QED
  BY <1>1, <1>2, <1>3, <1>4, <1>5, <1>6
     DEF Next, StreamStep, SenderStep, vars, AcquireLock, Disconnect, CallSend, Deliver,
         ReturnSend, TakeAttempts, Feed!Next

(* Seen through its open channels, its table and its buffers, the hub is a *)
(* set of private bounded queues: it does nothing that Feeds does not      *)
(* allow, for any number of devices, connections and senders.              *)
THEOREM HubImplementsFeeds == Spec => ImplementsFeeds
<1>1. Spec => [][Feed!Next]_(Feed!vars)
  BY Invariant, FeedNext, PTL DEF Spec
<1>2. QED
  BY FeedInit, <1>1, PTL DEF Spec, ImplementsFeeds, Feed!Spec
=============================================================================
