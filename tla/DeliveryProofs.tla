--------------------------- MODULE DeliveryProofs ---------------------------
(***************************************************************************)
(* Webhooks and replays for any endpoints, devices, connections, requests, *)
(* events, replays and faults: the tables and the hub agree, and what the  *)
(* server does of an event is what Inbox allows.                           *)
(***************************************************************************)
EXTENDS Delivery, FiniteSetTheorems, TLAPS

(* What is proved of the hub, for the hub of this module.                  *)
HP == INSTANCE HubProofs
-----------------------------------------------------------------------------
(* The hub here is the one of HubProofs: its invariant holds of it, over   *)
(* each of its steps.                                                      *)
LEMMA HubInit == hub!Init => HP!IInv
<1>1. hub!Init => HP!Init
  BY DEF hub!Init, HP!Init, hub!mu!Init, HP!mu!Init, hub!NoCall, HP!NoCall, hub!Message, HP!Message
<1>2. QED
  BY <1>1, HP!InvInit, DeliveryAssumption

LEMMA HubStreamStep ==
  ASSUME NEW s \in Streams, hub!StreamStep(s)
  PROVE  HP!StreamStep(s)
BY DEF hub!StreamStep, HP!StreamStep,
  hub!Connect, HP!Connect, hub!AcquireLock, HP!AcquireLock,
  hub!Register, HP!Register, hub!Receive, HP!Receive, hub!Disconnect, HP!Disconnect,
  hub!Unregister, HP!Unregister, hub!senderVars, HP!senderVars, hub!muVars, HP!muVars,
  hub!mu!Lock, HP!mu!Lock, hub!mu!Locked, HP!mu!Locked, hub!mu!Unlock, HP!mu!Unlock,
  hub!Put, HP!Put, hub!Home, HP!Home, hub!Inner, HP!Inner, hub!WithoutDevice, HP!WithoutDevice,
  hub!Delete, HP!Delete

LEMMA HubCallSend ==
  ASSUME NEW g \in Senders, NEW m, hub!CallSend(g, m)
  PROVE  HP!CallSend(g, m)
BY DEF hub!CallSend, HP!CallSend, hub!mu!RLock, HP!mu!RLock

LEMMA HubDeliver ==
  ASSUME NEW g \in Senders, NEW d \in Devices, hub!Deliver(g, d)
  PROVE  HP!Deliver(g, d)
BY DEF hub!Deliver, HP!Deliver, hub!Ranged, HP!Ranged, hub!Pending, HP!Pending,
       hub!Visited, HP!Visited, hub!Inner, HP!Inner, hub!HasRoom, HP!HasRoom,
       hub!muVars, HP!muVars

LEMMA HubReturnSend ==
  ASSUME NEW g \in Senders, hub!ReturnSend(g)
  PROVE  HP!ReturnSend(g)
BY DEF hub!ReturnSend, HP!ReturnSend, hub!Ranged, HP!Ranged, hub!Pending, HP!Pending,
       hub!Visited, HP!Visited, hub!Inner, HP!Inner, hub!mu!RUnlock, HP!mu!RUnlock

LEMMA HubTakeAttempts ==
  ASSUME NEW g \in Senders, hub!TakeAttempts(g)
  PROVE  HP!TakeAttempts(g)
BY DEF hub!TakeAttempts, HP!TakeAttempts, hub!muVars, HP!muVars, hub!NoCall, HP!NoCall,
       hub!Message, HP!Message

LEMMA HubNew == hub!NewHub => HP!IInv'
<1>1. hub!NewHub => hub!Init'
  BY DEF hub!NewHub, hub!Init, hub!mu!Init
<1>2. QED
  BY <1>1, HubInit, PTL

LEMMA HubInvNext == TypeOK /\ HP!IInv /\ [Next]_vars => HP!IInv'
<1> SUFFICES ASSUME TypeOK, HP!IInv, [Next]_vars
             PROVE  HP!IInv'
  OBVIOUS
<1>1. ASSUME HP!Next \/ UNCHANGED hubVars
      PROVE  HP!IInv'
  <2>1. [HP!Next]_(HP!vars)
    BY <1>1 DEF hubVars, HP!vars, HP!muVars
  <2>2. QED
    BY <2>1, HP!InvNext, DeliveryAssumption
<1>2. ASSUME NEW r \in Senders, Push(r)
      PROVE  HP!IInv'
  <2>1. HP!CallSend(r, eventToPayload(r))
    BY <1>2, HubCallSend DEF Push
  <2>2. eventToPayload(r) \in HP!Message
    BY DEF TypeOK, eventToPayload, hub!Message, HP!Message
  <2>3. QED
    BY <1>1, <2>1, <2>2 DEF HP!Next, HP!SenderStep
<1>3. ASSUME NEW r \in Senders, NEW d \in Devices, Deliver(r, d)
      PROVE  HP!IInv'
  BY <1>1, <1>3, HubDeliver DEF Deliver, HP!Next, HP!SenderStep
<1>4. ASSUME NEW r \in Senders, ReturnSend(r)
      PROVE  HP!IInv'
  BY <1>1, <1>4, HubReturnSend DEF ReturnSend, HP!Next, HP!SenderStep
<1>5. ASSUME NEW r \in Senders, hub!TakeAttempts(r)
      PROVE  HP!IInv'
  BY <1>1, <1>5, HubTakeAttempts DEF HP!Next, HP!SenderStep
<1>6. ASSUME NEW s \in Streams, Connection(s)
      PROVE  HP!IInv'
  BY <1>1, <1>6, HubStreamStep DEF Connection, HP!Next
<1>7. CASE Crash
  BY <1>7, HubNew DEF Crash
<1>8. QED
  BY <1>1, <1>2, <1>3, <1>4, <1>5, <1>6, <1>7
     DEF Next, Request, Log, vars, ReceiveWebhook, CreateEvent, CreateEventFails, ReplayEvent,
         CreateDeliveryLog, CreateDeliveryLogFails, Answer, SetStatus
-----------------------------------------------------------------------------
(* A request that is in its push is in a call of the hub, with the message *)
(* that its event makes, and the event is stored and asked for; what it    *)
(* has attempted are devices of its endpoint, and what it has logged it    *)
(* has attempted.                                                          *)
RequestInv ==
  \A r \in Senders :
    /\ stage[r] = "log" <=> pc[r] # "idle"
    /\ stage[r] = "log" => target[r] = job[r]
    /\ stage[r] \in {"push", "log"} =>
         /\ job[r].event \in DOMAIN stored
         /\ stored[job[r].event] = job[r].endpoint
         /\ asked[job[r].event] > 0
    /\ \A a \in attempts[r] : EndpointOf[a.device] = target[r].endpoint
    /\ logged[r] \subseteq attempts[r]

(* The ID of an event that is still to be stored is nobody else's.         *)
FreshInv ==
  \A r \in Senders : stage[r] = "store" =>
    /\ job[r].event \notin DOMAIN stored
    /\ \A q \in Senders : stage[q] = "store" /\ job[q].event = job[r].event => q = r

Delivered(d) == [device |-> d, status |-> "delivered"]
DeliveredRow(v, d) == [event |-> v, device |-> d, status |-> "delivered"]

(* The pushes under way that may still put v into a channel of d.          *)
Owed(v, d) ==
  {r \in Senders : /\ stage[r] \in {"push", "log"} /\ job[r].event = v
                   /\ Delivered(d) \notin attempts[r]}

(* The pushes under way that have, and have not logged it yet.             *)
Unlogged(v, d) ==
  {r \in Senders : /\ stage[r] = "log" /\ job[r].event = v
                   /\ Delivered(d) \in attempts[r] \ logged[r]}

(* Each push was asked for, and enters a channel of a device once.         *)
SentInv ==
  \A v \in Events, d \in Devices :
    /\ IsFiniteSet(Owed(v, d))
    /\ entered[<<v, d>>] + Cardinality(Owed(v, d)) <= asked[v]

(* A row is about a stored event and a device of its endpoint.             *)
RowInv ==
  \A row \in LogRow : logs[row] > 0 =>
    row.event \in DOMAIN stored /\ stored[row.event] = EndpointOf[row.device]

(* The pushes under way that have created a row like this one.             *)
Tried(row) == [device |-> row.device, status |-> row.status]
Listed(row) ==
  {r \in Senders : stage[r] = "log" /\ job[r].event = row.event /\ Tried(row) \in logged[r]}

(* They and the answered pushes have each a row of their own.              *)
AnswerInv ==
  \A row \in LogRow :
    /\ IsFiniteSet(Listed(row))
    /\ answered[row] + Cardinality(Listed(row)) <= logs[row]

(* A delivery is logged once, is still to be logged, or something has      *)
(* failed.                                                                 *)
LogInv ==
  \A v \in Events, d \in Devices :
    LET rows == logs[DeliveredRow(v, d)] + Cardinality(Unlogged(v, d))
    IN  /\ IsFiniteSet(Unlogged(v, d))
        /\ rows <= entered[<<v, d>>]
        /\ faults = 0 => rows = entered[<<v, d>>]

IInv ==
  /\ TypeOK
  /\ HP!IInv
  /\ RequestInv
  /\ FreshInv
  /\ StoredBeforeSeen
  /\ SentInv
  /\ RowInv
  /\ LogInv
  /\ AnswerInv
-----------------------------------------------------------------------------
(* Types.                                                                  *)

LEMMA HubType == HP!IInv => hub!TypeOK
<1>1. HP!IInv => HP!TypeOK
  BY DEF HP!IInv
<1>2. HP!TypeOK <=> hub!TypeOK
  BY DEF hub!TypeOK, HP!TypeOK, hub!Message, HP!Message, hub!Attempt, HP!Attempt,
         hub!mu!TypeOK, HP!mu!TypeOK
<1>3. QED
  BY <1>1, <1>2

(* The part of TypeOK that is not the hub's.                               *)
OwnTypeOK ==
  /\ status \in [Endpoints -> {"active", "inactive", "deleted"}]
  /\ DOMAIN stored \subseteq Events
  /\ stored \in [DOMAIN stored -> Endpoints]
  /\ logs \in [LogRow -> Nat]
  /\ stage \in [Senders -> {"idle", "store", "push", "log"}]
  /\ job \in [Senders -> hub!Message]
  /\ logged \in [Senders -> SUBSET hub!Attempt]
  /\ replays \in 0..MaxReplays /\ faults \in 0..MaxFaults
  /\ acked \subseteq Events
  /\ answered \in [LogRow -> Nat]
  /\ asked \in [Events -> Nat]
  /\ entered \in [Events \X Devices -> Nat]

LEMMA NoCallType == hub!NoCall \in hub!Message
<1>1. PICK e \in Endpoints, v \in Events : TRUE
  BY DeliveryAssumption
<1>2. [endpoint |-> e, event |-> v] \in hub!Message
  BY DEF hub!Message
<1>3. QED
  BY <1>2 DEF hub!NoCall

(* The rows an attempt or a fault makes.                                   *)
LEMMA RowType ==
  ASSUME TypeOK, NEW r \in Senders, NEW a \in attempts[r]
  PROVE  a \in hub!Attempt /\ Row(r, a) \in LogRow
BY DEF TypeOK, hub!TypeOK, hub!Attempt, hub!Message, Row, LogRow

LEMMA TypeInit == Init => TypeOK
<1> SUFFICES ASSUME Init
             PROVE  TypeOK
  OBVIOUS
<1>1. hub!TypeOK
  BY HubInit, HubType DEF Init
<1>2. OwnTypeOK
  BY NoCallType, DeliveryAssumption DEF Init, OwnTypeOK
<1>3. QED
  BY <1>1, <1>2 DEF TypeOK, OwnTypeOK

LEMMA OwnTypeNext == TypeOK /\ [Next]_vars => OwnTypeOK'
<1> SUFFICES ASSUME TypeOK, [Next]_vars
             PROVE  OwnTypeOK'
  OBVIOUS
<1>0. OwnTypeOK
  BY DEF TypeOK, OwnTypeOK
<1> USE DEF OwnTypeOK
<1>1. ASSUME NEW r \in Senders, NEW e \in Endpoints, ReceiveWebhook(r, e)
      PROVE  OwnTypeOK'
  <2>1. PICK v \in Events : job' = [job EXCEPT ![r] = [endpoint |-> e, event |-> v]]
    BY <1>1 DEF ReceiveWebhook, FreshEvents
  <2>2. [endpoint |-> e, event |-> v] \in hub!Message
    BY DEF hub!Message
  <2>3. QED
    BY <1>0, <1>1, <2>1, <2>2 DEF ReceiveWebhook, Goto, tables, history, counters
<1>2. ASSUME NEW r \in Senders, CreateEvent(r) \/ CreateEventFails(r)
      PROVE  OwnTypeOK'
  <2>1. job[r].event \in Events /\ job[r].endpoint \in Endpoints
    BY <1>0 DEF hub!Message
  <2>2. CASE CreateEvent(r)
    BY <1>0, <2>1, <2>2 DEF CreateEvent, Goto, counters
  <2>3. CASE CreateEventFails(r)
    BY <1>0, <2>1, <2>3, NoCallType, DeliveryAssumption DEF CreateEventFails, Fail, Finish
  <2>4. QED
    BY <1>2, <2>2, <2>3
<1>3. ASSUME NEW r \in Senders, NEW v \in Events, ReplayEvent(r, v)
      PROVE  OwnTypeOK'
  <2>1. [endpoint |-> stored[v], event |-> v] \in hub!Message
    BY <1>0, <1>3 DEF ReplayEvent, FindUserEvent, hub!Message
  <2>2. QED
    BY <1>0, <1>3, <2>1, DeliveryAssumption DEF ReplayEvent, Goto, tables
<1>4. ASSUME NEW r \in Senders, Push(r)
      PROVE  OwnTypeOK'
  BY <1>0, <1>4 DEF Push, Goto, tables, history, counters
<1>5. ASSUME NEW r \in Senders, NEW d \in Devices, Deliver(r, d)
      PROVE  OwnTypeOK'
  <2>1. <<target[r].event, d>> \in Events \X Devices
    BY DEF TypeOK, hub!TypeOK, hub!Message
  <2>2. entered' \in [Events \X Devices -> Nat]
    BY <1>0, <1>5, <2>1 DEF Deliver
  <2>3. QED
    BY <1>0, <1>5, <2>2 DEF Deliver, tables, requestVars, counters
<1>6. ASSUME NEW r \in Senders, ReturnSend(r)
      PROVE  OwnTypeOK'
  BY <1>0, <1>6 DEF ReturnSend, tables, requestVars, history, counters
<1>7. ASSUME NEW r \in Senders, NEW a \in attempts[r], CreateDeliveryLog(r, a)
      PROVE  OwnTypeOK'
  BY <1>0, <1>7, RowType DEF CreateDeliveryLog, history, counters
<1>8. ASSUME NEW r \in Senders, NEW a \in attempts[r], CreateDeliveryLogFails(r, a)
      PROVE  OwnTypeOK'
  <2>1. logs' \in [LogRow -> Nat]
    BY <1>0, <1>8, RowType DEF CreateDeliveryLogFails
  <2>2. QED
    BY <1>0, <1>8, <2>1, NoCallType, DeliveryAssumption DEF CreateDeliveryLogFails, Fail, Finish
<1>9. ASSUME NEW r \in Senders, Answer(r)
      PROVE  OwnTypeOK'
  <2>1. job[r].event \in Events
    BY <1>0 DEF hub!Message
  <2>2. answered' \in [LogRow -> Nat]
    BY <1>0, <1>9 DEF Answer, Acknowledge
  <2>3. QED
    BY <1>0, <1>9, <2>1, <2>2, NoCallType DEF Answer, Acknowledge, Finish, tables, counters
<1>10. ASSUME NEW s \in Streams, Connection(s)
       PROVE  OwnTypeOK'
  BY <1>0, <1>10 DEF Connection, tables, requestVars, history, counters
<1>11. ASSUME NEW e \in Endpoints, NEW st \in {"active", "inactive", "deleted"}, SetStatus(e, st)
       PROVE  OwnTypeOK'
  BY <1>0, <1>11 DEF SetStatus, requestVars, history, counters
<1>12. CASE Crash
  BY <1>0, <1>12, NoCallType, DeliveryAssumption DEF Crash, tables, history
<1>13. CASE UNCHANGED vars
  BY <1>0, <1>13 DEF vars, tables, requestVars, history, counters
<1>14. QED
  BY <1>1, <1>2, <1>3, <1>4, <1>5, <1>6, <1>7, <1>8, <1>9, <1>10, <1>11, <1>12, <1>13
     DEF Next, Request, Log, CreateDeliveryLog, CreateDeliveryLogFails

LEMMA TypeNext == TypeOK /\ HP!IInv /\ [Next]_vars => TypeOK' /\ HP!IInv'
<1>1. TypeOK /\ HP!IInv /\ [Next]_vars => HP!IInv'
  BY HubInvNext
<1>2. HP!IInv' => hub!TypeOK'
  BY HubType, PTL
<1>3. TypeOK' <=> hub!TypeOK' /\ OwnTypeOK'
  BY DEF TypeOK, OwnTypeOK
<1>4. QED
  BY <1>1, <1>2, <1>3, OwnTypeNext

(* Every variable of webhooks and replays keeps its type, over failed      *)
(* calls and crashes.                                                      *)
THEOREM TypeCorrect == Spec => []TypeOK
<1>1. Init => HP!IInv
  BY HubInit DEF Init
<1>2. QED
  BY TypeInit, TypeNext, <1>1, PTL DEF Spec
-----------------------------------------------------------------------------
(* What the steps of a push do.                                            *)

LEMMA IdleAttempts ==
  ASSUME HP!IInv, NEW r \in Senders, pc[r] = "idle"
  PROVE  attempts[r] = {}
BY DEF HP!IInv, HP!AttemptInv

(* A turn of the loop: d is a device of the endpoint, met for the first    *)
(* time, and exactly a delivered attempt comes with a message in a channel.*)
LEMMA DeliverEffect ==
  ASSUME TypeOK, HP!IInv, NEW r \in Senders, NEW d \in Devices, Deliver(r, d)
  PROVE  /\ pc[r] = "sending"
         /\ EndpointOf[d] = target[r].endpoint
         /\ \A a \in attempts[r] : a.device # d
         /\ UNCHANGED <<pc, target, tables, requestVars, acked, answered, asked, counters>>
         /\ \/ /\ attempts' = [attempts EXCEPT ![r] = @ \cup {Delivered(d)}]
               /\ entered' = [entered EXCEPT ![<<target[r].event, d>>] = @ + 1]
               /\ \E s \in Streams : chan' = [chan EXCEPT ![s] = Append(@, target[r])]
            \/ /\ attempts' = [attempts EXCEPT ![r] =
                                 @ \cup {[device |-> d, status |-> "failed"]}]
               /\ UNCHANGED <<entered, chan>>
<1> DEFINE s == hub!Ranged(r)[d]
<1>1. hub!Deliver(r, d)
  BY DEF Deliver
<1>2. d \in DOMAIN hub!Ranged(r) /\ \A a \in attempts[r] : a.device # d
  BY <1>1 DEF hub!Deliver, hub!Pending, hub!Visited
<1>3. /\ target[r].endpoint \in DOMAIN streams
      /\ hub!Ranged(r) = streams[target[r].endpoint]
  BY <1>2 DEF hub!Ranged, hub!Inner
<1>4. EndpointOf[d] = target[r].endpoint /\ s \in Streams
  BY <1>2, <1>3 DEF HP!IInv, HP!TableSound, TypeOK, hub!TypeOK
<1>5. pc[r] = "sending" /\ UNCHANGED <<pc, target>>
  BY <1>1 DEF hub!Deliver
<1> HIDE DEF s
<1>6. CASE /\ chan' = [chan EXCEPT ![s] = Append(chan[s], target[r])]
           /\ attempts' = [attempts EXCEPT ![r] = attempts[r] \cup {Delivered(d)}]
  <2>1. chan[s] \in Seq(hub!Message) /\ target[r] \in hub!Message
    BY <1>4 DEF TypeOK, hub!TypeOK
  <2>2. Len(Append(chan[s], target[r])) # Len(chan[s])
    BY <2>1
  <2>3. chan' # chan
    BY <1>4, <1>6, <2>2 DEF TypeOK, hub!TypeOK
  <2>4. entered' = [entered EXCEPT ![<<target[r].event, d>>] = @ + 1]
    BY <2>3 DEF Deliver
  <2>5. QED
    BY <1>2, <1>4, <1>5, <1>6, <2>4 DEF Deliver
<1>7. CASE /\ UNCHANGED chan
           /\ attempts' = [attempts EXCEPT ![r] =
                             attempts[r] \cup {[device |-> d, status |-> "failed"]}]
  BY <1>2, <1>4, <1>5, <1>7 DEF Deliver
<1>8. QED
  BY <1>1, <1>6, <1>7 DEF hub!Deliver, Delivered, s
-----------------------------------------------------------------------------
(* The inductive step, one lemma for each part of IInv.                    *)

LEMMA RequestNext ==
  TypeOK /\ HP!IInv /\ RequestInv /\ FreshInv /\ [Next]_vars => RequestInv'
<1> DEFINE Inv(q) ==
    /\ stage[q] = "log" <=> pc[q] # "idle"
    /\ stage[q] = "log" => target[q] = job[q]
    /\ stage[q] \in {"push", "log"} =>
         /\ job[q].event \in DOMAIN stored
         /\ stored[job[q].event] = job[q].endpoint
         /\ asked[job[q].event] > 0
    /\ \A a \in attempts[q] : EndpointOf[a.device] = target[q].endpoint
    /\ logged[q] \subseteq attempts[q]
<1> SUFFICES ASSUME TypeOK, HP!IInv, RequestInv, FreshInv, [Next]_vars, NEW q \in Senders
             PROVE  Inv(q)'
  BY DEF RequestInv
<1>0. Inv(q)
  BY DEF RequestInv
<1>t. OwnTypeOK /\ pc \in [Senders -> {"idle", "sending", "returned"}]
      /\ target \in [Senders -> hub!Message] /\ attempts \in [Senders -> SUBSET hub!Attempt]
  BY DEF TypeOK, OwnTypeOK, hub!TypeOK
<1>1. ASSUME NEW r \in Senders, NEW e \in Endpoints, ReceiveWebhook(r, e)
      PROVE  Inv(q)'
  BY <1>0, <1>t, <1>1 DEF ReceiveWebhook, Goto, hubVars, tables, history, OwnTypeOK
<1>2. ASSUME NEW r \in Senders, CreateEvent(r)
      PROVE  Inv(q)'
  <2>1. stage[q] \in {"push", "log"} => job[q].event # job[r].event
    BY <1>0, <1>2 DEF CreateEvent, FreshInv
  <2>2. job[r].event \in Events
    BY <1>t DEF OwnTypeOK, hub!Message
  <2>3. QED
    BY <1>0, <1>t, <1>2, <2>1, <2>2 DEF CreateEvent, Goto, hubVars, OwnTypeOK
<1>3. ASSUME NEW r \in Senders, CreateEventFails(r)
      PROVE  Inv(q)'
  <2>1. stage[q] \in {"push", "log"} => job[q].event # job[r].event
    BY <1>0, <1>3 DEF CreateEventFails, FreshInv
  <2>2. QED
    BY <1>0, <1>t, <1>3, <2>1 DEF CreateEventFails, Fail, Finish, hubVars, OwnTypeOK
<1>4. ASSUME NEW r \in Senders, NEW v \in Events, ReplayEvent(r, v)
      PROVE  Inv(q)'
  BY <1>0, <1>t, <1>4 DEF ReplayEvent, FindUserEvent, Goto, hubVars, tables, OwnTypeOK
<1>5. ASSUME NEW r \in Senders, Push(r)
      PROVE  Inv(q)'
  <2>1. eventToPayload(r) = job[r]
    BY <1>t DEF OwnTypeOK, eventToPayload, hub!Message
  <2>2. attempts[r] = {}
    BY <1>5, IdleAttempts DEF Push, hub!CallSend
  <2>3. QED
    BY <1>0, <1>t, <1>5, <2>1, <2>2 DEF Push, hub!CallSend, Goto, tables, history, OwnTypeOK
<1>6. ASSUME NEW r \in Senders, NEW d \in Devices, Deliver(r, d)
      PROVE  Inv(q)'
  <2>1. /\ EndpointOf[d] = target[r].endpoint
        /\ UNCHANGED <<pc, target, stored, stage, job, logged, asked>>
        /\ \E st \in {"delivered", "failed"} :
             attempts' = [attempts EXCEPT ![r] = @ \cup {[device |-> d, status |-> st]}]
    BY <1>6, DeliverEffect DEF tables, requestVars, Delivered
  <2>2. QED
    BY <1>0, <1>t, <2>1
<1>7. ASSUME NEW r \in Senders, ReturnSend(r)
      PROVE  Inv(q)'
  BY <1>0, <1>t, <1>7 DEF ReturnSend, hub!ReturnSend, tables, requestVars, history
<1>8. ASSUME NEW r \in Senders, NEW a \in attempts[r], CreateDeliveryLog(r, a)
      PROVE  Inv(q)'
  BY <1>0, <1>t, <1>8 DEF CreateDeliveryLog, hubVars, history, OwnTypeOK
<1>9. ASSUME NEW r \in Senders, hub!TakeAttempts(r), Finish(r), UNCHANGED <<stored, asked>>
      PROVE  Inv(q)'
  BY <1>0, <1>t, <1>9 DEF hub!TakeAttempts, Finish, OwnTypeOK
<1>10. ASSUME NEW s \in Streams, Connection(s)
       PROVE  Inv(q)'
  <2>1. UNCHANGED <<pc, target, attempts>>
    BY <1>10 DEF Connection, hub!StreamStep, hub!Connect, hub!AcquireLock, hub!Register,
                 hub!Receive, hub!Disconnect, hub!Unregister, hub!senderVars
  <2>2. QED
    BY <1>0, <1>10, <2>1 DEF Connection, tables, requestVars, history
<1>11. ASSUME NEW e \in Endpoints, NEW st \in {"active", "inactive", "deleted"}, SetStatus(e, st)
       PROVE  Inv(q)'
  BY <1>0, <1>11 DEF SetStatus, hubVars, requestVars, history
<1>12. CASE Crash
  BY <1>12 DEF Crash, hub!NewHub
<1>13. CASE UNCHANGED vars
  BY <1>0, <1>13 DEF vars, hubVars, tables, requestVars, history
<1>14. QED
  BY <1>1, <1>2, <1>3, <1>4, <1>5, <1>6, <1>7, <1>8, <1>9, <1>10, <1>11, <1>12, <1>13
     DEF Next, Request, Log, CreateDeliveryLog, CreateDeliveryLogFails, Fail, Answer, tables

LEMMA FreshNext ==
  TypeOK /\ RequestInv /\ FreshInv /\ [Next]_vars => FreshInv'
<1> SUFFICES ASSUME TypeOK, RequestInv, FreshInv, [Next]_vars
             PROVE  FreshInv'
  OBVIOUS
<1>t. OwnTypeOK
  BY DEF TypeOK, OwnTypeOK
<1>1. ASSUME NEW r \in Senders, NEW e \in Endpoints, ReceiveWebhook(r, e)
      PROVE  FreshInv'
  <2>1. PICK v \in FreshEvents : job' = [job EXCEPT ![r] = [endpoint |-> e, event |-> v]]
    BY <1>1 DEF ReceiveWebhook
  <2>2. v \notin DOMAIN stored /\ \A q \in Senders : stage[q] = "store" => job[q].event # v
    BY <2>1 DEF FreshEvents
  <2>3. QED
    BY <1>t, <1>1, <2>1, <2>2 DEF ReceiveWebhook, Goto, tables, FreshInv, OwnTypeOK
<1>2. ASSUME NEW r \in Senders, stage[r] = "store",
             UNCHANGED stored \/ DOMAIN stored' = DOMAIN stored \cup {job[r].event},
             CreateEvent(r) \/ CreateEventFails(r)
      PROVE  FreshInv'
  <2>1. \A q \in Senders : stage'[q] = "store" => /\ q # r /\ stage[q] = "store"
                                                  /\ job'[q] = job[q]
    BY <1>t, <1>2 DEF CreateEvent, CreateEventFails, Fail, Finish, Goto, OwnTypeOK
  <2>2. QED
    BY <1>2, <2>1 DEF FreshInv
<1>3. ASSUME UNCHANGED stored,
             \A q \in Senders : stage'[q] = "store" => stage[q] = "store" /\ job'[q] = job[q]
      PROVE  FreshInv'
  BY <1>3 DEF FreshInv
<1>4. ASSUME NEW r \in Senders, NEW v \in Events, ReplayEvent(r, v)
      PROVE  FreshInv'
  BY <1>t, <1>3, <1>4 DEF ReplayEvent, Goto, tables, OwnTypeOK
<1>5. ASSUME NEW r \in Senders, Push(r)
      PROVE  FreshInv'
  BY <1>t, <1>3, <1>5 DEF Push, Goto, tables, OwnTypeOK
<1>6. ASSUME NEW r \in Senders, Finish(r), UNCHANGED stored
      PROVE  FreshInv'
  BY <1>t, <1>3, <1>6 DEF Finish, OwnTypeOK
<1>7. CASE Crash
  BY <1>3, <1>7 DEF Crash, tables
<1>8. ASSUME UNCHANGED <<stored, stage, job>>
      PROVE  FreshInv'
  BY <1>3, <1>8
<1>9. QED
  BY <1>1, <1>2, <1>4, <1>5, <1>6, <1>7, <1>8
     DEF Next, Request, Log, vars, tables, requestVars, CreateEvent, CreateEventFails, Deliver,
         ReturnSend, CreateDeliveryLog, CreateDeliveryLogFails, Fail, Answer, Connection, SetStatus

(* A stored event stays under its endpoint.                                *)
LEMMA StoredStays ==
  ASSUME TypeOK, FreshInv, [Next]_vars, NEW v \in DOMAIN stored
  PROVE  v \in DOMAIN stored' /\ stored'[v] = stored[v]
<1>1. CASE UNCHANGED stored
  BY <1>1
<1>2. ASSUME NEW r \in Senders, stage[r] = "store",
             stored' = [k \in DOMAIN stored \cup {job[r].event} |->
                          IF k = job[r].event THEN job[r].endpoint ELSE stored[k]]
      PROVE  v \in DOMAIN stored' /\ stored'[v] = stored[v]
  BY <1>2 DEF FreshInv
<1>3. QED
  BY <1>1, <1>2
     DEF Next, Request, Log, vars, tables, ReceiveWebhook, CreateEvent, CreateEventFails,
         ReplayEvent, Push, Deliver, ReturnSend, CreateDeliveryLog, CreateDeliveryLogFails,
         Answer, Connection, SetStatus, Crash

(* What is in a channel was there before, or a push has just put it there. *)
LEMMA ChannelStep ==
  ASSUME TypeOK, HP!IInv, RequestInv, [Next]_vars,
         NEW s \in Streams, NEW i \in DOMAIN chan'[s]
  PROVE  \/ \E j \in DOMAIN chan[s] : chan'[s][i] = chan[s][j]
         \/ \E r \in Senders : stage[r] = "log" /\ chan'[s][i] = job[r]
<1> DEFINE Goal == \/ \E j \in DOMAIN chan[s] : chan'[s][i] = chan[s][j]
                   \/ \E r \in Senders : stage[r] = "log" /\ chan'[s][i] = job[r]
<1>t. chan \in [Streams -> Seq(hub!Message)] /\ target \in [Senders -> hub!Message]
  BY DEF TypeOK, hub!TypeOK
<1>1. CASE UNCHANGED chan
  BY <1>1
<1>2. ASSUME NEW t \in Streams, chan' = [chan EXCEPT ![t] = <<>>]
      PROVE  Goal
  BY <1>t, <1>2
<1>3. ASSUME NEW t \in Streams, chan[t] # <<>>, chan' = [chan EXCEPT ![t] = Tail(chan[t])]
      PROVE  Goal
  <2>1. CASE s = t
    <3>1. i \in DOMAIN Tail(chan[s])
      BY <1>t, <1>3, <2>1
    <3>2. i + 1 \in DOMAIN chan[s] /\ Tail(chan[s])[i] = chan[s][i + 1]
      BY <1>t, <1>3, <2>1, <3>1
    <3>3. QED
      BY <1>t, <1>3, <2>1, <3>2
  <2>2. QED
    BY <1>t, <1>3, <2>1
<1>4. ASSUME NEW r \in Senders, NEW d \in Devices, Deliver(r, d)
      PROVE  Goal
  <2>1. target[r] = job[r] /\ stage[r] = "log"
    BY <1>4, DeliverEffect DEF RequestInv
  <2>2. ASSUME NEW t \in Streams, chan' = [chan EXCEPT ![t] = Append(@, target[r])]
        PROVE  Goal
    <3>1. CASE s = t
      <4>1. i \in DOMAIN Append(chan[s], target[r])
        BY <1>t, <2>2, <3>1
      <4>2. \/ i \in DOMAIN chan[s] /\ Append(chan[s], target[r])[i] = chan[s][i]
            \/ Append(chan[s], target[r])[i] = target[r]
        BY <1>t, <4>1
      <4>3. QED
        BY <1>t, <2>1, <2>2, <3>1, <4>2
    <3>2. QED
      BY <1>t, <2>2, <3>1
  <2>3. QED
    BY <1>1, <1>4, <2>2, DeliverEffect
<1>5. ASSUME NEW t \in Streams, Connection(t)
      PROVE  Goal
  BY <1>1, <1>2, <1>3, <1>5
     DEF Connection, hub!StreamStep, hub!Connect, hub!AcquireLock, hub!Register,
         hub!Receive, hub!Disconnect, hub!Unregister
<1>6. CASE Crash
  BY <1>6 DEF Crash, hub!NewHub
<1>7. QED
  BY <1>1, <1>4, <1>5, <1>6
     DEF Next, Request, Log, vars, hubVars, ReceiveWebhook, CreateEvent, CreateEventFails,
         ReplayEvent, Push, hub!CallSend, ReturnSend, hub!ReturnSend, CreateDeliveryLog,
         CreateDeliveryLogFails, Answer, hub!TakeAttempts, SetStatus

(* Only Answer acknowledges, and only what its push was about.             *)
LEMMA SeenNext ==
  TypeOK /\ HP!IInv /\ RequestInv /\ FreshInv /\ StoredBeforeSeen /\ [Next]_vars
    => StoredBeforeSeen'
<1> SUFFICES ASSUME TypeOK, HP!IInv, RequestInv, FreshInv, StoredBeforeSeen, [Next]_vars
             PROVE  StoredBeforeSeen'
  OBVIOUS
<1>1. ASSUME NEW s \in Streams, NEW i \in DOMAIN chan'[s]
      PROVE  /\ chan'[s][i].event \in DOMAIN stored'
             /\ stored'[chan'[s][i].event] = chan'[s][i].endpoint
  <2>1. /\ chan'[s][i].event \in DOMAIN stored
        /\ stored[chan'[s][i].event] = chan'[s][i].endpoint
    BY <1>1, ChannelStep DEF StoredBeforeSeen, RequestInv
  <2>2. QED
    BY <2>1, StoredStays
<1>2. acked' \subseteq DOMAIN stored
  <2>1. ASSUME NEW r \in Senders, Answer(r)
        PROVE  acked' \subseteq DOMAIN stored
    BY <2>1 DEF Answer, Acknowledge, RequestInv, StoredBeforeSeen
  <2>2. QED
    BY <2>1
       DEF StoredBeforeSeen, Next, Request, Log, vars, history, ReceiveWebhook, CreateEvent,
           CreateEventFails, Fail, ReplayEvent, Push, Deliver, ReturnSend, CreateDeliveryLog,
           CreateDeliveryLogFails, Connection, SetStatus, Crash
<1>3. QED
  BY <1>1, <1>2, StoredStays DEF StoredBeforeSeen

(* Counting finite sets.                                                   *)
LEMMA CountSubset ==
  ASSUME NEW S, IsFiniteSet(S), NEW T, T \subseteq S
  PROVE  /\ IsFiniteSet(T) /\ Cardinality(T) \in Nat /\ Cardinality(S) \in Nat
         /\ Cardinality(T) <= Cardinality(S)
BY FS_Subset, FS_CardinalityType

LEMMA CountAdded ==
  ASSUME NEW S, IsFiniteSet(S), NEW x, x \notin S
  PROVE  /\ IsFiniteSet(S \cup {x})
         /\ Cardinality(S) \in Nat
         /\ Cardinality(S \cup {x}) = Cardinality(S) + 1
<1>1. IsFiniteSet(S \cup {x}) /\ Cardinality(S \cup {x}) = Cardinality(S) + 1
  BY FS_AddElement, Zenon
<1>2. Cardinality(S) \in Nat
  BY FS_CardinalityType
<1>3. QED
  BY <1>1, <1>2

LEMMA CountRemoved ==
  ASSUME NEW S, IsFiniteSet(S), NEW x \in S
  PROVE  /\ IsFiniteSet(S \ {x}) /\ Cardinality(S \ {x}) \in Nat
         /\ Cardinality(S) \in Nat
         /\ Cardinality(S) = Cardinality(S \ {x}) + 1
<1>1. IsFiniteSet(S \ {x}) /\ Cardinality(S \ {x}) = Cardinality(S) - 1
  BY FS_RemoveElement, Zenon
<1>2. Cardinality(S) \in Nat /\ Cardinality(S \ {x}) \in Nat
  BY <1>1, FS_CardinalityType
<1>3. QED
  BY <1>1, <1>2

LEMMA CountMore ==
  ASSUME NEW S, IsFiniteSet(S), NEW x, NEW T, T \subseteq S \cup {x}
  PROVE  /\ IsFiniteSet(T) /\ Cardinality(T) \in Nat
         /\ Cardinality(T) <= Cardinality(S) + 1
<1>1. CASE x \in S
  <2>1. T \subseteq S
    BY <1>1
  <2>2. QED
    BY <2>1, CountSubset
<1>2. CASE x \notin S
  <2> DEFINE U == S \cup {x}
  <2>1. /\ IsFiniteSet(U) /\ Cardinality(S) \in Nat
        /\ Cardinality(U) = Cardinality(S) + 1
    BY <1>2, CountAdded
  <2>2. T \subseteq U
    OBVIOUS
  <2> HIDE DEF U
  <2>3. IsFiniteSet(T) /\ Cardinality(T) \in Nat /\ Cardinality(T) <= Cardinality(U)
    BY <2>1, <2>2, CountSubset
  <2>4. QED
    BY <2>1, <2>3
<1>3. QED
  BY <1>1, <1>2

LEMMA CountFewer ==
  ASSUME NEW S, IsFiniteSet(S), NEW x \in S, NEW T, T \subseteq S \ {x}
  PROVE  /\ IsFiniteSet(T) /\ Cardinality(T) \in Nat
         /\ Cardinality(T) + 1 <= Cardinality(S)
<1> DEFINE U == S \ {x}
<1>1. /\ IsFiniteSet(U) /\ Cardinality(U) \in Nat /\ Cardinality(S) \in Nat
      /\ Cardinality(S) = Cardinality(U) + 1
  BY CountRemoved
<1>2. T \subseteq U
  OBVIOUS
<1> HIDE DEF U
<1>3. IsFiniteSet(T) /\ Cardinality(T) \in Nat /\ Cardinality(T) <= Cardinality(U)
  BY <1>1, <1>2, CountSubset
<1>4. QED
  BY <1>1, <1>3

(* A webhook or a replay adds one push that is asked for, a delivery takes *)
(* one away, and nothing else adds any.                                    *)
LEMMA SentNext ==
  TypeOK /\ HP!IInv /\ RequestInv /\ SentInv /\ [Next]_vars => SentInv'
<1> DEFINE Inv(v, d) == /\ IsFiniteSet(Owed(v, d))
                        /\ entered[<<v, d>>] + Cardinality(Owed(v, d)) <= asked[v]
<1> SUFFICES ASSUME TypeOK, HP!IInv, RequestInv, SentInv, [Next]_vars,
                    NEW v \in Events, NEW d \in Devices
             PROVE  Inv(v, d)'
  BY DEF SentInv
<1>0. Inv(v, d)
  BY DEF SentInv
<1>t. /\ OwnTypeOK /\ attempts \in [Senders -> SUBSET hub!Attempt]
      /\ entered[<<v, d>>] \in Nat /\ asked[v] \in Nat /\ Cardinality(Owed(v, d)) \in Nat
  BY <1>0, FS_CardinalityType DEF TypeOK, OwnTypeOK, hub!TypeOK
<1>same. ASSUME Owed(v, d)' \subseteq Owed(v, d), UNCHANGED <<entered, asked>>
         PROVE  Inv(v, d)'
  <2>1. /\ IsFiniteSet(Owed(v, d)')
        /\ Cardinality(Owed(v, d)') \in Nat
        /\ Cardinality(Owed(v, d)') <= Cardinality(Owed(v, d))
    BY <1>0, <1>same, CountSubset
  <2>2. QED
    BY <1>0, <1>t, <1>same, <2>1
<1>more. ASSUME NEW r \in Senders, NEW e \in Events,
                \A q \in Senders \ {r} : q \in Owed(v, d)' => q \in Owed(v, d),
                r \in Owed(v, d)' => e = v,
                asked' = [asked EXCEPT ![e] = @ + 1], UNCHANGED entered
         PROVE  Inv(v, d)'
  <2>1. CASE e # v
    <3>1. Owed(v, d)' \subseteq Owed(v, d) /\ asked'[v] = asked[v]
      BY <1>t, <1>more, <2>1 DEF Owed, OwnTypeOK
    <3>2. /\ IsFiniteSet(Owed(v, d)')
          /\ Cardinality(Owed(v, d)') \in Nat
          /\ Cardinality(Owed(v, d)') <= Cardinality(Owed(v, d))
      BY <1>0, <3>1, CountSubset
    <3>3. QED
      BY <1>0, <1>t, <1>more, <3>1, <3>2
  <2>2. CASE e = v
    <3>1. Owed(v, d)' \subseteq Owed(v, d) \cup {r} /\ asked'[v] = asked[v] + 1
      BY <1>t, <1>more, <2>2 DEF Owed, OwnTypeOK
    <3>2. /\ IsFiniteSet(Owed(v, d)')
          /\ Cardinality(Owed(v, d)') \in Nat
          /\ Cardinality(Owed(v, d)') <= Cardinality(Owed(v, d)) + 1
      BY <1>0, <3>1, CountMore
    <3>3. QED
      BY <1>0, <1>t, <1>more, <3>1, <3>2
  <2>3. QED
    BY <2>1, <2>2
<1>1. ASSUME NEW r \in Senders, NEW e \in Endpoints, ReceiveWebhook(r, e)
      PROVE  Inv(v, d)'
  BY <1>t, <1>1, <1>same DEF ReceiveWebhook, Goto, hubVars, history, Owed, OwnTypeOK
<1>2. ASSUME NEW r \in Senders, CreateEvent(r)
      PROVE  Inv(v, d)'
  <2>1. job[r].event \in Events
    BY <1>t DEF OwnTypeOK, hub!Message
  <2>2. QED
    BY <1>t, <1>2, <1>more, <2>1 DEF CreateEvent, Goto, hubVars, Owed, OwnTypeOK
<1>3. ASSUME NEW r \in Senders, CreateEventFails(r)
      PROVE  Inv(v, d)'
  BY <1>t, <1>3, <1>same DEF CreateEventFails, Fail, Finish, hubVars, Owed, OwnTypeOK
<1>4. ASSUME NEW r \in Senders, NEW e \in Events, ReplayEvent(r, e)
      PROVE  Inv(v, d)'
  BY <1>t, <1>4, <1>more DEF ReplayEvent, Goto, hubVars, Owed, OwnTypeOK
<1>5. ASSUME NEW r \in Senders, Push(r)
      PROVE  Inv(v, d)'
  BY <1>t, <1>5, <1>same DEF Push, hub!CallSend, Goto, history, Owed, OwnTypeOK
<1>6. ASSUME NEW r \in Senders, NEW b \in Devices, Deliver(r, b)
      PROVE  Inv(v, d)'
  <2>1. stage[r] = "log" /\ target[r] = job[r] /\ target[r].event \in Events
    BY <1>t, <1>6, DeliverEffect DEF RequestInv, OwnTypeOK, hub!Message
  <2>2. /\ UNCHANGED <<stage, job, asked>>
        /\ \A a \in attempts[r] : a.device # b
    BY <1>6, DeliverEffect DEF requestVars
  <2>3. CASE /\ attempts' = [attempts EXCEPT ![r] = @ \cup {Delivered(b)}]
             /\ entered' = [entered EXCEPT ![<<target[r].event, b>>] = @ + 1]
    <3>1. CASE target[r].event = v /\ b = d
      <4>1. r \in Owed(v, d)
        BY <2>1, <2>2, <3>1 DEF Owed, Delivered
      <4>2. Owed(v, d)' \subseteq Owed(v, d) \ {r}
        BY <1>t, <2>2, <2>3, <3>1 DEF Owed
      <4>3. /\ IsFiniteSet(Owed(v, d)')
            /\ Cardinality(Owed(v, d)') \in Nat
            /\ Cardinality(Owed(v, d)') + 1 <= Cardinality(Owed(v, d))
        BY <1>0, <4>1, <4>2, CountFewer
      <4>4. entered'[<<v, d>>] = entered[<<v, d>>] + 1
        BY <1>t, <2>3, <3>1 DEF OwnTypeOK
      <4>5. QED
        BY <1>0, <1>t, <2>2, <4>3, <4>4
    <3>2. CASE ~ (target[r].event = v /\ b = d)
      <4>1. Owed(v, d)' \subseteq Owed(v, d)
        BY <1>t, <2>2, <2>3 DEF Owed
      <4>2. entered'[<<v, d>>] = entered[<<v, d>>]
        BY <1>t, <2>3, <3>2 DEF OwnTypeOK
      <4>3. /\ IsFiniteSet(Owed(v, d)')
            /\ Cardinality(Owed(v, d)') \in Nat
            /\ Cardinality(Owed(v, d)') <= Cardinality(Owed(v, d))
        BY <1>0, <4>1, CountSubset
      <4>4. QED
        BY <1>0, <1>t, <2>2, <4>2, <4>3
    <3>3. QED
      BY <3>1, <3>2
  <2>4. CASE /\ attempts' = [attempts EXCEPT ![r] = @ \cup {[device |-> b, status |-> "failed"]}]
             /\ UNCHANGED <<entered, chan>>
    BY <1>t, <1>same, <2>2, <2>4 DEF Owed, Delivered
  <2>5. QED
    BY <1>6, <2>3, <2>4, DeliverEffect
<1>7. ASSUME NEW r \in Senders, ReturnSend(r)
      PROVE  Inv(v, d)'
  BY <1>7, <1>same DEF ReturnSend, hub!ReturnSend, requestVars, history, Owed
<1>8. ASSUME NEW r \in Senders, hub!TakeAttempts(r), Finish(r), UNCHANGED <<entered, asked>>
      PROVE  Inv(v, d)'
  BY <1>t, <1>8, <1>same DEF hub!TakeAttempts, Finish, Owed, OwnTypeOK
<1>9. ASSUME NEW s \in Streams, Connection(s)
      PROVE  Inv(v, d)'
  <2>1. UNCHANGED attempts
    BY <1>9 DEF Connection, hub!StreamStep, hub!Connect, hub!AcquireLock, hub!Register,
                hub!Receive, hub!Disconnect, hub!Unregister, hub!senderVars
  <2>2. QED
    BY <1>9, <1>same, <2>1 DEF Connection, requestVars, history, Owed
<1>10. CASE Crash
  BY <1>10, <1>same DEF Crash, history, Owed
<1>11. ASSUME UNCHANGED <<attempts, stage, job, history>>
       PROVE  Inv(v, d)'
  BY <1>11, <1>same DEF history, Owed
<1>12. QED
  BY <1>1, <1>2, <1>3, <1>4, <1>5, <1>6, <1>7, <1>8, <1>9, <1>10, <1>11
     DEF Next, Request, Log, vars, hubVars, requestVars, history, CreateDeliveryLog,
         CreateDeliveryLogFails, Fail, Answer, SetStatus

(* Only a request in its push writes to the log, for an attempt that it    *)
(* has not logged; when it stays in its push it has logged it then.        *)
LEMMA LogStep ==
  ASSUME TypeOK, [Next]_vars
  PROVE  \/ UNCHANGED logs
         \/ \E r \in Senders : \E a \in attempts[r] \ logged[r] :
              /\ stage[r] = "log"
              /\ logs' = [logs EXCEPT ![Row(r, a)] = @ + 1]
BY DEF Next, Request, Log, vars, tables, ReceiveWebhook, CreateEvent, CreateEventFails, ReplayEvent,
       Push, Deliver, ReturnSend, CreateDeliveryLog, CreateDeliveryLogFails, Answer, Connection,
       SetStatus, Crash

LEMMA LogGrows ==
  ASSUME TypeOK, [Next]_vars, NEW row \in LogRow
  PROVE  logs[row] \in Nat /\ logs'[row] \in Nat /\ logs[row] <= logs'[row]
<1>1. logs \in [LogRow -> Nat] /\ logs' \in [LogRow -> Nat]
  BY OwnTypeNext DEF TypeOK, OwnTypeOK
<1>2. ASSUME NEW r \in Senders, NEW a \in attempts[r],
             logs' = [logs EXCEPT ![Row(r, a)] = @ + 1]
      PROVE  logs[row] <= logs'[row]
  BY <1>1, <1>2
<1>3. QED
  BY <1>1, <1>2, LogStep

LEMMA RowNext ==
  TypeOK /\ HP!IInv /\ RequestInv /\ FreshInv /\ RowInv /\ [Next]_vars => RowInv'
<1> SUFFICES ASSUME TypeOK, HP!IInv, RequestInv, FreshInv, RowInv, [Next]_vars
             PROVE  RowInv'
  OBVIOUS
<1>t. OwnTypeOK
  BY DEF TypeOK, OwnTypeOK
<1> SUFFICES ASSUME NEW row \in LogRow, logs'[row] > 0
             PROVE  row.event \in DOMAIN stored' /\ stored'[row.event] = EndpointOf[row.device]
  BY DEF RowInv
<1>1. row.event \in DOMAIN stored /\ stored[row.event] = EndpointOf[row.device]
  <2>1. CASE UNCHANGED logs
    BY <2>1 DEF RowInv
  <2>2. ASSUME NEW r \in Senders, NEW a \in attempts[r], stage[r] = "log",
               logs' = [logs EXCEPT ![Row(r, a)] = @ + 1]
        PROVE  row.event \in DOMAIN stored /\ stored[row.event] = EndpointOf[row.device]
    <3>1. CASE row = Row(r, a)
      <4>1. row.event = job[r].event /\ row.device = a.device
        BY <3>1 DEF Row
      <4>2. QED
        BY <2>2, <4>1 DEF RequestInv
    <3>2. CASE row # Row(r, a)
      BY <1>t, <2>2, <3>2 DEF RowInv, OwnTypeOK
    <3>3. QED
      BY <3>1, <3>2
  <2>3. QED
    BY <2>1, <2>2, LogStep
<1>2. QED
  BY <1>1, StoredStays

(* Which attempt makes the row that says v was delivered to d.             *)
LEMMA RowDelivered ==
  ASSUME NEW r \in Senders, NEW a \in hub!Attempt, NEW v \in Events, NEW d \in Devices
  PROVE  Row(r, a) = DeliveredRow(v, d) <=> job[r].event = v /\ a = Delivered(d)
BY DEF Row, DeliveredRow, Delivered, hub!Attempt

(* A delivery makes one row due, creating the row pays it, and what is     *)
(* dropped unpaid is dropped by a fault.                                   *)
LEMMA LogNext ==
  TypeOK /\ HP!IInv /\ RequestInv /\ LogInv /\ [Next]_vars => LogInv'
<1> DEFINE row(v, d) == logs[DeliveredRow(v, d)]
           U(v, d) == Unlogged(v, d)
           Inv(v, d) == /\ IsFiniteSet(U(v, d))
                        /\ row(v, d) + Cardinality(U(v, d)) <= entered[<<v, d>>]
                        /\ faults = 0 =>
                             row(v, d) + Cardinality(U(v, d)) = entered[<<v, d>>]
<1> SUFFICES ASSUME TypeOK, HP!IInv, RequestInv, LogInv, [Next]_vars,
                    NEW v \in Events, NEW d \in Devices
             PROVE  Inv(v, d)'
  BY DEF LogInv
<1>0. Inv(v, d)
  BY DEF LogInv
<1>t. /\ OwnTypeOK /\ OwnTypeOK'
      /\ attempts \in [Senders -> SUBSET hub!Attempt]
  BY OwnTypeNext DEF TypeOK, OwnTypeOK, hub!TypeOK
<1>n. /\ DeliveredRow(v, d) \in LogRow /\ Delivered(d) \in hub!Attempt
      /\ row(v, d) \in Nat /\ row(v, d)' \in Nat
      /\ entered[<<v, d>>] \in Nat /\ entered'[<<v, d>>] \in Nat
      /\ faults \in Nat /\ faults' \in Nat
  <2>1. DeliveredRow(v, d) \in LogRow /\ Delivered(d) \in hub!Attempt
    BY DEF DeliveredRow, Delivered, LogRow, hub!Attempt
  <2>2. <<v, d>> \in Events \X Devices
    OBVIOUS
  <2>3. QED
    BY <1>t, <2>1, <2>2, DeliveryAssumption DEF OwnTypeOK
<1>same. ASSUME U(v, d)' = U(v, d), row(v, d)' = row(v, d),
                entered'[<<v, d>>] = entered[<<v, d>>], faults' = 0 => faults = 0
         PROVE  Inv(v, d)'
  BY <1>0, <1>same
<1>fault. ASSUME U(v, d)' \subseteq U(v, d), UNCHANGED <<logs, entered>>, faults' = faults + 1
          PROVE  Inv(v, d)'
  <2>1. /\ IsFiniteSet(U(v, d)')
        /\ Cardinality(U(v, d)) \in Nat /\ Cardinality(U(v, d)') \in Nat
        /\ Cardinality(U(v, d)') <= Cardinality(U(v, d))
    BY <1>0, <1>fault, CountSubset
  <2>2. QED
    BY <1>0, <1>n, <1>fault, <2>1
<1>paid. ASSUME NEW r \in U(v, d), U(v, d)' = U(v, d) \ {r}, row(v, d)' = row(v, d) + 1,
                UNCHANGED entered, faults' = 0 => faults = 0
         PROVE  Inv(v, d)'
  <2>1. /\ IsFiniteSet(U(v, d)')
        /\ Cardinality(U(v, d)) \in Nat /\ Cardinality(U(v, d)') \in Nat
        /\ Cardinality(U(v, d)) = Cardinality(U(v, d)') + 1
    BY <1>0, <1>paid, CountRemoved
  <2>2. QED
    BY <1>0, <1>n, <1>paid, <2>1
<1> HIDE DEF Inv
<1>1. ASSUME NEW r \in Senders, NEW b \in Devices, Deliver(r, b)
      PROVE  Inv(v, d)'
  <2>1. /\ stage[r] = "log" /\ target[r] = job[r] /\ target[r].event \in Events
        /\ \A a \in attempts[r] : a.device # b
        /\ UNCHANGED <<stage, job, logged, logs, faults>>
    <3>1. /\ pc[r] = "sending" /\ \A a \in attempts[r] : a.device # b
          /\ UNCHANGED <<stage, job, logged, logs, faults>>
      BY <1>1, DeliverEffect DEF tables, requestVars, counters
    <3>2. QED
      BY <1>t, <3>1 DEF RequestInv, OwnTypeOK, hub!Message
  <2>2. ASSUME attempts' = [attempts EXCEPT ![r] = @ \cup {Delivered(b)}],
               entered' = [entered EXCEPT ![<<target[r].event, b>>] = @ + 1]
        PROVE  Inv(v, d)'
    <3>1. CASE target[r].event = v /\ b = d
      <4>1. Delivered(d) \notin attempts[r] /\ Delivered(d) \notin logged[r]
        BY <2>1, <3>1 DEF Delivered, RequestInv
      <4>2. r \notin U(v, d) /\ U(v, d)' = U(v, d) \cup {r}
        BY <1>t, <2>1, <2>2, <3>1, <4>1 DEF Unlogged
      <4>3. /\ IsFiniteSet(U(v, d)')
            /\ Cardinality(U(v, d)) \in Nat
            /\ Cardinality(U(v, d)') = Cardinality(U(v, d)) + 1
        BY <1>0, <4>2, CountAdded DEF Inv
      <4>4. entered'[<<v, d>>] = entered[<<v, d>>] + 1
        BY <1>t, <2>2, <3>1 DEF OwnTypeOK
      <4>5. QED
        BY <1>0, <1>n, <2>1, <4>3, <4>4 DEF Inv
    <3>2. CASE ~ (target[r].event = v /\ b = d)
      <4>1. U(v, d)' = U(v, d)
        BY <1>t, <2>1, <2>2, <3>2 DEF Unlogged, Delivered
      <4>2. entered'[<<v, d>>] = entered[<<v, d>>]
        BY <1>t, <2>2, <3>2 DEF OwnTypeOK
      <4>3. QED
        BY <1>same, <2>1, <4>1, <4>2
    <3>3. QED
      BY <3>1, <3>2
  <2>3. ASSUME attempts' = [attempts EXCEPT ![r] = @ \cup {[device |-> b, status |-> "failed"]}],
               UNCHANGED entered
        PROVE  Inv(v, d)'
    <3>1. U(v, d)' = U(v, d)
      BY <1>t, <2>1, <2>3 DEF Unlogged, Delivered
    <3>2. QED
      BY <1>same, <2>1, <2>3, <3>1
  <2>4. QED
    BY <1>1, <2>2, <2>3, DeliverEffect
<1>2. ASSUME NEW r \in Senders, NEW a \in attempts[r], CreateDeliveryLog(r, a)
      PROVE  Inv(v, d)'
  <2>1. a \in hub!Attempt /\ Row(r, a) \in LogRow
    BY RowType
  <2>2. CASE job[r].event = v /\ a = Delivered(d)
    <3>1. r \in U(v, d) /\ U(v, d)' = U(v, d) \ {r}
      BY <1>t, <1>2, <2>2 DEF CreateDeliveryLog, Unlogged, hubVars, OwnTypeOK
    <3>2. row(v, d)' = row(v, d) + 1
      BY <1>t, <1>2, <2>1, <2>2, RowDelivered DEF CreateDeliveryLog, OwnTypeOK
    <3>3. QED
      BY <1>2, <1>paid, <3>1, <3>2 DEF CreateDeliveryLog, history, counters
  <2>3. CASE ~ (job[r].event = v /\ a = Delivered(d))
    <3>1. U(v, d)' = U(v, d)
      BY <1>t, <1>2, <2>3 DEF CreateDeliveryLog, Unlogged, hubVars, OwnTypeOK
    <3>2. row(v, d)' = row(v, d)
      BY <1>t, <1>n, <1>2, <2>1, <2>3, RowDelivered DEF CreateDeliveryLog, OwnTypeOK
    <3>3. QED
      BY <1>2, <1>same, <3>1, <3>2 DEF CreateDeliveryLog, history, counters
  <2>4. QED
    BY <2>2, <2>3
<1>3. ASSUME NEW r \in Senders, NEW a \in attempts[r], CreateDeliveryLogFails(r, a)
      PROVE  Inv(v, d)'
  <2>1. a \in hub!Attempt /\ Row(r, a) \in LogRow
    BY RowType
  <2>2. U(v, d)' = U(v, d) \ {r}
    BY <1>t, <1>3 DEF CreateDeliveryLogFails, Fail, Finish, hub!TakeAttempts, Unlogged, OwnTypeOK
  <2>3. UNCHANGED entered /\ faults' = faults + 1
    BY <1>3 DEF CreateDeliveryLogFails, Fail
  <2>4. CASE UNCHANGED logs
    BY <1>fault, <2>2, <2>3, <2>4
  <2>5. CASE logs' = [logs EXCEPT ![Row(r, a)] = @ + 1]
    <3>1. CASE job[r].event = v /\ a = Delivered(d)
      <4>1. r \in U(v, d)
        BY <1>3, <3>1 DEF CreateDeliveryLogFails, Unlogged
      <4>2. row(v, d)' = row(v, d) + 1
        BY <1>t, <2>1, <2>5, <3>1, RowDelivered DEF OwnTypeOK
      <4>3. QED
        BY <1>n, <1>paid, <2>2, <2>3, <4>1, <4>2
    <3>2. CASE ~ (job[r].event = v /\ a = Delivered(d))
      <4>1. row(v, d)' = row(v, d)
        BY <1>t, <1>n, <2>1, <2>5, <3>2, RowDelivered DEF OwnTypeOK
      <4>2. /\ IsFiniteSet(U(v, d)')
            /\ Cardinality(U(v, d)) \in Nat /\ Cardinality(U(v, d)') \in Nat
            /\ Cardinality(U(v, d)') <= Cardinality(U(v, d))
        BY <1>0, <2>2, CountSubset DEF Inv
      <4>3. QED
        BY <1>0, <1>n, <2>3, <4>1, <4>2 DEF Inv
    <3>3. QED
      BY <3>1, <3>2
  <2>6. QED
    BY <1>3, <2>4, <2>5 DEF CreateDeliveryLogFails
<1>4. ASSUME NEW r \in Senders, Answer(r)
      PROVE  Inv(v, d)'
  <2>1. U(v, d)' = U(v, d)
    BY <1>t, <1>4 DEF Answer, Finish, hub!TakeAttempts, Unlogged, OwnTypeOK
  <2>2. QED
    BY <1>4, <1>same, <2>1 DEF Answer, tables, counters
<1>5. ASSUME NEW r \in Senders, Push(r)
      PROVE  Inv(v, d)'
  <2>1. attempts[r] = {}
    BY <1>5, IdleAttempts DEF Push, hub!CallSend
  <2>2. U(v, d)' = U(v, d)
    BY <1>t, <1>5, <2>1 DEF Push, hub!CallSend, Goto, Unlogged, OwnTypeOK
  <2>3. QED
    BY <1>5, <1>same, <2>2 DEF Push, tables, history, counters
<1>6. ASSUME NEW r \in Senders, stage[r] # "log", stage'[r] # "log",
             \A q \in Senders \ {r} : stage'[q] = stage[q] /\ job'[q] = job[q],
             UNCHANGED <<attempts, logged, logs, entered>>, faults' = 0 => faults = 0
      PROVE  Inv(v, d)'
  <2>1. U(v, d)' = U(v, d)
    BY <1>6 DEF Unlogged
  <2>2. QED
    BY <1>6, <1>same, <2>1
<1>7. ASSUME NEW r \in Senders, NEW e \in Endpoints, ReceiveWebhook(r, e)
      PROVE  Inv(v, d)'
  BY <1>t, <1>6, <1>7 DEF ReceiveWebhook, Goto, hubVars, tables, history, counters, OwnTypeOK
<1>8. ASSUME NEW r \in Senders, CreateEvent(r)
      PROVE  Inv(v, d)'
  BY <1>t, <1>6, <1>8 DEF CreateEvent, Goto, hubVars, counters, OwnTypeOK
<1>9. ASSUME NEW r \in Senders, CreateEventFails(r)
      PROVE  Inv(v, d)'
  <2>1. U(v, d)' \subseteq U(v, d)
    BY <1>t, <1>9 DEF CreateEventFails, Fail, Finish, hubVars, Unlogged, OwnTypeOK
  <2>2. QED
    BY <1>9, <1>fault, <2>1 DEF CreateEventFails, Fail
<1>10. ASSUME NEW r \in Senders, NEW e \in Events, ReplayEvent(r, e)
       PROVE  Inv(v, d)'
  BY <1>t, <1>6, <1>10 DEF ReplayEvent, Goto, hubVars, tables, OwnTypeOK
<1>11. ASSUME UNCHANGED <<attempts, stage, job, logged, logs, entered, faults>>
       PROVE  Inv(v, d)'
  <2>1. U(v, d)' = U(v, d)
    BY <1>11 DEF Unlogged
  <2>2. QED
    BY <1>11, <1>same, <2>1
<1>12. ASSUME NEW s \in Streams, Connection(s)
       PROVE  Inv(v, d)'
  <2>1. UNCHANGED attempts
    BY <1>12 DEF Connection, hub!StreamStep, hub!Connect, hub!AcquireLock, hub!Register,
                 hub!Receive, hub!Disconnect, hub!Unregister, hub!senderVars
  <2>2. QED
    BY <1>11, <1>12, <2>1 DEF Connection, tables, requestVars, history, counters
<1>13. ASSUME NEW r \in Senders, ReturnSend(r)
       PROVE  Inv(v, d)'
  BY <1>11, <1>13 DEF ReturnSend, hub!ReturnSend, tables, requestVars, history, counters
<1>14. CASE Crash
  <2>1. U(v, d)' \subseteq U(v, d)
    BY <1>14 DEF Crash, Unlogged
  <2>2. QED
    BY <1>14, <1>fault, <2>1 DEF Crash, tables, history
<1>15. ASSUME NEW e \in Endpoints, NEW st \in {"active", "inactive", "deleted"}, SetStatus(e, st)
       PROVE  Inv(v, d)'
  BY <1>11, <1>15 DEF SetStatus, hubVars, requestVars, history, counters
<1>16. CASE UNCHANGED vars
  BY <1>11, <1>16 DEF vars, hubVars, tables, requestVars, history, counters
<1>17. QED
  BY <1>1, <1>2, <1>3, <1>4, <1>5, <1>7, <1>8, <1>9, <1>10, <1>12, <1>13, <1>14, <1>15, <1>16
     DEF Next, Request, Log, CreateDeliveryLog, CreateDeliveryLogFails
(* Which attempt makes a row.                                              *)
LEMMA RowTried ==
  ASSUME NEW r \in Senders, NEW a \in hub!Attempt, NEW row \in LogRow
  PROVE  row = Row(r, a) <=> job[r].event = row.event /\ a = Tried(row)
BY DEF Row, LogRow, Tried, hub!Attempt

(* Creating a row lists its push, the answer takes the push off the list   *)
(* with all its rows, and nothing else lists one or counts one answered.   *)
LEMMA AnswerNext ==
  TypeOK /\ HP!IInv /\ RequestInv /\ AnswerInv /\ [Next]_vars => AnswerInv'
<1> DEFINE Inv(row) == /\ IsFiniteSet(Listed(row))
                       /\ answered[row] + Cardinality(Listed(row)) <= logs[row]
<1> SUFFICES ASSUME TypeOK, HP!IInv, RequestInv, AnswerInv, [Next]_vars, NEW row \in LogRow
             PROVE  Inv(row)'
  BY DEF AnswerInv
<1>0. Inv(row)
  BY DEF AnswerInv
<1>t. OwnTypeOK /\ attempts \in [Senders -> SUBSET hub!Attempt]
  BY DEF TypeOK, OwnTypeOK, hub!TypeOK
<1>n. /\ answered[row] \in Nat /\ Cardinality(Listed(row)) \in Nat
      /\ logs[row] \in Nat /\ logs'[row] \in Nat /\ logs[row] <= logs'[row]
  BY <1>0, <1>t, LogGrows, FS_CardinalityType DEF OwnTypeOK
<1>q. \A r \in Senders : stage[r] # "log" => logged[r] = {}
  BY IdleAttempts DEF RequestInv
<1>same. ASSUME Listed(row)' \subseteq Listed(row), answered'[row] = answered[row]
         PROVE  Inv(row)'
  <2>1. /\ IsFiniteSet(Listed(row)') /\ Cardinality(Listed(row)') \in Nat
        /\ Cardinality(Listed(row)') <= Cardinality(Listed(row))
    BY <1>0, <1>same, CountSubset
  <2>2. QED
    BY <1>0, <1>n, <1>same, <2>1
<1>1. ASSUME NEW r \in Senders, NEW a \in attempts[r], CreateDeliveryLog(r, a)
      PROVE  Inv(row)'
  <2>1. a \in hub!Attempt /\ (row = Row(r, a) <=> job[r].event = row.event /\ a = Tried(row))
    BY RowType, RowTried
  <2>2. CASE row = Row(r, a)
    <3>1. r \notin Listed(row) /\ Listed(row)' = Listed(row) \cup {r}
      BY <1>t, <1>1, <2>1, <2>2 DEF CreateDeliveryLog, Listed, OwnTypeOK, Tried
    <3>2. /\ IsFiniteSet(Listed(row)')
          /\ Cardinality(Listed(row)') = Cardinality(Listed(row)) + 1
      BY <1>0, <3>1, CountAdded
    <3>3. logs'[row] = logs[row] + 1 /\ answered'[row] = answered[row]
      BY <1>t, <1>1, <2>2 DEF CreateDeliveryLog, history, OwnTypeOK
    <3>4. QED
      BY <1>0, <1>n, <3>2, <3>3
  <2>3. CASE row # Row(r, a)
    <3>1. Listed(row)' \subseteq Listed(row)
      BY <1>t, <1>1, <2>1, <2>3 DEF CreateDeliveryLog, Listed, OwnTypeOK, Tried
    <3>2. QED
      BY <1>1, <1>same, <3>1 DEF CreateDeliveryLog, history
  <2>4. QED
    BY <2>2, <2>3
<1>2. ASSUME NEW r \in Senders, Answer(r)
      PROVE  Inv(row)'
  <2>1. Listed(row)' \subseteq Listed(row) \ {r}
    BY <1>t, <1>2 DEF Answer, Finish, Listed, OwnTypeOK, Tried
  <2>2. CASE \E a \in attempts[r] : row = Row(r, a)
    <3>1. PICK a \in attempts[r] : row = Row(r, a)
      BY <2>2
    <3>2. job[r].event = row.event /\ a = Tried(row)
      BY <3>1, RowType, RowTried
    <3>3. r \in Listed(row)
      BY <1>2, <3>2 DEF Answer, Listed
    <3>4. /\ IsFiniteSet(Listed(row)') /\ Cardinality(Listed(row)') \in Nat
          /\ Cardinality(Listed(row)') + 1 <= Cardinality(Listed(row))
      BY <1>0, <2>1, <3>3, CountFewer
    <3>5. answered'[row] = answered[row] + 1
      BY <1>2, <2>2 DEF Answer, Acknowledge
    <3>6. QED
      BY <1>0, <1>n, <3>4, <3>5
  <2>3. CASE ~ \E a \in attempts[r] : row = Row(r, a)
    <3>1. answered'[row] = answered[row]
      BY <1>n, <1>2, <2>3 DEF Answer, Acknowledge
    <3>2. QED
      BY <1>same, <2>1, <3>1
  <2>4. QED
    BY <2>2, <2>3
<1>3. ASSUME NEW r \in Senders, Finish(r), UNCHANGED answered
      PROVE  Inv(row)'
  BY <1>t, <1>same, <1>3 DEF Finish, Listed, OwnTypeOK, Tried
<1>4. ASSUME NEW r \in Senders, logged[r] = {}, UNCHANGED <<logged, answered>>,
             \A q \in Senders \ {r} : stage'[q] = stage[q] /\ job'[q] = job[q]
      PROVE  Inv(row)'
  BY <1>same, <1>4 DEF Listed, Tried
<1>5. ASSUME NEW r \in Senders, NEW e \in Endpoints, ReceiveWebhook(r, e)
      PROVE  Inv(row)'
  BY <1>t, <1>q, <1>4, <1>5 DEF ReceiveWebhook, Goto, history, OwnTypeOK
<1>6. ASSUME NEW r \in Senders, CreateEvent(r)
      PROVE  Inv(row)'
  BY <1>t, <1>q, <1>4, <1>6 DEF CreateEvent, Goto, OwnTypeOK
<1>7. ASSUME NEW r \in Senders, NEW v \in Events, ReplayEvent(r, v)
      PROVE  Inv(row)'
  BY <1>t, <1>q, <1>4, <1>7 DEF ReplayEvent, Goto, OwnTypeOK
<1>8. ASSUME NEW r \in Senders, Push(r)
      PROVE  Inv(row)'
  BY <1>t, <1>q, <1>4, <1>8 DEF Push, Goto, history, OwnTypeOK
<1>9. CASE UNCHANGED <<stage, job, logged, answered>>
  BY <1>same, <1>9 DEF Listed, Tried
<1>10. CASE Crash
  BY <1>same, <1>10 DEF Crash, history, Listed, Tried
<1>11. QED
  BY <1>1, <1>2, <1>3, <1>5, <1>6, <1>7, <1>8, <1>9, <1>10
     DEF Next, Request, Log, vars, requestVars, history, CreateEventFails, Fail, Deliver,
         ReturnSend, CreateDeliveryLog, CreateDeliveryLogFails, Connection, SetStatus
-----------------------------------------------------------------------------
(* The results.                                                            *)

LEMMA InvInit == Init => IInv
<1> SUFFICES ASSUME Init
             PROVE  IInv
  OBVIOUS
<1>1. TypeOK /\ HP!IInv
  BY TypeInit, HubInit DEF Init
<1>2. /\ \A r \in Senders : pc[r] = "idle" /\ attempts[r] = {}
      /\ \A s \in Streams : chan[s] = <<>>
  BY DEF Init, hub!Init
<1>3. RequestInv /\ FreshInv /\ StoredBeforeSeen
  BY <1>2 DEF Init, RequestInv, FreshInv, StoredBeforeSeen
<1>4. RowInv
  BY DEF Init, RowInv
<1>5. ASSUME NEW v \in Events, NEW d \in Devices
      PROVE  /\ Owed(v, d) = {} /\ Unlogged(v, d) = {}
             /\ asked[v] = 0 /\ entered[<<v, d>>] = 0 /\ logs[DeliveredRow(v, d)] = 0
  <2>1. DeliveredRow(v, d) \in LogRow
    BY DEF DeliveredRow, LogRow
  <2>2. QED
    BY <2>1 DEF Init, Owed, Unlogged
<1>6. SentInv /\ LogInv
  BY <1>5, FS_EmptySet DEF SentInv, LogInv
<1>7. \A row \in LogRow : Listed(row) = {} /\ answered[row] = 0 /\ logs[row] = 0
  BY DEF Init, Listed
<1>8. AnswerInv
  BY <1>7, FS_EmptySet DEF AnswerInv
<1>9. QED
  BY <1>1, <1>3, <1>4, <1>6, <1>8 DEF IInv

LEMMA InvNext == IInv /\ [Next]_vars => IInv'
BY TypeNext, RequestNext, FreshNext, SeenNext, SentNext, RowNext, LogNext, AnswerNext DEF IInv

LEMMA Invariant == Spec => []IInv
BY InvInit, InvNext, PTL DEF Spec

(* What is proved of the hub alone holds of it under webhooks, replays and *)
(* crashes: no send on a closed channel, a sound table, and a connection   *)
(* buffers messages of its own endpoint only.                              *)
THEOREM HubStaysSafe ==
  Spec => [](hub!NoSendOnClosed /\ hub!TableSound /\ hub!OwnEndpointOnly)
<1>1. IInv => hub!NoSendOnClosed /\ hub!TableSound /\ hub!OwnEndpointOnly
  BY DEF IInv, HP!IInv, HP!ChannelInv, hub!NoSendOnClosed, hub!Mapped, HP!Mapped,
         hub!TableSound, HP!TableSound, hub!OwnEndpointOnly, HP!OwnEndpointOnly,
         hub!Home, HP!Home
<1>2. QED
  BY <1>1, Invariant, PTL

(* A device never reads, and a client is never promised, an event that the *)
(* database does not hold: PushEvent comes after CreateEvent, and nothing  *)
(* takes a row away.                                                       *)
THEOREM NothingSeenUnstored == Spec => []StoredBeforeSeen
BY Invariant, PTL DEF IInv

(* The rows CreateDeliveryLog writes are about real deliveries, and no     *)
(* more than there were, however often a row fails or is committed unheard *)
(* of.                                                                     *)
THEOREM LogsAreTruthful == Spec => []LogsTruthful
<1>1. ASSUME IInv
      PROVE  LogsTruthful
  <2>1. ASSUME NEW v \in Events, NEW d \in Devices
        PROVE  logs[DeliveredRow(v, d)] <= entered[<<v, d>>]
    <3>1. /\ IsFiniteSet(Unlogged(v, d))
          /\ logs[DeliveredRow(v, d)] + Cardinality(Unlogged(v, d)) <= entered[<<v, d>>]
      BY <1>1 DEF IInv, LogInv
    <3>2. DeliveredRow(v, d) \in LogRow /\ <<v, d>> \in Events \X Devices
      BY DEF DeliveredRow, LogRow
    <3>3. /\ logs[DeliveredRow(v, d)] \in Nat /\ entered[<<v, d>>] \in Nat
          /\ Cardinality(Unlogged(v, d)) \in Nat
      BY <1>1, <3>1, <3>2, FS_CardinalityType DEF IInv, TypeOK
    <3>4. QED
      BY <3>1, <3>3
  <2>2. QED
    BY <1>1, <2>1 DEF IInv, RowInv, LogsTruthful, DeliveredRow
<1>2. QED
  BY <1>1, Invariant, PTL

(* Without a failed call or a crash every delivery has its row when no     *)
(* request is under way: PushEvent loses none of its attempts.             *)
THEOREM LogsAreComplete == Spec => []LogsComplete
<1>1. ASSUME IInv
      PROVE  LogsComplete
  <2>1. ASSUME faults = 0, \A r \in Senders : stage[r] = "idle",
               NEW v \in Events, NEW d \in Devices
        PROVE  logs[DeliveredRow(v, d)] = entered[<<v, d>>]
    <3>1. Unlogged(v, d) = {}
      BY <2>1 DEF Unlogged
    <3>2. logs[DeliveredRow(v, d)] + Cardinality(Unlogged(v, d)) = entered[<<v, d>>]
      BY <1>1, <2>1 DEF IInv, LogInv
    <3>3. DeliveredRow(v, d) \in LogRow
      BY DEF DeliveredRow, LogRow
    <3>4. QED
      BY <1>1, <3>1, <3>2, <3>3, FS_EmptySet DEF IInv, TypeOK
  <2>2. QED
    BY <2>1 DEF LogsComplete, DeliveredRow
<1>2. QED
  BY <1>1, Invariant, PTL

(* PushEvent answers only when its loop over the attempts has ended: the   *)
(* pushes answered with 200 have each a row for each of their attempts,    *)
(* which no other push shares, whatever failed or crashed around them.     *)
THEOREM AnswersAreLogged == Spec => []AnsweredIsLogged
<1>1. ASSUME IInv
      PROVE  AnsweredIsLogged
  <2>1. ASSUME NEW row \in LogRow
        PROVE  answered[row] <= logs[row]
    <3>1. /\ IsFiniteSet(Listed(row))
          /\ answered[row] + Cardinality(Listed(row)) <= logs[row]
      BY <1>1 DEF IInv, AnswerInv
    <3>2. /\ answered[row] \in Nat /\ logs[row] \in Nat
          /\ Cardinality(Listed(row)) \in Nat
      BY <1>1, <3>1, FS_CardinalityType DEF IInv, TypeOK
    <3>3. QED
      BY <3>1, <3>2
  <2>2. QED
    BY <2>1 DEF AnsweredIsLogged
<1>2. QED
  BY <1>1, Invariant, PTL

(* An endpoint that is switched off or deleted takes no event, once the    *)
(* webhooks that found it active are through.                              *)
THEOREM OffIsQuiet == Spec => QuietWhenOff
<1>1. IInv /\ [Next]_vars =>
        [\A e \in Endpoints : Quiet(e) =>
           /\ Quiet(e)' \/ status'[e] = "active"
           /\ \A v \in DOMAIN stored' \ DOMAIN stored : stored'[v] # e]_vars
  <2> SUFFICES ASSUME IInv, [Next]_vars, NEW e \in Endpoints, Quiet(e)
               PROVE  /\ Quiet(e)' \/ status'[e] = "active"
                      /\ \A v \in DOMAIN stored' \ DOMAIN stored : stored'[v] # e
    OBVIOUS
  <2>t. OwnTypeOK
    BY DEF IInv, TypeOK, OwnTypeOK
  <2>1. \A v \in DOMAIN stored' \ DOMAIN stored : stored'[v] # e
    <3>1. ASSUME NEW r \in Senders, stage[r] = "store",
                 stored' = [k \in DOMAIN stored \cup {job[r].event} |->
                              IF k = job[r].event THEN job[r].endpoint ELSE stored[k]]
          PROVE  \A v \in DOMAIN stored' \ DOMAIN stored : stored'[v] # e
      BY <3>1 DEF Quiet
    <3>2. QED
      BY <3>1
         DEF Next, Request, Log, vars, tables, ReceiveWebhook, CreateEvent, CreateEventFails,
             ReplayEvent, Push, Deliver, ReturnSend, CreateDeliveryLog, CreateDeliveryLogFails,
             Answer, Connection, SetStatus, Crash
  <2>2. \A q \in Senders : stage'[q] = "store" => job'[q].endpoint # e
    <3>1. ASSUME NEW r \in Senders, NEW o \in Endpoints, ReceiveWebhook(r, o)
          PROVE  \A q \in Senders : stage'[q] = "store" => job'[q].endpoint # e
      <4>1. o # e
        BY <3>1 DEF ReceiveWebhook, FindActiveEndpointBySlug, Quiet
      <4>2. QED
        BY <2>t, <3>1, <4>1 DEF ReceiveWebhook, Goto, Quiet, OwnTypeOK
    <3>2. ASSUME \A q \in Senders : stage'[q] = "store" => stage[q] = "store" /\ job'[q] = job[q]
          PROVE  \A q \in Senders : stage'[q] = "store" => job'[q].endpoint # e
      BY <3>2 DEF Quiet
    <3>3. ASSUME NEW r \in Senders, \/ CreateEvent(r) \/ Push(r) \/ Finish(r)
                                    \/ \E v \in Events : ReplayEvent(r, v)
          PROVE  \A q \in Senders : stage'[q] = "store" => stage[q] = "store" /\ job'[q] = job[q]
      BY <2>t, <3>3 DEF CreateEvent, Push, Finish, ReplayEvent, Goto, OwnTypeOK
    <3>4. QED
      BY <3>1, <3>2, <3>3
         DEF Next, Request, Log, vars, requestVars, CreateEventFails, Fail, Deliver, ReturnSend,
             CreateDeliveryLog, CreateDeliveryLogFails, Answer, Connection, SetStatus, Crash
  <2>3. status'[e] = status[e] \/ Quiet(e)' \/ status'[e] = "active"
    BY <2>2 DEF Quiet
  <2>4. QED
    BY <2>1, <2>2, <2>3 DEF Quiet
<1>2. QED
  BY <1>1, Invariant, PTL DEF Spec, QuietWhenOff
-----------------------------------------------------------------------------
(* Each step of the server is a step of Inbox or leaves it alone.          *)

(* CreateEvent keeps the event, whether it is heard of or not.             *)
LEMMA AcceptStep ==
  ASSUME IInv, NEW r \in Senders, CreateEvent(r) \/ CreateEventFails(r)
  PROVE  [Box!Next]_(Box!vars)
<1>1. /\ job[r].event \in Events /\ job[r].endpoint \in Endpoints
      /\ job[r].event \notin DOMAIN stored
  BY DEF IInv, FreshInv, TypeOK, hub!Message, CreateEvent, CreateEventFails
<1>2. Box!Accept(job[r].event, job[r].endpoint) \/ UNCHANGED Box!vars
  BY <1>1 DEF CreateEvent, CreateEventFails, Fail, Box!Accept, Box!Ask, Box!vars
<1>3. QED
  BY <1>1, <1>2 DEF Box!Next

(* A message that enters a channel is owed: the event has entered channels *)
(* of the device less often than it was asked for.                         *)
LEMMA SendStep ==
  ASSUME IInv, NEW r \in Senders, NEW d \in Devices, Deliver(r, d)
  PROVE  [Box!Next]_(Box!vars)
<1> DEFINE v == job[r].event
<1>1. /\ pc[r] = "sending" /\ EndpointOf[d] = target[r].endpoint
      /\ \A a \in attempts[r] : a.device # d
      /\ UNCHANGED <<stored, acked, asked>>
  BY DeliverEffect DEF IInv, tables
<1>2. stage[r] = "log" /\ target[r] = job[r] /\ v \in Events
  BY <1>1 DEF IInv, RequestInv, TypeOK, hub!Message
<1>3. v \in DOMAIN stored /\ stored[v] = EndpointOf[d]
  BY <1>1, <1>2 DEF IInv, RequestInv
<1>4. CASE entered' = [entered EXCEPT ![<<v, d>>] = @ + 1]
  <2>1. r \in Owed(v, d)
    BY <1>1, <1>2 DEF Owed, Delivered
  <2>2. IsFiniteSet(Owed(v, d)) /\ entered[<<v, d>>] + Cardinality(Owed(v, d)) <= asked[v]
    BY <1>2 DEF IInv, SentInv
  <2>3. /\ Cardinality(Owed(v, d)) \in Nat /\ Cardinality(Owed(v, d) \ {r}) \in Nat
        /\ Cardinality(Owed(v, d)) = Cardinality(Owed(v, d) \ {r}) + 1
    BY <2>1, <2>2, CountRemoved
  <2>4. entered[<<v, d>>] \in Nat /\ asked[v] \in Nat
    BY <1>2 DEF IInv, TypeOK
  <2>5. entered[<<v, d>>] < asked[v]
    BY <2>2, <2>3, <2>4
  <2>6. Box!Send(v, d)
    BY <1>1, <1>3, <1>4, <2>5 DEF Box!Send
  <2>7. QED
    BY <1>2, <2>6 DEF Box!Next
<1>5. CASE UNCHANGED entered
  BY <1>1, <1>5 DEF Box!vars
<1>6. QED
  BY <1>2, <1>4, <1>5, DeliverEffect DEF IInv

LEMMA ReplayStep ==
  ASSUME IInv, NEW r \in Senders, NEW v \in Events, ReplayEvent(r, v)
  PROVE  Box!Next
<1>1. Box!Replay(v)
  BY DEF ReplayEvent, FindUserEvent, tables, Box!Replay, Box!Ask
<1>2. QED
  BY <1>1 DEF Box!Next

LEMMA AcknowledgeStep ==
  ASSUME IInv, NEW r \in Senders, Answer(r)
  PROVE  Box!Next
<1>1. job[r].event \in Events /\ job[r].event \in DOMAIN stored /\ asked[job[r].event] > 0
  BY DEF IInv, RequestInv, TypeOK, hub!Message, Answer
<1>2. Box!Acknowledge(job[r].event)
  BY <1>1 DEF Answer, Acknowledge, tables, Box!Acknowledge
<1>3. QED
  BY <1>1, <1>2 DEF Box!Next

(* Webhooks and replays over the hub implement Inbox: an event is stored,  *)
(* then pushed to the devices of its endpoint, to each at most once for    *)
(* each webhook or replay of it, over reconnections, failed calls and      *)
(* crashes; and no client has an ID that is not stored.                    *)
THEOREM KeepsItsPromise == Spec => ImplementsInbox
<1>1. Init => Box!Init
  BY DEF Init, Box!Init
<1>2. IInv /\ [Next]_vars => [Box!Next]_(Box!vars)
  <2> SUFFICES ASSUME IInv, [Next]_vars
               PROVE  [Box!Next]_(Box!vars)
    OBVIOUS
  <2>1. ASSUME UNCHANGED <<stored, asked, entered, acked>>
        PROVE  [Box!Next]_(Box!vars)
    BY <2>1 DEF Box!vars
  <2>2. QED
    BY <2>1, AcceptStep, SendStep, ReplayStep, AcknowledgeStep
       DEF Next, Request, Log, vars, tables, history, ReceiveWebhook, Push, ReturnSend,
           CreateDeliveryLog, CreateDeliveryLogFails, Fail, Connection, SetStatus, Crash
<1>3. QED
  BY <1>1, <1>2, Invariant, PTL DEF Spec, ImplementsInbox, Box!Spec
=============================================================================
