------------------------------ MODULE Delivery ------------------------------
(***************************************************************************)
(* Webhook ingestion and replay over the hub: EventService.ReceiveWebhook  *)
(* and ReplayEvent (internal/app/services/event_service.go), and the       *)
(* PushEvent they share (push_service.go).  A sender of the hub is here    *)
(* the goroutine of one HTTP request.  Each call to the database is a step *)
(* of its own, may fail, and when it fails may have been committed all the *)
(* same (the answer was lost, the request's context was cancelled late).   *)
(* The process may crash between any two steps: the hub and the requests   *)
(* are gone, the tables stay.                                              *)
(***************************************************************************)
EXTENDS Naturals, Sequences, FiniteSets

CONSTANTS
  Endpoints, Devices, Streams, Senders, Events, EndpointOf, DeviceOf, BufferSize,
             \* those of the hub; Events are the event IDs the database can hold
  MaxReplays,  \* bound on the replays
  MaxFaults    \* bound on the failed database calls and crashes

ASSUME DeliveryAssumption ==
  /\ Endpoints # {}
  /\ Events # {}
  /\ EndpointOf \in [Devices -> Endpoints]
  /\ DeviceOf \in [Streams -> Devices]
  /\ BufferSize \in Nat \ {0}
  /\ MaxReplays \in Nat
  /\ MaxFaults \in Nat

VARIABLES
  streams, chan, open, phase, pc, target, attempts, writing, reading, waiting, \* Hub
  status,    \* the endpoints table: "active", "inactive" or "deleted"
  stored,    \* the events table: event ID -> endpoint, partial
  logs,      \* the delivery_logs table: how many rows of each kind
  stage,     \* stage[r]: the call that request r makes next
  job,       \* job[r]: the event r is about, with its endpoint
  logged,    \* logged[r]: the attempts of r whose log row is created
  replays, faults,   \* bounded counters
  acked,     \* history: the event IDs answered to a client with 200
  answered,  \* history: the attempts of the pushes so answered, as rows
  asked,     \* history: how many requests have come to push an event
  entered    \* history: how often an event entered a channel of a device

hub == INSTANCE Hub

hubVars == <<streams, chan, open, phase, pc, target, attempts, writing, reading, waiting>>
tables == <<status, stored, logs>>
requestVars == <<stage, job, logged>>
history == <<acked, answered, asked, entered>>
counters == <<replays, faults>>
vars == <<hubVars, tables, requestVars, history, counters>>

LogRow == [event : Events, device : Devices, status : {"delivered", "failed"}]
Row(r, a) == [event |-> job[r].event, device |-> a.device, status |-> a.status]
-----------------------------------------------------------------------------
(* A request ends: its goroutine is free for another one.                  *)
Finish(r) ==
  /\ stage' = [stage EXCEPT ![r] = "idle"]
  /\ job' = [job EXCEPT ![r] = hub!NoCall]
  /\ logged' = [logged EXCEPT ![r] = {}]

(* A database call of r fails, and r answers with an error.                *)
Fail(r) ==
  /\ faults < MaxFaults
  /\ faults' = faults + 1
  /\ Finish(r)
  /\ UNCHANGED <<acked, answered, asked, replays>>

Goto(r, next) == stage' = [stage EXCEPT ![r] = next]

(* The IDs CreateEvent can still mint.                                     *)
FreshEvents == Events \ (DOMAIN stored \cup {job[r].event : r \in {q \in Senders : stage[q] = "store"}})
-----------------------------------------------------------------------------
(* Mutant: is_active is not in the query.                                  *)
FindEndpointBySlug(e) == status[e] # "deleted"

FindActiveEndpointBySlug(e) == status[e] = "active"

(* ReceiveWebhook finds the endpoint by its slug; one that is not active   *)
(* is answered 404 with nothing changed.                                   *)
ReceiveWebhook(r, e) ==
  /\ stage[r] = "idle"
  /\ FindActiveEndpointBySlug(e)
  /\ \E v \in FreshEvents : job' = [job EXCEPT ![r] = [endpoint |-> e, event |-> v]]
  /\ Goto(r, "store")
  /\ UNCHANGED <<hubVars, tables, logged, history, counters>>

CreateEvent(r) ==
  /\ stage[r] = "store"
  /\ stored' = [v \in DOMAIN stored \cup {job[r].event} |->
                  IF v = job[r].event THEN job[r].endpoint ELSE stored[v]]
  /\ asked' = [asked EXCEPT ![job[r].event] = @ + 1]
  /\ Goto(r, "push")
  /\ UNCHANGED <<hubVars, status, logs, job, logged, acked, answered, entered, counters>>

(* Mutant: the error is not checked, and the event is pushed.              *)
CreateEventUnchecked(r) ==
  /\ stage[r] = "store"
  /\ faults < MaxFaults
  /\ faults' = faults + 1
  /\ Goto(r, "push")
  /\ UNCHANGED <<hubVars, tables, job, logged, history, replays>>

CreateEventFails(r) ==
  /\ stage[r] = "store"
  /\ Fail(r)
  /\ \/ UNCHANGED stored
     \/ stored' = [v \in DOMAIN stored \cup {job[r].event} |->
                     IF v = job[r].event THEN job[r].endpoint ELSE stored[v]]
  /\ UNCHANGED <<hubVars, status, logs, entered>>

(* The event of an endpoint that is not deleted, though it may be inactive *)
(* (and that is the user's: ownership is the matter of Endpoints).         *)
FindUserEvent(v) == v \in DOMAIN stored /\ status[stored[v]] # "deleted"

(* ReplayEvent; an event it does not find is answered 404, nothing changed.*)
ReplayEvent(r, v) ==
  /\ stage[r] = "idle"
  /\ replays < MaxReplays
  /\ FindUserEvent(v)
  /\ job' = [job EXCEPT ![r] = [endpoint |-> stored[v], event |-> v]]
  /\ replays' = replays + 1
  /\ asked' = [asked EXCEPT ![v] = @ + 1]
  /\ Goto(r, "push")
  /\ UNCHANGED <<hubVars, tables, logged, acked, answered, entered, faults>>
-----------------------------------------------------------------------------
(* The message carries the ID and the endpoint of the stored row.          *)
eventToPayload(r) == [endpoint |-> job[r].endpoint, event |-> job[r].event]

(* PushEvent: send to the endpoint, then create a log row for each attempt *)
(* in the order of the slice, giving up at the first row that fails.       *)
Push(r) ==
  /\ stage[r] = "push"
  /\ hub!CallSend(r, eventToPayload(r))
  /\ Goto(r, "log")
  /\ UNCHANGED <<tables, job, logged, history, counters>>

Deliver(r, d) ==
  /\ hub!Deliver(r, d)
  /\ entered' = IF chan' = chan THEN entered
                ELSE [entered EXCEPT ![<<target[r].event, d>>] = @ + 1]
  /\ UNCHANGED <<tables, requestVars, acked, answered, asked, counters>>

ReturnSend(r) ==
  /\ hub!ReturnSend(r)
  /\ UNCHANGED <<tables, requestVars, history, counters>>

(* Mutants: every row says "delivered"; a row replaces the earlier one of  *)
(* the same event, device and status.                                      *)
CreateDeliveredLog(r, a) ==
  /\ stage[r] = "log" /\ pc[r] = "returned"
  /\ a \in attempts[r] \ logged[r]
  /\ logs' = [logs EXCEPT ![[Row(r, a) EXCEPT !.status = "delivered"]] = @ + 1]
  /\ logged' = [logged EXCEPT ![r] = @ \cup {a}]
  /\ UNCHANGED <<hubVars, status, stored, stage, job, history, counters>>

ReplaceDeliveryLog(r, a) ==
  /\ stage[r] = "log" /\ pc[r] = "returned"
  /\ a \in attempts[r] \ logged[r]
  /\ logs' = [logs EXCEPT ![Row(r, a)] = 1]
  /\ logged' = [logged EXCEPT ![r] = @ \cup {a}]
  /\ UNCHANGED <<hubVars, status, stored, stage, job, history, counters>>

CreateDeliveryLog(r, a) ==
  /\ stage[r] = "log" /\ pc[r] = "returned"
  /\ a \in attempts[r] \ logged[r]
  /\ logs' = [logs EXCEPT ![Row(r, a)] = @ + 1]
  /\ logged' = [logged EXCEPT ![r] = @ \cup {a}]
  /\ UNCHANGED <<hubVars, status, stored, stage, job, history, counters>>

(* Mutant: a row that fails makes PushEvent start again.                   *)
CreateDeliveryLogRetries(r, a) ==
  /\ stage[r] = "log" /\ pc[r] = "returned"
  /\ a \in attempts[r] \ logged[r]
  /\ faults < MaxFaults
  /\ faults' = faults + 1
  /\ hub!TakeAttempts(r)
  /\ Goto(r, "push")
  /\ logged' = [logged EXCEPT ![r] = {}]
  /\ UNCHANGED <<tables, job, history, replays>>

CreateDeliveryLogFails(r, a) ==
  /\ stage[r] = "log" /\ pc[r] = "returned"
  /\ a \in attempts[r] \ logged[r]
  /\ Fail(r)
  /\ hub!TakeAttempts(r)
  /\ \/ UNCHANGED logs
     \/ logs' = [logs EXCEPT ![Row(r, a)] = @ + 1]
  /\ UNCHANGED <<status, stored, entered>>

(* The event ID is answered with 200.                                      *)
Acknowledge(r) ==
  /\ acked' = acked \cup {job[r].event}
  /\ answered' = [row \in LogRow |->
       answered[row] + IF \E a \in attempts[r] : row = Row(r, a) THEN 1 ELSE 0]

(* Mutant: PushEvent returns from inside its loop.                         *)
AnswerAfterFirst(r) ==
  /\ stage[r] = "log" /\ pc[r] = "returned"
  /\ attempts[r] = {} \/ logged[r] # {}
  /\ hub!TakeAttempts(r)
  /\ Acknowledge(r)
  /\ Finish(r)
  /\ UNCHANGED <<tables, asked, entered, counters>>

(* The loop over the attempts has ended.                                   *)
Answer(r) ==
  /\ stage[r] = "log" /\ pc[r] = "returned"
  /\ logged[r] = attempts[r]
  /\ hub!TakeAttempts(r)
  /\ Acknowledge(r)
  /\ Finish(r)
  /\ UNCHANGED <<tables, asked, entered, counters>>
-----------------------------------------------------------------------------
(* The owner edits or deletes an endpoint meanwhile.                       *)
SetStatus(e, st) ==
  /\ status[e] # st
  /\ status' = [status EXCEPT ![e] = st]
  /\ UNCHANGED <<hubVars, stored, logs, requestVars, history, counters>>

(* The process dies and starts again with an empty hub.                    *)
Crash ==
  /\ faults < MaxFaults
  /\ faults' = faults + 1
  /\ hub!NewHub
  /\ stage' = [r \in Senders |-> "idle"]
  /\ job' = [r \in Senders |-> hub!NoCall]
  /\ logged' = [r \in Senders |-> {}]
  /\ UNCHANGED <<tables, history, replays>>

Connection(s) ==
  /\ hub!StreamStep(s)
  /\ UNCHANGED <<tables, requestVars, history, counters>>
-----------------------------------------------------------------------------
Init ==
  /\ hub!Init
  /\ status = [e \in Endpoints |-> "active"]
  /\ stored = [v \in {} |-> v]
  /\ logs = [row \in LogRow |-> 0]
  /\ stage = [r \in Senders |-> "idle"]
  /\ job = [r \in Senders |-> hub!NoCall]
  /\ logged = [r \in Senders |-> {}]
  /\ replays = 0 /\ faults = 0
  /\ acked = {}
  /\ answered = [row \in LogRow |-> 0]
  /\ asked = [v \in Events |-> 0]
  /\ entered = [p \in Events \X Devices |-> 0]

Log(r) == \E a \in hub!Attempt : CreateDeliveryLog(r, a) \/ CreateDeliveryLogFails(r, a)

Request(r) ==
  \/ \E e \in Endpoints : ReceiveWebhook(r, e)
  \/ CreateEvent(r)
  \/ CreateEventFails(r)
  \/ \E v \in Events : ReplayEvent(r, v)
  \/ Push(r)
  \/ \E d \in Devices : Deliver(r, d)
  \/ ReturnSend(r)
  \/ Log(r)
  \/ Answer(r)

Next ==
  \/ \E r \in Senders : Request(r)
  \/ \E s \in Streams : Connection(s)
  \/ \E e \in Endpoints, st \in {"active", "inactive", "deleted"} : SetStatus(e, st)
  \/ Crash

Spec == Init /\ [][Next]_vars

(* The hub's own fairness, and that a request's goroutine is run: a call   *)
(* to the database returns, with success or an error.                      *)
Fairness ==
  /\ \A s \in Streams : /\ SF_vars(hub!AcquireLock(s) /\ Connection(s))
                        /\ WF_vars(hub!Register(s) /\ Connection(s))
                        /\ WF_vars(hub!Unregister(s) /\ Connection(s))
  /\ \A r \in Senders :
       /\ WF_vars(CreateEvent(r) \/ CreateEventFails(r))
       /\ WF_vars(Push(r))
       /\ WF_vars(\E d \in Devices : Deliver(r, d))
       /\ WF_vars(ReturnSend(r))
       /\ WF_vars(Log(r))
       /\ WF_vars(Answer(r))

FairSpec == Spec /\ Fairness
-----------------------------------------------------------------------------
(* The type of every variable of this module; the hub's are typed there.   *)
TypeOK ==
  /\ hub!TypeOK
  /\ status \in [Endpoints -> {"active", "inactive", "deleted"}]
  /\ DOMAIN stored \subseteq Events
  /\ stored \in [DOMAIN stored -> Endpoints]
  /\ logs \in [LogRow -> Nat]
  /\ stage \in [Senders -> {"idle", "store", "push", "log"}]
  /\ job \in [Senders -> hub!Message]
  /\ logged \in [Senders -> SUBSET hub!Attempt]
  /\ replays \in 0..MaxReplays /\ faults \in 0..MaxFaults
  /\ acked \subseteq Events
  /\ answered \in [LogRow -> Nat]
  /\ asked \in [Events -> Nat]
  /\ entered \in [Events \X Devices -> Nat]

(* What a connection can read off its channel, or an answer has promised   *)
(* to a client, is in the events table under the endpoint it was received  *)
(* at, whatever failed and whatever crashed: events are stored before they *)
(* are pushed (README: "stores each event ... and pushes new events").     *)
StoredBeforeSeen ==
  /\ \A s \in Streams : \A i \in DOMAIN chan[s] :
       /\ chan[s][i].event \in DOMAIN stored
       /\ stored[chan[s][i].event] = chan[s][i].endpoint
  /\ acked \subseteq DOMAIN stored

(* The delivery log tells no lie: a row names a stored event and a device  *)
(* of its endpoint, and there are no more "delivered" rows for an event    *)
(* and a device than times the event entered a channel of that device.     *)
LogsTruthful ==
  /\ \A row \in LogRow : logs[row] > 0 =>
       row.event \in DOMAIN stored /\ stored[row.event] = EndpointOf[row.device]
  /\ \A v \in Events, d \in Devices :
       logs[[event |-> v, device |-> d, status |-> "delivered"]] <= entered[<<v, d>>]

(* The delivery log forgets nothing unless something failed: while no call *)
(* has failed and nothing has crashed, what a finished push put into a     *)
(* channel has its row.                                                    *)
LogsComplete ==
  faults = 0 /\ (\A r \in Senders : stage[r] = "idle") =>
    \A v \in Events, d \in Devices :
      logs[[event |-> v, device |-> d, status |-> "delivered"]] = entered[<<v, d>>]

(* Webhooks and replays implement Inbox: an event is stored before it is   *)
(* pushed, pushed to the devices of its endpoint only and never again on   *)
(* its own, although devices reconnect, requests overlap, log rows fail    *)
(* and the process crashes; and no client has an ID that is not stored.    *)
Box == INSTANCE Inbox WITH kept <- stored, sent <- entered
ImplementsInbox == Box!Spec

(* An endpoint that is switched off or deleted, and the webhooks that had  *)
(* found it active before have stored their events or ended.               *)
Quiet(e) ==
  /\ status[e] # "active"
  /\ \A r \in Senders : stage[r] = "store" => job[r].endpoint # e

(* It takes no event until it is active again: those that overlap with the *)
(* switch are the last.                                                    *)
QuietWhenOff ==
  [][\A e \in Endpoints : Quiet(e) =>
       /\ Quiet(e)' \/ status'[e] = "active"
       /\ \A v \in DOMAIN stored' \ DOMAIN stored : stored'[v] # e]_vars

(* An answer of 200 means that every attempt of that very push has a log   *)
(* row of its own: there are as many rows of each kind as answered pushes  *)
(* have made attempts of it, so none is the row of an earlier or of an     *)
(* overlapping push of the same event.                                     *)
AnsweredIsLogged == \A row \in LogRow : answered[row] <= logs[row]

(* Every webhook and replay that has begun is answered or dies with the    *)
(* process, though no device ever reads its stream.                        *)
RequestsEnd == \A r \in Senders : stage[r] # "idle" ~> stage[r] = "idle"
=============================================================================
