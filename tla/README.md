# A TLA+ model of Pigeon Server

Pigeon Server relays webhooks. A webhook posted to `/hooks/{slug}` is stored as
an event in PostgreSQL and pushed over Server-Sent Events to the devices paired
with the endpoint that has the slug. Users manage endpoints and replay events;
devices are paired with one-time codes and then use a token.

This directory models the server from its Go source. The modules describe what
the code does, step by step where goroutines, database calls and the clock
interleave; TLC checks them on small instances (the runs below); TLAPS proves
the safety of every component for all instances (`HubProofs.tla`, `DeliveryProofs.tla`,
`PairingProofs.tla`, `EndpointsProofs.tla`, `GitHubLoginProofs.tla`,
`LifecycleProofs.tla`, `AccessTokenProofs.tla`, `HttpApiProofs.tla`).
`PROJECT.json` is the index: components, runs, the source lines behind every
definition (`map`), hazards, findings, theorems, and for each property a mutant
of the model, written like a plausible bug of the code, that violates it.

**At this commit the HTTP handlers of devices and events
(`handlers/devices.go`, `handlers/events.go`) are empty**: the routes exist and
answer 200 with no body, while the services and the hub behind them are
complete and reached by no route. `HttpApi` models the routes as they are, the empty
handlers included; the other modules describe the services and the hub, whose
callers are assumed to be what `routes.go` and the README of the server
announce: a webhook route that calls `ReceiveWebhook`, a replay route that calls
`ReplayEvent`, device routes behind `RequireDevice`, and a `/stream` handler that
calls `Register`, reads the channel, and calls the unregister closure once.

## Inventory

### SSE hub (`internal/domain/push/hub.go`)

- *State*: `streams`, a map endpoint → device → channel, under one
  `sync.RWMutex`; a buffered channel of 16 messages for each connection.
- *Operations*: `Register` (makes the channel, files it under the write lock),
  the closure it returns (deletes the entry by device ID, prunes the inner map
  it empties, closes the channel, under the write lock), `SendToEndpoint`
  (ranges over the inner map under the read lock; a non-blocking send to each
  channel; one attempt, delivered or failed, for each device).
- *Interactions*: called by the stream handler and by `PushService`.
- *Hard*: senders, new connections and departing connections interleave; a
  device reconnects before its old connection is noticed to be gone; a closed
  channel, if found, makes the sender panic without releasing the lock; a
  waiting writer blocks readers; a channel that is full.
- *Correct when*: no send meets a closed channel; the map is not written while
  it is ranged over; a connection gets its own endpoint's messages only, in
  order, none of an earlier connection's; each call returns one attempt for
  each device in the table; no receiver can make a sender or a connection wait.

### Webhook ingestion, replay, push log (`services/event_service.go`, `services/push_service.go` and their repositories)

- *State*: tables `events`, `delivery_logs`, `endpoints`.
- *Operations*: `ReceiveWebhook` (find the active endpoint by slug, create the
  event, push, answer), `ReplayEvent` (find the event, push, answer),
  `GetEvent` (a read), `PushEvent` (send, one log row for each attempt).
- *Interactions*: the hub; the endpoint's owner edits the same tables.
- *Hard*: every database call can fail, before or after it committed; the
  process can die between any two calls and the hub dies with it; the log rows
  are written one by one after the sends, with no transaction around them.
- *Correct when*: what a device can see or a sender was promised is stored; the
  log does not lie, and is complete unless something failed; an event is pushed
  once for each request, never again by itself.

### Pairing and devices (`services/device_service.go`, `repo/device_repo.go`, `GeneratePairingCode` of `services/endpoint_service.go`)

- *State*: tables `pairing_codes` (expiry, `used_at`) and `devices`.
- *Operations*: `GeneratePairingCode`, `PairDevice`, `RequireDevice`,
  `Heartbeat`, `UpdateDevice`, `DeleteDevice`.
- *Interactions*: deletion of endpoints does not cascade.
- *Hard*: read, then write what was read; the clock moves between them; two
  requests with one code; a device deleted or switched off while a request it
  made is under way; a transaction that is rolled back.
- *Correct when*: a code is used up exactly if it paired a device, and once it
  is used or expired it pairs nobody after the overlapping requests; a device
  locked out stays out; a deleted endpoint takes no new device in the end.

### Endpoints (`services/endpoint_service.go`, `repo/endpoint_repo.go`)

- *State*: table `endpoints`, with soft deletion and a unique slug.
- *Operations*: create, update (read, edit, save the whole row), delete (read,
  mark), list, get, list events (reads).
- *Hard*: the save of a row read before somebody else's update or delete;
  gorm's `Save`, which is an `UPDATE` and, when that finds no row, an `INSERT` or
  overwrite committed after it, with other requests between the two.
- *Correct when*: a slug leads to one endpoint for ever; only its owner changes
  an endpoint; a deleted endpoint stays deleted.

### Authentication (`services/auth_service.go`, `repo/auth_repo.go`)

- *State*: table `users`; nothing in memory: access tokens are signed strings.
- *Operations*: GitHub login URL, callback (exchange, profile, upsert of the
  user, redirect), issue and verify an access token.
- *Hard*: two first sign-ins of one user; expiry at whole seconds; redirect
  URIs and the allow-list; the remote service failing at each call.
- *Correct when*: a token is accepted exactly during its life and only as the
  one that was issued; a user has one row; a token only goes to an allowed URI.

### HTTP routes and handlers (`routes.go`, `handlers/`)

- *State*: none of their own; a request carries the status recorded for its log
  line. *Operations*: middleware, guard, handler, answer, recovery of a panic.
- *Hard*: which routes are behind which guard; a token that expires, or a restart,
  while a request is on its way; an error of the database in a guard; a panic
  before or after the answer; handlers that write no status.
- *Correct when*: the log line says what the client got; a failure is never
  answered with a success; who holds a token that was told to be good is let in.

### Lifecycle (`cmd/server/main.go`, `app.go`, `http.go`), configuration, infrastructure

- *State*: telemetry, database and Redis connections; the listening server.
- *Operations*: acquire in order, serve, drain for at most 15 s on a signal,
  release in reverse order.
- *Hard*: failure in the middle of acquisition; the deadline of the drain, after
  which the database is closed under the requests that are left.

Errors, JSON answers, random tokens and the access-control types are helpers
without state (some of the types are used by nothing).

## Plan

| Order | Module | Models | State |
|---|---|---|---|
| 1 | `RWMutex` | `sync.RWMutex`, external, used by `Hub` | done |
| 2 | `Hub` | `hub.go`, one step for each turn of the send loop | done |
| 3 | `Feeds` | abstract: private bounded queues; `Hub` implements it | done |
| 4 | `HubProofs` | the safety of `Hub` and the refinement, proved | done |
| 5 | `Delivery` | ingestion, replay, push log; composes `Hub` (INSTANCE) with tables, failures, crashes | done |
| 6 | `Pairing` | pairing codes, devices | done |
| 7 | `Endpoints`, `EndpointsProofs` | endpoints, gorm's `Save`; proved | done |
| 8 | `AccessToken`, `AccessTokenProofs` | issue, answer and verify a token; whole seconds against the expiry; proved | done |
| 9 | `GitHubLogin` | exchange, profile, upsert; overlapping sign-ins of one user | done |
| 10 | `Lifecycle`, `LifecycleProofs` | acquisition, serving, drain with deadline, release, requests under way; proved | done |
| 11 | `HttpApi`, `HttpApiProofs` | routes, middleware, guards, handlers' answers, panics; composes with `AccessToken`; proved | done |
| 12 | `Inbox` | abstract: an event is accepted, asked for, sent, acknowledged; `Delivery` implements it | done |
| 13 | `PairingProofs`, `DeliveryProofs`, `GitHubLoginProofs` | the safety invariants and action properties of 5, 6 and 9 for all instances; the refinement of `Inbox`; proved | done |
| 14 | `Streams` | composes `Pairing` and the hub over one devices table | when `/stream` has a handler |

Composition: `Delivery` takes the hub's actions as conjuncts of its own; `HttpApi`
extends `AccessToken`, whose actions are the sign-ins, and puts the way of a request
through the server beside them. `Streams` waits for code: what a device that is locked
out can still receive depends on the handler of `/stream`, which is empty. Abstract
specifications: `Feeds` for the hub, `Inbox` for events.

## The modules

**`RWMutex`** has the three facts of Go's lock that the hub depends on: a
writer that has asked blocks the readers that come later (`waiting`), it enters
when the readers inside have left (`Locked`), and its `Unlock` lets in all the
readers that waited. `Lock(w)` is the moment the writer wins the lock's inner
mutex.

**`Hub`**. `streams` is the Go map of maps as a partial function of partial
functions; a connection names the channel it made, `chan[s]` is the buffer and
`open` the channels made and not closed. A connection goes idle → registering →
registered → unregistering → idle: `Connect` is `make(chan)` and the call of
`Lock`, `AcquireLock` the announcement, `Register` and `Unregister` the code
between `Lock` and `Unlock` with the `Unlock` (no other goroutine can read the
map in between). `Unregister` deletes by device ID whichever channel the entry
holds, as the code does. A sender's call is `CallSend` (`RLock`), one `Deliver`
for each device of the inner map in any order (Go's map order is random),
`ReturnSend` (`RUnlock`), `TakeAttempts` (the caller is done with the result).
That `Register` and `Unregister` are atomic is justified by the lock, and
`FrozenWhileIterated` checks that the lock does its part. The handler that
reads the channel does not exist in the repository yet: `Receive` and
`Disconnect` are what any handler can do.

**`Feeds`** says the same without map, lock or loop: a private FIFO queue of
bounded length for each connection, at most one attached connection for each
device, offers to attached connections of the right endpoint only.

**`Delivery`** has one step for each call of a request that leaves the process:
find the endpoint, create the event, then the hub's own steps, then one
`CreateDeliveryLog` for each attempt, then the answer. `...Fails` actions answer
with an error, with the row committed or not. `Crash` empties the hub
(`hub!NewHub`) and forgets the requests. `SetStatus` is the owner editing or
deleting the endpoint meanwhile, including (for a deleted one) the return that
`Endpoints` shows to be possible. `acked`, `answered`, `asked` and `entered` are history
variables that no action reads; `answered` counts, as rows of the log, the attempts of
the pushes that were answered with 200 (`Acknowledge`). Payload, headers and query are data of an event and left
out; ownership of events in `FindUserEvent` too: the join with the user's
endpoints is a filter on a column that no step changes. An event ID that was
minted and not stored may be minted again: the state says nothing more of it.

**`Inbox`** is what a sender, a device and an owner can hold the server to, with no
request, hub or failure in it: an event is kept under one endpoint, sent only when
kept, only to devices of that endpoint, at most once for each time a client asked
(`asked`: a webhook that was stored, a replay that found its event), and
acknowledged only when kept and asked for. `Delivery` implements it with
`kept <- stored` and `sent <- entered`; it is the property that a retry of a failed
log row, a stale buffer after a crash or a push before the insert would break.

**`Pairing`** has the tables as partial functions and for each request the call
it makes next with what it has read so far (`job`): the row of the code that is
saved back whole, the time that was read before the lookup. A code and its hash,
a token and its device are one name each; two equal draws are refused by the
unique index (`c \notin DOMAIN codes`). A repository update that finds the row
soft-deleted changes nothing (`UpdateRow`). `DeleteEndpoint` and `SaveEndpoint` are the
endpoint's owner, the second an update that brings a deleted one back (`Endpoints`). Names of devices are left out. The
re-read that ends `UpdateDevice` changes nothing and is left out with its answer.

**`Endpoints`** reads and writes in separate steps, with gorm's `Save` as gorm
implements it for a model with `DeletedAt` and a default value: `SaveEndpoint` is an
`UPDATE` of all columns of the row if it is not deleted, committed by itself; if it
touches no row, `Upsert` follows, an `INSERT ... ON CONFLICT DO UPDATE` of all columns
in a transaction of its own, whatever the row has become by then. As an insert it gives
a false `is_active` the column's default, true (`Inserted`, external). Any other request
may run between the two, and the second may fail. An update asks for a setting of
`is_active` or, when it only renames, for none (`asks`); it then saves the one it read.

**`AccessToken`** counts time in ticks, `PerSecond` of them in a second, and cuts
the expiry (`Unix()`) and `expires_in` (`int64(....Seconds())`) to seconds where
the code does, each from the reading of the clock the code takes there. A token is
a record of what is in it (`signed`, `exp`) and of two history fields that no
check reads: the time `exp` was cut from and the time the client was told.
HMAC-SHA256 is the equality of keys; the format of the JWT is left out.
`Restart` is the server started with another TTL or key. Since the expiry is cut
to a second, a token dies up to a second before it; what a client can rely on is
`LivesAsTold`.

**`HttpApi`** takes a request down the stack of middleware and up again, one step
for what lies between two calls to the database: the guard verifies the token
(`RequireUser`) and its query is answered (`Load`) or not (`LoadFails`), the handler
answers (`Handle`, `HandleFails`), the status is logged (`Return`), or a panic skips
that (`Panic`). `AuthHandler` and `EndpointHandler` say of each method with what it can
answer and whether it calls out, `Stub` the same of the empty handlers (success 0: no
status written), and `routes` is the table of `App.routes`, a guard and a handler each. `status` is the header
the client gets, `recorded` the one in `statusRecorder`; `Preflight`, answered by CORS
above the logging, leaves no line, and so does a panic. `promised` and `failed` are
history. A device's token is any one the query finds or does not find. The module
extends `AccessToken` and shares its clock, keys and tokens; signing in is not tied
to the requests of `GitHubExchange`, so tokens may come at any time.

**`GitHubLogin`** has one step for each call of a sign-in: two to GitHub, then
the two queries of gorm's `FirstOrCreate` with `Assign`, then the token. `First`
and `Create` are separate, so two first sign-ins may both find no row; the unique
index on the GitHub ID then fails the second `Create`. `Updates` writes the
fields that are not empty, as gorm does for a struct in `Assign`. `EditProfile`
is the user at github.com. Of the profile the email stands for all fields.

**`Lifecycle`** is `main` as a sequence of calls, interleaved with the server's
goroutine, the connections and the signals. `Acquire` is one step of `New`, with
the clean-up when it fails; `Release` one `Close`. `Drain` is
`http.Server.Shutdown` as documented by net/http: it waits for the goroutine of
the listener, then until no request is under way or the context is done. (Inside
net/http a new connection that has not sent its request may be taken for idle and
closed; the model has the documented behaviour.) Two behaviours to know: before
`NotifyContext` a signal kills the process with everything open, and an error of
the server, once logged, does not make the exit code 1.

## The runs

| Run | Instance | Shows |
|---|---|---|
| `hub_safety` | 2 endpoints, 2 devices on one of them, 3 connections (2 of one device), 1 sender, 2 messages, buffer 2 | type; no send on a closed channel; the table sound; one attempt for each device; `Hub` implements `Feeds`, so a connection gets its own endpoint's messages only, in order |
| `hub_live` | the same devices, each with one connection at a time, 2 senders, buffer 1, `FairSpec` | the map frozen under readers; every call of the hub returns (`CallsReturn`); a connected device is reached |
| `hub_reconnect` | 3 connections (2 of one device), 2 senders, buffer 1 | **violated**: a reconnected device can be cut off (finding 1) |
| `delivery_safety` | 2 endpoints, 2 devices on one, 2 requests, 1 event, 1 replay, 1 fault | webhooks and replays implement `Inbox`; stored before seen; the log truthful, complete without faults; each attempt of an answered push has a row of its own; an endpoint switched off takes no event once the webhooks that overlap the switch are over |
| `delivery_live` | 1 endpoint, device and connection, 2 requests, `FairSpec` | every request ends, though no device ever reads |
| `pairing_safety` | 2 endpoints, codes, devices and requests, lifetime 1 | used exactly if paired; spent for good; lock-out final; a deleted endpoint drains |
| `pairing_once` | the same with a later end of time | **violated**: one code pairs two devices (finding 2) |
| `endpoints_safety` | 2 users, 3 endpoints, 3 slugs, 3 requests | a slug leads to one endpoint; changed by its owner only; deleted in the end; a setting is undone only by updates that overlap, between the statements of a save too |
| `endpoints_deleted` | 2 users, 2 endpoints, 2 slugs, 3 requests | **violated**: an update brings a deleted endpoint back (finding 3) |
| `api` | 1 client, 2 keys, TTLs of 1, 3 and 4 ticks, 2 ticks a second, time to 6; 1 request at a time on 8 routes, 2 faults | tokens dead after the expiry and alive as told, over restarts; the log and the client told the same; no failure answered as a success; nobody with a good token turned away |
| `login` | 2 GitHub users, 2 IDs, 2 emails or none, 2 requests, 1 fault, `FairSpec` | one identity for each user; the email is kept; one that is up to date goes out of date only by an edit, or by a sign-in that overlaps it; who keeps trying is signed in |
| `lifecycle` | 3 connections, `FairSpec` | the database outlives the requests; the exit code is honest; the process stops when told |

**Bounds.** The races of the hub take at most two connections of one device, a
sender inside the loop, and another actor waiting for the lock; a second device
makes the loop interruptible, and a second endpoint makes a wrong endpoint and
an empty inner map possible. A buffer of 1 is full after one message and a
buffer of 2 has an order; 16 adds nothing but states. What the theorems state holds
for any size, and for any number of what the other runs count. In `Delivery`, two requests overlap or one
replays what the other stored; one fault (`MaxFaults`) is a failed call or a
crash at every point, one replay (`MaxReplays`) the second push of an event. The
races of `Pairing` and `Endpoints` are between two requests (a stale read and a
write), and the clock of `Pairing` (`MaxTime`) passes one expiry. In `AccessToken`
two ticks a second put a token at the start and inside a second; the TTLs are less
than a second, and more by a whole second or a part. `HttpApi` has one route of each
kind (guard, empty or not, calling out or not), and one request: requests share
nothing but the clock and the tokens, which change under it, and the proofs cover any
number. Two faults are a failure and a panic after it. In `GitHubLogin` two sign-ins of one
user collide, or those of two users overlap, or one holds an old profile while the other
brings the row up to date.
`Lifecycle` has no bound: its state is finite for a finite set of connections,
and three are one idle, one busy and one new. Symmetry is
used for names that no property singles out, and in no run with a liveness
property.

**Fairness.** A goroutine that can run is run (weak fairness of the steps
inside `Register`, unregister, `SendToEndpoint` and the request), and a database
call returns with success or an error. Winning the write lock has strong
fairness: the mutex inside Go's `RWMutex` hands itself over to a waiter that has
failed for a millisecond. In `Lifecycle`, `main` and the server's goroutine run,
`Accept` returns once its listener is closed, and the timer of the deadline
fires; no request need end. In `GitHubLogin` a user whose sign-in failed tries
again, infinitely often (strong fairness of starting one). Nothing is assumed of
receivers, of other requests, or of disconnections.

**Deadlock** is checked everywhere but in `Endpoints`: its finite supply of IDs
can all be deleted, and then no request finds an endpoint; the server has no
such end. The process of `Lifecycle` does end, in the state that `Ended` names.

## What is proved

`HubProofs.tla` proves, for every set of endpoints, devices, connections and
senders and every buffer size, from `HubAssumption` alone (there is an endpoint
and an event, the two maps are functions, the capacity is positive):

- `TypeCorrect`, `NeverSendsOnClosed`, `TableStaysSound`: the invariants of
  `hub_safety`; `NoCrossDelivery`: `OwnEndpointOnly`, which `Feeds` has as the guard of
  an offer and the run therefore does not repeat;
- `MapFrozenUnderReaders`, `AttemptsAreComplete`: the action properties of the runs;
- `HubImplementsFeeds`: the refinement, every step of the hub a step of `Feeds`
  or a stutter under `attached <- Mapped`.

None of the invariants but the type is inductive. `IInv` adds three parts.
`LockInv`: one writer at most, and only goroutines inside a call hold the lock
or wait for it; without it a waiting sender could be let in twice.
`ChannelInv`: a channel is open exactly while its connection is not idle, and in
the table only if its connection is registered or unregistering. It is what makes
`NoSendOnClosed` inductive: when the old connection of a device unregisters it
may take out the new one's entry (finding 1), but never leave its own closed
channel in, since an entry is filed under its own device (`TableSound`).
`AttemptInv`: what a sender has visited is part of the map it ranges over, which
holds because that map is frozen while it is `reading`. `OneAttemptEach` then
follows from `Pending(g) = {}`. The lemmas `RegisterMapped` and
`UnregisterMapped` say which channels senders reach after a change of the table,
and serve the invariants and the refinement alike.

`ConnectedDeviceIsReached` does not hold (`hub_reconnect`). `OneConnectionIsReached`
proves that finding 1 is the only reason: it holds in every behaviour in which no
device ever has two open channels (`[]OneConnection`), whatever else connects, leaves
or sends. Connecting again after the old connection has unregistered is such a
behaviour.

`DeliveryProofs.tla` proves all six properties of `delivery_safety` besides the type,
from `DeliveryAssumption` (that of the hub, and that the bounds are numbers):

- `NothingSeenUnstored`, `LogsAreTruthful`, `LogsAreComplete`, `AnswersAreLogged`,
  `OffIsQuiet`: the invariants and action properties of the run;
- `HubStaysSafe`: what `HubProofs` says of the hub alone is so here. Its invariant is
  instantiated (`HP`), and each action of `Delivery` is a step of the hub, leaves it, or is
  a crash, after which the hub is a new one (`HubNew`);
- `KeepsItsPromise`: the refinement of `Inbox`, under `kept <- stored, sent <- entered`.

The invariant `IInv` says what the code knows at each step of a request. `RequestInv`:
in its push, the event is stored, and the hub was called with this event; the
attempts are of devices of its endpoint. `FreshInv`: the ID of an event not stored yet is
nobody else's, without which two webhooks could store one event. `RowInv`: a row is of
a stored event and a device of its endpoint. The other three count. `SentInv`: for an event and a device,
what has entered its channels, and the pushes under way that may still put it there
(`Owed`), are together no more than were asked for; this is `Inbox`'s bound made inductive,
and it holds because a sender visits a device once and devices are looked up by ID. `LogInv`:
the delivered rows and the deliveries not logged yet (`Unlogged`) are together no more
than the deliveries, and as many while nothing has failed; a crash or a failed
row drops from the second count what never comes into the first. `AnswerInv`: for
each kind of row (event, device, status), the answered attempts and the pushes under way
that have created such a row (`Listed`) are together no more than the rows. A push
tries a device with one status once and adds one row for it, which it holds against
that count until `Acknowledge` moves it to `answered`: so the row of one push never
stands for that of another, as a replay of the event makes possible.

`PairingProofs.tla` proves the five properties of `pairing_safety` from
`PairingAssumption` (a code lives for some time, the clock has an end). What a request
holds may be stale, and the invariant says what of it is not (`ReadInv`): rows never go
away, and a code keeps its endpoint and its expiry, so saving a stale code row can
only mark it used. `UsedIffPaired` is inductive with that. The action properties
(`SpentIsFinal`, `DeletedIsDrained`, `LockedOutForGood`) need lemmas about what each
step does to the tables (`TablesGrow`) and to the jobs (`JobStep`).
`SingleUse` does not hold (`pairing_once`). `OnlyOverlapReuses` proves that finding 2 is
the only reason: one code pairs one device in every behaviour in which no two requests
may pair with the same code at the same time (`[]NoOverlap`).

`GitHubLoginProofs.tla` proves the four safety properties of `login` from
`GitHubLoginAssumption`. `OneIdentity` needs the unique index on the GitHub ID as an
invariant (`UniqueGitHubID`): a sign-in that lost the race to create the user fails
instead of making a second one. `EmailKept` follows from `RowStays`: no step takes a row
away, gives it to another GitHub user, or clears its email. `EmailSettled` needs that a
sign-in that is still to write had its profile before the step, or fetches the one GitHub
has now (`StillToWrite`).

`LifecycleProofs.tla` proves, for any set of connections and from no assumption,
`TypeCorrect`, `DatabaseOutlivesRequests` and `ExitIsHonest`: the three invariants
of `lifecycle`. Its inductive invariant adds what is open at each call of `main`
(`HeldInv`; the resources are a stack, so the position of `main` decides it), and
that there is no connection before `Start` and, after the drain, none unless the
deadline has passed and is to be reported (`ConnectionInv`). The first conjunct
makes the database open up to `db.Close`; the second says who can still be
there then.

`AccessTokenProofs.tla` proves `NoneOutlives` and `RelyOnExpiresIn`, two
properties of `api`, for any TTLs, any number of ticks in a second, any
set of clients and any bound of the clock (`AccessTokenAssumption`). They rest on
three lemmas about cutting to seconds: it keeps order (`SecondMonotone`), it
separates times a second apart (`SecondOfLater`), and it never adds
(`SecondBound`). The invariant `TokenInv` says that `exp` is the second of the
expiry, and that what a client was told ends with the token or has ended already.

`HttpApiProofs.tla` proves all five properties of `api` for any set of requests,
clients and routes. `ApiHasTokens` shows that the interface implements `AccessToken`,
which brings the results above over (`ApiTokensDie`, `ApiTokensLive`) and is used for
`NobodyTurnedAway`: a request that is promised passes the verification because of
`LivesAsTold`. The invariant `ApiInv` says of each request, by how far it is, what may
have been written: nothing on the way down (`OnItsWay`), and on the way up either the
recorded status or none with 200 recorded (`Answered200`), without which `Return`
could log another status than it sends. `RoutesSound` reads the table: no handler
behind `RequireUser` answers 401 itself.

`EndpointsProofs.tla` proves the five properties of `endpoints_safety` from no
assumption, for any users, IDs, slugs and requests. The invariant `IInv` says that
slugs are unique over all rows, deleted ones included, and that what an update has
read of a row's slug and user is still so through both statements of its save
(`ReadInv`): those two columns never change, so a stale save cannot move a slug or an
owner, although it can undo a setting or a deletion. The lemmas about effects (`Writes`)
say what each step does to the table, and the action properties follow from them.
`SettingKept` has to look at what an update will write rather than at what it read
(`ToWrite`): one whose `UPDATE` has found no row will switch the endpoint on.

Only model-checked: the liveness properties `CallsReturn`, `RequestsEnd`,
`StopsWhenTold` and `SignedInInTheEnd` (fairness and ENABLED are out of TLAPS's
reach). `ConnectedDeviceIsReached` and `SingleUse` are proved under the hypothesis named
above, and false without it; `DeletedStaysDeleted` (finding 3) is false, and what is left
of it, `DeletedInTheEnd`, is proved. No module uses a recursive operator.

## Findings

1. `push/hub.go:45`: the unregister closure deletes the device's entry even if
   a newer connection of the device holds it. The new stream stays open and gets
   nothing more; the server's README says events are pushed to connected devices.
   `hub_live` shows the promise kept when a device never connects twice at a time,
   and `OneConnectionIsReached` proves it.
2. `services/device_service.go:80`: the code is read unused, and saved as used
   by primary key alone; two overlapping requests with one code pair two
   devices, while the README says a code "can only be used once".
   `SpentForGood` is what does hold, and `OnlyOverlapReuses` proves that nothing but the
   overlap is to blame.
3. `repo/endpoint_repo.go:55`: an update that read the row before a delete
   saves it afterwards: its `UPDATE` finds no row, and the `INSERT ... ON CONFLICT`
   that gorm commits after it clears `deleted_at`. `DeletedInTheEnd` is what does
   hold.

The models also show where the server's README says more than the code does, in ways
no run is spent on:

- "The token remains valid until its configured expiry" (README.md:133): while the
  query for its user fails, a valid token is answered 401 (`LoadFails`,
  `auth_service.go:148`; `NotTurnedAway` is what holds short of that), and a token dies up to a second before its expiry.
- "Requests are logged" (README.md:339): a preflight and a request that panics are
  not (`Preflight`, `Panic`; `routes.go:33` puts the logging below both).
- "Pigeon returns the stored event ID" (README.md:238): the handler is empty, and
  `/hooks/{slug}` answers 200 to any slug with nothing stored (`Stub`).
- Updates of one endpoint overwrite each other: a rename that read the endpoint before
  it was switched off switches it on again. So does one whose `UPDATE` found the
  endpoint deleted, if another update brings it back and a later one switches it off
  before the `INSERT`. `SettingKept` is what does hold.

## Not modelled

- The check of redirect URIs, the login URL, the origin of CORS and the parsing of the
  configuration (`config.go`): functions of strings without state, of which the models
  have the outcome (a status of `routes`, `LoadConfig`, a constant) only.
- How the database, Redis and OpenTelemetry clients do their I/O, and the JSON that is
  read and written.
- Random strings and hashes (`token.go`): the models draw names from a set, and
  uniqueness comes from the unique indexes.
- The access-control types (`permission.go`, `scope.go`, `actor.go`,
  `session_meta.go`): nothing at this commit uses them.
- Streams over HTTP: the handler of `/stream` is empty, so who holds a stream open, and
  what happens to it when its device is locked out, is not decided by the code yet.
