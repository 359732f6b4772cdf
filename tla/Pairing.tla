------------------------------- MODULE Pairing -------------------------------
(***************************************************************************)
(* Pairing codes and the devices paired with them: GeneratePairingCode     *)
(* (endpoint_service.go), DeviceService (device_service.go) and its        *)
(* repository (device_repo.go).  A request is a goroutine that makes one   *)
(* database call at a step; between two calls every other request may run  *)
(* and the clock may advance.  What a request read it keeps in its job,    *)
(* however stale it gets.  A request may fail at any call: a write that    *)
(* commits while its answer is lost is a write followed by the end of the  *)
(* request, a write that does not is Fail.                                 *)
(***************************************************************************)
EXTENDS Naturals

CONSTANTS
  Endpoints,
  Codes,      \* the codes GeneratePairingCode may draw
  Devices,    \* the device record IDs that BeforeCreate may mint
  Requests,
  Lifetime,   \* 10 minutes in the code
  MaxTime     \* bound on the clock

ASSUME PairingAssumption == Lifetime \in Nat \ {0} /\ MaxTime \in Nat

VARIABLES
  now,
  deleted,   \* the endpoints with deleted_at set
  codes,     \* the pairing_codes table: code -> row, partial
  devices,   \* the devices table: record ID -> row, partial
  job,       \* job[r]: the call request r makes next, and what it has read
  pairedBy   \* history: the code each device was created with

vars == <<now, deleted, codes, devices, job, pairedBy>>

PairingCode == [endpoint : Endpoints, expires : 0..(MaxTime + Lifetime), used : BOOLEAN]
Device == [endpoint : Endpoints, active : BOOLEAN, deleted : BOOLEAN, seen : 0..MaxTime]

Idle == [call |-> "none"]
Job ==
  {Idle}
    \cup [call : {"CreatePairingCode"}, endpoint : Endpoints, at : 0..MaxTime]
    \cup [call : {"FindUsablePairingCode"}, code : Codes, at : 0..MaxTime]
    \cup [call : {"CreateDevice"}, code : Codes, row : PairingCode, at : 0..MaxTime]
    \cup [call : {"handler"}, device : Devices]
    \cup [call : {"UpdateLastSeen"}, device : Devices, at : 0..MaxTime]

Put(map, key, value) ==
  [k \in DOMAIN map \cup {key} |-> IF k = key THEN value ELSE map[k]]

Become(r, j) == job' = [job EXCEPT ![r] = j]

(* UPDATE ... WHERE id = d AND deleted_at IS NULL: no row, no change.      *)
UpdateRow(d, row) ==
  devices' = IF devices[d].deleted THEN devices ELSE [devices EXCEPT ![d] = row]
-----------------------------------------------------------------------------
(* GeneratePairingCode: the endpoint is looked up, then the row created.   *)

(* Mutant: the endpoint is not looked up.                                  *)
GenerateUnchecked(r, e) ==
  /\ job[r] = Idle
  /\ Become(r, [call |-> "CreatePairingCode", endpoint |-> e, at |-> now])
  /\ UNCHANGED <<now, deleted, codes, devices, pairedBy>>

GeneratePairingCode(r, e) ==
  /\ job[r] = Idle
  /\ e \notin deleted
  /\ Become(r, [call |-> "CreatePairingCode", endpoint |-> e, at |-> now])
  /\ UNCHANGED <<now, deleted, codes, devices, pairedBy>>

(* Mutant: the lifetime is added to the row's expiry once more.            *)
CreateLastingCode(r, c) ==
  /\ job[r].call = "CreatePairingCode"
  /\ c \notin DOMAIN codes
  /\ codes' = Put(codes, c, [endpoint |-> job[r].endpoint,
                             expires |-> job[r].at + 2 * Lifetime, used |-> FALSE])
  /\ Become(r, Idle)
  /\ UNCHANGED <<now, deleted, devices, pairedBy>>

(* The hash of a code is unique in the table: a second row is refused.     *)
CreatePairingCode(r, c) ==
  /\ job[r].call = "CreatePairingCode"
  /\ c \notin DOMAIN codes
  /\ codes' = Put(codes, c, [endpoint |-> job[r].endpoint,
                             expires |-> job[r].at + Lifetime, used |-> FALSE])
  /\ Become(r, Idle)
  /\ UNCHANGED <<now, deleted, devices, pairedBy>>
-----------------------------------------------------------------------------
(* PairDevice: the time is read before the code is looked up, and the row  *)
(* as it was read then is saved whole, with used_at set.                   *)

PairDevice(r, c) ==
  /\ job[r] = Idle
  /\ Become(r, [call |-> "FindUsablePairingCode", code |-> c, at |-> now])
  /\ UNCHANGED <<now, deleted, codes, devices, pairedBy>>

(* Mutant: used_at is not in the query.                                    *)
FindAnyPairingCode(r) ==
  /\ job[r].call = "FindUsablePairingCode"
  /\ LET c == job[r].code
     IN  IF c \in DOMAIN codes /\ codes[c].expires > job[r].at
         THEN Become(r, [call |-> "CreateDevice", code |-> c, row |-> codes[c], at |-> job[r].at])
         ELSE Become(r, Idle)
  /\ UNCHANGED <<now, deleted, codes, devices, pairedBy>>

FindUsablePairingCode(r) ==
  /\ job[r].call = "FindUsablePairingCode"
  /\ LET c == job[r].code
     IN  IF c \in DOMAIN codes /\ ~ codes[c].used /\ codes[c].expires > job[r].at
         THEN Become(r, [call |-> "CreateDevice", code |-> c, row |-> codes[c], at |-> job[r].at])
         ELSE Become(r, Idle)
  /\ UNCHANGED <<now, deleted, codes, devices, pairedBy>>

NewDevice(r) ==
  [endpoint |-> job[r].row.endpoint, active |-> TRUE, deleted |-> FALSE, seen |-> job[r].at]

(* Mutant: no transaction, and the request dies between the two writes.    *)
CreateDeviceAlone(r, d) ==
  /\ job[r].call = "CreateDevice"
  /\ d \notin DOMAIN devices
  /\ devices' = Put(devices, d, NewDevice(r))
  /\ pairedBy' = Put(pairedBy, d, job[r].code)
  /\ Become(r, Idle)
  /\ UNCHANGED <<now, deleted, codes>>

CreateDeviceAndUsePairingCode(r, d) ==
  /\ job[r].call = "CreateDevice"
  /\ d \notin DOMAIN devices
  /\ devices' = Put(devices, d, NewDevice(r))
  /\ codes' = Put(codes, job[r].code, [job[r].row EXCEPT !.used = TRUE])
  /\ pairedBy' = Put(pairedBy, d, job[r].code)
  /\ Become(r, Idle)
  /\ UNCHANGED <<now, deleted>>
-----------------------------------------------------------------------------
(* Requests with a device token.                                           *)

(* Mutant: is_active is not in the query.                                  *)
FindDeviceByTokenHash(d) == d \in DOMAIN devices /\ ~ devices[d].deleted

FindActiveDeviceByTokenHash(d) ==
  d \in DOMAIN devices /\ devices[d].active /\ ~ devices[d].deleted

(* The middleware hands the row it found to the handler.                   *)
RequireDevice(r, d) ==
  /\ job[r] = Idle
  /\ FindActiveDeviceByTokenHash(d)
  /\ Become(r, [call |-> "handler", device |-> d])
  /\ UNCHANGED <<now, deleted, codes, devices, pairedBy>>

Heartbeat(r) ==
  /\ job[r].call = "handler"
  /\ Become(r, [call |-> "UpdateLastSeen", device |-> job[r].device, at |-> now])
  /\ UNCHANGED <<now, deleted, codes, devices, pairedBy>>

(* Mutant: the row the middleware read is saved whole.                     *)
SaveLastSeen(r) ==
  /\ job[r].call = "UpdateLastSeen"
  /\ devices' = [devices EXCEPT ![job[r].device] =
                   [@ EXCEPT !.seen = job[r].at, !.active = TRUE, !.deleted = FALSE]]
  /\ Become(r, Idle)
  /\ UNCHANGED <<now, deleted, codes, pairedBy>>

UpdateLastSeen(r) ==
  /\ job[r].call = "UpdateLastSeen"
  /\ UpdateRow(job[r].device, [devices[job[r].device] EXCEPT !.seen = job[r].at])
  /\ Become(r, Idle)
  /\ UNCHANGED <<now, deleted, codes, pairedBy>>

(* UpdateDevice writes is_active (a name alone changes nothing here); the  *)
(* row it reads back for the answer changes nothing.                       *)
UpdateDevice(r, active) ==
  /\ job[r].call = "handler"
  /\ UpdateRow(job[r].device, [devices[job[r].device] EXCEPT !.active = active])
  /\ Become(r, Idle)
  /\ UNCHANGED <<now, deleted, codes, pairedBy>>

DeleteDevice(r) ==
  /\ job[r].call = "handler"
  /\ UpdateRow(job[r].device, [devices[job[r].device] EXCEPT !.deleted = TRUE])
  /\ Become(r, Idle)
  /\ UNCHANGED <<now, deleted, codes, pairedBy>>
-----------------------------------------------------------------------------
(* A call fails and is rolled back, the client gives up, the server dies.  *)
Fail(r) ==
  /\ job[r] # Idle
  /\ Become(r, Idle)
  /\ UNCHANGED <<now, deleted, codes, devices, pairedBy>>

(* The owner deletes an endpoint: its codes and its devices stay.          *)
DeleteEndpoint(e) ==
  /\ deleted' = deleted \cup {e}
  /\ UNCHANGED <<now, codes, devices, job, pairedBy>>

(* An update that read the endpoint before it was deleted saves it after,  *)
(* and it is back (Endpoints shows how).                                   *)
SaveEndpoint(e) ==
  /\ deleted' = deleted \ {e}
  /\ UNCHANGED <<now, codes, devices, job, pairedBy>>

Tick ==
  /\ now < MaxTime
  /\ now' = now + 1
  /\ UNCHANGED <<deleted, codes, devices, job, pairedBy>>
-----------------------------------------------------------------------------
Init ==
  /\ now = 0
  /\ deleted = {}
  /\ codes = [c \in {} |-> c]
  /\ devices = [d \in {} |-> d]
  /\ job = [r \in Requests |-> Idle]
  /\ pairedBy = [d \in {} |-> d]

Request(r) ==
  \/ \E e \in Endpoints : GeneratePairingCode(r, e)
  \/ \E c \in Codes : CreatePairingCode(r, c) \/ PairDevice(r, c)
  \/ FindUsablePairingCode(r)
  \/ \E d \in Devices : CreateDeviceAndUsePairingCode(r, d) \/ RequireDevice(r, d)
  \/ Heartbeat(r)
  \/ UpdateLastSeen(r)
  \/ \E active \in BOOLEAN : UpdateDevice(r, active)
  \/ DeleteDevice(r)
  \/ Fail(r)

Next ==
  \/ \E r \in Requests : Request(r)
  \/ \E e \in Endpoints : DeleteEndpoint(e) \/ SaveEndpoint(e)
  \/ Tick

Spec == Init /\ [][Next]_vars
-----------------------------------------------------------------------------
(* The type of every variable.                                             *)
TypeOK ==
  /\ now \in 0..MaxTime
  /\ deleted \subseteq Endpoints
  /\ DOMAIN codes \subseteq Codes /\ codes \in [DOMAIN codes -> PairingCode]
  /\ DOMAIN devices \subseteq Devices /\ devices \in [DOMAIN devices -> Device]
  /\ job \in [Requests -> Job]
  /\ DOMAIN pairedBy = DOMAIN devices /\ pairedBy \in [DOMAIN devices -> Codes]

(* README: "Pairing codes ... can only be used once".                      *)
SingleUse ==
  \A c, d \in DOMAIN devices : pairedBy[c] = pairedBy[d] => c = d

(* A code is used up exactly when a device was created with it, and is for *)
(* the endpoint of that device: CreateDeviceAndUsePairingCode does both or *)
(* neither, and no later save of a stale row frees the code again.         *)
UsedIffPaired ==
  /\ \A c \in DOMAIN codes : codes[c].used <=> \E d \in DOMAIN devices : pairedBy[d] = c
  /\ \A d \in DOMAIN devices : /\ pairedBy[d] \in DOMAIN codes
                               /\ codes[pairedBy[d]].endpoint = devices[d].endpoint

(* The pairings with c that are still to come from requests under way.     *)
MayPair(r, c) ==
  \/ job[r].call = "CreateDevice" /\ job[r].code = c
  \/ /\ job[r].call = "FindUsablePairingCode" /\ job[r].code = c
     /\ ~ codes[c].used /\ job[r].at < codes[c].expires

Spent(c) ==
  /\ c \in DOMAIN codes
  /\ codes[c].used \/ codes[c].expires <= now
  /\ \A r \in Requests : ~ MayPair(r, c)

PairedWith(c) == {d \in DOMAIN devices : pairedBy[d] = c}

(* What single use and expiry come to: once a code is used or has expired, *)
(* and the pairings that overlapped with that have ended, it never pairs a *)
(* device again.                                                           *)
SpentForGood ==
  [][\A c \in Codes : Spent(c) => Spent(c)' /\ PairedWith(c)' = PairedWith(c)]_vars

(* No device is ever added to e again: e is deleted, nothing is under way  *)
(* to give it a code, and the codes it has are spent.                      *)
Drained(e) ==
  /\ e \in deleted
  /\ \A r \in Requests : job[r].call = "CreatePairingCode" => job[r].endpoint # e
  /\ \A c \in DOMAIN codes : codes[c].endpoint = e => Spent(c)

(* A deleted endpoint takes no new device once the codes it had are spent  *)
(* (until then it does: its codes outlive it), unless an update brings the *)
(* endpoint itself back.                                                   *)
DeletedEndpointDrains ==
  [][\A e \in Endpoints : Drained(e) =>
       /\ Drained(e)' \/ e \notin deleted'
       /\ \A d \in DOMAIN devices' \ DOMAIN devices : devices'[d].endpoint # e]_vars

LockedOut(d) ==
  /\ d \in DOMAIN devices
  /\ ~ devices[d].active \/ devices[d].deleted
  /\ \A r \in Requests : job[r].call \in {"handler", "UpdateLastSeen"} => job[r].device # d

(* A device that is deleted or not active is locked out for good once the  *)
(* requests it had under way have ended: they are its last.  A deleted one *)
(* stays deleted even if they are still to write to its row.               *)
LockOutIsFinal ==
  [][\A d \in DOMAIN devices :
       /\ LockedOut(d) => LockedOut(d)'
       /\ devices[d].deleted => devices'[d] = devices[d]]_vars
=============================================================================
