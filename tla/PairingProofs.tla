---------------------------- MODULE PairingProofs ----------------------------
(***************************************************************************)
(* Pairing for any endpoints, codes, devices and requests, any lifetime of *)
(* a code and any clock: what the tables of codes and devices say of each  *)
(* other, and what stays true once a code is spent or a device locked out. *)
(***************************************************************************)
EXTENDS Pairing, TLAPS

(* What a request has read may be stale, but its rows are still there: a   *)
(* code keeps its endpoint and its expiry, whatever else is written to it. *)
ReadInv ==
  \A r \in Requests :
    /\ job[r].call = "CreateDevice" =>
         /\ job[r].code \in DOMAIN codes
         /\ job[r].row.endpoint = codes[job[r].code].endpoint
         /\ job[r].row.expires = codes[job[r].code].expires
    /\ job[r].call \in {"handler", "UpdateLastSeen"} => job[r].device \in DOMAIN devices

IInv ==
  /\ TypeOK
  /\ ReadInv
  /\ UsedIffPaired
-----------------------------------------------------------------------------
(* What a job holds at each call.                                          *)
LEMMA JobFields ==
  ASSUME NEW j \in Job
  PROVE  /\ j.call = "CreatePairingCode" => j.endpoint \in Endpoints /\ j.at \in 0..MaxTime
         /\ j.call = "FindUsablePairingCode" => j.code \in Codes /\ j.at \in 0..MaxTime
         /\ j.call = "CreateDevice" =>
              j.code \in Codes /\ j.row \in PairingCode /\ j.at \in 0..MaxTime
         /\ j.call = "handler" => j.device \in Devices
         /\ j.call = "UpdateLastSeen" => j.device \in Devices /\ j.at \in 0..MaxTime
BY DEF Job, Idle

LEMMA IdleJob == Idle \in Job /\ Idle.call = "none"
BY DEF Job, Idle

(* A new code is nobody's yet.                                             *)
Added(r, c) ==
  /\ DOMAIN codes' = DOMAIN codes \cup {c} /\ c \notin DOMAIN codes
  /\ \A k \in DOMAIN codes : codes'[k] = codes[k]
  /\ codes'[c] = [endpoint |-> job[r].endpoint, expires |-> job[r].at + Lifetime, used |-> FALSE]
  /\ codes'[c] \in PairingCode
  /\ UNCHANGED <<now, deleted, devices, pairedBy>>

LEMMA CodeEffect ==
  ASSUME TypeOK, NEW r \in Requests, NEW c \in Codes, CreatePairingCode(r, c)
  PROVE  Added(r, c)
<1>1. job[r].endpoint \in Endpoints /\ job[r].at \in 0..MaxTime
  BY JobFields DEF TypeOK, CreatePairingCode
<1>2. job[r].at + Lifetime \in 0..(MaxTime + Lifetime)
  BY <1>1, PairingAssumption
<1>3. [endpoint |-> job[r].endpoint, expires |-> job[r].at + Lifetime, used |-> FALSE]
        \in PairingCode
  BY <1>1, <1>2 DEF PairingCode
<1>4. QED
  BY <1>3 DEF CreatePairingCode, Put, Added

(* A pairing writes the row of the code as it was read: used, and else as  *)
(* it still is, because nothing else about a code changes.                 *)
Paired(r, d) ==
  /\ job[r].code \in DOMAIN codes /\ d \notin DOMAIN devices
  /\ DOMAIN codes' = DOMAIN codes
  /\ \A c \in DOMAIN codes \ {job[r].code} : codes'[c] = codes[c]
  /\ codes'[job[r].code] = [codes[job[r].code] EXCEPT !.used = TRUE]
  /\ DOMAIN devices' = DOMAIN devices \cup {d}
  /\ \A o \in DOMAIN devices : devices'[o] = devices[o] /\ pairedBy'[o] = pairedBy[o]
  /\ devices'[d] \in Device
  /\ devices'[d].endpoint = codes[job[r].code].endpoint
  /\ DOMAIN pairedBy' = DOMAIN devices' /\ pairedBy'[d] = job[r].code

LEMMA PairEffect ==
  ASSUME TypeOK, ReadInv, NEW r \in Requests, NEW d \in Devices,
         CreateDeviceAndUsePairingCode(r, d)
  PROVE  Paired(r, d)
<1>1. /\ job[r].code \in DOMAIN codes /\ job[r].row \in PairingCode /\ job[r].at \in 0..MaxTime
      /\ job[r].row.endpoint = codes[job[r].code].endpoint
      /\ job[r].row.expires = codes[job[r].code].expires
      /\ codes[job[r].code] \in PairingCode /\ DOMAIN pairedBy = DOMAIN devices
  BY JobFields DEF TypeOK, ReadInv, CreateDeviceAndUsePairingCode
<1>2. [job[r].row EXCEPT !.used = TRUE] = [codes[job[r].code] EXCEPT !.used = TRUE]
  BY <1>1 DEF PairingCode
<1>3. NewDevice(r) \in Device /\ NewDevice(r).endpoint = codes[job[r].code].endpoint
  BY <1>1 DEF NewDevice, Device, PairingCode
<1>4. codes' = Put(codes, job[r].code, [codes[job[r].code] EXCEPT !.used = TRUE])
  BY <1>2 DEF CreateDeviceAndUsePairingCode
<1>5. /\ DOMAIN codes' = DOMAIN codes
      /\ \A c \in DOMAIN codes \ {job[r].code} : codes'[c] = codes[c]
      /\ codes'[job[r].code] = [codes[job[r].code] EXCEPT !.used = TRUE]
  BY <1>1, <1>4 DEF Put
<1>6. d \notin DOMAIN devices /\ devices' = Put(devices, d, NewDevice(r))
  BY DEF CreateDeviceAndUsePairingCode
<1>7. /\ DOMAIN devices' = DOMAIN devices \cup {d}
      /\ \A o \in DOMAIN devices : devices'[o] = devices[o]
      /\ devices'[d] = NewDevice(r)
  BY <1>6 DEF Put
<1>8. /\ DOMAIN pairedBy' = DOMAIN devices'
      /\ \A o \in DOMAIN devices : pairedBy'[o] = pairedBy[o]
      /\ pairedBy'[d] = job[r].code
  BY <1>1, <1>6, <1>7 DEF CreateDeviceAndUsePairingCode, Put
<1>9. QED
  BY <1>1, <1>3, <1>5, <1>6, <1>7, <1>8 DEF Paired

(* An UPDATE by a request with a device token: of its own row, and not of  *)
(* a deleted one.                                                          *)
Writes(r) ==
  UpdateLastSeen(r) \/ (\E active \in BOOLEAN : UpdateDevice(r, active)) \/ DeleteDevice(r)

Written(d) ==
  /\ devices' \in [DOMAIN devices -> Device]
  /\ \A o \in DOMAIN devices : devices'[o].endpoint = devices[o].endpoint
  /\ \A o \in DOMAIN devices : o # d \/ devices[o].deleted => devices'[o] = devices[o]

LEMMA DeviceEffect ==
  ASSUME TypeOK, ReadInv, NEW r \in Requests, Writes(r)
  PROVE  /\ job[r].call \in {"handler", "UpdateLastSeen"}
         /\ job[r].device \in DOMAIN devices
         /\ Written(job[r].device)
         /\ Become(r, Idle)
         /\ UNCHANGED <<now, deleted, codes, pairedBy>>
<1>1. /\ job[r].call \in {"handler", "UpdateLastSeen"} /\ job[r].device \in DOMAIN devices
      /\ job[r].call = "UpdateLastSeen" => job[r].at \in 0..MaxTime
      /\ devices \in [DOMAIN devices -> Device]
  BY JobFields DEF TypeOK, ReadInv, Writes, UpdateLastSeen, UpdateDevice, DeleteDevice
<1>2. ASSUME NEW row \in Device, row.endpoint = devices[job[r].device].endpoint,
             UpdateRow(job[r].device, row)
      PROVE  Written(job[r].device)
  BY <1>1, <1>2 DEF UpdateRow, Written
<1>3. CASE UpdateLastSeen(r)
  <2>1. [devices[job[r].device] EXCEPT !.seen = job[r].at] \in Device
    BY <1>1, <1>3 DEF UpdateLastSeen, Device
  <2>2. QED
    BY <1>1, <1>2, <1>3, <2>1 DEF UpdateLastSeen, Device
<1>4. ASSUME NEW active \in BOOLEAN, UpdateDevice(r, active)
      PROVE  Written(job[r].device)
  <2>1. [devices[job[r].device] EXCEPT !.active = active] \in Device
    BY <1>1 DEF Device
  <2>2. QED
    BY <1>1, <1>2, <1>4, <2>1 DEF UpdateDevice, Device
<1>5. CASE DeleteDevice(r)
  <2>1. [devices[job[r].device] EXCEPT !.deleted = TRUE] \in Device
    BY <1>1 DEF Device
  <2>2. QED
    BY <1>1, <1>2, <1>5, <2>1 DEF DeleteDevice, Device
<1>6. QED
  BY <1>1, <1>3, <1>4, <1>5 DEF Writes, UpdateLastSeen, UpdateDevice, DeleteDevice

(* The other steps leave the tables alone.                                 *)
LEMMA TablesStep ==
  ASSUME [Next]_vars
  PROVE  \/ UNCHANGED <<codes, devices, pairedBy>>
         \/ \E r \in Requests, c \in Codes : CreatePairingCode(r, c)
         \/ \E r \in Requests, d \in Devices : CreateDeviceAndUsePairingCode(r, d)
         \/ \E r \in Requests : Writes(r)
BY DEF Writes, Next, Request, vars, GeneratePairingCode, PairDevice, FindUsablePairingCode,
       RequireDevice, Heartbeat, Fail, DeleteEndpoint, SaveEndpoint, Tick

(* Rows are added and written to; none goes away, and a code keeps its     *)
(* endpoint and its expiry, and stays used.                                *)
LEMMA TablesGrow ==
  ASSUME TypeOK, ReadInv, [Next]_vars
  PROVE  /\ DOMAIN codes \subseteq DOMAIN codes'
         /\ \A c \in DOMAIN codes : /\ codes'[c].endpoint = codes[c].endpoint
                                    /\ codes'[c].expires = codes[c].expires
                                    /\ codes[c].used => codes'[c].used
         /\ DOMAIN devices \subseteq DOMAIN devices'
         /\ \A d \in DOMAIN devices : /\ devices'[d].endpoint = devices[d].endpoint
                                      /\ pairedBy'[d] = pairedBy[d]
<1>1. ASSUME NEW r \in Requests, NEW d \in Devices, CreateDeviceAndUsePairingCode(r, d),
             NEW c \in DOMAIN codes
      PROVE  /\ codes'[c].endpoint = codes[c].endpoint /\ codes'[c].expires = codes[c].expires
             /\ codes[c].used => codes'[c].used
  <2>1. codes[c] \in PairingCode
    BY DEF TypeOK
  <2>2. CASE c = job[r].code
    <3>1. codes'[c] = [codes[c] EXCEPT !.used = TRUE]
      BY <1>1, <2>2, PairEffect DEF Paired
    <3>2. QED
      BY <2>1, <3>1 DEF PairingCode
  <2>3. CASE c # job[r].code
    BY <1>1, <2>3, PairEffect DEF Paired
  <2>4. QED
    BY <2>2, <2>3
<1>2. QED
  BY <1>1, TablesStep, CodeEffect, PairEffect, DeviceEffect DEF Added, Paired, Written
-----------------------------------------------------------------------------
(* The inductive step, one lemma for each part of IInv.                    *)

(* The call that a step may leave request q with.                          *)
Onwards(q) ==
  \/ job'[q] = job[q]
  \/ job'[q].call = "none"
  \/ job'[q].call = "CreatePairingCode" /\ job'[q].endpoint \notin deleted
  \/ job'[q].call = "FindUsablePairingCode" /\ job'[q].at = now
  \/ /\ job[q].call = "FindUsablePairingCode"
     /\ job[q].code \in DOMAIN codes /\ ~ codes[job[q].code].used
     /\ codes[job[q].code].expires > job[q].at
     /\ job'[q].call = "CreateDevice"
     /\ job'[q].code = job[q].code /\ job'[q].row = codes[job[q].code]
  \/ /\ job'[q].call = "handler" /\ job'[q].device \in DOMAIN devices
     /\ devices[job'[q].device].active /\ ~ devices[job'[q].device].deleted
  \/ /\ job[q].call = "handler"
     /\ job'[q].call = "UpdateLastSeen" /\ job'[q].device = job[q].device

LEMMA JobStep ==
  TypeOK /\ [Next]_vars => job' \in [Requests -> Job] /\ \A q \in Requests : Onwards(q)
<1> DEFINE Goal == job' \in [Requests -> Job] /\ \A q \in Requests : Onwards(q)
<1> SUFFICES ASSUME TypeOK, [Next]_vars
             PROVE  Goal
  OBVIOUS
<1>t. /\ job \in [Requests -> Job] /\ now \in 0..MaxTime
      /\ DOMAIN codes \subseteq Codes /\ codes \in [DOMAIN codes -> PairingCode]
      /\ DOMAIN devices \subseteq Devices
  BY DEF TypeOK
<1>0. ASSUME NEW r \in Requests, NEW j \in Job, Become(r, j), Onwards(r)
      PROVE  Goal
  BY <1>t, <1>0 DEF Become, Onwards
<1>1. CASE UNCHANGED job
  BY <1>t, <1>1 DEF Onwards
<1>2. ASSUME NEW r \in Requests, Become(r, Idle)
      PROVE  Goal
  BY <1>t, <1>0, <1>2, IdleJob DEF Become, Onwards
<1>3. ASSUME NEW r \in Requests, NEW e \in Endpoints, GeneratePairingCode(r, e)
      PROVE  Goal
  <2>1. [call |-> "CreatePairingCode", endpoint |-> e, at |-> now] \in Job
    BY <1>t DEF Job
  <2>2. QED
    BY <1>t, <1>0, <1>3, <2>1 DEF GeneratePairingCode, Become, Onwards
<1>4. ASSUME NEW r \in Requests, NEW c \in Codes, PairDevice(r, c)
      PROVE  Goal
  <2>1. [call |-> "FindUsablePairingCode", code |-> c, at |-> now] \in Job
    BY <1>t DEF Job
  <2>2. QED
    BY <1>t, <1>0, <1>4, <2>1 DEF PairDevice, Become, Onwards
<1>5. ASSUME NEW r \in Requests, FindUsablePairingCode(r)
      PROVE  Goal
  <2> DEFINE c == job[r].code
             j == [call |-> "CreateDevice", code |-> c, row |-> codes[c], at |-> job[r].at]
  <2>1. CASE c \in DOMAIN codes /\ ~ codes[c].used /\ codes[c].expires > job[r].at
    <3>1. job[r].at \in 0..MaxTime
      BY <1>t, <1>5, JobFields DEF FindUsablePairingCode
    <3>2. j \in Job
      BY <1>t, <2>1, <3>1 DEF Job
    <3>3. QED
      BY <1>t, <1>0, <1>5, <2>1, <3>2 DEF FindUsablePairingCode, Become, Onwards
  <2>2. CASE ~ (c \in DOMAIN codes /\ ~ codes[c].used /\ codes[c].expires > job[r].at)
    BY <1>2, <1>5, <2>2 DEF FindUsablePairingCode
  <2>3. QED
    BY <2>1, <2>2
<1>6. ASSUME NEW r \in Requests, NEW d \in Devices, RequireDevice(r, d)
      PROVE  Goal
  <2>1. [call |-> "handler", device |-> d] \in Job
    BY DEF Job
  <2>2. QED
    BY <1>t, <1>0, <1>6, <2>1 DEF RequireDevice, FindActiveDeviceByTokenHash, Become, Onwards
<1>7. ASSUME NEW r \in Requests, Heartbeat(r)
      PROVE  Goal
  <2>1. job[r].device \in Devices
    BY <1>t, <1>7, JobFields DEF Heartbeat
  <2>2. [call |-> "UpdateLastSeen", device |-> job[r].device, at |-> now] \in Job
    BY <1>t, <2>1 DEF Job
  <2>3. QED
    BY <1>t, <1>0, <1>7, <2>2 DEF Heartbeat, Become, Onwards
<1>8. QED
  BY <1>1, <1>2, <1>3, <1>4, <1>5, <1>6, <1>7
     DEF Next, Request, vars, CreatePairingCode, CreateDeviceAndUsePairingCode, UpdateLastSeen,
         UpdateDevice, DeleteDevice, Fail, DeleteEndpoint, SaveEndpoint, Tick

LEMMA TypeNext == TypeOK /\ ReadInv /\ [Next]_vars => TypeOK'
<1> SUFFICES ASSUME TypeOK, ReadInv, [Next]_vars
             PROVE  TypeOK'
  OBVIOUS
<1> DEFINE Tables ==
      /\ DOMAIN codes \subseteq Codes /\ codes \in [DOMAIN codes -> PairingCode]
      /\ DOMAIN devices \subseteq Devices /\ devices \in [DOMAIN devices -> Device]
      /\ DOMAIN pairedBy = DOMAIN devices /\ pairedBy \in [DOMAIN devices -> Codes]
<1>t. Tables
  BY DEF TypeOK
<1>1. job' \in [Requests -> Job]
  BY JobStep
<1>2. now' \in 0..MaxTime /\ deleted' \subseteq Endpoints
  <2>1. CASE Tick
    BY <2>1, PairingAssumption DEF Tick, TypeOK
  <2>2. CASE UNCHANGED now
    BY <2>2 DEF TypeOK, Next, Request, vars, GeneratePairingCode, CreatePairingCode, PairDevice,
            FindUsablePairingCode, CreateDeviceAndUsePairingCode, RequireDevice, Heartbeat,
            UpdateLastSeen, UpdateDevice, DeleteDevice, Fail, DeleteEndpoint, SaveEndpoint, Tick
  <2>3. QED
    BY <2>1, <2>2
       DEF Next, Request, vars, GeneratePairingCode, CreatePairingCode, PairDevice,
           FindUsablePairingCode, CreateDeviceAndUsePairingCode, RequireDevice, Heartbeat,
           UpdateLastSeen, UpdateDevice, DeleteDevice, Fail, DeleteEndpoint, SaveEndpoint
<1>3. Tables'
  <2>1. ASSUME NEW r \in Requests, NEW c \in Codes, CreatePairingCode(r, c)
        PROVE  Tables'
    <3>1. codes' \in [DOMAIN codes' -> PairingCode] /\ DOMAIN codes' \subseteq Codes
      <4>1. \A k \in DOMAIN codes' : codes'[k] \in PairingCode
        BY <1>t, <2>1, CodeEffect DEF Added
      <4>2. codes' = [k \in DOMAIN codes' |-> codes'[k]]
        BY <2>1 DEF CreatePairingCode, Put
      <4>3. QED
        BY <1>t, <2>1, <4>1, <4>2, CodeEffect DEF Added
    <3>2. QED
      BY <1>t, <2>1, <3>1 DEF CreatePairingCode
  <2>2. ASSUME NEW r \in Requests, NEW d \in Devices, CreateDeviceAndUsePairingCode(r, d)
        PROVE  Tables'
    <3>1. /\ codes' = [k \in DOMAIN codes' |-> codes'[k]]
          /\ devices' = [k \in DOMAIN devices' |-> devices'[k]]
          /\ pairedBy' = [k \in DOMAIN pairedBy' |-> pairedBy'[k]]
      BY <2>2 DEF CreateDeviceAndUsePairingCode, Put
    <3>2. codes'[job[r].code] \in PairingCode
      <4>1. codes[job[r].code] \in PairingCode
        BY <1>t, <2>2, PairEffect DEF Paired
      <4>2. codes'[job[r].code] = [codes[job[r].code] EXCEPT !.used = TRUE]
        BY <2>2, PairEffect DEF Paired
      <4>3. QED
        BY <4>1, <4>2 DEF PairingCode
    <3>3. \A k \in DOMAIN codes' : codes'[k] \in PairingCode
      BY <1>t, <2>2, <3>2, PairEffect DEF Paired
    <3>4. ASSUME NEW k \in DOMAIN devices'
          PROVE  devices'[k] \in Device /\ pairedBy'[k] \in Codes
      <4>1. CASE k = d
        BY <1>t, <2>2, <4>1, PairEffect DEF Paired
      <4>2. CASE k \in DOMAIN devices
        BY <1>t, <2>2, <4>2, PairEffect DEF Paired
      <4>3. QED
        BY <2>2, <4>1, <4>2, PairEffect DEF Paired
    <3>5. /\ DOMAIN codes' \subseteq Codes /\ DOMAIN devices' \subseteq Devices
          /\ DOMAIN pairedBy' = DOMAIN devices'
      BY <1>t, <2>2, PairEffect DEF Paired
    <3>6. QED
      BY <3>1, <3>3, <3>4, <3>5
  <2>3. ASSUME NEW r \in Requests, Writes(r)
        PROVE  Tables'
    BY <1>t, <2>3, DeviceEffect DEF Written
  <2>4. CASE UNCHANGED <<codes, devices, pairedBy>>
    BY <1>t, <2>4
  <2>5. QED
    BY <2>1, <2>2, <2>3, <2>4, TablesStep
<1>4. QED
  BY <1>1, <1>2, <1>3 DEF TypeOK

LEMMA ReadNext == TypeOK /\ ReadInv /\ [Next]_vars => ReadInv'
<1> SUFFICES ASSUME TypeOK, ReadInv, [Next]_vars, NEW q \in Requests
             PROVE  /\ job'[q].call = "CreateDevice" =>
                         /\ job'[q].code \in DOMAIN codes'
                         /\ job'[q].row.endpoint = codes'[job'[q].code].endpoint
                         /\ job'[q].row.expires = codes'[job'[q].code].expires
                    /\ job'[q].call \in {"handler", "UpdateLastSeen"} =>
                         job'[q].device \in DOMAIN devices'
  BY DEF ReadInv
<1>1. Onwards(q)
  BY JobStep
<1>2. ASSUME job'[q].call = "CreateDevice"
      PROVE  /\ job'[q].code \in DOMAIN codes
             /\ job'[q].row.endpoint = codes[job'[q].code].endpoint
             /\ job'[q].row.expires = codes[job'[q].code].expires
  BY <1>1, <1>2 DEF Onwards, ReadInv
<1>3. ASSUME job'[q].call \in {"handler", "UpdateLastSeen"}
      PROVE  job'[q].device \in DOMAIN devices
  BY <1>1, <1>3 DEF Onwards, ReadInv
<1>4. QED
  BY <1>2, <1>3, TablesGrow

LEMMA UsedNext == TypeOK /\ ReadInv /\ UsedIffPaired /\ [Next]_vars => UsedIffPaired'
<1> SUFFICES ASSUME TypeOK, ReadInv, UsedIffPaired, [Next]_vars
             PROVE  UsedIffPaired'
  OBVIOUS
<1>1. ASSUME NEW r \in Requests, NEW c \in Codes, CreatePairingCode(r, c)
      PROVE  UsedIffPaired'
  <2>1. Added(r, c)
    BY <1>1, CodeEffect
  <2>2. ASSUME NEW k \in DOMAIN codes'
        PROVE  codes'[k].used <=> \E o \in DOMAIN devices' : pairedBy'[o] = k
    <3>1. CASE k = c
      BY <2>1, <3>1 DEF Added, UsedIffPaired
    <3>2. CASE k \in DOMAIN codes
      BY <2>1, <3>2 DEF Added, UsedIffPaired
    <3>3. QED
      BY <2>1, <3>1, <3>2 DEF Added
  <2>3. ASSUME NEW o \in DOMAIN devices'
        PROVE  /\ pairedBy'[o] \in DOMAIN codes'
               /\ codes'[pairedBy'[o]].endpoint = devices'[o].endpoint
    BY <2>1 DEF Added, UsedIffPaired
  <2>4. QED
    BY <2>2, <2>3 DEF UsedIffPaired
<1>2. ASSUME NEW r \in Requests, NEW d \in Devices, CreateDeviceAndUsePairingCode(r, d)
      PROVE  UsedIffPaired'
  <2> DEFINE c == job[r].code
  <2>0. Paired(r, d)
    BY <1>2, PairEffect
  <2>1. codes'[c].used /\ codes'[c].endpoint = codes[c].endpoint
    <3>1. codes[c] \in PairingCode
      BY <1>2, PairEffect DEF Paired, TypeOK
    <3>2. codes'[c] = [codes[c] EXCEPT !.used = TRUE]
      BY <1>2, PairEffect DEF Paired
    <3>3. QED
      BY <3>1, <3>2 DEF PairingCode
  <2>2. ASSUME NEW k \in DOMAIN codes'
        PROVE  codes'[k].used <=> \E o \in DOMAIN devices' : pairedBy'[o] = k
    <3>1. CASE k = c
      BY <2>0, <2>1, <3>1 DEF Paired
    <3>2. CASE k # c
      <4>1. k \in DOMAIN codes /\ codes'[k] = codes[k]
        BY <2>0, <3>2 DEF Paired
      <4>2. \A o \in DOMAIN devices' : pairedBy'[o] = k <=> o \in DOMAIN devices /\ pairedBy[o] = k
        BY <2>0, <3>2 DEF Paired
      <4>3. codes[k].used <=> \E o \in DOMAIN devices : pairedBy[o] = k
        BY <4>1 DEF UsedIffPaired
      <4>4. QED
        BY <2>0, <4>1, <4>2, <4>3 DEF Paired
    <3>3. QED
      BY <3>1, <3>2
  <2>3. ASSUME NEW o \in DOMAIN devices'
        PROVE  /\ pairedBy'[o] \in DOMAIN codes'
               /\ codes'[pairedBy'[o]].endpoint = devices'[o].endpoint
    <3>1. CASE o = d
      BY <2>0, <2>1, <3>1 DEF Paired
    <3>2. CASE o \in DOMAIN devices
      <4>1. /\ pairedBy[o] \in DOMAIN codes
            /\ codes[pairedBy[o]].endpoint = devices[o].endpoint
        BY <3>2 DEF UsedIffPaired
      <4>2. QED
        BY <3>2, <4>1, TablesGrow
    <3>3. QED
      BY <2>0, <3>1, <3>2 DEF Paired
  <2>4. QED
    BY <2>2, <2>3 DEF UsedIffPaired
<1>3. ASSUME NEW r \in Requests, Writes(r)
      PROVE  UsedIffPaired'
  BY <1>3, DeviceEffect DEF Written, UsedIffPaired
<1>4. CASE UNCHANGED <<codes, devices, pairedBy>>
  BY <1>4 DEF UsedIffPaired
<1>5. QED
  BY <1>1, <1>2, <1>3, <1>4, TablesStep

LEMMA InvInit == Init => IInv
BY IdleJob, PairingAssumption DEF Init, IInv, TypeOK, ReadInv, UsedIffPaired

LEMMA InvNext == IInv /\ [Next]_vars => IInv'
BY TypeNext, ReadNext, UsedNext DEF IInv

LEMMA Invariant == Spec => []IInv
BY InvInit, InvNext, PTL DEF Spec

(* Codes, devices and requests under way keep their types.                 *)
THEOREM TypeCorrect == Spec => []TypeOK
BY Invariant, PTL DEF IInv

(* CreateDeviceAndUsePairingCode does both or neither, and a pairing that  *)
(* saves the code as it was read frees no used one: the tables agree.      *)
THEOREM TablesAgree == Spec => []UsedIffPaired
BY Invariant, PTL DEF IInv
-----------------------------------------------------------------------------
(* What stays true for good.                                               *)

LEMMA ClockStep ==
  ASSUME TypeOK, [Next]_vars
  PROVE  now \in Nat /\ now' \in Nat /\ now <= now'
<1>1. now \in Nat
  BY PairingAssumption DEF TypeOK
<1>2. UNCHANGED now \/ now' = now + 1
  BY DEF Next, Request, vars, GeneratePairingCode, CreatePairingCode, PairDevice,
         FindUsablePairingCode, CreateDeviceAndUsePairingCode, RequireDevice, Heartbeat,
         UpdateLastSeen, UpdateDevice, DeleteDevice, Fail, DeleteEndpoint, SaveEndpoint, Tick
<1>3. QED
  BY <1>1, <1>2

(* A device is added by a pairing, with the code that the request found.   *)
LEMMA NewDeviceStep ==
  ASSUME IInv, [Next]_vars, NEW d \in DOMAIN devices', d \notin DOMAIN devices
  PROVE  \E r \in Requests : /\ MayPair(r, pairedBy'[d])
                             /\ pairedBy'[d] \in DOMAIN codes
                             /\ devices'[d].endpoint = codes[pairedBy'[d]].endpoint
<1>1. PICK r \in Requests, new \in Devices : CreateDeviceAndUsePairingCode(r, new)
  BY TablesStep, CodeEffect, DeviceEffect DEF IInv, Added, Written
<1>2. Paired(r, new)
  BY <1>1, PairEffect DEF IInv
<1>3. d = new /\ pairedBy'[d] = job[r].code /\ job[r].code \in DOMAIN codes
  BY <1>2 DEF Paired
<1>4. devices'[d].endpoint = codes[pairedBy'[d]].endpoint
  BY <1>2, <1>3 DEF Paired
<1>5. job[r].call = "CreateDevice"
  BY <1>1 DEF CreateDeviceAndUsePairingCode
<1>6. QED
  BY <1>3, <1>4, <1>5 DEF MayPair

LEMMA SpentStays ==
  ASSUME IInv, [Next]_vars, NEW c \in Codes, Spent(c)
  PROVE  Spent(c)' /\ PairedWith(c)' = PairedWith(c)
<1>1. /\ c \in DOMAIN codes /\ c \in DOMAIN codes'
      /\ codes'[c].expires = codes[c].expires /\ (codes[c].used => codes'[c].used)
  BY TablesGrow DEF IInv, Spent
<1>2. codes[c].expires \in Nat
  BY <1>1, PairingAssumption DEF IInv, TypeOK, PairingCode
<1>3. now \in Nat /\ now' \in Nat /\ now <= now'
  BY ClockStep DEF IInv
<1>4. codes'[c].used \/ codes'[c].expires <= now'
  BY <1>1, <1>2, <1>3 DEF Spent
<1>5. ASSUME NEW q \in Requests, MayPair(q, c)'
      PROVE  FALSE
  <2>1. Onwards(q)
    BY JobStep DEF IInv
  <2>2. ~ MayPair(q, c)
    BY DEF Spent
  <2>3. CASE job'[q].call = "CreateDevice" /\ job'[q].code = c
    BY <1>1, <2>1, <2>2, <2>3 DEF Onwards, MayPair
  <2>4. CASE /\ job'[q].call = "FindUsablePairingCode" /\ job'[q].code = c
             /\ ~ codes'[c].used /\ job'[q].at < codes'[c].expires
    <3>1. job'[q] = job[q] \/ job'[q].at = now
      BY <2>1, <2>4 DEF Onwards
    <3>2. CASE job'[q] = job[q]
      BY <1>1, <2>2, <2>4, <3>2 DEF MayPair
    <3>3. CASE job'[q].at = now
      BY <1>1, <1>2, <1>3, <2>4, <3>3 DEF Spent
    <3>4. QED
      BY <3>1, <3>2, <3>3
  <2>5. QED
    BY <1>5, <2>3, <2>4 DEF MayPair
<1>6. PairedWith(c)' = PairedWith(c)
  <2>1. \A d \in DOMAIN devices : d \in DOMAIN devices' /\ pairedBy'[d] = pairedBy[d]
    BY TablesGrow DEF IInv
  <2>2. \A d \in DOMAIN devices' \ DOMAIN devices : pairedBy'[d] # c
    BY NewDeviceStep DEF Spent
  <2>3. QED
    BY <2>1, <2>2 DEF PairedWith
<1>7. QED
  BY <1>1, <1>4, <1>5, <1>6 DEF Spent

(* A code that is used or has expired pairs no device again, once the      *)
(* pairings that found it usable have ended: FindUsablePairingCode looks   *)
(* at used_at and at the expiry, and no step sets them back.               *)
THEOREM SpentIsFinal == Spec => SpentForGood
<1>1. IInv /\ [Next]_vars =>
        [\A c \in Codes : Spent(c) => Spent(c)' /\ PairedWith(c)' = PairedWith(c)]_vars
  BY SpentStays
<1>2. QED
  BY <1>1, Invariant, PTL DEF Spec, SpentForGood

(* A deleted endpoint has no device added once its codes are spent, unless *)
(* an update brings the endpoint back: no code is generated for it.        *)
THEOREM DeletedIsDrained == Spec => DeletedEndpointDrains
<1>1. IInv /\ [Next]_vars =>
        [\A e \in Endpoints : Drained(e) =>
           /\ Drained(e)' \/ e \notin deleted'
           /\ \A d \in DOMAIN devices' \ DOMAIN devices : devices'[d].endpoint # e]_vars
  <2> SUFFICES ASSUME IInv, [Next]_vars, NEW e \in Endpoints, Drained(e)
               PROVE  /\ Drained(e)' \/ e \notin deleted'
                      /\ \A d \in DOMAIN devices' \ DOMAIN devices : devices'[d].endpoint # e
    OBVIOUS
  <2>1. \A d \in DOMAIN devices' \ DOMAIN devices : devices'[d].endpoint # e
    BY NewDeviceStep DEF Drained, Spent
  <2>2. ASSUME NEW q \in Requests, job'[q].call = "CreatePairingCode"
        PROVE  job'[q].endpoint # e
    <3>1. Onwards(q)
      BY JobStep DEF IInv
    <3>2. QED
      BY <2>2, <3>1 DEF Onwards, Drained
  <2>3. ASSUME NEW c \in DOMAIN codes', codes'[c].endpoint = e
        PROVE  Spent(c)'
    <3>1. CASE c \in DOMAIN codes
      <4>1. codes[c].endpoint = e /\ c \in Codes
        BY <2>3, <3>1, TablesGrow DEF IInv, TypeOK
      <4>2. QED
        BY <3>1, <4>1, SpentStays DEF Drained
    <3>2. CASE c \notin DOMAIN codes
      <4>1. PICK r \in Requests, new \in Codes : CreatePairingCode(r, new)
        BY <2>3, <3>2, TablesStep, PairEffect, DeviceEffect DEF IInv, Paired
      <4>2. Added(r, new)
        BY <4>1, CodeEffect DEF IInv
      <4>3. codes'[c].endpoint = job[r].endpoint
        BY <2>3, <3>2, <4>2 DEF Added
      <4>4. QED
        BY <2>3, <4>1, <4>3 DEF CreatePairingCode, Drained
    <3>3. QED
      BY <3>1, <3>2
  <2>4. QED
    BY <2>1, <2>2, <2>3 DEF Drained
<1>2. QED
  BY <1>1, Invariant, PTL DEF Spec, DeletedEndpointDrains

(* A device that is off or deleted, with no request under way, is never    *)
(* let in again, and a deleted one is never written to: RequireDevice does *)
(* not find it, and the updates leave out deleted rows.                    *)
THEOREM LockedOutForGood == Spec => LockOutIsFinal
<1>1. ASSUME IInv, [Next]_vars, NEW d \in DOMAIN devices, devices[d].deleted
      PROVE  devices'[d] = devices[d]
  BY <1>1, TablesStep, CodeEffect, PairEffect, DeviceEffect DEF IInv, Added, Paired, Written
<1>2. ASSUME IInv, [Next]_vars, NEW d \in DOMAIN devices, LockedOut(d)
      PROVE  LockedOut(d)'
  <2>1. d \in DOMAIN devices'
    BY <1>2, TablesGrow DEF IInv
  <2>2. devices'[d] = devices[d]
    <3>1. ASSUME NEW r \in Requests, Writes(r)
          PROVE  devices'[d] = devices[d]
      <4>1. job[r].device # d /\ Written(job[r].device)
        BY <1>2, <3>1, DeviceEffect DEF IInv, LockedOut
      <4>2. QED
        BY <4>1 DEF Written
    <3>2. QED
      BY <1>2, <3>1, TablesStep, CodeEffect, PairEffect DEF IInv, Added, Paired
  <2>3. ASSUME NEW q \in Requests, job'[q].call \in {"handler", "UpdateLastSeen"}
        PROVE  job'[q].device # d
    <3>1. Onwards(q)
      BY <1>2, JobStep DEF IInv
    <3>2. QED
      BY <1>2, <2>3, <3>1 DEF Onwards, LockedOut
  <2>4. QED
    BY <1>2, <2>1, <2>2, <2>3 DEF LockedOut
<1>3. IInv /\ [Next]_vars =>
        [\A d \in DOMAIN devices :
           /\ LockedOut(d) => LockedOut(d)'
           /\ devices[d].deleted => devices'[d] = devices[d]]_vars
  BY <1>1, <1>2
<1>4. QED
  BY <1>3, Invariant, PTL DEF Spec, LockOutIsFinal
-----------------------------------------------------------------------------
(* No two requests could pair with one code at the same time.              *)
NoOverlap ==
  \A c \in DOMAIN codes : \A r, q \in Requests : MayPair(r, c) /\ MayPair(q, c) => r = q

UsedIsSpent == \A c \in DOMAIN codes : codes[c].used => Spent(c)

(* A code does pair two devices (SingleUse does not hold), but only when   *)
(* two pairings overlap: nothing else that happens to the tables, the      *)
(* clock or the requests breaks the README's promise.                      *)
THEOREM OnlyOverlapReuses == Spec /\ []NoOverlap => []SingleUse
<1> DEFINE Inv == IInv /\ UsedIsSpent /\ SingleUse
<1>1. Init => Inv
  BY InvInit DEF Init, UsedIsSpent, SingleUse
<1>2. ASSUME Inv, NoOverlap, [Next]_vars
      PROVE  UsedIsSpent'
  <2> SUFFICES ASSUME NEW c \in DOMAIN codes', codes'[c].used
               PROVE  Spent(c)'
    BY DEF UsedIsSpent
  <2>1. ASSUME NEW r \in Requests, NEW d \in Devices, CreateDeviceAndUsePairingCode(r, d),
               job[r].code = c
        PROVE  Spent(c)'
    <3>1. Paired(r, d) /\ c \in DOMAIN codes
      BY <1>2, <2>1, PairEffect DEF IInv, Paired
    <3>2. MayPair(r, c) /\ \A q \in Requests \ {r} : ~ MayPair(q, c)
      BY <1>2, <2>1, <3>1 DEF MayPair, CreateDeviceAndUsePairingCode, NoOverlap
    <3>3. job[r].call # "none" /\ job' = [job EXCEPT ![r] = Idle]
      BY <2>1 DEF CreateDeviceAndUsePairingCode, Become
    <3>4. ASSUME NEW q \in Requests
          PROVE  ~ MayPair(q, c)'
      <4>1. CASE q = r
        BY <1>2, <3>3, <4>1, IdleJob DEF MayPair, IInv, TypeOK
      <4>2. CASE q # r
        BY <1>2, <3>2, <3>3, <4>2 DEF MayPair, IInv, TypeOK
      <4>3. QED
        BY <4>1, <4>2
    <3>5. QED
      BY <3>4 DEF Spent
  <2>2. ASSUME c \in DOMAIN codes, codes[c].used
        PROVE  Spent(c)'
    <3>1. c \in Codes /\ Spent(c)
      BY <1>2, <2>2 DEF IInv, TypeOK, UsedIsSpent
    <3>2. QED
      BY <1>2, <3>1, SpentStays
  <2>3. \/ c \in DOMAIN codes /\ codes[c].used
        \/ \E r \in Requests, d \in Devices :
             CreateDeviceAndUsePairingCode(r, d) /\ job[r].code = c
    <3>1. ASSUME NEW r \in Requests, NEW k \in Codes, CreatePairingCode(r, k)
          PROVE  c \in DOMAIN codes /\ codes[c].used
      <4>1. Added(r, k)
        BY <1>2, <3>1, CodeEffect DEF IInv
      <4>2. c # k
        BY <4>1 DEF Added
      <4>3. QED
        BY <4>1, <4>2 DEF Added
    <3>2. ASSUME NEW r \in Requests, NEW d \in Devices, CreateDeviceAndUsePairingCode(r, d)
          PROVE  job[r].code = c \/ (c \in DOMAIN codes /\ codes[c].used)
      BY <1>2, <3>2, PairEffect DEF IInv, Paired
    <3>3. QED
      BY <1>2, <3>1, <3>2, TablesStep, DeviceEffect DEF IInv
  <2>4. QED
    BY <2>1, <2>2, <2>3
<1>3. ASSUME Inv, [Next]_vars
      PROVE  SingleUse'
  <2> SUFFICES ASSUME NEW a \in DOMAIN devices', NEW b \in DOMAIN devices',
                      pairedBy'[a] = pairedBy'[b]
               PROVE  a = b
    BY DEF SingleUse
  <2>1. ASSUME NEW d \in DOMAIN devices', d \notin DOMAIN devices, NEW o \in DOMAIN devices
        PROVE  pairedBy'[d] # pairedBy[o]
    <3>1. PICK r \in Requests : MayPair(r, pairedBy'[d]) /\ pairedBy'[d] \in DOMAIN codes
      BY <1>3, <2>1, NewDeviceStep
    <3>2. ~ codes[pairedBy'[d]].used
      BY <1>3, <3>1 DEF UsedIsSpent, Spent
    <3>3. QED
      BY <1>3, <3>1, <3>2 DEF IInv, UsedIffPaired
  <2>2. \A o \in DOMAIN devices : pairedBy'[o] = pairedBy[o]
    BY <1>3, TablesGrow DEF IInv
  <2>3. \A d, o \in DOMAIN devices' \ DOMAIN devices : d = o
    BY <1>3, TablesStep, CodeEffect, PairEffect, DeviceEffect DEF IInv, Added, Paired, Written
  <2>4. QED
    BY <1>3, <2>1, <2>2, <2>3 DEF SingleUse
<1>4. Inv /\ NoOverlap /\ [Next]_vars => Inv'
  BY <1>2, <1>3, InvNext
<1>5. QED
  BY <1>1, <1>4, PTL DEF Spec
=============================================================================
