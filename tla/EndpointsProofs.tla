-------------------------- MODULE EndpointsProofs --------------------------
(***************************************************************************)
(* The endpoints table for any users, IDs, slugs and requests.             *)
(***************************************************************************)
EXTENDS Endpoints, TLAPS

Saving(r) == job[r].call \in {"SaveEndpoint", "Upsert"}
Deleting(r) == job[r].call = "DeleteEndpoint"

(* What a request has read is still so: the slug and the user of a row     *)
(* never change, and nobody works on another user's endpoint.              *)
ReadInv ==
  \A r \in Requests :
    /\ job[r] # Idle => job[r].user = rows[job[r].id].user
    /\ Saving(r) => /\ job[r].row.slug = rows[job[r].id].slug
                    /\ job[r].row.user = rows[job[r].id].user
                    /\ ~ job[r].row.deleted

UniqueSlugs == \A e, o \in DOMAIN rows : rows[e].slug = rows[o].slug => e = o

IInv == TypeOK /\ ReadInv /\ UniqueSlugs
-----------------------------------------------------------------------------
(* The three shapes a job has.                                             *)
LEMMA JobShape ==
  ASSUME NEW j \in Job
  PROVE  \/ j = Idle /\ j.call = "none"
         \/ /\ j # Idle /\ j.call \in {"SaveEndpoint", "Upsert"}
            /\ j.id \in IDs /\ j.user \in Users /\ j.row \in Endpoint /\ j.asks \in Asks
         \/ j # Idle /\ j.call = "DeleteEndpoint" /\ j.id \in IDs /\ j.user \in Users
BY DEF Job, Idle

(* The edited and the inserted row differ from the one read in settings.   *)
LEMMA EditedRow ==
  ASSUME NEW row \in Endpoint, NEW asks \in Asks
  PROVE  LET new == Edited(row, asks)
         IN  /\ new \in Endpoint
             /\ new.slug = row.slug /\ new.user = row.user /\ new.deleted = row.deleted
             /\ asks = "nothing" => new.active = row.active
             /\ asks # "nothing" => new.active = (asks = "on")
BY DEF Edited, Endpoint, Asks

LEMMA InsertedRow ==
  ASSUME NEW row \in Endpoint
  PROVE  LET new == Inserted(row)
         IN  /\ new \in Endpoint
             /\ new.slug = row.slug /\ new.user = row.user /\ new.deleted = row.deleted
BY DEF Inserted, Endpoint

LEMMA InvInit == Init => IInv
BY DEF Init, IInv, TypeOK, ReadInv, UniqueSlugs, Job, Idle, Saving

(* The table after a write to one row.                                     *)
LEMMA RowWritten ==
  ASSUME TypeOK, NEW e \in DOMAIN rows, NEW row \in Endpoint,
         rows' = [rows EXCEPT ![e] = row]
  PROVE  /\ DOMAIN rows' = DOMAIN rows /\ rows' \in [DOMAIN rows -> Endpoint]
         /\ rows'[e] = row
         /\ \A o \in DOMAIN rows \ {e} : rows'[o] = rows[o]
BY DEF TypeOK

(* A write that keeps the row's slug and user disturbs nobody.             *)
LEMMA WriteKeeps ==
  ASSUME IInv, NEW r \in Requests, NEW e \in DOMAIN rows, NEW row \in Endpoint,
         rows' = [rows EXCEPT ![e] = row], job' = [job EXCEPT ![r] = Idle],
         row.slug = rows[e].slug, row.user = rows[e].user
  PROVE  IInv'
<1>1. /\ DOMAIN rows' = DOMAIN rows /\ rows' \in [DOMAIN rows -> Endpoint]
      /\ \A o \in DOMAIN rows : rows'[o].slug = rows[o].slug /\ rows'[o].user = rows[o].user
  BY RowWritten DEF IInv
<1>2. /\ job' \in [Requests -> Job] /\ job'[r] = Idle
      /\ \A q \in Requests \ {r} : job'[q] = job[q]
  BY DEF IInv, TypeOK, Job
<1>3. \A q \in Requests : job[q] # Idle => job[q].id \in DOMAIN rows
  BY DEF IInv, TypeOK
<1>4. TypeOK'
  BY <1>1, <1>2, <1>3 DEF IInv, TypeOK
<1>5. ReadInv'
  BY <1>1, <1>2, <1>3 DEF IInv, ReadInv, Saving, Idle
<1>6. UniqueSlugs'
  BY <1>1 DEF IInv, UniqueSlugs
<1>7. QED
  BY <1>4, <1>5, <1>6 DEF IInv

(* What the statements of an update and a delete write.                    *)
Hits(r) == Upsert(r) \/ (SaveEndpoint(r) /\ ~ rows[job[r].id].deleted)

LEMMA SaveWrites ==
  ASSUME IInv, NEW r \in Requests, Hits(r)
  PROVE  LET e == job[r].id
             row == ToWrite(r)
         IN  /\ e \in DOMAIN rows /\ row \in Endpoint
             /\ row.slug = rows[e].slug /\ row.user = rows[e].user /\ ~ row.deleted
             /\ rows' = [rows EXCEPT ![e] = row]
             /\ job' = [job EXCEPT ![r] = Idle]
             /\ job[r] # Idle /\ job[r].user = rows[e].user
<1>1. job[r] \in Job /\ job[r].call \in {"SaveEndpoint", "Upsert"}
  BY DEF IInv, TypeOK, Hits, SaveEndpoint, Upsert
<1>2. job[r] # Idle /\ job[r].id \in IDs /\ job[r].row \in Endpoint
  BY <1>1, JobShape
<1>3. /\ job[r].id \in DOMAIN rows /\ job[r].user = rows[job[r].id].user
      /\ job[r].row.slug = rows[job[r].id].slug
      /\ job[r].row.user = rows[job[r].id].user /\ ~ job[r].row.deleted
  BY <1>1, <1>2 DEF IInv, TypeOK, ReadInv, Saving
<1>4. /\ ToWrite(r) \in Endpoint /\ ToWrite(r).slug = job[r].row.slug
      /\ ToWrite(r).user = job[r].row.user /\ ~ ToWrite(r).deleted
  BY <1>2, <1>3, InsertedRow DEF ToWrite
<1>5. rows' = [rows EXCEPT ![job[r].id] = ToWrite(r)] /\ job' = [job EXCEPT ![r] = Idle]
  BY DEF Hits, SaveEndpoint, Upsert, ToWrite
<1>6. QED
  BY <1>2, <1>3, <1>4, <1>5

LEMMA DeleteWrites ==
  ASSUME IInv, NEW r \in Requests, MarkDeleted(r)
  PROVE  LET e == job[r].id
             row == [rows[e] EXCEPT !.deleted = TRUE]
         IN  /\ e \in DOMAIN rows /\ row \in Endpoint
             /\ row.slug = rows[e].slug /\ row.user = rows[e].user /\ row.deleted
             /\ rows' = [rows EXCEPT ![e] = row]
             /\ job' = [job EXCEPT ![r] = Idle]
             /\ job[r] # Idle /\ job[r].user = rows[e].user
<1>1. job[r] \in Job /\ job[r].call = "DeleteEndpoint"
  BY DEF IInv, TypeOK, MarkDeleted
<1>2. job[r] # Idle
  BY <1>1, JobShape
<1>3. job[r].id \in DOMAIN rows /\ job[r].user = rows[job[r].id].user
  BY <1>2 DEF IInv, TypeOK, ReadInv
<1>4. rows[job[r].id] \in Endpoint
  BY <1>3 DEF IInv, TypeOK
<1>5. LET row == [rows[job[r].id] EXCEPT !.deleted = TRUE]
      IN  /\ row \in Endpoint /\ row.slug = rows[job[r].id].slug
          /\ row.user = rows[job[r].id].user /\ row.deleted
  BY <1>4 DEF Endpoint
<1>6. rows' = [rows EXCEPT ![job[r].id] = [rows[job[r].id] EXCEPT !.deleted = TRUE]]
  BY DEF MarkDeleted
<1>7. QED
  BY <1>2, <1>3, <1>5, <1>6 DEF MarkDeleted

(* A request that reads a row of its user and keeps it for a write.        *)
LEMMA ReadKeeps ==
  ASSUME IInv, NEW r \in Requests, NEW u \in Users, NEW e \in IDs, NEW j \in Job,
         FindUserEndpoint(u, e), UNCHANGED rows, job' = [job EXCEPT ![r] = j],
         j # Idle, j.id = e, j.user = u,
         j.call \in {"SaveEndpoint", "Upsert"} =>
           /\ j.row.slug = rows[e].slug /\ j.row.user = rows[e].user
           /\ ~ j.row.deleted
  PROVE  IInv'
<1>1. /\ job' \in [Requests -> Job] /\ job'[r] = j
      /\ \A q \in Requests \ {r} : job'[q] = job[q]
  BY DEF IInv, TypeOK
<1>2. e \in DOMAIN rows /\ rows[e].user = u
  BY DEF FindUserEndpoint
<1>3. TypeOK'
  BY <1>1, <1>2 DEF IInv, TypeOK
<1>4. ReadInv'
  BY <1>1, <1>2 DEF IInv, ReadInv, Saving
<1>5. QED
  BY <1>3, <1>4 DEF IInv, UniqueSlugs

(* An UPDATE that finds no row leaves the rest to the INSERT.              *)
LEMMA SaveMisses ==
  ASSUME IInv, NEW r \in Requests, SaveEndpoint(r), rows[job[r].id].deleted
  PROVE  /\ IInv' /\ UNCHANGED rows
         /\ job[r].call = "SaveEndpoint" /\ job'[r].call = "Upsert"
         /\ job'[r].id = job[r].id
         /\ \A q \in Requests \ {r} : job'[q] = job[q]
<1> DEFINE j == [job[r] EXCEPT !.call = "Upsert"]
<1>1. job[r] \in Job /\ job[r].call = "SaveEndpoint"
  BY DEF IInv, TypeOK, SaveEndpoint
<1>2. /\ j \in Job /\ j # Idle /\ job[r] # Idle /\ j.call = "Upsert"
      /\ j.id = job[r].id /\ j.user = job[r].user /\ j.row = job[r].row
  BY <1>1 DEF Job, Idle
<1> HIDE DEF j
<1>3. UNCHANGED rows /\ job' = [job EXCEPT ![r] = j]
  BY DEF SaveEndpoint, j
<1>4. /\ job' \in [Requests -> Job] /\ job'[r] = j
      /\ \A q \in Requests \ {r} : job'[q] = job[q]
  BY <1>2, <1>3 DEF IInv, TypeOK
<1>5. TypeOK'
  BY <1>2, <1>3, <1>4 DEF IInv, TypeOK
<1>6. ReadInv'
  BY <1>1, <1>2, <1>3, <1>4 DEF IInv, ReadInv, Saving
<1>7. QED
  BY <1>1, <1>2, <1>3, <1>4, <1>5, <1>6 DEF IInv, UniqueSlugs

LEMMA CreateKeeps ==
  ASSUME IInv, NEW u \in Users, NEW e \in IDs, NEW s \in Slugs, CreateEndpoint(u, e, s)
  PROVE  /\ IInv'
         /\ DOMAIN rows' = DOMAIN rows \cup {e} /\ e \notin DOMAIN rows
         /\ \A o \in DOMAIN rows : rows'[o] = rows[o]
<1> DEFINE row == [user |-> u, slug |-> s, active |-> TRUE, deleted |-> FALSE]
<1>1. row \in Endpoint /\ row.slug = s
  BY DEF Endpoint
<1>2. /\ DOMAIN rows' = DOMAIN rows \cup {e} /\ e \notin DOMAIN rows
      /\ rows'[e] = row /\ \A o \in DOMAIN rows : rows'[o] = rows[o]
  BY DEF CreateEndpoint, Put
<1>3. rows' \in [DOMAIN rows' -> Endpoint]
  BY <1>1 DEF CreateEndpoint, Put, IInv, TypeOK
<1>4. TypeOK'
  BY <1>2, <1>3 DEF IInv, TypeOK, CreateEndpoint
<1>5. ReadInv'
  <2>1. job' = job
    BY DEF CreateEndpoint
  <2>2. \A q \in Requests : job[q] # Idle \/ Saving(q) => job[q].id \in DOMAIN rows
    BY DEF IInv, TypeOK, Saving, Idle
  <2>3. \A q \in Requests : job[q] # Idle \/ Saving(q) =>
          rows'[job[q].id] = rows[job[q].id]
    BY <1>2, <2>2
  <2>4. QED
    BY <2>1, <2>3 DEF IInv, ReadInv, Saving
<1>6. UniqueSlugs'
  <2>1. \A o \in DOMAIN rows : rows'[o].slug # s
    BY <1>2 DEF CreateEndpoint
  <2>2. rows'[e].slug = s
    BY <1>1, <1>2
  <2>3. QED
    BY <1>2, <2>1, <2>2 DEF IInv, UniqueSlugs
<1>7. QED
  BY <1>2, <1>4, <1>5, <1>6 DEF IInv

LEMMA UpdateReads ==
  ASSUME IInv, NEW r \in Requests, NEW u \in Users, NEW e \in IDs, UpdateEndpoint(r, u, e)
  PROVE  /\ IInv'
         /\ e \in DOMAIN rows /\ job[r] = Idle
         /\ job'[r].call = "SaveEndpoint" /\ job'[r].id = e
         /\ job'[r].asks = "nothing" => job'[r].row.active = rows[e].active
         /\ job'[r].asks # "nothing" => job'[r].row.active = (job'[r].asks = "on")
         /\ job'[r].asks \in Asks
<1>1. PICK asks \in Asks :
        job' = [job EXCEPT ![r] = [call |-> "SaveEndpoint", user |-> u, id |-> e,
                                   row |-> Edited(rows[e], asks), asks |-> asks]]
  BY DEF UpdateEndpoint
<1> DEFINE row == Edited(rows[e], asks)
           j == [call |-> "SaveEndpoint", user |-> u, id |-> e, row |-> row, asks |-> asks]
<1>2. e \in DOMAIN rows /\ FindUserEndpoint(u, e) /\ rows[e] \in Endpoint
  BY DEF UpdateEndpoint, FindUserEndpoint, IInv, TypeOK
<1>3. /\ row \in Endpoint /\ row.slug = rows[e].slug /\ row.user = rows[e].user
      /\ ~ row.deleted
      /\ asks = "nothing" => row.active = rows[e].active
      /\ asks # "nothing" => row.active = (asks = "on")
  BY <1>2, EditedRow DEF FindUserEndpoint
<1> HIDE DEF row
<1>4. j \in Job /\ j # Idle
  BY <1>3 DEF Job, Idle
<1>5. job' = [job EXCEPT ![r] = j] /\ job'[r] = j
  BY <1>1 DEF IInv, TypeOK, row
<1>6. IInv'
  BY <1>2, <1>3, <1>4, <1>5, ReadKeeps DEF UpdateEndpoint
<1>7. QED
  BY <1>2, <1>3, <1>5, <1>6 DEF UpdateEndpoint

LEMMA DeleteReads ==
  ASSUME IInv, NEW r \in Requests, NEW u \in Users, NEW e \in IDs, DeleteEndpoint(r, u, e)
  PROVE  IInv' /\ job[r] = Idle /\ job'[r].call = "DeleteEndpoint"
<1> DEFINE j == [call |-> "DeleteEndpoint", user |-> u, id |-> e]
<1>1. j \in Job /\ j # Idle
  BY DEF Job, Idle
<1>2. job' = [job EXCEPT ![r] = j] /\ job'[r] = j
  BY DEF DeleteEndpoint, IInv, TypeOK
<1>3. IInv'
  BY <1>1, <1>2, ReadKeeps DEF DeleteEndpoint
<1>4. QED
  BY <1>2, <1>3 DEF DeleteEndpoint

LEMMA FailKeeps ==
  ASSUME IInv, NEW r \in Requests, Fail(r)
  PROVE  IInv'
<1>1. /\ job' \in [Requests -> Job] /\ job'[r] = Idle /\ rows' = rows
      /\ \A q \in Requests \ {r} : job'[q] = job[q]
  BY DEF Fail, IInv, TypeOK, Job
<1>2. QED
  BY <1>1 DEF IInv, TypeOK, ReadInv, Saving, UniqueSlugs, Idle

LEMMA InvNext == IInv /\ [Next]_vars => IInv'
<1> SUFFICES ASSUME IInv, [Next]_vars PROVE IInv'
  OBVIOUS
<1>1. ASSUME NEW r \in Requests, SaveEndpoint(r) \/ Upsert(r) PROVE IInv'
  BY <1>1, SaveMisses, SaveWrites, WriteKeeps DEF Hits
<1>2. ASSUME NEW r \in Requests, MarkDeleted(r) PROVE IInv'
  <2> DEFINE e == job[r].id
             row == [rows[e] EXCEPT !.deleted = TRUE]
  <2>1. /\ e \in DOMAIN rows /\ row \in Endpoint
        /\ row.slug = rows[e].slug /\ row.user = rows[e].user
        /\ rows' = [rows EXCEPT ![e] = row]
        /\ job' = [job EXCEPT ![r] = Idle]
    BY <1>2, DeleteWrites
  <2> HIDE DEF e, row
  <2>2. QED
    BY <2>1, WriteKeeps
<1>3. CASE UNCHANGED vars
  BY <1>3 DEF vars, IInv, TypeOK, ReadInv, Saving, UniqueSlugs
<1>4. QED
  BY <1>1, <1>2, <1>3, CreateKeeps, UpdateReads, DeleteReads, FailKeeps DEF Next

LEMMA Invariant == Spec => []IInv
BY InvInit, InvNext, PTL DEF Spec

(* The type of both variables.                                             *)
THEOREM TypeCorrect == Spec => []TypeOK
BY Invariant, PTL DEF IInv
-----------------------------------------------------------------------------
(* A row is written by the request that ends with it.                      *)
Writes(r) ==
  LET e == job[r].id
  IN  /\ job[r] # Idle /\ job'[r] = Idle
      /\ \A q \in Requests \ {r} : job'[q] = job[q]
      /\ e \in DOMAIN rows /\ DOMAIN rows' = DOMAIN rows
      /\ job[r].user = rows[e].user
      /\ rows'[e].slug = rows[e].slug /\ rows'[e].user = rows[e].user
      /\ rows'[e] \in Endpoint
      /\ \A o \in DOMAIN rows \ {e} : rows'[o] = rows[o]

LEMMA SaveEffect ==
  ASSUME IInv, NEW r \in Requests, Hits(r)
  PROVE  /\ Writes(r) /\ Saving(r)
         /\ rows'[job[r].id] = ToWrite(r) /\ ~ ToWrite(r).deleted
<1> DEFINE e == job[r].id
           row == ToWrite(r)
<1>1. /\ e \in DOMAIN rows /\ row \in Endpoint
      /\ row.slug = rows[e].slug /\ row.user = rows[e].user /\ ~ row.deleted
      /\ rows' = [rows EXCEPT ![e] = row]
      /\ job' = [job EXCEPT ![r] = Idle]
      /\ job[r] # Idle /\ job[r].user = rows[e].user
  BY SaveWrites
<1> HIDE DEF row
<1>2. /\ DOMAIN rows' = DOMAIN rows /\ rows'[e] = row
      /\ \A o \in DOMAIN rows \ {e} : rows'[o] = rows[o]
  BY <1>1, RowWritten DEF IInv
<1>3. job'[r] = Idle /\ \A q \in Requests \ {r} : job'[q] = job[q]
  BY <1>1 DEF IInv, TypeOK
<1>4. Saving(r)
  BY DEF Saving, Hits, SaveEndpoint, Upsert
<1>5. QED
  BY <1>1, <1>2, <1>3, <1>4 DEF Writes, row

LEMMA DeleteEffect ==
  ASSUME IInv, NEW r \in Requests, MarkDeleted(r)
  PROVE  Writes(r) /\ ~ Saving(r) /\ rows'[job[r].id].deleted
<1> DEFINE e == job[r].id
           row == [rows[e] EXCEPT !.deleted = TRUE]
<1>1. /\ e \in DOMAIN rows /\ row \in Endpoint
      /\ row.slug = rows[e].slug /\ row.user = rows[e].user /\ row.deleted
      /\ rows' = [rows EXCEPT ![e] = row]
      /\ job' = [job EXCEPT ![r] = Idle]
      /\ job[r] # Idle /\ job[r].user = rows[e].user
  BY DeleteWrites
<1> HIDE DEF row
<1>2. /\ DOMAIN rows' = DOMAIN rows /\ rows'[e] = row
      /\ \A o \in DOMAIN rows \ {e} : rows'[o] = rows[o]
  BY <1>1, RowWritten DEF IInv
<1>3. job'[r] = Idle /\ \A q \in Requests \ {r} : job'[q] = job[q]
  BY <1>1 DEF IInv, TypeOK
<1>4. QED
  BY <1>1, <1>2, <1>3 DEF Writes, Saving, MarkDeleted

(* Every other step leaves the rows that there are as they are.            *)
Untouched == \A o \in DOMAIN rows : o \in DOMAIN rows' /\ rows'[o] = rows[o]

LEMMA StepWrites ==
  ASSUME IInv, [Next]_vars
  PROVE  Untouched \/ \E r \in Requests : Writes(r)
BY CreateKeeps, SaveMisses, SaveEffect, DeleteEffect
   DEF Hits, Next, vars, Untouched, UpdateEndpoint, DeleteEndpoint, Fail

(* A slug leads to one endpoint, ever.                                     *)
THEOREM SlugsAreStable == Spec => StableUrl
<1>1. IInv /\ [Next]_vars /\ IInv' =>
        [/\ \A e \in DOMAIN rows : e \in DOMAIN rows' /\ rows'[e].slug = rows[e].slug
         /\ \A e, o \in DOMAIN rows' : rows'[e].slug = rows'[o].slug => e = o]_vars
  BY StepWrites DEF Untouched, Writes, IInv, UniqueSlugs
<1>2. QED
  BY <1>1, Invariant, PTL DEF Spec, StableUrl

(* Only its owner's requests change an endpoint.                           *)
THEOREM OwnersOnly == Spec => ChangedByOwner
<1>1. IInv /\ [Next]_vars =>
        [\A e \in DOMAIN rows : rows'[e] # rows[e] =>
           /\ rows'[e].user = rows[e].user
           /\ \E r \in Requests : /\ job[r] # Idle /\ job'[r] = Idle
                                  /\ job[r].id = e /\ job[r].user = rows[e].user]_vars
  BY StepWrites DEF Untouched, Writes
<1>2. QED
  BY <1>1, Invariant, PTL DEF Spec, ChangedByOwner
-----------------------------------------------------------------------------
(* A request that reads or fails changes its own job at most.              *)
LEMMA JobEffect ==
  ASSUME IInv, NEW r \in Requests, NEW u \in Users, NEW e \in IDs,
         UpdateEndpoint(r, u, e) \/ DeleteEndpoint(r, u, e)
  PROVE  /\ rows' = rows /\ e \in DOMAIN rows /\ ~ rows[e].deleted
         /\ \A q \in Requests \ {r} : job'[q] = job[q]
BY DEF UpdateEndpoint, DeleteEndpoint, FindUserEndpoint, IInv, TypeOK

LEMMA FailEffect ==
  ASSUME IInv, NEW r \in Requests, Fail(r)
  PROVE  /\ rows' = rows /\ job'[r].call = "none"
         /\ \A q \in Requests \ {r} : job'[q] = job[q]
BY DEF Fail, Idle, IInv, TypeOK

(* Deletion is for good once the updates that overlap it have ended.       *)
THEOREM DeletionLasts == Spec => DeletedInTheEnd
<1>1. ASSUME IInv, [Next]_vars, NEW e \in DOMAIN rows, Gone(e) PROVE Gone(e)'
  <2> USE DEF Gone, Updating
  <2>1. ASSUME NEW r \in Requests, SaveEndpoint(r) \/ Upsert(r) PROVE Gone(e)'
    <3>1. job[r].id # e
      BY <1>1, <2>1 DEF SaveEndpoint, Upsert
    <3>2. CASE Hits(r)
      BY <1>1, <3>1, <3>2, SaveEffect DEF Writes, Idle
    <3>3. CASE ~ Hits(r)
      BY <1>1, <2>1, <3>1, <3>3, SaveMisses DEF Hits
    <3>4. QED
      BY <3>2, <3>3
  <2>2. ASSUME NEW r \in Requests, MarkDeleted(r) PROVE Gone(e)'
    <3>1. Writes(r) /\ rows'[job[r].id].deleted
      BY <1>1, <2>2, DeleteEffect
    <3>2. QED
      BY <1>1, <3>1 DEF Writes, Idle
  <2>3. ASSUME NEW r \in Requests, NEW u \in Users, NEW o \in IDs, UpdateEndpoint(r, u, o)
        PROVE  Gone(e)'
    <3>1. o # e /\ job'[r].id = o
      BY <1>1, <2>3, JobEffect, UpdateReads
    <3>2. QED
      BY <1>1, <2>3, <3>1, JobEffect
  <2>4. ASSUME NEW r \in Requests, NEW u \in Users, NEW o \in IDs, DeleteEndpoint(r, u, o)
        PROVE  Gone(e)'
    BY <1>1, <2>4, JobEffect, DeleteReads
  <2>5. ASSUME NEW r \in Requests, Fail(r) PROVE Gone(e)'
    BY <1>1, <2>5, FailEffect
  <2>6. ASSUME NEW u \in Users, NEW o \in IDs, NEW s \in Slugs, CreateEndpoint(u, o, s)
        PROVE  Gone(e)'
    BY <1>1, <2>6, CreateKeeps DEF CreateEndpoint
  <2>7. CASE UNCHANGED vars
    BY <1>1, <2>7 DEF vars
  <2>8. QED
    BY <1>1, <2>1, <2>2, <2>3, <2>4, <2>5, <2>6, <2>7 DEF Next
<1>2. IInv /\ [Next]_vars => [\A e \in DOMAIN rows : Gone(e) => Gone(e)']_vars
  BY <1>1
<1>3. QED
  BY <1>2, Invariant, PTL DEF Spec, DeletedInTheEnd

(* A setting is undone by the updates that overlap it only.                *)
Undone(e, st) ==
  \E r \in Requests : /\ Updating(r, e) /\ job'[r] = Idle
                      /\ job[r].asks \notin {"nothing", st}

(* A setting in the table stays unless such an update undoes it, although  *)
(* gorm's Save may be two statements with others between them.             *)
THEOREM SettingsLast == Spec => SettingKept
<1>1. ASSUME IInv, [Next]_vars, NEW e \in IDs, NEW st \in {"on", "off"}, Settled(e, st)
      PROVE  Settled(e, st)' \/ rows'[e].deleted \/ Undone(e, st)
  <2> USE DEF Settled, Updating
  <2>1. ASSUME NEW r \in Requests, SaveEndpoint(r) \/ Upsert(r)
        PROVE  Settled(e, st)' \/ Undone(e, st)
    <3>1. CASE ~ Hits(r)
      <4>1. /\ UNCHANGED rows /\ job[r].id # e /\ job'[r].id = job[r].id
            /\ \A q \in Requests \ {r} : job'[q] = job[q]
        BY <1>1, <2>1, <3>1, SaveMisses DEF Hits
      <4>2. QED
        BY <1>1, <4>1 DEF ToWrite
    <3>2. CASE Hits(r) /\ job[r].id # e
      BY <1>1, <3>2, SaveEffect DEF Writes, Idle, ToWrite
    <3>3. CASE Hits(r) /\ job[r].id = e
      <4>1. Writes(r) /\ Saving(r) /\ rows'[e] = ToWrite(r) /\ ~ ToWrite(r).deleted
        BY <1>1, <3>3, SaveEffect
      <4>2. CASE ToWrite(r).active = rows[e].active
        BY <1>1, <3>3, <4>1, <4>2 DEF Writes, Idle, ToWrite
      <4>3. CASE ToWrite(r).active # rows[e].active
        BY <1>1, <3>3, <4>1, <4>3 DEF Undone, Writes, Saving
      <4>4. QED
        BY <4>2, <4>3
    <3>4. QED
      BY <3>1, <3>2, <3>3
  <2>2. ASSUME NEW r \in Requests, MarkDeleted(r)
        PROVE  Settled(e, st)' \/ rows'[e].deleted
    <3>1. Writes(r) /\ rows'[job[r].id].deleted
      BY <1>1, <2>2, DeleteEffect
    <3>2. QED
      BY <1>1, <3>1 DEF Writes, Idle, ToWrite
  <2>3. ASSUME NEW r \in Requests, NEW u \in Users, NEW o \in IDs, UpdateEndpoint(r, u, o)
        PROVE  Settled(e, st)'
    <3>1. /\ rows' = rows /\ job'[r].id = o /\ job'[r].call = "SaveEndpoint"
          /\ \A q \in Requests \ {r} : job'[q] = job[q]
      BY <1>1, <2>3, JobEffect, UpdateReads
    <3>2. o = e /\ job'[r].row.active # rows[e].active
            => job'[r].asks \notin {"nothing", st}
      BY <1>1, <2>3, UpdateReads DEF Asks, ToWrite
    <3>3. QED
      BY <1>1, <3>1, <3>2 DEF ToWrite
  <2>4. ASSUME NEW r \in Requests, NEW u \in Users, NEW o \in IDs, DeleteEndpoint(r, u, o)
        PROVE  Settled(e, st)'
    BY <1>1, <2>4, JobEffect, DeleteReads DEF ToWrite
  <2>5. ASSUME NEW r \in Requests, Fail(r) PROVE Settled(e, st)'
    BY <1>1, <2>5, FailEffect DEF ToWrite
  <2>6. ASSUME NEW u \in Users, NEW o \in IDs, NEW s \in Slugs, CreateEndpoint(u, o, s)
        PROVE  Settled(e, st)'
    BY <1>1, <2>6, CreateKeeps DEF CreateEndpoint, ToWrite
  <2>7. CASE UNCHANGED vars
    BY <1>1, <2>7 DEF ToWrite, vars
  <2>8. QED
    BY <1>1, <2>1, <2>2, <2>3, <2>4, <2>5, <2>6, <2>7 DEF Next
<1>2. IInv /\ [Next]_vars =>
        [\A e \in IDs, st \in {"on", "off"} : Settled(e, st) =>
           \/ Settled(e, st)'
           \/ rows'[e].deleted
           \/ \E r \in Requests : /\ Updating(r, e) /\ job'[r] = Idle
                                   /\ job[r].asks \notin {"nothing", st}]_vars
  BY <1>1 DEF Undone
<1>3. QED
  BY <1>2, Invariant, PTL DEF Spec, SettingKept
=============================================================================
