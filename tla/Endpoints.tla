----------------------------- MODULE Endpoints -----------------------------
(***************************************************************************)
(* The endpoints of users: EndpointService (endpoint_service.go) over its  *)
(* repository (endpoint_repo.go).  Update and delete first read the row,   *)
(* then write; update writes the whole row it read, with its edits, by     *)
(* gorm's Save: one statement, or two that are committed one by one.       *)
(* Other requests run between these calls.  The name of an endpoint is     *)
(* left out.                                                               *)
(***************************************************************************)
EXTENDS Naturals

CONSTANTS
  Users,
  IDs,       \* the endpoint IDs that BeforeCreate may mint
  Slugs,     \* the slugs CreateEndpoint may draw: name and random suffix
  Requests

VARIABLES
  rows,   \* the endpoints table: ID -> row, partial
  job     \* job[r]: the write request r makes next, with the row it read

vars == <<rows, job>>

Endpoint == [user : Users, slug : Slugs, active : BOOLEAN, deleted : BOOLEAN]

(* What an update says of is_active; one that only renames says nothing.   *)
Asks == {"nothing", "on", "off"}

Idle == [call |-> "none"]
Job ==
  {Idle}
    \cup [call : {"SaveEndpoint", "Upsert"}, user : Users, id : IDs, row : Endpoint, asks : Asks]
    \cup [call : {"DeleteEndpoint"}, user : Users, id : IDs]

Put(map, key, value) ==
  [k \in DOMAIN map \cup {key} |-> IF k = key THEN value ELSE map[k]]
-----------------------------------------------------------------------------
(* Reads: a query of the model leaves out the rows with deleted_at set.    *)

(* Mutants: a query without the user, and one with the deleted rows.       *)
FindAnyEndpoint(u, e) == e \in DOMAIN rows /\ ~ rows[e].deleted
FindUnscopedEndpoint(u, e) == e \in DOMAIN rows /\ rows[e].user = u

FindUserEndpoint(u, e) == e \in DOMAIN rows /\ rows[e].user = u /\ ~ rows[e].deleted
-----------------------------------------------------------------------------
(* Writes.                                                                 *)

(* Mutant: the slug is compared with those of the rows not deleted.        *)
CreateOverDeleted(u, e, s) ==
  /\ e \notin DOMAIN rows
  /\ \A o \in DOMAIN rows : rows[o].slug = s => rows[o].deleted
  /\ rows' = Put(rows, e, [user |-> u, slug |-> s, active |-> TRUE, deleted |-> FALSE])
  /\ UNCHANGED job

(* The slug is unique in the table, deleted rows included: a collision is  *)
(* answered with an error and changes nothing.                             *)
CreateEndpoint(u, e, s) ==
  /\ e \notin DOMAIN rows
  /\ \A o \in DOMAIN rows : rows[o].slug # s
  /\ rows' = Put(rows, e, [user |-> u, slug |-> s, active |-> TRUE, deleted |-> FALSE])
  /\ UNCHANGED job

(* Mutant: is_active is on when it is not in the request.                  *)
EditedByDefault(row, asks) == [row EXCEPT !.active = asks # "off"]

Edited(row, asks) == [row EXCEPT !.active = asks = "on" \/ (@ /\ asks = "nothing")]

(* UpdateEndpoint reads the row and edits its copy; a request that does    *)
(* not name is_active keeps the one it read.                               *)
UpdateEndpoint(r, u, e) ==
  /\ job[r] = Idle
  /\ FindUserEndpoint(u, e)
  /\ \E asks \in Asks :
       job' = [job EXCEPT ![r] = [call |-> "SaveEndpoint", user |-> u, id |-> e,
                                  row |-> Edited(rows[e], asks), asks |-> asks]]
  /\ UNCHANGED rows

(* The first statement of gorm's Save: an UPDATE of every column WHERE     *)
(* deleted_at IS NULL.  If it finds no row, there is a second.             *)
SaveEndpoint(r) ==
  LET e == job[r].id
  IN
  /\ job[r].call = "SaveEndpoint"
  /\ \/ /\ ~ rows[e].deleted
        /\ rows' = [rows EXCEPT ![e] = job[r].row]
        /\ job' = [job EXCEPT ![r] = Idle]
     \/ /\ rows[e].deleted
        /\ job' = [job EXCEPT ![r].call = "Upsert"]
        /\ UNCHANGED rows

(* In an INSERT a false is_active takes the default of its column, true.   *)
Inserted(row) == [row EXCEPT !.active = TRUE]

(* The second: an INSERT ... ON CONFLICT (id) DO UPDATE of every column,   *)
(* deleted_at included, whatever the row has become since the UPDATE.      *)
Upsert(r) ==
  /\ job[r].call = "Upsert"
  /\ rows' = [rows EXCEPT ![job[r].id] = Inserted(job[r].row)]
  /\ job' = [job EXCEPT ![r] = Idle]

DeleteEndpoint(r, u, e) ==
  /\ job[r] = Idle
  /\ FindUserEndpoint(u, e)
  /\ job' = [job EXCEPT ![r] = [call |-> "DeleteEndpoint", user |-> u, id |-> e]]
  /\ UNCHANGED rows

(* Mutant: the row is removed.                                             *)
RemoveRow(r) ==
  /\ job[r].call = "DeleteEndpoint"
  /\ rows' = [e \in DOMAIN rows \ {job[r].id} |-> rows[e]]
  /\ job' = [job EXCEPT ![r] = Idle]

(* The delete is soft: it sets deleted_at.                                 *)
MarkDeleted(r) ==
  /\ job[r].call = "DeleteEndpoint"
  /\ rows' = [rows EXCEPT ![job[r].id].deleted = TRUE]
  /\ job' = [job EXCEPT ![r] = Idle]

(* A call fails, the client gives up, the server dies.                     *)
Fail(r) ==
  /\ job[r] # Idle
  /\ job' = [job EXCEPT ![r] = Idle]
  /\ UNCHANGED rows
-----------------------------------------------------------------------------
Init ==
  /\ rows = [e \in {} |-> e]
  /\ job = [r \in Requests |-> Idle]

Next ==
  \/ \E u \in Users, e \in IDs, s \in Slugs : CreateEndpoint(u, e, s)
  \/ \E r \in Requests :
       \/ \E u \in Users, e \in IDs : UpdateEndpoint(r, u, e) \/ DeleteEndpoint(r, u, e)
       \/ SaveEndpoint(r)
       \/ Upsert(r)
       \/ MarkDeleted(r)
       \/ Fail(r)

Spec == Init /\ [][Next]_vars
-----------------------------------------------------------------------------
(* The type of both variables, and that the row a request has read is      *)
(* still in the table when it writes it.                                   *)
TypeOK ==
  /\ DOMAIN rows \subseteq IDs /\ rows \in [DOMAIN rows -> Endpoint]
  /\ job \in [Requests -> Job]
  /\ \A r \in Requests : job[r] # Idle => job[r].id \in DOMAIN rows

(* README: webhooks come in "at stable endpoint URLs".  A slug leads to    *)
(* one endpoint, ever: an update saved over a later one does not move it,  *)
(* and a deleted endpoint's slug is not handed to another.                 *)
StableUrl ==
  [][/\ \A e \in DOMAIN rows : e \in DOMAIN rows' /\ rows'[e].slug = rows[e].slug
     /\ \A e, o \in DOMAIN rows' : rows'[e].slug = rows'[o].slug => e = o]_vars

(* An endpoint is only ever changed by a request of the user that created  *)
(* it, and stays that user's.                                              *)
ChangedByOwner ==
  [][\A e \in DOMAIN rows : rows'[e] # rows[e] =>
       /\ rows'[e].user = rows[e].user
       /\ \E r \in Requests : /\ job[r] # Idle /\ job'[r] = Idle
                              /\ job[r].id = e /\ job[r].user = rows[e].user]_vars

(* README: an endpoint can be deleted; a deleted endpoint does not return. *)
DeletedStaysDeleted ==
  [][\A e \in DOMAIN rows : rows[e].deleted => rows'[e].deleted]_vars

(* An update of e is under way.                                            *)
Updating(r, e) == job[r].call \in {"SaveEndpoint", "Upsert"} /\ job[r].id = e

(* What deletion comes to: once an endpoint is deleted and the updates     *)
(* that had read it before have ended, it is gone for good.                *)
Gone(e) == rows[e].deleted /\ \A r \in Requests : ~ Updating(r, e)

DeletedInTheEnd == [][\A e \in DOMAIN rows : Gone(e) => Gone(e)']_vars

(* The row that an update under way is to write, as things are.            *)
ToWrite(r) == IF job[r].call = "Upsert" THEN Inserted(job[r].row) ELSE job[r].row

(* No update of e under way will undo st without having asked for it: none *)
(* has read the other setting, and none is to insert the default.          *)
Settled(e, st) ==
  /\ e \in DOMAIN rows /\ ~ rows[e].deleted /\ rows[e].active = (st = "on")
  /\ \A r \in Requests : Updating(r, e) /\ ToWrite(r).active # rows[e].active
       => job[r].asks \notin {"nothing", st}

(* Updates overwrite each other (a rename that read the endpoint before it *)
(* was switched off switches it on again; so does one that found it        *)
(* deleted, and inserts it after another has brought it back and switched  *)
(* it off), but only while they overlap: a setting that is in the table    *)
(* when the updates before it have ended stays until an update asks for    *)
(* the other, or the endpoint is deleted.                                  *)
SettingKept ==
  [][\A e \in IDs, st \in {"on", "off"} : Settled(e, st) =>
       \/ Settled(e, st)'
       \/ rows'[e].deleted
       \/ \E r \in Requests : /\ Updating(r, e) /\ job'[r] = Idle
                               /\ job[r].asks \notin {"nothing", st}]_vars
=============================================================================
