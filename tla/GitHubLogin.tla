---------------------------- MODULE GitHubLogin ----------------------------
(***************************************************************************)
(* Signing in with GitHub: ExchangeGitHubCode (auth_service.go) and        *)
(* UpsertGitHubUser (auth_repo.go).  A request is a goroutine that makes   *)
(* one call at a step: the code is exchanged at GitHub, the profile        *)
(* fetched, the row looked up by its GitHub ID, then created or updated    *)
(* (gorm's FirstOrCreate), then the token is made.  Sign-ins of one user   *)
(* overlap, and the user edits the profile at GitHub meanwhile.  Of the    *)
(* profile only the email is kept: it is what GitHub may leave empty.      *)
(***************************************************************************)
EXTENDS Naturals

CONSTANTS
  GitHubUsers,  \* GitHub IDs
  IDs,          \* the user IDs that BeforeCreate may mint
  Emails,
  NoEmail,      \* the empty string
  Requests,
  MaxFaults     \* bound on the calls that fail

ASSUME GitHubLoginAssumption == NoEmail \in Emails /\ MaxFaults \in Nat

VARIABLES
  profile,  \* profile[g]: the email of g at GitHub now
  users,    \* the users table: ID -> row, partial
  job,      \* job[r]: the call request r makes next, and what it has read
  faults,   \* bounded counter
  issued    \* history: the tokens made, with the GitHub user that signed in

vars == <<profile, users, job, faults, issued>>

User == [github : GitHubUsers, email : Emails]

Idle == [call |-> "none"]
Job ==
  {Idle}
    \cup [call : {"exchangeGitHubToken", "fetchGitHubUser"}, github : GitHubUsers]
    \cup [call : {"First", "Create"}, user : User]
    \cup [call : {"Updates", "tokenResponse"}, user : User, id : IDs]

Become(r, j) == job' = [job EXCEPT ![r] = j]
-----------------------------------------------------------------------------
(* The calls to GitHub.                                                    *)

(* A code of GitHub user g has passed the checks of the configuration and  *)
(* the redirect URI.                                                       *)
ExchangeGitHubCode(r, g) ==
  /\ job[r] = Idle
  /\ Become(r, [call |-> "exchangeGitHubToken", github |-> g])
  /\ UNCHANGED <<profile, users, faults, issued>>

exchangeGitHubToken(r) ==
  /\ job[r].call = "exchangeGitHubToken"
  /\ Become(r, [call |-> "fetchGitHubUser", github |-> job[r].github])
  /\ UNCHANGED <<profile, users, faults, issued>>

fetchGitHubUser(r) ==
  /\ job[r].call = "fetchGitHubUser"
  /\ LET g == job[r].github
     IN  Become(r, [call |-> "First", user |-> [github |-> g, email |-> profile[g]]])
  /\ UNCHANGED <<profile, users, faults, issued>>
-----------------------------------------------------------------------------
(* UpsertGitHubUser.                                                       *)

RowsOf(g) == {id \in DOMAIN users : users[id].github = g}

(* Mutants: the row is looked up by the whole profile; by nothing.         *)
FirstByProfile(r) ==
  /\ job[r].call = "First"
  /\ LET user == job[r].user
         found == {id \in DOMAIN users : users[id] = user}
     IN  \/ found = {} /\ Become(r, [call |-> "Create", user |-> user])
         \/ \E id \in found : Become(r, [call |-> "Updates", user |-> user, id |-> id])
  /\ UNCHANGED <<profile, users, faults, issued>>

FirstOfAll(r) ==
  /\ job[r].call = "First"
  /\ LET user == job[r].user
     IN  \/ DOMAIN users = {} /\ Become(r, [call |-> "Create", user |-> user])
         \/ \E id \in DOMAIN users :
              Become(r, [call |-> "Updates", user |-> user, id |-> id])
  /\ UNCHANGED <<profile, users, faults, issued>>

First(r) ==
  /\ job[r].call = "First"
  /\ LET user == job[r].user
     IN  \/ RowsOf(user.github) = {} /\ Become(r, [call |-> "Create", user |-> user])
         \/ \E id \in RowsOf(user.github) :
              Become(r, [call |-> "Updates", user |-> user, id |-> id])
  /\ UNCHANGED <<profile, users, faults, issued>>

(* Mutant: the GitHub ID has an index that is not unique.                  *)
CreateAlways(r, id) ==
  /\ job[r].call = "Create"
  /\ id \notin DOMAIN users
  /\ users' = [k \in DOMAIN users \cup {id} |->
                 IF k = id THEN job[r].user ELSE users[k]]
  /\ Become(r, [call |-> "tokenResponse", user |-> job[r].user, id |-> id])
  /\ UNCHANGED <<profile, faults, issued>>

(* The GitHub ID is unique in the table: the insert of a second row fails, *)
(* and the sign-in is answered with an error.                              *)
Create(r, id) ==
  /\ job[r].call = "Create"
  /\ id \notin DOMAIN users
  /\ IF RowsOf(job[r].user.github) = {}
     THEN /\ users' = [k \in DOMAIN users \cup {id} |->
                         IF k = id THEN job[r].user ELSE users[k]]
          /\ Become(r, [call |-> "tokenResponse", user |-> job[r].user, id |-> id])
     ELSE UNCHANGED users /\ Become(r, Idle)
  /\ UNCHANGED <<profile, faults, issued>>

(* Mutant: the whole profile is saved.                                     *)
UpdatesAll(r) ==
  /\ job[r].call = "Updates"
  /\ users' = [users EXCEPT ![job[r].id].email = job[r].user.email]
  /\ Become(r, [job[r] EXCEPT !.call = "tokenResponse"])
  /\ UNCHANGED <<profile, faults, issued>>

(* Assign makes an UPDATE of the fields that are not empty.                *)
Updates(r) ==
  /\ job[r].call = "Updates"
  /\ users' = [users EXCEPT ![job[r].id].email =
                 IF job[r].user.email = NoEmail THEN @ ELSE job[r].user.email]
  /\ Become(r, [job[r] EXCEPT !.call = "tokenResponse"])
  /\ UNCHANGED <<profile, faults, issued>>

(* Mutant: the profile is saved as the row once more.                      *)
tokenResponseSaves(r) ==
  /\ job[r].call = "tokenResponse"
  /\ users' = [users EXCEPT ![job[r].id] = job[r].user]
  /\ issued' = issued \cup {[id |-> job[r].id, github |-> job[r].user.github]}
  /\ Become(r, Idle)
  /\ UNCHANGED <<profile, faults>>

tokenResponse(r) ==
  /\ job[r].call = "tokenResponse"
  /\ issued' = issued \cup {[id |-> job[r].id, github |-> job[r].user.github]}
  /\ Become(r, Idle)
  /\ UNCHANGED <<profile, users, faults>>

(* A call fails and the sign-in is answered with an error, or its client   *)
(* has gone, or the server dies.                                           *)
Fail(r) ==
  /\ job[r] # Idle
  /\ faults < MaxFaults
  /\ faults' = faults + 1
  /\ Become(r, Idle)
  /\ UNCHANGED <<profile, users, issued>>

EditProfile(g, email) ==
  /\ profile' = [profile EXCEPT ![g] = email]
  /\ UNCHANGED <<users, job, faults, issued>>
-----------------------------------------------------------------------------
Init ==
  /\ profile \in [GitHubUsers -> Emails]
  /\ users = [id \in {} |-> id]
  /\ job = [r \in Requests |-> Idle]
  /\ faults = 0
  /\ issued = {}

Upsert(r) == First(r) \/ (\E id \in IDs : Create(r, id)) \/ Updates(r)

Continue(r) == exchangeGitHubToken(r) \/ fetchGitHubUser(r) \/ Upsert(r) \/ tokenResponse(r)

Next ==
  \/ \E r \in Requests, g \in GitHubUsers : ExchangeGitHubCode(r, g)
  \/ \E r \in Requests : Continue(r) \/ Fail(r)
  \/ \E g \in GitHubUsers, email \in Emails : EditProfile(g, email)

Spec == Init /\ [][Next]_vars

(* The goroutine of a request is run and its calls return; a user who was  *)
(* answered with an error signs in again, and again.                       *)
Fairness ==
  /\ \A r \in Requests : WF_vars(Continue(r))
  /\ \A g \in GitHubUsers : SF_vars(\E r \in Requests : ExchangeGitHubCode(r, g))

FairSpec == Spec /\ Fairness
-----------------------------------------------------------------------------
(* The type of every variable, and that the row a request has found is     *)
(* still the row of its user when it is written.                           *)
TypeOK ==
  /\ profile \in [GitHubUsers -> Emails]
  /\ DOMAIN users \subseteq IDs /\ users \in [DOMAIN users -> User]
  /\ job \in [Requests -> Job]
  /\ faults \in 0..MaxFaults
  /\ issued \subseteq [id : IDs, github : GitHubUsers]
  /\ \A r \in Requests : job[r].call \in {"Updates", "tokenResponse"} =>
       job[r].id \in RowsOf(job[r].user.github)

(* A GitHub user has one identity: all tokens ever made for the user name  *)
(* one ID, the ID of the user's row, although first sign-ins overlap and   *)
(* fail halfway.                                                           *)
OneIdentity ==
  \A t \in issued : RowsOf(t.github) = {t.id}

(* The stored email is never lost: a sign-in whose profile has none does   *)
(* not clear it, and a row never becomes another GitHub user's.            *)
EmailKept ==
  [][\A id \in DOMAIN users :
       /\ users[id].email # NoEmail => users'[id].email # NoEmail
       /\ users'[id].github = users[id].github]_vars

(* The row has the email its user has at GitHub now, and no sign-in under  *)
(* way has fetched another.                                                *)
Current(id) ==
  LET g == users[id].github
  IN  /\ users[id].email = profile[g]
      /\ \A r \in Requests :
           job[r].call \in {"First", "Create", "Updates"} /\ job[r].user.github = g
             => job[r].user.email \in {NoEmail, profile[g]}

(* A profile that was fetched before an edit may be written over the newer *)
(* one, but only by a sign-in that overlaps with the edit: once the row is *)
(* right and the sign-ins with the old profile have written or ended, it   *)
(* stays right until the next edit.                                        *)
EmailSettled ==
  [][\A id \in DOMAIN users :
       Current(id) => Current(id)' \/ profile'[users[id].github] # profile[users[id].github]]_vars

(* A user who keeps trying is signed in in the end: the collision of two   *)
(* first sign-ins fails one of them, and leaves the row the next will find.*)
SignedInInTheEnd ==
  \A g \in GitHubUsers : <>(\E t \in issued : t.github = g)
=============================================================================
