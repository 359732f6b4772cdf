-------------------------- MODULE GitHubLoginProofs --------------------------
(***************************************************************************)
(* Signing in for any GitHub users, IDs, emails, requests and faults: one  *)
(* identity for each GitHub user, whose email is not lost.                 *)
(***************************************************************************)
EXTENDS GitHubLogin, TLAPS

(* The unique index on the GitHub ID.                                      *)
UniqueGitHubID ==
  \A i, j \in DOMAIN users : users[i].github = users[j].github => i = j

IInv ==
  /\ TypeOK
  /\ UniqueGitHubID
  /\ OneIdentity
-----------------------------------------------------------------------------
(* What a job holds at each call.                                          *)
LEMMA JobFields ==
  ASSUME NEW j \in Job
  PROVE  /\ j # Idle <=> j.call # "none"
         /\ j.call \in {"exchangeGitHubToken", "fetchGitHubUser"} => j.github \in GitHubUsers
         /\ j.call \in {"First", "Create"} => j.user \in User
         /\ j.call \in {"Updates", "tokenResponse"} =>
              j = [call |-> j.call, user |-> j.user, id |-> j.id] /\ j.user \in User /\ j.id \in IDs
         /\ j.call \in {"none", "exchangeGitHubToken", "fetchGitHubUser", "First", "Create",
                        "Updates", "tokenResponse"}
BY DEF Job, Idle

(* A row that a request has found is kept by every step.                   *)
LEMMA RowStays ==
  ASSUME TypeOK, [Next]_vars, NEW id \in DOMAIN users
  PROVE  /\ id \in DOMAIN users'
         /\ users'[id].github = users[id].github
         /\ users[id].email # NoEmail => users'[id].email # NoEmail
<1>1. CASE UNCHANGED users
  BY <1>1
<1>2. ASSUME NEW r \in Requests, NEW new \in IDs, Create(r, new)
      PROVE  id \in DOMAIN users' /\ users'[id] = users[id]
  BY <1>2 DEF Create
<1>3. ASSUME NEW r \in Requests, Updates(r)
      PROVE  /\ id \in DOMAIN users'
             /\ users'[id].github = users[id].github
             /\ users[id].email # NoEmail => users'[id].email # NoEmail
  <2>1. users \in [DOMAIN users -> User]
    BY DEF TypeOK
  <2>2. QED
    BY <1>3, <2>1 DEF Updates, User
<1>4. QED
  BY <1>1, <1>2, <1>3
     DEF Next, Continue, Upsert, vars, ExchangeGitHubCode, exchangeGitHubToken, fetchGitHubUser,
         First, tokenResponse, Fail, EditProfile

LEMMA TypeNext == TypeOK /\ [Next]_vars => TypeOK'
<1> DEFINE Found(r) == job[r].call \in {"Updates", "tokenResponse"} =>
                         job[r].id \in RowsOf(job[r].user.github)
           Types == /\ profile \in [GitHubUsers -> Emails]
                    /\ DOMAIN users \subseteq IDs /\ users \in [DOMAIN users -> User]
                    /\ job \in [Requests -> Job]
                    /\ faults \in 0..MaxFaults
                    /\ issued \subseteq [id : IDs, github : GitHubUsers]
<1> SUFFICES ASSUME TypeOK, [Next]_vars
             PROVE  TypeOK'
  OBVIOUS
<1>0. Types /\ \A r \in Requests : Found(r)
  BY DEF TypeOK
<1>stay. ASSUME NEW q \in Requests, job'[q] = job[q]
         PROVE  Found(q)'
  BY <1>0, <1>stay, RowStays DEF RowsOf
<1>step. ASSUME NEW r \in Requests, NEW j \in Job, Become(r, j), Types => Types',
                j.call \in {"Updates", "tokenResponse"} =>
                  j.id \in DOMAIN users' /\ users'[j.id].github = j.user.github
         PROVE  TypeOK'
  <2>1. ASSUME NEW q \in Requests
        PROVE  Found(q)'
    <3>1. CASE q = r
      BY <1>0, <1>step, <3>1 DEF Become, RowsOf
    <3>2. CASE q # r
      BY <1>0, <1>step, <1>stay, <3>2 DEF Become
    <3>3. QED
      BY <3>1, <3>2
  <2>2. QED
    BY <1>0, <1>step, <2>1 DEF TypeOK
<1>i. Idle \in Job /\ Idle.call = "none"
  BY DEF Job, Idle
<1>1. ASSUME NEW r \in Requests, NEW g \in GitHubUsers, ExchangeGitHubCode(r, g)
      PROVE  TypeOK'
  <2> DEFINE j == [call |-> "exchangeGitHubToken", github |-> g]
  <2>1. j \in Job
    BY DEF Job
  <2>2. QED
    BY <1>0, <1>1, <1>step, <2>1 DEF ExchangeGitHubCode, Become
<1>2. ASSUME NEW r \in Requests, exchangeGitHubToken(r)
      PROVE  TypeOK'
  <2> DEFINE j == [call |-> "fetchGitHubUser", github |-> job[r].github]
  <2>1. j \in Job
    BY <1>0, <1>2, JobFields DEF Job, exchangeGitHubToken
  <2>2. QED
    BY <1>0, <1>2, <1>step, <2>1 DEF exchangeGitHubToken, Become
<1>3. ASSUME NEW r \in Requests, fetchGitHubUser(r)
      PROVE  TypeOK'
  <2> DEFINE g == job[r].github
             j == [call |-> "First", user |-> [github |-> g, email |-> profile[g]]]
  <2>1. j \in Job
    BY <1>0, <1>3, JobFields DEF Job, User, fetchGitHubUser
  <2>2. QED
    BY <1>0, <1>3, <1>step, <2>1 DEF fetchGitHubUser, Become
<1>4. ASSUME NEW r \in Requests, First(r)
      PROVE  TypeOK'
  <2> DEFINE user == job[r].user
  <2>1. user \in User
    BY <1>0, <1>4, JobFields DEF First
  <2>2. ASSUME Become(r, [call |-> "Create", user |-> user])
        PROVE  TypeOK'
    <3>1. [call |-> "Create", user |-> user] \in Job
      BY <2>1 DEF Job
    <3>2. QED
      BY <1>0, <1>4, <1>step, <2>2, <3>1 DEF First, Become
  <2>3. ASSUME NEW id \in RowsOf(user.github),
               Become(r, [call |-> "Updates", user |-> user, id |-> id])
        PROVE  TypeOK'
    <3>1. [call |-> "Updates", user |-> user, id |-> id] \in Job
      BY <1>0, <2>1 DEF Job, RowsOf
    <3>2. QED
      BY <1>0, <1>4, <1>step, <2>3, <3>1 DEF First, Become, RowsOf
  <2>4. QED
    BY <1>4, <2>2, <2>3 DEF First
<1>5. ASSUME NEW r \in Requests, NEW id \in IDs, Create(r, id)
      PROVE  TypeOK'
  <2> DEFINE j == [call |-> "tokenResponse", user |-> job[r].user, id |-> id]
  <2>1. job[r].user \in User
    BY <1>0, <1>5, JobFields DEF Create
  <2>2. j \in Job
    BY <2>1 DEF Job
  <2>3. CASE RowsOf(job[r].user.github) = {}
    BY <1>0, <1>5, <1>step, <2>1, <2>2, <2>3 DEF Create, Become
  <2>4. CASE RowsOf(job[r].user.github) # {}
    BY <1>0, <1>5, <1>i, <1>step, <2>4 DEF Create, Become
  <2>5. QED
    BY <2>3, <2>4
<1>6. ASSUME NEW r \in Requests, Updates(r)
      PROVE  TypeOK'
  <2> DEFINE j == [job[r] EXCEPT !.call = "tokenResponse"]
  <2>1. /\ job[r] = [call |-> "Updates", user |-> job[r].user, id |-> job[r].id]
        /\ job[r].user \in User /\ job[r].id \in IDs
    BY <1>0, <1>6, JobFields DEF Updates
  <2>2. j = [call |-> "tokenResponse", user |-> job[r].user, id |-> job[r].id] /\ j \in Job
    BY <2>1 DEF Job
  <2>3. job[r].id \in DOMAIN users /\ users[job[r].id].github = job[r].user.github
    BY <1>0, <1>6 DEF Updates, RowsOf
  <2>4. users' \in [DOMAIN users -> User]
    BY <1>0, <1>6, <2>1 DEF Updates, User
  <2>5. users'[job[r].id].github = users[job[r].id].github /\ job[r].id \in DOMAIN users'
    BY <2>3, RowStays
  <2>6. QED
    BY <1>0, <1>6, <1>step, <2>1, <2>2, <2>3, <2>4, <2>5 DEF Updates, Become
<1>7. ASSUME NEW r \in Requests, tokenResponse(r)
      PROVE  TypeOK'
  <2>1. [id |-> job[r].id, github |-> job[r].user.github] \in [id : IDs, github : GitHubUsers]
    BY <1>0, <1>7, JobFields DEF tokenResponse, User
  <2>2. QED
    BY <1>0, <1>7, <1>i, <1>step, <2>1 DEF tokenResponse, Become
<1>8. ASSUME NEW r \in Requests, Fail(r)
      PROVE  TypeOK'
  <2>1. faults' \in 0..MaxFaults
    BY <1>0, <1>8, GitHubLoginAssumption DEF Fail
  <2>2. Types'
    BY <1>0, <1>8, <1>i, <2>1 DEF Fail, Become
  <2>3. QED
    BY <1>8, <1>i, <1>step, <2>2 DEF Fail
<1>9. ASSUME NEW g \in GitHubUsers, NEW email \in Emails, EditProfile(g, email)
      PROVE  TypeOK'
  BY <1>0, <1>9 DEF EditProfile, TypeOK, RowsOf
<1>10. CASE UNCHANGED vars
  BY <1>0, <1>10 DEF vars, TypeOK, RowsOf
<1>11. QED
  BY <1>1, <1>2, <1>3, <1>4, <1>5, <1>6, <1>7, <1>8, <1>9, <1>10 DEF Next, Continue, Upsert

(* Only Create adds a row, and only for a GitHub user without one.         *)
LEMMA UniqueNext == TypeOK /\ UniqueGitHubID /\ [Next]_vars => UniqueGitHubID'
<1> SUFFICES ASSUME TypeOK, UniqueGitHubID, [Next]_vars,
                    NEW i \in DOMAIN users', NEW j \in DOMAIN users',
                    users'[i].github = users'[j].github
             PROVE  i = j
  BY DEF UniqueGitHubID
<1>1. CASE i \in DOMAIN users /\ j \in DOMAIN users
  BY <1>1, RowStays DEF UniqueGitHubID
<1>2. ASSUME NEW r \in Requests, NEW id \in IDs, Create(r, id)
      PROVE  i = j
  BY <1>1, <1>2 DEF Create, RowsOf
<1>3. ASSUME DOMAIN users' = DOMAIN users
      PROVE  i = j
  BY <1>1, <1>3
<1>4. QED
  BY <1>2, <1>3
     DEF Next, Continue, Upsert, vars, ExchangeGitHubCode, exchangeGitHubToken, fetchGitHubUser,
         First, Updates, tokenResponse, Fail, EditProfile

LEMMA IdentityNext == TypeOK /\ UniqueGitHubID /\ OneIdentity /\ [Next]_vars => OneIdentity'
<1> SUFFICES ASSUME TypeOK, UniqueGitHubID, OneIdentity, [Next]_vars, NEW t \in issued'
             PROVE  RowsOf(t.github)' = {t.id}
  BY DEF OneIdentity
<1>1. t.id \in RowsOf(t.github)
  <2>1. ASSUME NEW r \in Requests, tokenResponse(r)
        PROVE  t.id \in RowsOf(t.github)
    BY <2>1 DEF tokenResponse, TypeOK, OneIdentity
  <2>2. CASE t \in issued
    BY <2>2 DEF OneIdentity
  <2>3. QED
    BY <2>1, <2>2
       DEF Next, Continue, Upsert, vars, ExchangeGitHubCode, exchangeGitHubToken, fetchGitHubUser,
           First, Create, Updates, Fail, EditProfile
<1>2. t.id \in RowsOf(t.github)'
  BY <1>1, RowStays DEF RowsOf
<1>3. UniqueGitHubID'
  BY UniqueNext
<1>4. QED
  BY <1>2, <1>3 DEF RowsOf, UniqueGitHubID

LEMMA Invariant == Spec => []IInv
<1>1. Init => IInv
  BY GitHubLoginAssumption DEF Init, IInv, TypeOK, Job, Idle, UniqueGitHubID, OneIdentity
<1>2. IInv /\ [Next]_vars => IInv'
  BY TypeNext, UniqueNext, IdentityNext DEF IInv
<1>3. QED
  BY <1>1, <1>2, PTL DEF Spec
-----------------------------------------------------------------------------
(* Types, and that UpsertGitHubUser writes to the row of the user who      *)
(* signs in, although other sign-ins ran since it was found.               *)
THEOREM TypeCorrect == Spec => []TypeOK
BY Invariant, PTL DEF IInv

(* However sign-ins overlap and fail, all tokens made for a GitHub user    *)
(* name one ID, and the user has that row and no other.                    *)
THEOREM IdentityIsOne == Spec => []OneIdentity
BY Invariant, PTL DEF IInv

(* A sign-in never empties a stored email, and never turns a row over to   *)
(* another GitHub user.                                                    *)
THEOREM EmailIsKept == Spec => EmailKept
<1>1. IInv /\ [Next]_vars =>
        [\A id \in DOMAIN users :
           /\ users[id].email # NoEmail => users'[id].email # NoEmail
           /\ users'[id].github = users[id].github]_vars
  BY RowStays DEF IInv
<1>2. QED
  BY <1>1, Invariant, PTL DEF Spec, EmailKept

(* What a sign-in is still to write it was to write before, or it has just *)
(* fetched it.                                                             *)
LEMMA StillToWrite ==
  ASSUME TypeOK, [Next]_vars, NEW q \in Requests,
         job'[q].call \in {"First", "Create", "Updates"}
  PROVE  \/ job[q].call \in {"First", "Create", "Updates"} /\ job'[q].user = job[q].user
         \/ job'[q].user.email = profile[job'[q].user.github] /\ UNCHANGED profile
<1> DEFINE Goal == \/ /\ job[q].call \in {"First", "Create", "Updates"}
                      /\ job'[q].user = job[q].user
                   \/ /\ job'[q].user.email = profile[job'[q].user.github]
                      /\ UNCHANGED profile
<1>t. job \in [Requests -> Job]
  BY DEF TypeOK
<1>1. CASE job'[q] = job[q]
  BY <1>1
<1>2. ASSUME NEW r \in Requests, NEW j, Become(r, j), j.call \notin {"First", "Create", "Updates"}
      PROVE  Goal
  BY <1>t, <1>1, <1>2 DEF Become
<1>3. ASSUME NEW r \in Requests, fetchGitHubUser(r)
      PROVE  Goal
  BY <1>t, <1>1, <1>3 DEF fetchGitHubUser, Become
<1>4. ASSUME NEW r \in Requests, First(r)
      PROVE  Goal
  BY <1>t, <1>1, <1>4 DEF First, Become
<1>5. ASSUME NEW r \in Requests, Updates(r)
      PROVE  Goal
  <2>1. job[r] = [call |-> "Updates", user |-> job[r].user, id |-> job[r].id]
    BY <1>t, <1>5, JobFields DEF Updates
  <2>2. [job[r] EXCEPT !.call = "tokenResponse"].call = "tokenResponse"
    BY <2>1
  <2>3. QED
    BY <1>2, <1>5, <2>2 DEF Updates
<1>6. QED
  BY <1>1, <1>2, <1>3, <1>4, <1>5
     DEF Next, Continue, Upsert, vars, ExchangeGitHubCode, exchangeGitHubToken, Create,
         tokenResponse, Fail, EditProfile, Idle

(* Once a row has the email that its user has at GitHub, only a sign-in    *)
(* that had fetched an older one makes it wrong, or an edit at GitHub.     *)
THEOREM EmailIsSettled == Spec => EmailSettled
<1>1. IInv /\ [Next]_vars =>
        [\A id \in DOMAIN users :
           Current(id) => Current(id)' \/ profile'[users[id].github] # profile[users[id].github]]_vars
  <2> SUFFICES ASSUME IInv, [Next]_vars, NEW id \in DOMAIN users, Current(id),
                      profile'[users[id].github] = profile[users[id].github]
               PROVE  Current(id)'
    OBVIOUS
  <2> DEFINE g == users[id].github
  <2>t. TypeOK /\ users \in [DOMAIN users -> User]
    BY DEF IInv, TypeOK
  <2>1. users'[id].github = g
    BY <2>t, RowStays
  <2>2. users'[id].email = profile[g]
    <3>1. CASE UNCHANGED users
      BY <3>1 DEF Current
    <3>2. ASSUME NEW r \in Requests, NEW new \in IDs, Create(r, new)
          PROVE  users'[id].email = profile[g]
      BY <3>2 DEF Create, Current
    <3>3. ASSUME NEW r \in Requests, Updates(r)
          PROVE  users'[id].email = profile[g]
      <4>1. job[r].call = "Updates" /\ job[r].id \in RowsOf(job[r].user.github)
        BY <2>t, <3>3 DEF Updates, TypeOK
      <4>2. job[r].id = id => job[r].user.email \in {NoEmail, profile[g]}
        BY <4>1 DEF RowsOf, Current
      <4>3. QED
        BY <2>t, <3>3, <4>2 DEF Updates, User, Current
    <3>4. QED
      BY <3>1, <3>2, <3>3
         DEF Next, Continue, Upsert, vars, ExchangeGitHubCode, exchangeGitHubToken,
             fetchGitHubUser, First, tokenResponse, Fail, EditProfile
  <2>3. ASSUME NEW q \in Requests, job'[q].call \in {"First", "Create", "Updates"},
               job'[q].user.github = g
        PROVE  job'[q].user.email \in {NoEmail, profile[g]}
    BY <2>t, <2>3, StillToWrite DEF Current
  <2>4. QED
    BY <2>1, <2>2, <2>3 DEF Current
<1>2. QED
  BY <1>1, Invariant, PTL DEF Spec, EmailSettled
=============================================================================
