---------------------------- MODULE HttpApiProofs ----------------------------
(***************************************************************************)
(* The HTTP interface for any set of requests, routes sent and clients.    *)
(***************************************************************************)
EXTENDS HttpApi, AccessTokenProofs

(* The interface leaves the tokens to AccessToken, so what is proved there *)
(* holds of the server's tokens.                                           *)
THEOREM ApiHasTokens == ApiSpec => Spec
<1>1. ApiInit => Init
  BY DEF ApiInit
<1>2. [ApiNext]_apiVars => [Next]_vars
  <2> SUFFICES ASSUME [ApiNext]_apiVars PROVE [Next]_vars
    OBVIOUS
  <2>1. ASSUME NEW r \in Requests, Down(r) PROVE UNCHANGED vars
    BY <2>1 DEF Down, Preflight, Unguarded, WithoutToken, RequireDevice, RequireUser, Enter
  <2>2. ASSUME NEW r \in Requests, Up(r) PROVE UNCHANGED vars
    BY <2>2 DEF Up, Load, LoadFails, Handle, HandleFails, Panic, Return
  <2>3. ASSUME NEW c \in Clients, SignIn(c) PROVE Next
    BY <2>3 DEF SignIn, Next
  <2>4. ASSUME NEW k \in Keys, NEW l \in TTLs, ApiRestart(k, l) PROVE Next
    BY <2>4 DEF ApiRestart, Next
  <2>5. CASE Tick /\ UNCHANGED <<req, faults>>
    BY <2>5 DEF Next
  <2>6. CASE UNCHANGED apiVars
    BY <2>6 DEF apiVars
  <2>7. QED
    BY <2>1, <2>2, <2>3, <2>4, <2>5, <2>6 DEF ApiNext
<1>3. QED
  BY <1>1, <1>2, PTL DEF ApiSpec, Spec
-----------------------------------------------------------------------------
(* What a route may answer with: only a guard sends users to sign in.      *)
Sound(q) ==
  /\ q.handler.success \in Statuses
  /\ q.handler.refusals \subseteq Statuses \ {0}
  /\ q.guard = "RequireUser" => 401 \notin {q.handler.success} \cup q.handler.refusals

(* The table is read entry by entry.                                       *)
LEMMA RoutesSound ==
  ASSUME NEW h \in DOMAIN routes
  PROVE  Sound(routes[h])
<1>1. DOMAIN routes = {"healthz", "notFound", "ReceiveWebhook", "GitHubLogin", "GitHubExchange",
                      "Logout", "Me", "CreateEndpoint", "ListEndpoints", "GetEndpoint",
                      "UpdateEndpoint", "DeleteEndpoint", "GeneratePairingCode",
                      "ListEndpointDevices", "ListEndpointEvents", "GetEvent", "ReplayEvent",
                      "PairDevice", "Heartbeat", "UpdateDevice", "DeleteDevice", "Stream"}
  BY DEF routes
<1>2. /\ Sound(routes["healthz"])
      /\ Sound(routes["notFound"])
  <2>1. /\ routes["healthz"] = Route("none", Handler(200, {}, FALSE))
        /\ routes["notFound"] = Route("none", Handler(404, {405}, FALSE))
    BY DEF routes
  <2>2. QED
    BY <2>1 DEF Route, Handler, Sound, Statuses
<1>3. /\ Sound(routes["GitHubLogin"])
      /\ Sound(routes["GitHubExchange"])
      /\ Sound(routes["Logout"])
  <2>1. /\ routes["GitHubLogin"] = Route("none", Handler(200, {400, 503}, FALSE))
        /\ routes["GitHubExchange"] = Route("none", Handler(200, {400, 401, 503}, TRUE))
        /\ routes["Logout"] = Route("none", Handler(204, {}, FALSE))
    BY DEF routes, AuthHandler
  <2>2. QED
    BY <2>1 DEF Route, Handler, Sound, Statuses
<1>4. Sound(routes["Me"])
  <2>1. routes["Me"] = Route("RequireUser", Handler(200, {}, FALSE))
    BY DEF routes, AuthHandler
  <2>2. QED
    BY <2>1 DEF Route, Handler, Sound, Statuses
<1>5. /\ Sound(routes["CreateEndpoint"])
      /\ Sound(routes["ListEndpoints"])
      /\ Sound(routes["GetEndpoint"])
      /\ Sound(routes["UpdateEndpoint"])
  <2>1. /\ routes["CreateEndpoint"] = Route("RequireUser", Handler(201, {400, 422}, TRUE))
        /\ routes["ListEndpoints"] = Route("RequireUser", Handler(200, {}, TRUE))
        /\ routes["GetEndpoint"] = Route("RequireUser", Handler(200, {404}, TRUE))
        /\ routes["UpdateEndpoint"] = Route("RequireUser", Handler(200, {400, 404, 422}, TRUE))
    BY DEF routes, EndpointHandler
  <2>2. QED
    BY <2>1 DEF Route, Handler, Sound, Statuses
<1>6. /\ Sound(routes["DeleteEndpoint"])
      /\ Sound(routes["GeneratePairingCode"])
      /\ Sound(routes["ListEndpointDevices"])
      /\ Sound(routes["ListEndpointEvents"])
  <2>1. /\ routes["DeleteEndpoint"] = Route("RequireUser", Handler(204, {404}, TRUE))
        /\ routes["GeneratePairingCode"] = Route("RequireUser", Handler(201, {404}, TRUE))
        /\ routes["ListEndpointDevices"] = Route("RequireUser", Handler(200, {404}, TRUE))
        /\ routes["ListEndpointEvents"] = Route("RequireUser", Handler(200, {404}, TRUE))
    BY DEF routes, EndpointHandler
  <2>2. QED
    BY <2>1 DEF Route, Handler, Sound, Statuses
<1>7. /\ Sound(routes["ReceiveWebhook"])
      /\ Sound(routes["PairDevice"])
      /\ Sound(routes["GetEvent"])
      /\ Sound(routes["ReplayEvent"])
  <2>1. /\ routes["ReceiveWebhook"] = Route("none", Stub)
        /\ routes["PairDevice"] = Route("none", Stub)
        /\ routes["GetEvent"] = Route("RequireUser", Stub)
        /\ routes["ReplayEvent"] = Route("RequireUser", Stub)
    BY DEF routes
  <2>2. QED
    BY <2>1 DEF Route, Stub, Handler, Sound, Statuses
<1>8. /\ Sound(routes["Heartbeat"])
      /\ Sound(routes["UpdateDevice"])
      /\ Sound(routes["DeleteDevice"])
      /\ Sound(routes["Stream"])
  <2>1. /\ routes["Heartbeat"] = Route("RequireDevice", Stub)
        /\ routes["UpdateDevice"] = Route("RequireDevice", Stub)
        /\ routes["DeleteDevice"] = Route("RequireDevice", Stub)
        /\ routes["Stream"] = Route("RequireDevice", Stub)
    BY DEF routes
  <2>2. QED
    BY <2>1 DEF Route, Stub, Handler, Sound, Statuses
<1>9. QED
  BY <1>1, <1>2, <1>3, <1>4, <1>5, <1>6, <1>7, <1>8, Zenon
-----------------------------------------------------------------------------
Answer ==
  [at : {"idle", "load", "handler", "return", "done"},
   route : DOMAIN routes \cup {"none"}, status : Statuses,
   recorded : Statuses \ {0}, line : Statuses,
   promised : BOOLEAN, failed : BOOLEAN]

(* A request on its way down: nothing is written, and a promised one is    *)
(* behind RequireUser.                                                     *)
OnItsWay(q) ==
  /\ q.status = 0 /\ q.recorded = 200 /\ q.line = 0
  /\ ~ q.failed
  /\ q.at # "idle" => q.route \in DOMAIN routes
  /\ q.promised => q.at # "idle" /\ routes[q.route].guard = "RequireUser"

(* A request on its way up: what is recorded is what has been written, or  *)
(* the 200 that will be.                                                   *)
Answered200(q) ==
  /\ q.line = 0
  /\ q.status = q.recorded \/ (q.status = 0 /\ q.recorded = 200 /\ ~ q.failed)

Truthful(q) ==
  /\ q.failed => q.status >= 400
  /\ q.promised /\ ~ q.failed => q.status # 401

RequestInv(q) ==
  /\ q \in Answer
  /\ q.at \in {"idle", "load", "handler"} => OnItsWay(q)
  /\ q.at = "return" => Answered200(q) /\ Truthful(q)
  /\ q.at = "done" => q.status # 0 /\ q.line \in {0, q.status} /\ Truthful(q)

ApiInv ==
  /\ req \in [Requests -> Answer]
  /\ \A r \in Requests : RequestInv(req[r])
  /\ faults \in 0..MaxFaults

LEMMA IdleOk == RequestInv(Idle)
BY DEF RequestInv, Idle, Answer, OnItsWay, Statuses

(* What is written on the way up.                                          *)
LEMMA WrittenFields ==
  ASSUME NEW q \in Answer, NEW status \in Statuses \ {0}
  PROVE  LET w == Written(q, status)
         IN  /\ w \in Answer
             /\ w.at = "return" /\ w.status = status /\ w.recorded = status
             /\ w.line = q.line /\ w.promised = q.promised /\ w.failed = q.failed
<1> DEFINE w == Written(q, status)
<1>1. w \in Answer
  BY DEF Answer, Written
<1>2. /\ w.at = "return" /\ w.status = status /\ w.recorded = status
      /\ w.line = q.line /\ w.promised = q.promised /\ w.failed = q.failed
  BY DEF Answer, Written
<1>3. QED
  BY <1>1, <1>2

LEMMA WrittenOk ==
  ASSUME NEW q \in Answer, NEW status \in Statuses \ {0}, q.line = 0, ~ q.failed,
         q.promised => status # 401
  PROVE  RequestInv(Written(q, status))
BY WrittenFields DEF RequestInv, Answered200, Truthful

(* What is written after a failure.                                        *)
Failing(q, status) == [Written(q, status) EXCEPT !.failed = TRUE]

LEMMA FailedOk ==
  ASSUME NEW q \in Answer, NEW status \in {401, 500}, q.line = 0
  PROVE  RequestInv(Failing(q, status))
<1> DEFINE w == Written(q, status)
           f == Failing(q, status)
<1>1. /\ w \in Answer
      /\ w.at = "return" /\ w.status = status /\ w.recorded = status
      /\ w.line = 0
  BY WrittenFields DEF Statuses
<1>2. f \in Answer /\ f.failed
      /\ f.at = "return" /\ f.status = status /\ f.recorded = status /\ f.line = 0
  BY <1>1 DEF Answer, Failing
<1>3. QED
  BY <1>2 DEF RequestInv, Answered200, Truthful

(* It is enough to look at the request that moves.                         *)
LEMMA Moves ==
  ASSUME ApiInv, NEW r \in Requests, NEW q, Become(r, q), RequestInv(q),
         faults' \in 0..MaxFaults
  PROVE  ApiInv'
BY DEF ApiInv, Become, RequestInv

LEMMA Enters ==
  ASSUME ApiInv, NEW r \in Requests, NEW q, Enter(r, q), RequestInv(q)
  PROVE  ApiInv'
BY Moves DEF Enter, ApiInv

LEMMA FaultCounted ==
  ASSUME faults \in 0..MaxFaults, Fault
  PROVE  faults' \in 0..MaxFaults
BY HttpApiAssumption DEF Fault
-----------------------------------------------------------------------------
LEMMA ApiInvInit == ApiInit => ApiInv
BY IdleOk, HttpApiAssumption DEF ApiInit, ApiInv, RequestInv

(* A request that a guard lets in.                                         *)
LEMMA EntersAt ==
  ASSUME NEW h \in DOMAIN routes, NEW at \in {"load", "handler"}
  PROVE  RequestInv(To(at, h))
<1> DEFINE q == To(at, h)
<1>1. /\ q.at = at /\ q.route = h /\ q.status = 0 /\ q.recorded = 200
      /\ q.line = 0 /\ ~ q.promised /\ ~ q.failed
  BY DEF To, Idle
<1>2. q \in Answer
  BY IdleOk DEF RequestInv, Answer, To
<1>3. QED
  BY <1>1, <1>2 DEF RequestInv, OnItsWay

(* The way down; the promise to a token's client is kept (LivesAsTold).    *)
LEMMA DownKeeps ==
  ASSUME ApiInv, LivesAsTold, NEW r \in Requests, Down(r)
  PROVE  ApiInv'
<1>1. CASE Preflight(r)
  <2> DEFINE q == [Idle EXCEPT !.at = "done", !.status = 204]
  <2>1. 204 \in Statuses
    BY DEF Statuses
  <2>2. q \in Answer
    BY <2>1, IdleOk DEF RequestInv, Answer
  <2>3. RequestInv(q)
    <3>1. q.at = "done" /\ q.status = 204 /\ q.line = 0 /\ ~ q.promised /\ ~ q.failed
      BY DEF Idle
    <3>2. QED
      BY <2>2, <3>1 DEF RequestInv, Truthful
  <2>4. QED
    BY <1>1, <2>3, Enters DEF Preflight
<1>2. ASSUME NEW h \in Sent, Unguarded(r, h) PROVE ApiInv'
  <2>1. RequestInv(To("handler", h))
    BY EntersAt, HttpApiAssumption
  <2>2. QED
    BY <1>2, <2>1, Enters DEF Unguarded
<1>3. ASSUME NEW h \in Sent, WithoutToken(r, h) PROVE ApiInv'
  <2>1. RequestInv(Written(Idle, 401))
    BY IdleOk, WrittenOk DEF RequestInv, Idle, Statuses
  <2>2. QED
    BY <1>3, <2>1, Enters DEF WithoutToken
<1>4. ASSUME NEW h \in Sent, RequireDevice(r, h) PROVE ApiInv'
  <2>1. RequestInv(To("load", h))
    BY EntersAt, HttpApiAssumption
  <2>2. QED
    BY <1>4, <2>1, Enters DEF RequireDevice
<1>5. ASSUME NEW h \in Sent, NEW c \in Clients, RequireUser(r, c, h) PROVE ApiInv'
  <2> DEFINE t == token[c]
             promised == t.signed = key /\ now + PerSecond <= t.told
             q == [To("load", h) EXCEPT !.promised = promised]
  <2>1. routes[h].guard = "RequireUser" /\ (promised => verifyAccessToken(t))
    BY <1>5 DEF RequireUser, LivesAsTold, Held
  <2>2. q \in Answer /\ q.at = "load" /\ OnItsWay(q) /\ q.promised = promised
    <3>1. To("load", h).at = "load" /\ To("load", h).route = h
      BY DEF To, Idle
    <3>2. To("load", h) \in Answer /\ OnItsWay(To("load", h))
      BY <3>1, EntersAt, HttpApiAssumption DEF RequestInv
    <3>3. promised \in BOOLEAN
      OBVIOUS
    <3>4. q \in Answer /\ q.promised = promised
      BY <3>2, <3>3 DEF Answer
    <3>5. /\ q.at = "load" /\ q.route = h /\ q.status = 0 /\ q.recorded = 200
          /\ q.line = 0 /\ ~ q.failed
      BY <3>1, <3>2 DEF Answer, OnItsWay
    <3>6. QED
      BY <2>1, <3>4, <3>5, HttpApiAssumption DEF OnItsWay
  <2>3. RequestInv(q)
    BY <2>2 DEF RequestInv
  <2>4. ~ promised => RequestInv(Written(q, 401))
    <3> HIDE DEF q, promised
    <3>1. 401 \in Statuses \ {0}
      BY DEF Statuses
    <3>2. QED
      BY <2>2, <3>1, WrittenOk DEF OnItsWay
  <2>5. Enter(r, q) \/ (~ promised /\ Enter(r, Written(q, 401)))
    BY <1>5, <2>1 DEF RequireUser
  <2>6. QED
    BY <2>3, <2>4, <2>5, Enters
<1>6. QED
  BY <1>1, <1>2, <1>3, <1>4, <1>5 DEF Down

(* The database's answer, the handler, and the way up.                     *)
LEMMA UpKeeps ==
  ASSUME ApiInv, NEW r \in Requests, Up(r)
  PROVE  ApiInv'
<1> DEFINE q == req[r]
<1>0. q \in Answer /\ RequestInv(q) /\ faults \in 0..MaxFaults
  BY DEF ApiInv
<1>1. CASE Load(r)
  <2>1. q.at = "load" /\ OnItsWay(q)
    BY <1>0, <1>1 DEF Load, RequestInv
  <2>2. RequestInv([q EXCEPT !.at = "handler"])
    BY <1>0, <2>1 DEF RequestInv, Answer, OnItsWay
  <2>3. routes[q.route].guard = "RequireDevice" => RequestInv(Written(q, 401))
    BY <1>0, <2>1, WrittenOk DEF OnItsWay, Statuses
  <2>4. QED
    BY <1>1, <2>2, <2>3, Moves DEF Load, ApiInv
<1>2. CASE LoadFails(r)
  <2>1. q.at = "load" /\ q.line = 0
    BY <1>0, <1>2 DEF LoadFails, RequestInv, OnItsWay
  <2>2. \E status \in {401, 500} : Become(r, Failing(q, status))
    BY <1>2 DEF LoadFails, Failing
  <2>3. PICK status \in {401, 500} : Become(r, Failing(q, status))
    BY <2>2
  <2>4. RequestInv(Failing(q, status))
    BY <1>0, <2>1, <2>3, FailedOk
  <2>5. faults' \in 0..MaxFaults
    BY <1>0, <1>2, FaultCounted DEF LoadFails
  <2>6. QED
    BY <2>3, <2>4, <2>5, Moves
<1>3. CASE Handle(r)
  <2> DEFINE h == routes[q.route].handler
  <2>1. q.at = "handler" /\ OnItsWay(q) /\ Sound(routes[q.route])
    BY <1>0, <1>3, RoutesSound DEF Handle, RequestInv, OnItsWay
  <2>2. PICK status \in {h.success} \cup h.refusals :
          Become(r, IF status = 0 THEN [q EXCEPT !.at = "return", !.route = "none"]
                    ELSE Written(q, status))
    BY <1>3 DEF Handle
  <2>3. status \in Statuses /\ (q.promised => status # 401)
    BY <2>1, <2>2 DEF Sound, OnItsWay
  <2>4. status # 0 => RequestInv(Written(q, status))
    BY <1>0, <2>1, <2>3, WrittenOk DEF OnItsWay
  <2>5. RequestInv([q EXCEPT !.at = "return", !.route = "none"])
    <3> DEFINE p == [q EXCEPT !.at = "return", !.route = "none"]
    <3>1. p \in Answer
      BY <1>0 DEF Answer
    <3>2. /\ p.at = "return" /\ p.status = 0 /\ p.recorded = 200 /\ p.line = 0
          /\ ~ p.failed
      BY <1>0, <2>1 DEF Answer, OnItsWay
    <3>3. QED
      BY <3>1, <3>2 DEF RequestInv, Answered200, Truthful
  <2>6. QED
    BY <1>3, <2>2, <2>4, <2>5, Moves DEF Handle, ApiInv
<1>4. CASE HandleFails(r)
  <2>1. q.line = 0 /\ 500 \in {401, 500}
    BY <1>0, <1>4 DEF HandleFails, RequestInv, OnItsWay
  <2>2. RequestInv(Failing(q, 500))
    BY <1>0, <2>1, FailedOk
  <2>3. faults' \in 0..MaxFaults
    BY <1>0, <1>4, FaultCounted DEF HandleFails
  <2>4. QED
    BY <1>4, <2>2, <2>3, Moves DEF HandleFails, Failing
<1>5. CASE Panic(r)
  <2> DEFINE status == IF q.status = 0 THEN 500 ELSE q.status
             failed == q.failed \/ q.status = 0
             p == [q EXCEPT !.at = "done", !.route = "none",
                            !.status = status, !.failed = failed]
  <2>1. \/ q.status = 0 /\ q.line = 0
        \/ q.status # 0 /\ q.line = 0 /\ Truthful(q)
    BY <1>0, <1>5 DEF Panic, RequestInv, OnItsWay, Answered200
  <2>2. p \in Answer
    <3>1. q.status \in Statuses /\ 500 \in Statuses
      BY <1>0 DEF Answer, Statuses
    <3>2. status \in Statuses /\ failed \in BOOLEAN
      BY <3>1
    <3> HIDE DEF status, failed
    <3>3. QED
      BY <1>0, <3>2 DEF Answer
  <2>3. /\ p.at = "done" /\ p.line = q.line /\ p.promised = q.promised
        /\ p.status = status /\ p.failed = failed
    <3> HIDE DEF status, failed
    <3>1. QED
      BY <1>0 DEF Answer
  <2> HIDE DEF p
  <2>4. RequestInv(p)
    <3>1. CASE q.status = 0
      <4>1. p.status = 500 /\ p.line = 0
        BY <2>1, <2>3, <3>1
      <4>2. QED
        BY <2>2, <2>3, <4>1 DEF RequestInv, Truthful
    <3>2. CASE q.status # 0
      <4>1. p.status = q.status /\ (p.failed <=> q.failed)
        BY <2>3, <3>2
      <4>2. Truthful(p)
        BY <2>1, <2>3, <3>2, <4>1 DEF Truthful
      <4>3. QED
        BY <2>1, <2>2, <2>3, <3>2, <4>1, <4>2 DEF RequestInv
    <3>3. QED
      BY <3>1, <3>2
  <2>5. QED
    BY <1>0, <1>5, <2>4, Moves, FaultCounted DEF Panic, p
<1>6. CASE Return(r)
  <2> DEFINE p == [q EXCEPT !.at = "done", !.line = q.recorded,
                            !.status = IF @ = 0 THEN 200 ELSE @]
  <2>1. Answered200(q) /\ Truthful(q)
    BY <1>0, <1>6 DEF Return, RequestInv
  <2>2. p \in Answer
    <3>1. q.status \in Statuses /\ 200 \in Statuses /\ q.recorded \in Statuses
      BY <1>0 DEF Answer, Statuses
    <3>2. (IF q.status = 0 THEN 200 ELSE q.status) \in Statuses
      BY <3>1
    <3>3. QED
      BY <1>0, <3>1, <3>2 DEF Answer
  <2>3. p.at = "done" /\ p.line = q.recorded /\ p.promised = q.promised
        /\ p.status = (IF q.status = 0 THEN 200 ELSE q.status) /\ p.failed = q.failed
    BY <1>0 DEF Answer
  <2>4. RequestInv(p)
    BY <1>0, <2>1, <2>2, <2>3 DEF RequestInv, Answered200, Truthful, Answer
  <2>5. QED
    BY <1>6, <2>4, Moves DEF Return, ApiInv
<1>7. QED
  BY <1>1, <1>2, <1>3, <1>4, <1>5, <1>6 DEF Up

LEMMA ApiInvNext == ApiInv /\ LivesAsTold /\ [ApiNext]_apiVars => ApiInv'
<1> SUFFICES ASSUME ApiInv, LivesAsTold, [ApiNext]_apiVars PROVE ApiInv'
  OBVIOUS
<1>1. ASSUME NEW c \in Clients, SignIn(c) PROVE ApiInv'
  BY <1>1 DEF SignIn, ApiInv
<1>2. ASSUME NEW k \in Keys, NEW l \in TTLs, ApiRestart(k, l) PROVE ApiInv'
  BY <1>2, IdleOk DEF ApiRestart, ApiInv, RequestInv
<1>3. CASE UNCHANGED <<req, faults>>
  BY <1>3 DEF ApiInv
<1>4. QED
  BY <1>1, <1>2, <1>3, DownKeeps, UpKeeps DEF ApiNext, apiVars

LEMMA ApiInvariant == ApiSpec => []ApiInv
BY ApiInvInit, ApiInvNext, ApiHasTokens, RelyOnExpiresIn, PTL DEF ApiSpec
-----------------------------------------------------------------------------
(* Every variable keeps its type, the tokens included.                     *)
THEOREM ApiTypeCorrect == ApiSpec => []ApiTypeOK
<1>1. ApiInv /\ TypeOK => ApiTypeOK
  BY DEF ApiInv, ApiTypeOK, Answer
<1>2. IInv => TypeOK
  BY DEF IInv
<1>3. QED
  BY <1>1, <1>2, ApiInvariant, ApiHasTokens, Invariant, PTL

(* The log tells what the client was told, and no failure passes for a     *)
(* success.                                                                *)
THEOREM AnswersAreHonest == ApiSpec => []HonestAnswer
<1>1. ApiInv => HonestAnswer
  BY DEF ApiInv, HonestAnswer, RequestInv, Truthful
<1>2. QED
  BY <1>1, ApiInvariant, PTL

(* Nobody whom the server told that the token is good is sent to sign in,  *)
(* unless the database failed.                                             *)
THEOREM NobodyTurnedAway == ApiSpec => []NotTurnedAway
<1>1. ApiInv => NotTurnedAway
  BY DEF ApiInv, NotTurnedAway, RequestInv, Truthful
<1>2. QED
  BY <1>1, ApiInvariant, PTL

(* The server accepts no token past its lifetime, whatever its requests    *)
(* and restarts.                                                           *)
THEOREM ApiTokensDie == ApiSpec => []DeadAfterExpiry
BY ApiHasTokens, NoneOutlives, PTL

(* And it accepts each as long as its client was told.                     *)
THEOREM ApiTokensLive == ApiSpec => []LivesAsTold
BY ApiHasTokens, RelyOnExpiresIn, PTL
=============================================================================
