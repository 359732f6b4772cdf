------------------------------- MODULE HttpApi -------------------------------
(***************************************************************************)
(* A request's way through the server (routes.go): down the stack of       *)
(* middleware to the guard of its route and its handler, back up through   *)
(* the logging to the recovery of panics.  What lies between two calls to  *)
(* the database is one step; the clock ticks and the server is restarted   *)
(* between the steps.  Access tokens are those of AccessToken: its actions *)
(* are the sign-ins.  Headers and bodies are left out, and of what a       *)
(* handler does only what it can be answered with.                         *)
(***************************************************************************)
EXTENDS AccessToken

CONSTANTS
  Requests,
  Sent,       \* the routes that requests are sent to
  MaxFaults   \* bound on the failed calls and panics

VARIABLES
  req,     \* req[r]: how far request r is, and what has been written of it
  faults   \* bounded counter

apiVars == <<vars, req, faults>>
-----------------------------------------------------------------------------
(* What a handler may do: the status of its success (0: the handler is     *)
(* empty and writes none), those of its refusals, and whether it calls     *)
(* out, so that it can fail.                                               *)
Handler(success, refusals, calls) ==
  [success |-> success, refusals |-> refusals, calls |-> calls]

(* The 401 of each, for a request without a user, is behind RequireUser.   *)
EndpointHandler ==
  [CreateEndpoint |-> Handler(201, {400, 422}, TRUE),
   ListEndpoints |-> Handler(200, {}, TRUE),
   GetEndpoint |-> Handler(200, {404}, TRUE),
   UpdateEndpoint |-> Handler(200, {400, 404, 422}, TRUE),
   DeleteEndpoint |-> Handler(204, {404}, TRUE),
   GeneratePairingCode |-> Handler(201, {404}, TRUE),
   ListEndpointDevices |-> Handler(200, {404}, TRUE),
   ListEndpointEvents |-> Handler(200, {404}, TRUE)]

AuthHandler ==
  [GitHubLogin |-> Handler(200, {400, 503}, FALSE),
   GitHubExchange |-> Handler(200, {400, 401, 503}, TRUE),
   Logout |-> Handler(204, {}, FALSE),
   Me |-> Handler(200, {}, FALSE)]

(* The handlers of events and devices are empty.                           *)
Stub == Handler(0, {}, FALSE)

Route(guard, handler) == [guard |-> guard, handler |-> handler]

routes ==
  [healthz |-> Route("none", Handler(200, {}, FALSE)),
   notFound |-> Route("none", Handler(404, {405}, FALSE)),
   ReceiveWebhook |-> Route("none", Stub),
   GitHubLogin |-> Route("none", AuthHandler.GitHubLogin),
   GitHubExchange |-> Route("none", AuthHandler.GitHubExchange),
   Logout |-> Route("none", AuthHandler.Logout),
   Me |-> Route("RequireUser", AuthHandler.Me),
   CreateEndpoint |-> Route("RequireUser", EndpointHandler.CreateEndpoint),
   ListEndpoints |-> Route("RequireUser", EndpointHandler.ListEndpoints),
   GetEndpoint |-> Route("RequireUser", EndpointHandler.GetEndpoint),
   UpdateEndpoint |-> Route("RequireUser", EndpointHandler.UpdateEndpoint),
   DeleteEndpoint |-> Route("RequireUser", EndpointHandler.DeleteEndpoint),
   GeneratePairingCode |-> Route("RequireUser", EndpointHandler.GeneratePairingCode),
   ListEndpointDevices |-> Route("RequireUser", EndpointHandler.ListEndpointDevices),
   ListEndpointEvents |-> Route("RequireUser", EndpointHandler.ListEndpointEvents),
   GetEvent |-> Route("RequireUser", Stub),
   ReplayEvent |-> Route("RequireUser", Stub),
   PairDevice |-> Route("none", Stub),
   Heartbeat |-> Route("RequireDevice", Stub),
   UpdateDevice |-> Route("RequireDevice", Stub),
   DeleteDevice |-> Route("RequireDevice", Stub),
   Stream |-> Route("RequireDevice", Stub)]

ASSUME HttpApiAssumption == Sent \subseteq DOMAIN routes /\ MaxFaults \in Nat
-----------------------------------------------------------------------------
(* A request not under way.  status is the header sent to the client, 0    *)
(* while there is none; recorded is the statusRecorder's; line the status  *)
(* in its log line, 0 while there is none.  For the properties: promised,  *)
(* that the client had been told its token is good for another second;     *)
(* failed, that a call of this request failed or panicked before it was    *)
(* answered.                                                               *)
Idle ==
  [at |-> "idle", route |-> "none", status |-> 0, recorded |-> 200, line |-> 0,
   promised |-> FALSE, failed |-> FALSE]

Become(r, q) == req' = [req EXCEPT ![r] = q]

(* A new request comes as far as q, and nothing but it changes.            *)
Enter(r, q) ==
  /\ req[r].at \in {"idle", "done"}
  /\ Become(r, q)
  /\ UNCHANGED <<vars, faults>>

To(at, route) == [Idle EXCEPT !.at = at, !.route = route]

(* An answer written below the logging, where its status is recorded.      *)
Written(q, status) ==
  [q EXCEPT !.at = "return", !.route = "none", !.status = status, !.recorded = status]

Fault == faults < MaxFaults /\ faults' = faults + 1
-----------------------------------------------------------------------------
(* Down the stack.                                                         *)

(* A browser's preflight is answered by corsMiddleware, above the logging. *)
Preflight(r) == Enter(r, [Idle EXCEPT !.at = "done", !.status = 204])

Unguarded(r, route) ==
  /\ routes[route].guard = "none"
  /\ Enter(r, To("handler", route))

WithoutToken(r, route) ==
  /\ routes[route].guard # "none"
  /\ Enter(r, Written(Idle, 401))

RequireDevice(r, route) ==
  /\ routes[route].guard = "RequireDevice"
  /\ Enter(r, To("load", route))

(* The token of c is verified before its user is loaded.                   *)
RequireUser(r, c, route) ==
  LET t == token[c]
      q == [To("load", route) EXCEPT
              !.promised = t.signed = key /\ now + PerSecond <= t.told]
  IN
  /\ routes[route].guard = "RequireUser"
  /\ t # NoToken
  /\ \/ verifyAccessToken(t) /\ Enter(r, q)
     \/ ~ verifyAccessToken(t) /\ Enter(r, Written(q, 401))
-----------------------------------------------------------------------------
(* The guard's call to the database, then the handler with its own.        *)

(* Mutant: the query for the user misses rows.                             *)
LoadScoped(r) ==
  /\ req[r].at = "load"
  /\ Become(r, [req[r] EXCEPT !.at = "handler"]) \/ Become(r, Written(req[r], 401))
  /\ UNCHANGED <<vars, faults>>

(* loadUser finds the row (users are never deleted), the lookup of a       *)
(* device may find none.                                                   *)
Load(r) ==
  /\ req[r].at = "load"
  /\ \/ Become(r, [req[r] EXCEPT !.at = "handler"])
     \/ /\ routes[req[r].route].guard = "RequireDevice"
        /\ Become(r, Written(req[r], 401))
  /\ UNCHANGED <<vars, faults>>

(* RequireUser answers every error of loadUser with 401, RequireDevice     *)
(* answers with the error.                                                 *)
LoadFails(r) ==
  /\ req[r].at = "load"
  /\ Fault
  /\ Become(r, [Written(req[r], IF routes[req[r].route].guard = "RequireUser" THEN 401 ELSE 500)
                  EXCEPT !.failed = TRUE])
  /\ UNCHANGED vars

Handle(r) ==
  LET handler == routes[req[r].route].handler
  IN
  /\ req[r].at = "handler"
  /\ \E status \in {handler.success} \cup handler.refusals :
       Become(r, IF status = 0 THEN [req[r] EXCEPT !.at = "return", !.route = "none"]
                 ELSE Written(req[r], status))
  /\ UNCHANGED <<vars, faults>>

(* Mutant: the error of the call is not checked.                           *)
HandleUnchecked(r) ==
  /\ req[r].at = "handler" /\ routes[req[r].route].handler.calls
  /\ Fault
  /\ Become(r, [Written(req[r], routes[req[r].route].handler.success) EXCEPT !.failed = TRUE])
  /\ UNCHANGED vars

HandleFails(r) ==
  /\ req[r].at = "handler" /\ routes[req[r].route].handler.calls
  /\ Fault
  /\ Become(r, [Written(req[r], 500) EXCEPT !.failed = TRUE])
  /\ UNCHANGED vars

(* A panic below, before or after the answer is written: it skips the rest *)
(* of loggingMiddleware, and the 500 of recoverMiddleware is the answer if *)
(* there is none yet.                                                      *)
Panic(r) ==
  /\ req[r].at \in {"load", "handler"} \/ (req[r].at = "return" /\ req[r].status # 0)
  /\ Fault
  /\ Become(r, [req[r] EXCEPT !.at = "done", !.route = "none",
                              !.status = IF @ = 0 THEN 500 ELSE @,
                              !.failed = @ \/ req[r].status = 0])
  /\ UNCHANGED vars

(* Up the stack: the line is logged; net/http answers 200 if nobody has.   *)
Return(r) ==
  /\ req[r].at = "return"
  /\ Become(r, [req[r] EXCEPT !.at = "done", !.line = req[r].recorded,
                              !.status = IF @ = 0 THEN 200 ELSE @])
  /\ UNCHANGED <<vars, faults>>
-----------------------------------------------------------------------------
ApiInit == Init /\ req = [r \in Requests |-> Idle] /\ faults = 0

(* The server is restarted: the requests under way are gone.               *)
ApiRestart(k, l) ==
  /\ Restart(k, l)
  /\ req' = [r \in Requests |-> Idle]
  /\ UNCHANGED faults

Down(r) ==
  \/ Preflight(r)
  \/ \E route \in Sent :
       \/ Unguarded(r, route) \/ WithoutToken(r, route) \/ RequireDevice(r, route)
       \/ \E c \in Clients : RequireUser(r, c, route)

Up(r) == Load(r) \/ LoadFails(r) \/ Handle(r) \/ HandleFails(r) \/ Panic(r) \/ Return(r)

SignIn(c) == (CreateAccessToken(c) \/ tokenResponse(c)) /\ UNCHANGED <<req, faults>>

ApiNext ==
  \/ \E r \in Requests : Down(r) \/ Up(r)
  \/ \E c \in Clients : SignIn(c)
  \/ \E k \in Keys, l \in TTLs : ApiRestart(k, l)
  \/ Tick /\ UNCHANGED <<req, faults>>

ApiSpec == ApiInit /\ [][ApiNext]_apiVars
-----------------------------------------------------------------------------
Statuses == {0, 200, 201, 204, 400, 401, 404, 405, 422, 500, 503}

(* The type of every variable, the tokens' included.                       *)
ApiTypeOK ==
  /\ TypeOK
  /\ req \in [Requests -> [at : {"idle", "load", "handler", "return", "done"},
                           route : DOMAIN routes \cup {"none"}, status : Statuses,
                           recorded : Statuses \ {0}, line : Statuses,
                           promised : BOOLEAN, failed : BOOLEAN]]
  /\ faults \in 0..MaxFaults

(* Nobody is told a story: the status in a request's log line is the one   *)
(* its client got, although an empty handler writes none and a panic may   *)
(* come after the answer; and a client whose request failed on its way,    *)
(* in the guard or the handler, does not get a success.                    *)
HonestAnswer ==
  \A r \in Requests : req[r].at = "done" =>
    /\ req[r].status # 0
    /\ req[r].line \in {0, req[r].status}
    /\ req[r].failed => req[r].status >= 400

(* A client that was told its token is good for another second is not sent *)
(* to sign in again, whatever TTL the server has been restarted with, as   *)
(* long as the database answers.  (When the database fails it is: the 401  *)
(* of RequireUser.)                                                        *)
NotTurnedAway ==
  \A r \in Requests :
    req[r].at = "done" /\ req[r].promised /\ ~ req[r].failed => req[r].status # 401
=============================================================================
