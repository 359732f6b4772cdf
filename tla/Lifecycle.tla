----------------------------- MODULE Lifecycle -----------------------------
(***************************************************************************)
(* The life of the server process: main (cmd/server/main.go), app.New      *)
(* (app.go), Start and Shutdown (http.go).  Three actors interleave: main, *)
(* the goroutine in ListenAndServe, and the goroutines of the connections; *)
(* signals come at any time.  net/http's Shutdown is external: it closes   *)
(* the listener and the idle connections, and waits until no request is    *)
(* under way or its context is done.                                       *)
(***************************************************************************)
CONSTANT Connections

Resources == {"otel", "db", "redis"}

VARIABLES
  main,      \* the call main makes next, or "exited"
  acquired,  \* the resources that are open
  serving,   \* the server goroutine: "none", "launched", "listening", "returned"
  closing,   \* server.Shutdown has been called
  errCh,     \* the error channel, of capacity 1, holds an error
  caught,    \* SIGINT and SIGTERM go to signalCtx, not to their default
  signalled, \* signalCtx is done
  expired,   \* shutdownCtx is done: its 15 seconds have passed
  idle,      \* the connections open with no request under way
  underWay,  \* the connections with a request under way
  failed,    \* something that main reports has failed
  exit       \* "none", "ok" (0), "error" (1), or "killed" by a signal

vars == <<main, acquired, serving, closing, errCh, caught, signalled, expired,
          idle, underWay, failed, exit>>

network == <<serving, idle, underWay>>
signals == <<caught, signalled>>
ending == <<closing, expired, failed>>

Exit(how) == main' = "exited" /\ exit' = how
-----------------------------------------------------------------------------
(* main until the server is started.                                       *)

LoadConfig ==
  /\ main = "load"
  /\ \/ main' = "otel" /\ UNCHANGED exit
     \/ Exit("error")
  /\ UNCHANGED <<acquired, errCh, network, signals, ending>>

(* Mutant: a failure returns without closing what is open.                 *)
AcquireOrLeave(step, next) ==
  /\ main = step
  /\ \/ acquired' = acquired \cup {step} /\ main' = next /\ UNCHANGED exit
     \/ UNCHANGED acquired /\ Exit("error")
  /\ UNCHANGED <<errCh, network, signals, ending>>

(* One Connect or Setup of New.  When it fails, what the earlier ones have *)
(* opened is closed and main exits.                                        *)
Acquire(step, next) ==
  /\ main = step
  /\ \/ acquired' = acquired \cup {step} /\ main' = next /\ UNCHANGED exit
     \/ acquired' = {} /\ Exit("error")
  /\ UNCHANGED <<errCh, network, signals, ending>>

Setup == Acquire("otel", "db")
ConnectDB == Acquire("db", "redis")
ConnectRedis == Acquire("redis", "start")

New == Setup \/ ConnectDB \/ ConnectRedis

Start ==
  /\ main = "start"
  /\ serving' = "launched"
  /\ main' = "notify"
  /\ UNCHANGED <<acquired, errCh, idle, underWay, exit, signals, ending>>

NotifyContext ==
  /\ main = "notify"
  /\ caught' = TRUE
  /\ main' = "select"
  /\ UNCHANGED <<acquired, errCh, signalled, exit, network, ending>>
-----------------------------------------------------------------------------
(* The server goroutine and the requests.                                  *)

running == main # "exited"

(* ListenAndServe fails (a port in use, an Accept that fails) or finds the *)
(* server shut down; only the former is sent, and the channel has room.    *)
Listen ==
  /\ running /\ serving = "launched"
  /\ IF closing
     THEN serving' = "returned" /\ UNCHANGED errCh
     ELSE \/ serving' = "listening" /\ UNCHANGED errCh
          \/ serving' = "returned" /\ errCh' = TRUE
  /\ UNCHANGED <<main, acquired, idle, underWay, exit, signals, ending>>

Serve ==
  /\ running /\ serving = "listening"
  /\ serving' = "returned"
  /\ errCh' = (errCh \/ ~ closing)
  /\ UNCHANGED <<main, acquired, idle, underWay, exit, signals, ending>>

Accept(c) ==
  /\ running /\ serving = "listening"
  /\ c \notin idle \cup underWay
  /\ idle' = idle \cup {c}
  /\ UNCHANGED <<main, acquired, serving, errCh, underWay, exit, signals, ending>>

(* A request comes in on an open connection, be it during the drain.       *)
Begin(c) ==
  /\ running /\ c \in idle
  /\ idle' = idle \ {c}
  /\ underWay' = underWay \cup {c}
  /\ UNCHANGED <<main, acquired, serving, errCh, exit, signals, ending>>

(* The request is answered; its connection is kept unless the server       *)
(* shuts down.                                                             *)
End(c) ==
  /\ running /\ c \in underWay
  /\ underWay' = underWay \ {c}
  /\ idle' = IF closing THEN idle ELSE idle \cup {c}
  /\ UNCHANGED <<main, acquired, serving, errCh, exit, signals, ending>>

Disconnect(c) ==
  /\ running /\ c \in idle
  /\ idle' = idle \ {c}
  /\ UNCHANGED <<main, acquired, serving, errCh, underWay, exit, signals, ending>>

(* SIGINT or SIGTERM: the default is to die at once.                       *)
Signal ==
  /\ running
  /\ IF caught
     THEN signalled' = TRUE /\ UNCHANGED <<main, exit>>
     ELSE Exit("killed") /\ UNCHANGED signalled
  /\ UNCHANGED <<acquired, errCh, caught, network, ending>>
-----------------------------------------------------------------------------
(* main from the select to the end.                                        *)

(* Both may be ready, and then either is taken.  The branch of the error   *)
(* also calls stop, which gives the signals back their default.            *)
Select ==
  /\ main = "select"
  /\ \/ signalled /\ UNCHANGED <<errCh, caught>>
     \/ errCh /\ errCh' = FALSE /\ caught' = FALSE
  /\ main' = "shutdown"
  /\ UNCHANGED <<acquired, signalled, exit, network, ending>>

(* Mutant: the database is closed first.                                   *)
ShutdownLast ==
  /\ main = "shutdown"
  /\ closing' = TRUE
  /\ acquired' = acquired \ {"db"}
  /\ main' = "drain"
  /\ UNCHANGED <<errCh, expired, failed, exit, network, signals>>

Shutdown ==
  /\ main = "shutdown"
  /\ closing' = TRUE
  /\ main' = "drain"
  /\ UNCHANGED <<acquired, errCh, expired, failed, exit, network, signals>>

Deadline ==
  /\ main \in {"drain", "redis.Close", "db.Close", "otelShutdown"}
  /\ expired' = TRUE
  /\ UNCHANGED <<main, acquired, closing, errCh, failed, exit, network, signals>>

(* Mutants: the requests are not waited for; they are waited for without a *)
(* deadline.                                                               *)
CloseServer ==
  /\ main = "drain"
  /\ main' = "redis.Close"
  /\ idle' = {}
  /\ UNCHANGED <<acquired, serving, errCh, underWay, exit, signals, ending>>

DrainForEver ==
  /\ main = "drain"
  /\ underWay = {} /\ serving = "returned"
  /\ main' = "redis.Close"
  /\ UNCHANGED <<acquired, errCh, exit, network, signals, ending>>

(* server.Shutdown returns.  It first waits for the listener's goroutine   *)
(* if that has begun to listen; then for the requests or the deadline.  It *)
(* has closed the idle connections, but for a new one at the deadline.     *)
Drain ==
  /\ main = "drain"
  /\ serving # "listening"
  /\ \/ underWay = {} /\ idle' = {} /\ UNCHANGED failed
     \/ expired /\ idle' \in {{}, idle} /\ failed' = TRUE
  /\ main' = "redis.Close"
  /\ UNCHANGED <<acquired, serving, closing, errCh, expired, underWay, exit, signals>>

(* Every Close is called, whatever the ones before it returned; errors are *)
(* joined.                                                                 *)
Release(step, resource, next) ==
  /\ main = step
  /\ acquired' = acquired \ {resource}
  /\ UNCHANGED failed \/ failed' = TRUE
  /\ main' = next
  /\ UNCHANGED <<closing, errCh, expired, exit, network, signals>>

CloseRedis == Release("redis.Close", "redis", "db.Close")
CloseDB == Release("db.Close", "db", "otelShutdown")
otelShutdown == Release("otelShutdown", "otel", "exit")

Close == CloseRedis \/ CloseDB \/ otelShutdown

(* The error of the server is not among those reported: it exits with 0.   *)
Return ==
  /\ main = "exit"
  /\ Exit(IF failed THEN "error" ELSE "ok")
  /\ UNCHANGED <<acquired, errCh, network, signals, ending>>
-----------------------------------------------------------------------------
Init ==
  /\ main = "load"
  /\ acquired = {}
  /\ serving = "none"
  /\ closing = FALSE
  /\ errCh = FALSE
  /\ caught = FALSE
  /\ signalled = FALSE
  /\ expired = FALSE
  /\ idle = {}
  /\ underWay = {}
  /\ failed = FALSE
  /\ exit = "none"

(* The process has ended.                                                  *)
Ended == ~ running /\ UNCHANGED vars

Main ==
  \/ LoadConfig \/ New \/ Start \/ NotifyContext
  \/ Select \/ Shutdown \/ Drain \/ Close \/ Return

Next ==
  \/ Main
  \/ Listen \/ Serve
  \/ \E c \in Connections : Accept(c) \/ Begin(c) \/ End(c) \/ Disconnect(c)
  \/ Signal \/ Deadline
  \/ Ended

Spec == Init /\ [][Next]_vars

(* main and the server's goroutine are run, Accept returns once its        *)
(* listener is closed, and the timer of the deadline fires.  No request    *)
(* need ever end: a stream does not.                                       *)
Fairness ==
  /\ WF_vars(Main)
  /\ WF_vars(Listen)
  /\ WF_vars(closing /\ Serve)
  /\ WF_vars(Deadline)

FairSpec == Spec /\ Fairness
-----------------------------------------------------------------------------
(* The type of every variable, and that resources are opened and closed    *)
(* like a stack: what is open has all that was opened before it.           *)
TypeOK ==
  /\ main \in {"load", "otel", "db", "redis", "start", "notify", "select", "shutdown",
               "drain", "redis.Close", "db.Close", "otelShutdown", "exit", "exited"}
  /\ acquired \in {{}, {"otel"}, {"otel", "db"}, Resources}
  /\ serving \in {"none", "launched", "listening", "returned"}
  /\ {closing, errCh, caught, signalled, expired, failed} \subseteq BOOLEAN
  /\ idle \subseteq Connections /\ underWay \subseteq Connections /\ idle \cap underWay = {}
  /\ exit \in {"none", "ok", "error", "killed"}

(* A request under way has the database: it is open before the server      *)
(* listens, and closed under a request only when the 15 seconds that       *)
(* Shutdown gives the requests have passed, however main, the server's     *)
(* goroutine and the signals interleave.                                   *)
RequestsHaveDatabase == running /\ underWay # {} => "db" \in acquired \/ expired

(* The exit code is honest: unless a signal killed the process, everything *)
(* is released when it exits, and with 0 no request has been cut off.      *)
HonestExit ==
  /\ exit \in {"ok", "error"} => acquired = {}
  /\ exit = "ok" => underWay = {}
  /\ exit = "error" /\ underWay # {} => expired

(* Once a signal is caught or the server has failed, the process ends,     *)
(* even if no request ever does.                                           *)
StopsWhenTold == signalled \/ errCh ~> main = "exited"
=============================================================================
