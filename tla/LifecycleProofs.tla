--------------------------- MODULE LifecycleProofs ---------------------------
(***************************************************************************)
(* The safety of the process's life, for any set of connections.           *)
(***************************************************************************)
EXTENDS Lifecycle, TLAPS

Starting == {"load", "otel", "db", "redis", "start"}
Closing == {"redis.Close", "db.Close", "otelShutdown", "exit"}

(* What is open when main makes each call.                                 *)
Held(m) ==
  IF m \in {"load", "otel", "exit"} THEN {}
  ELSE IF m \in {"db", "otelShutdown"} THEN {"otel"}
  ELSE IF m \in {"redis", "db.Close"} THEN {"otel", "db"}
  ELSE Resources

(* Before Start there is no connection; once the drain is over, there is   *)
(* one only if the deadline has passed, and then that is to be reported.   *)
ConnectionInv ==
  /\ main \in Starting => serving = "none"
  /\ serving = "none" => idle = {} /\ underWay = {}
  /\ main \in Closing \cup {"drain"} => closing
  /\ main \in Closing => /\ serving # "listening"
                         /\ idle \cup underWay # {} => expired /\ failed

HeldInv ==
  /\ running => acquired = Held(main)
  /\ running <=> exit = "none"

IInv == TypeOK /\ HeldInv /\ ConnectionInv /\ HonestExit
-----------------------------------------------------------------------------
LEMMA InvInit == Init => IInv
BY DEF Init, IInv, TypeOK, HeldInv, Held, ConnectionInv, HonestExit, Starting, Closing, running

LEMMA TypeNext == IInv /\ [Next]_vars => TypeOK'
<1> SUFFICES ASSUME IInv, [Next]_vars PROVE TypeOK'
  OBVIOUS
<1> USE DEF IInv, TypeOK, HeldInv, Held, Resources, running, network, signals, ending
<1>1. CASE LoadConfig
  BY <1>1 DEF LoadConfig, Exit
<1>2. CASE New
  BY <1>2 DEF New, Setup, ConnectDB, ConnectRedis, Acquire, Exit
<1>3. CASE Start \/ NotifyContext
  BY <1>3 DEF Start, NotifyContext
<1>4. CASE Select \/ Shutdown \/ Drain \/ Return
  BY <1>4 DEF Select, Shutdown, Drain, Return, Exit
<1>5. CASE Close
  BY <1>5 DEF Close, CloseRedis, CloseDB, otelShutdown, Release
<1>6. CASE Listen \/ Serve
  BY <1>6 DEF Listen, Serve
<1>7. ASSUME NEW c \in Connections, Accept(c) \/ Begin(c) \/ End(c) \/ Disconnect(c)
      PROVE  TypeOK'
  BY <1>7 DEF Accept, Begin, End, Disconnect
<1>8. CASE Signal \/ Deadline
  BY <1>8 DEF Signal, Deadline, Exit
<1>9. CASE Ended \/ UNCHANGED vars
  BY <1>9 DEF Ended, vars
<1>10. QED
  BY <1>1, <1>2, <1>3, <1>4, <1>5, <1>6, <1>7, <1>8, <1>9 DEF Next, Main

LEMMA HeldNext == IInv /\ [Next]_vars => HeldInv'
<1> SUFFICES ASSUME IInv, [Next]_vars PROVE HeldInv'
  OBVIOUS
<1> USE DEF IInv, TypeOK, HeldInv, Held, Resources, running, network, signals, ending
<1>1. CASE LoadConfig
  BY <1>1 DEF LoadConfig, Exit
<1>2. CASE New
  BY <1>2 DEF New, Setup, ConnectDB, ConnectRedis, Acquire, Exit
<1>3. CASE Start \/ NotifyContext
  BY <1>3 DEF Start, NotifyContext
<1>4. CASE Select \/ Shutdown \/ Drain \/ Return
  BY <1>4 DEF Select, Shutdown, Drain, Return, Exit
<1>5. CASE Close
  BY <1>5 DEF Close, CloseRedis, CloseDB, otelShutdown, Release
<1>6. CASE Listen \/ Serve
  BY <1>6 DEF Listen, Serve
<1>7. ASSUME NEW c \in Connections, Accept(c) \/ Begin(c) \/ End(c) \/ Disconnect(c)
      PROVE  HeldInv'
  BY <1>7 DEF Accept, Begin, End, Disconnect
<1>8. CASE Signal \/ Deadline
  BY <1>8 DEF Signal, Deadline, Exit
<1>9. CASE Ended \/ UNCHANGED vars
  BY <1>9 DEF Ended, vars
<1>10. QED
  BY <1>1, <1>2, <1>3, <1>4, <1>5, <1>6, <1>7, <1>8, <1>9 DEF Next, Main

LEMMA ConnectionNext == IInv /\ [Next]_vars => ConnectionInv'
<1> SUFFICES ASSUME IInv, [Next]_vars PROVE ConnectionInv'
  OBVIOUS
<1> USE DEF IInv, TypeOK, ConnectionInv, Starting, Closing, running, network, signals, ending
<1>1. CASE LoadConfig
  BY <1>1 DEF LoadConfig, Exit
<1>2. CASE New
  BY <1>2 DEF New, Setup, ConnectDB, ConnectRedis, Acquire, Exit
<1>3. CASE Start \/ NotifyContext
  BY <1>3 DEF Start, NotifyContext
<1>4. CASE Select \/ Shutdown \/ Return
  BY <1>4 DEF Select, Shutdown, Return, Exit
<1>5. CASE Drain
  BY <1>5 DEF Drain
<1>6. CASE Close
  BY <1>6 DEF Close, CloseRedis, CloseDB, otelShutdown, Release
<1>7. CASE Listen \/ Serve
  BY <1>7 DEF Listen, Serve
<1>8. ASSUME NEW c \in Connections, Accept(c) \/ Begin(c) \/ End(c) \/ Disconnect(c)
      PROVE  ConnectionInv'
  BY <1>8 DEF Accept, Begin, End, Disconnect
<1>9. CASE Signal \/ Deadline
  BY <1>9 DEF Signal, Deadline, Exit
<1>10. CASE Ended \/ UNCHANGED vars
  BY <1>10 DEF Ended, vars
<1>11. QED
  BY <1>1, <1>2, <1>3, <1>4, <1>5, <1>6, <1>7, <1>8, <1>9, <1>10 DEF Next, Main

(* An exit code is set by LoadConfig, New, Return and Signal; the other    *)
(* steps find none, or the process ended.                                  *)
LEMMA ExitNext == IInv /\ [Next]_vars => HonestExit'
<1> SUFFICES ASSUME IInv, [Next]_vars PROVE HonestExit'
  OBVIOUS
<1> USE DEF IInv, TypeOK, HeldInv, Held, ConnectionInv, HonestExit, Starting, Closing, running,
            network, signals, ending
<1>1. CASE LoadConfig
  BY <1>1 DEF LoadConfig, Exit
<1>2. CASE New
  BY <1>2 DEF New, Setup, ConnectDB, ConnectRedis, Acquire, Exit
<1>3. CASE Return
  BY <1>3 DEF Return, Exit
<1>4. CASE Signal
  BY <1>4 DEF Signal, Exit
<1>5. CASE Start \/ NotifyContext \/ Select \/ Shutdown \/ Drain \/ Deadline
  BY <1>5 DEF Start, NotifyContext, Select, Shutdown, Drain, Deadline
<1>6. CASE Close
  BY <1>6 DEF Close, CloseRedis, CloseDB, otelShutdown, Release
<1>7. CASE Listen \/ Serve
  BY <1>7 DEF Listen, Serve
<1>8. ASSUME NEW c \in Connections, Accept(c) \/ Begin(c) \/ End(c) \/ Disconnect(c)
      PROVE  HonestExit'
  BY <1>8 DEF Accept, Begin, End, Disconnect
<1>9. CASE Ended \/ UNCHANGED vars
  BY <1>9 DEF Ended, vars
<1>10. QED
  BY <1>1, <1>2, <1>3, <1>4, <1>5, <1>6, <1>7, <1>8, <1>9 DEF Next, Main

LEMMA Invariant == Spec => []IInv
<1>1. IInv /\ [Next]_vars => IInv'
  BY TypeNext, HeldNext, ConnectionNext, ExitNext DEF IInv
<1>2. QED
  BY InvInit, <1>1, PTL DEF Spec

(* The resources are a stack, and every variable has its type.             *)
THEOREM TypeCorrect == Spec => []TypeOK
<1>1. IInv => TypeOK
  BY DEF IInv
<1>2. QED
  BY Invariant, <1>1, PTL

(* The database is closed under a request only after the deadline.         *)
THEOREM DatabaseOutlivesRequests == Spec => []RequestsHaveDatabase
<1>1. IInv => RequestsHaveDatabase
  BY DEF IInv, TypeOK, HeldInv, Held, ConnectionInv, RequestsHaveDatabase, Starting, Closing,
         Resources, running
<1>2. QED
  BY Invariant, <1>1, PTL

(* The exit code is honest.                                                *)
THEOREM ExitIsHonest == Spec => []HonestExit
<1>1. IInv => HonestExit
  BY DEF IInv
<1>2. QED
  BY Invariant, <1>1, PTL
=============================================================================
