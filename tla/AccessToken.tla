---------------------------- MODULE AccessToken ----------------------------
(***************************************************************************)
(* The life of a user's access token: CreateAccessToken, tokenResponse and *)
(* verifyAccessToken (auth_service.go).  The clock counts ticks, PerSecond *)
(* of them in a second; a token carries the whole second in which it       *)
(* expires, and its client is told a whole number of seconds, counted from *)
(* a later reading of the clock.  The server may be restarted with another *)
(* TTL or key; it keeps nothing of the tokens it has made.                 *)
(***************************************************************************)
EXTENDS Naturals

CONSTANTS
  Clients,    \* each holds the last token it was answered with
  Keys,       \* the values APP_KEY may have
  TTLs,       \* the values AUTH_ACCESS_TOKEN_TTL may have, in ticks
  PerSecond,
  MaxTime     \* bound on the clock

ASSUME AccessTokenAssumption ==
  /\ PerSecond \in Nat \ {0}
  /\ TTLs \subseteq Nat
  /\ MaxTime \in Nat

VARIABLES
  now,
  key, ttl,  \* the configuration of the running server
  making,    \* making[c]: the token that c's sign-in has made, not answered yet
  token      \* token[c]: the token c holds

vars == <<now, key, ttl, making, token>>

(* exp is the claim.  Not in the token: expiresAt, the time it is cut      *)
(* from, and told, the time up to which c was told it lives.               *)
Token == [signed : Keys, exp : Nat, expiresAt : Nat, told : Nat]

NoToken == [exp |-> 0]

Second(t) == t \div PerSecond
-----------------------------------------------------------------------------
(* Mutant: the expiry is rounded up.                                       *)
CreateRoundedUp(c) ==
  /\ making[c] = NoToken
  /\ making' = [making EXCEPT ![c] = [signed |-> key, exp |-> Second(now + ttl) + 1,
                                      expiresAt |-> now + ttl, told |-> now]]
  /\ UNCHANGED <<now, key, ttl, token>>

CreateAccessToken(c) ==
  /\ making[c] = NoToken
  /\ making' = [making EXCEPT ![c] = [signed |-> key, exp |-> Second(now + ttl),
                                      expiresAt |-> now + ttl, told |-> now]]
  /\ UNCHANGED <<now, key, ttl, token>>

(* Mutant: expires_in is the TTL, whenever the answer is made.             *)
ConfiguredExpiresIn(t) == Second(ttl)

(* expires_in: what is left until expiresAt, cut to whole seconds; a rest  *)
(* below zero counts as none.                                              *)
ExpiresIn(t) == IF t.expiresAt < now THEN 0 ELSE Second(t.expiresAt - now)

tokenResponse(c) ==
  /\ making[c] # NoToken
  /\ token' = [token EXCEPT ![c] =
                 [making[c] EXCEPT !.told = now + PerSecond * ExpiresIn(making[c])]]
  /\ making' = [making EXCEPT ![c] = NoToken]
  /\ UNCHANGED <<now, key, ttl>>

(* Mutant: a token lives through the second it expires in.                 *)
verifyThroughLastSecond(t) == t.signed = key /\ Second(now) <= t.exp

verifyAccessToken(t) == t.signed = key /\ Second(now) < t.exp

(* The sign-ins under way are lost; clients keep what they hold.           *)
Restart(k, l) ==
  /\ key' = k
  /\ ttl' = l
  /\ making' = [c \in Clients |-> NoToken]
  /\ UNCHANGED <<now, token>>

Tick ==
  /\ now < MaxTime
  /\ now' = now + 1
  /\ UNCHANGED <<key, ttl, making, token>>
-----------------------------------------------------------------------------
Init ==
  /\ now = 0
  /\ key \in Keys
  /\ ttl \in TTLs
  /\ making = [c \in Clients |-> NoToken]
  /\ token = [c \in Clients |-> NoToken]

Next ==
  \/ \E c \in Clients : CreateAccessToken(c) \/ tokenResponse(c)
  \/ \E k \in Keys, l \in TTLs : Restart(k, l)
  \/ Tick

Spec == Init /\ [][Next]_vars
-----------------------------------------------------------------------------
Held == {token[c] : c \in Clients} \ {NoToken}

(* The type of every variable, and that a token carries the second it      *)
(* expires in.                                                             *)
TypeOK ==
  /\ now \in 0..MaxTime
  /\ key \in Keys /\ ttl \in TTLs
  /\ making \in [Clients -> Token \cup {NoToken}]
  /\ token \in [Clients -> Token \cup {NoToken}]
  /\ \A t \in Held : t.exp = Second(t.expiresAt)

(* No token is accepted past the lifetime that was configured when it was  *)
(* made, whatever TTL the server has now.                                  *)
DeadAfterExpiry ==
  \A t \in Held : verifyAccessToken(t) => now < t.expiresAt

(* A client can rely on expires_in up to a second: while it was told that  *)
(* its token lives for another second, the token is accepted, although the *)
(* expiry and expires_in are cut to seconds at different times; restarts   *)
(* change nothing in this unless they change the key.                      *)
LivesAsTold ==
  \A t \in Held : t.signed = key /\ now + PerSecond <= t.told => verifyAccessToken(t)
=============================================================================
