-------------------------- MODULE AccessTokenProofs --------------------------
(***************************************************************************)
(* The life of access tokens for any TTLs and any fineness of the clock.   *)
(***************************************************************************)
EXTENDS AccessToken, TLAPS

(* Cutting times to seconds keeps their order, and keeps two times that    *)
(* are a second apart in different seconds.                                *)
LEMMA SecondMonotone ==
  ASSUME NEW a \in Nat, NEW b \in Nat, a <= b
  PROVE  Second(a) \in Nat /\ Second(b) \in Nat /\ Second(a) <= Second(b)
BY AccessTokenAssumption DEF Second

LEMMA SecondOfLater ==
  ASSUME NEW a \in Nat, NEW b \in Nat, a + PerSecond <= b
  PROVE  Second(a) < Second(b)
BY AccessTokenAssumption DEF Second

LEMMA SecondBound ==
  ASSUME NEW a \in Nat
  PROVE  PerSecond * Second(a) \in Nat /\ PerSecond * Second(a) <= a
BY AccessTokenAssumption DEF Second

Cut(t) == t.exp = Second(t.expiresAt)

(* What a client was told ends with the token or has ended already.        *)
Told(t) == t.told <= t.expiresAt \/ t.told <= now

TokenInv ==
  \A c \in Clients :
    /\ making[c] # NoToken => Cut(making[c])
    /\ token[c] # NoToken => Cut(token[c]) /\ Told(token[c])

IInv == TypeOK /\ TokenInv
-----------------------------------------------------------------------------
LEMMA InvInit == Init => IInv
BY AccessTokenAssumption DEF Init, IInv, TypeOK, TokenInv, Held, NoToken

(* The token that CreateAccessToken makes.                                 *)
LEMMA Created ==
  ASSUME TypeOK, NEW c \in Clients, CreateAccessToken(c)
  PROVE  /\ making' \in [Clients -> Token \cup {NoToken}]
         /\ making'[c] # NoToken => Cut(making'[c])
<1>1. now \in Nat /\ ttl \in Nat /\ key \in Keys
  BY AccessTokenAssumption DEF TypeOK
<1>2. now + ttl \in Nat /\ Second(now + ttl) \in Nat
  BY <1>1, SecondMonotone
<1> DEFINE t == [signed |-> key, exp |-> Second(now + ttl),
                 expiresAt |-> now + ttl, told |-> now]
<1>3. t \in Token /\ Cut(t)
  BY <1>1, <1>2 DEF Token, Cut
<1>4. making' = [making EXCEPT ![c] = t]
  BY DEF CreateAccessToken
<1>5. QED
  BY <1>3, <1>4 DEF TypeOK

(* The token that tokenResponse hands to the client.                       *)
LEMMA Answered ==
  ASSUME IInv, NEW c \in Clients, tokenResponse(c)
  PROVE  /\ token' \in [Clients -> Token \cup {NoToken}]
         /\ token'[c] \in Token /\ Cut(token'[c]) /\ Told(token'[c])
<1> DEFINE t == making[c]
           told == now + PerSecond * ExpiresIn(t)
<1>1. t \in Token /\ Cut(t) /\ t.expiresAt \in Nat /\ now \in Nat
  BY AccessTokenAssumption DEF IInv, TypeOK, TokenInv, tokenResponse, Token
<1>2. told \in Nat /\ (told <= t.expiresAt \/ told <= now)
  <2>1. CASE t.expiresAt < now
    BY <1>1, <2>1, AccessTokenAssumption DEF ExpiresIn
  <2>2. CASE ~ t.expiresAt < now
    <3>1. t.expiresAt - now \in Nat
      BY <1>1, <2>2
    <3>2. /\ PerSecond * Second(t.expiresAt - now) \in Nat
          /\ PerSecond * Second(t.expiresAt - now) <= t.expiresAt - now
      BY <3>1, SecondBound
    <3>3. ExpiresIn(t) = Second(t.expiresAt - now)
      BY <2>2 DEF ExpiresIn
    <3>4. QED
      BY <1>1, <3>2, <3>3
  <2>3. QED
    BY <2>1, <2>2
<1>3. [t EXCEPT !.told = told] \in Token
  BY <1>1, <1>2 DEF Token
<1>4. token' = [token EXCEPT ![c] = [t EXCEPT !.told = told]]
  BY DEF tokenResponse
<1>5. token'[c] = [t EXCEPT !.told = told]
  BY <1>4 DEF IInv, TypeOK
<1>6. Cut(token'[c]) /\ Told(token'[c])
  BY <1>1, <1>2, <1>5 DEF Cut, Told, Token
<1>7. QED
  BY <1>3, <1>4, <1>5, <1>6 DEF IInv, TypeOK

LEMMA InvNext == IInv /\ [Next]_vars => IInv'
<1> SUFFICES ASSUME IInv, [Next]_vars PROVE IInv'
  OBVIOUS
<1>0. now \in 0..MaxTime /\ MaxTime \in Nat
  BY AccessTokenAssumption DEF IInv, TypeOK
<1>1. ASSUME NEW c \in Clients, CreateAccessToken(c) PROVE IInv'
  <2>1. UNCHANGED <<now, key, ttl, token>> /\ \A d \in Clients \ {c} : making'[d] = making[d]
    BY <1>1 DEF CreateAccessToken, IInv, TypeOK
  <2>2. TypeOK'
    BY <1>1, <2>1, Created DEF IInv, TypeOK, Held, Second
  <2>3. TokenInv'
    BY <1>1, <2>1, Created DEF IInv, TokenInv, Cut, Told, Second
  <2>4. QED
    BY <2>2, <2>3 DEF IInv
<1>2. ASSUME NEW c \in Clients, tokenResponse(c) PROVE IInv'
  <2>1. /\ UNCHANGED <<now, key, ttl>>
        /\ making' = [making EXCEPT ![c] = NoToken]
        /\ \A d \in Clients \ {c} : token'[d] = token[d]
    BY <1>2 DEF tokenResponse, IInv, TypeOK
  <2>2. TokenInv'
    BY <1>2, <2>1, Answered DEF IInv, TypeOK, TokenInv, Cut, Told, Second
  <2>3. TypeOK'
    BY <1>2, <2>1, <2>2, Answered DEF IInv, TypeOK, TokenInv, Held, Cut, Second
  <2>4. QED
    BY <2>2, <2>3 DEF IInv
<1>3. ASSUME NEW k \in Keys, NEW l \in TTLs, Restart(k, l) PROVE IInv'
  BY <1>3 DEF Restart, IInv, TypeOK, TokenInv, Held, Cut, Told, Second
<1>4. CASE Tick
  <2>1. now' \in 0..MaxTime /\ now <= now' /\ UNCHANGED <<key, ttl, making, token>>
    BY <1>0, <1>4 DEF Tick
  <2>2. TypeOK'
    BY <2>1 DEF IInv, TypeOK, Held, Second
  <2>3. ASSUME NEW c \in Clients, token[c] # NoToken PROVE Told(token[c])'
    <3>1. token[c].told \in Nat /\ Told(token[c])
      BY <2>3 DEF IInv, TypeOK, TokenInv, Token
    <3>2. QED
      BY <1>0, <2>1, <3>1 DEF Told
  <2>4. TokenInv'
    BY <2>1, <2>3 DEF IInv, TokenInv, Cut, Second
  <2>5. QED
    BY <2>2, <2>4 DEF IInv
<1>5. CASE UNCHANGED vars
  BY <1>5 DEF vars, IInv, TypeOK, TokenInv, Held, Cut, Told, Second
<1>6. QED
  BY <1>1, <1>2, <1>3, <1>4, <1>5 DEF Next

LEMMA Invariant == Spec => []IInv
BY InvInit, InvNext, PTL DEF Spec

LEMMA HeldToken ==
  ASSUME IInv, NEW t \in Held
  PROVE  /\ now \in Nat
         /\ t.exp \in Nat /\ t.expiresAt \in Nat /\ t.told \in Nat
         /\ Cut(t) /\ Told(t)
BY AccessTokenAssumption DEF IInv, TypeOK, TokenInv, Held, Token

(* No token is accepted past its lifetime.                                 *)
THEOREM NoneOutlives == Spec => []DeadAfterExpiry
<1>1. IInv => DeadAfterExpiry
  <2> SUFFICES ASSUME IInv, NEW t \in Held, verifyAccessToken(t)
               PROVE  now < t.expiresAt
    BY DEF DeadAfterExpiry
  <2>1. Second(now) < Second(t.expiresAt)
    BY HeldToken DEF verifyAccessToken, Cut
  <2>2. CASE t.expiresAt <= now
    BY <2>1, <2>2, HeldToken, SecondMonotone
  <2>3. QED
    BY <2>2, HeldToken
<1>2. QED
  BY Invariant, <1>1, PTL

(* A token is accepted until the last second its client was told of.       *)
THEOREM RelyOnExpiresIn == Spec => []LivesAsTold
<1>1. IInv => LivesAsTold
  <2> SUFFICES ASSUME IInv, NEW t \in Held, t.signed = key, now + PerSecond <= t.told
               PROVE  verifyAccessToken(t)
    BY DEF LivesAsTold
  <2>1. now + PerSecond <= t.expiresAt
    BY HeldToken, AccessTokenAssumption DEF Told
  <2>2. Second(now) < Second(t.expiresAt)
    BY <2>1, HeldToken, SecondOfLater
  <2>3. QED
    BY <2>2, HeldToken DEF verifyAccessToken, Cut
<1>2. QED
  BY Invariant, <1>1, PTL
=============================================================================
