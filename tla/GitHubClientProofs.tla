------------------------- MODULE GitHubClientProofs -------------------------
(***************************************************************************)
(* Proofs about GitHubClient, for clocks, lives and margins of any length  *)
(* that ClientAssumption allows.  The argument is arithmetic: what a       *)
(* credential's times were when it was stored, how old a look at the clock *)
(* can be, and what the margin leaves of both.                             *)
(***************************************************************************)
EXTENDS GitHubClient, TLAPS

LEMMA Constants ==
  /\ JwtLife \in Nat /\ JwtLimit \in Nat /\ Backdate \in Nat /\ Hour \in Nat /\ Margin \in Nat
  /\ MaxDrift \in Nat /\ Latency \in Nat /\ MaxRequests \in Nat /\ MaxTime \in Nat
  /\ MaxDrift <= Backdate /\ MaxDrift + Latency < JwtLife
  /\ 2 * MaxDrift + Latency <= Margin /\ Margin + Latency < Hour
BY ClientAssumption

\* The end of a stored token is known up to the drift and the length of the exchange.
TokenKnown ==
  token # NoToken =>
    /\ token.expires_at <= token.ends + MaxDrift
    /\ token.ends <= token.expires_at + MaxDrift + Latency

OnItsWay == pc \in {"exchange", "send"} => looked <= now /\ now <= looked + Latency

\* What holds of an exchange on its way, and of a request.
ExchangeInv ==
  pc = "exchange" =>
    /\ looked - MaxDrift <= started /\ started <= looked + MaxDrift
    /\ generated => jwt = [issued |-> started - Backdate, expires |-> started + JwtLife]
SendInv == pc = "send" => looked + Latency < token.ends

Inv == TypeOK /\ TokenKnown /\ OnItsWay /\ ExchangeInv /\ SendInv /\ NoEarlyExchange

\* An operation that ends, or goes on to its next request, leaves the clocks and the
\* credentials alone, and nothing on its way.
LEMMA Ending ==
  ASSUME Inv, UNCHANGED <<clock, looked, credentials>>,
         Answered \/ (\E e \in PyException \cup {"HttpTimeout"} : Raised(e))
  PROVE  Inv'
<1> USE Constants
<1>1. /\ pc' \in {"idle", "check"} /\ operation' = operation
      /\ requests' \in 0 .. MaxRequests /\ result' \in Result
  BY DEF Answered, Raised, EndCall, NextRequest, Inv, TypeOK, Result
<1>2. TypeOK'
  BY <1>1 DEF Inv, TypeOK, clock, credentials
<1>3. TokenKnown'
  BY DEF Inv, TokenKnown, credentials
<1>4. OnItsWay' /\ ExchangeInv' /\ SendInv' /\ NoEarlyExchange'
  BY <1>1 DEF OnItsWay, ExchangeInv, SendInv, NoEarlyExchange
<1>5. QED
  BY <1>2, <1>3, <1>4 DEF Inv

LEMMA InitInv == Init => Inv
<1> SUFFICES ASSUME Init PROVE Inv
  OBVIOUS
<1>1. now \in Nat /\ looked \in Nat /\ started \in Int /\ requests \in 0 .. MaxRequests
  BY Constants DEF Init
<1>2. generated \in BOOLEAN /\ revoked \in BOOLEAN
  BY DEF Init
<1>3. jwt \in [issued : Int, expires : Int] /\ token \in [ends : Int, expires_at : Int]
  BY DEF Init, NoJwt, NoToken
<1>4. /\ pc \in {"idle", "check", "exchange", "send"} /\ operation \in Operation \cup {"none"}
      /\ result \in Result
  BY DEF Init, Result
<1>5. TypeOK
  BY <1>1, <1>2, <1>3, <1>4 DEF Init, TypeOK
<1>6. TokenKnown /\ OnItsWay /\ ExchangeInv /\ SendInv /\ NoEarlyExchange
  BY DEF Init, TokenKnown, OnItsWay, ExchangeInv, SendInv, NoEarlyExchange
<1>7. QED
  BY <1>5, <1>6 DEF Inv

LEMMA UseTokenInv == ASSUME Inv, UseToken PROVE Inv'
<1> USE Constants DEF Inv
<1>1. TypeOK'
  BY DEF UseToken, TypeOK, clock, credentials
<1>2. TokenKnown' /\ OnItsWay' /\ ExchangeInv' /\ NoEarlyExchange'
  BY DEF UseToken, TypeOK, TokenKnown, OnItsWay, ExchangeInv, NoEarlyExchange, clock, credentials
<1>3. SendInv'
  BY DEF UseToken, Usable, time, TypeOK, TokenKnown, SendInv, clock, credentials
<1>4. QED
  BY <1>1, <1>2, <1>3

LEMMA PrepareInv == ASSUME Inv, PrepareExchange PROVE Inv'
<1> USE Constants DEF Inv
<1>1. TypeOK'
  <2>1. time \in Int
    BY DEF TypeOK, time
  <2>2. jwt' \in [issued : Int, expires : Int]
    BY <2>1 DEF PrepareExchange, GetJwt, TypeOK
  <2>3. generated' \in BOOLEAN
    BY DEF PrepareExchange, GetJwt
  <2>4. QED
    BY <2>1, <2>2, <2>3 DEF PrepareExchange, TypeOK, clock
<1>2. TokenKnown' /\ OnItsWay' /\ SendInv'
  BY DEF PrepareExchange, TypeOK, TokenKnown, OnItsWay, SendInv, clock
<1>3. ExchangeInv'
  BY DEF PrepareExchange, GetJwt, time, TypeOK, ExchangeInv, clock
<1>4. NoEarlyExchange'
  BY DEF PrepareExchange, Usable, time, TypeOK, TokenKnown, NoEarlyExchange, clock
<1>5. QED
  BY <1>1, <1>2, <1>3, <1>4

LEMMA ExchangedInv == ASSUME Inv, Exchanged PROVE Inv'
<1> USE Constants DEF Inv
<1>1. PICK x \in {now + Hour, started + Hour} : token' = [ends |-> now + Hour, expires_at |-> x]
  BY DEF Exchanged
<1>2. TypeOK'
  <2>1. token' \in [ends : Int, expires_at : Int]
    BY <1>1 DEF TypeOK
  <2>2. revoked' \in BOOLEAN
    BY DEF Exchanged
  <2>3. QED
    BY <2>1, <2>2 DEF Exchanged, TypeOK, clock
<1>3. TokenKnown'
  BY <1>1 DEF Exchanged, TypeOK, TokenKnown, OnItsWay, ExchangeInv, clock
<1>4. OnItsWay' /\ ExchangeInv' /\ NoEarlyExchange'
  BY DEF Exchanged, TypeOK, OnItsWay, ExchangeInv, NoEarlyExchange, clock
<1>5. SendInv'
  BY <1>1 DEF Exchanged, TypeOK, SendInv
<1>6. QED
  BY <1>2, <1>3, <1>4, <1>5

LEMMA WorldInv == ASSUME Inv, Tick \/ Adjust \/ Revoke \/ Clear PROVE Inv'
<1> USE Constants DEF Inv
<1>1. CASE Tick
  BY <1>1 DEF Tick, TypeOK, TokenKnown, OnItsWay, ExchangeInv, SendInv, NoEarlyExchange, call,
     credentials
<1>2. CASE Adjust
  <2>1. TypeOK'
    BY <1>2 DEF Adjust, TypeOK, call, credentials
  <2>2. TokenKnown' /\ OnItsWay' /\ ExchangeInv' /\ SendInv' /\ NoEarlyExchange'
    BY <1>2 DEF Adjust, TokenKnown, OnItsWay, ExchangeInv, SendInv, NoEarlyExchange, call,
       credentials
  <2>3. QED
    BY <2>1, <2>2
<1>3. CASE Revoke
  BY <1>3 DEF Revoke, TypeOK, TokenKnown, OnItsWay, ExchangeInv, SendInv, NoEarlyExchange, clock,
     call
<1>4. CASE Clear
  <2>1. jwt' \in [issued : Int, expires : Int] /\ token' \in [ends : Int, expires_at : Int]
    BY <1>4 DEF Clear, NoJwt, NoToken
  <2>2. revoked' \in BOOLEAN
    BY <1>4 DEF Clear
  <2>3. TypeOK'
    BY <1>4, <2>1, <2>2 DEF Clear, TypeOK, clock, call
  <2>4. TokenKnown' /\ OnItsWay' /\ ExchangeInv' /\ SendInv' /\ NoEarlyExchange'
    BY <1>4 DEF Clear, TokenKnown, OnItsWay, ExchangeInv, SendInv, NoEarlyExchange, clock, call
  <2>5. QED
    BY <2>3, <2>4
<1>5. QED
  BY <1>1, <1>2, <1>3, <1>4

LEMMA StepInv == Inv /\ [Next]_vars => Inv'
<1> SUFFICES ASSUME Inv, [Next]_vars PROVE Inv'
  OBVIOUS
<1>1. ASSUME NEW op \in Operation, Begin(op) PROVE Inv'
  BY <1>1, Constants DEF Begin, Inv, TypeOK, Result, TokenKnown, OnItsWay, ExchangeInv, SendInv,
     NoEarlyExchange, clock, credentials
<1>2. CASE UseToken
  BY <1>2, UseTokenInv
<1>3. CASE PrepareExchange
  BY <1>3, PrepareInv
<1>4. CASE NoPrivateKey \/ ExchangeFails \/ Unauthorized \/ RequestFails
  <2>1. UNCHANGED <<clock, looked, credentials>>
    BY <1>4 DEF NoPrivateKey, ExchangeFails, Unauthorized, RequestFails
  <2>2. \E e \in PyException \cup {"HttpTimeout"} : Raised(e)
    BY <1>4 DEF NoPrivateKey, ExchangeFails, Unauthorized, RequestFails, PyException, OSErrors,
       ForeignErrors
  <2>3. QED
    BY <2>1, <2>2, Ending
<1>5. CASE Exchanged
  BY <1>5, ExchangedInv
<1>6. CASE Accepted
  BY <1>6, Ending DEF Accepted
<1>7. CASE Tick \/ Adjust \/ Revoke \/ Clear
  BY <1>7, WorldInv
<1>8. CASE UNCHANGED vars
  BY <1>8 DEF vars, Inv, TypeOK, TokenKnown, OnItsWay, ExchangeInv, SendInv, NoEarlyExchange,
     clock, call, credentials
<1>9. QED
  BY <1>1, <1>2, <1>3, <1>4, <1>5, <1>6, <1>7, <1>8 DEF Next, Client

\* The invariant holds in every reachable state.
THEOREM Invariance == Spec => []Inv
<1>1. Init => Inv
  BY InitInv
<1>2. Inv /\ [Next]_vars => Inv'
  BY StepInv
<1>3. QED
  BY <1>1, <1>2, PTL DEF Spec

\* Every variable keeps its type.
THEOREM TypeCorrect == Spec => []TypeOK
<1>1. Inv => TypeOK
  BY DEF Inv
<1>2. QED
  BY <1>1, Invariance, PTL

\* No request carries a token that ends before GitHub reads it: twice the drift and the
\* way of the request fit into the margin (token_manager.py:78-101).
THEOREM TokensArriveAlive == Spec => []TokenArrivesAlive
<1>1. Inv => TokenArrivesAlive
  BY Constants DEF Inv, TypeOK, OnItsWay, SendInv, TokenArrivesAlive
<1>2. QED
  BY <1>1, Invariance, PTL

\* A JWT made for an exchange is neither issued in GitHub's future nor over when it arrives,
\* whatever the clocks are and do; it is refused if and only if the host's reading plus its
\* life lies beyond GitHub's limit (token_manager.py:45-65).
THEOREM FreshJwtsAreHonoured == Spec => []FreshJwtIsHonoured
<1>1. Inv => FreshJwtIsHonoured
  BY Constants DEF Inv, TypeOK, OnItsWay, ExchangeInv, FreshJwtIsHonoured, JwtHonoured
<1>2. QED
  BY <1>1, Invariance, PTL

\* A token is exchanged only when it has at most the margin, the drift and one exchange
\* left (token_manager.py:78-101).
THEOREM ExchangesAreDue == Spec => []NoEarlyExchange
<1>1. Inv => NoEarlyExchange
  BY DEF Inv
<1>2. QED
  BY <1>1, Invariance, PTL
=============================================================================
