---------------------------- MODULE GitHubClient ----------------------------
(***************************************************************************)
(* workers/github_client.py and the two parts below it: TokenManager,      *)
(* which keeps the app's JWT and an installation's access token, and       *)
(* HTTPTransport, which sends a request through the breaker.  A task has a *)
(* client of its own and makes one request after the other; what runs      *)
(* beside it is time, on two clocks.  GitHub decides by its own clock      *)
(* whether a credential is valid, and the client by the clock of its host, *)
(* which runs ahead or behind and is corrected now and then.               *)
(*                                                                         *)
(* Time is GitHub's, in ticks.  Between the moment the client looks at its *)
(* clock and the moment GitHub reads what it sends, up to Latency passes;  *)
(* nothing in the code bounds it but httpx's timeouts.                     *)
(***************************************************************************)
EXTENDS Integers, PyExceptions

CONSTANTS
  JwtLife,              \* 600 seconds in generate_jwt
  JwtLimit,             \* GitHub's: how far ahead of its clock a JWT may end, 600 seconds
  Backdate,             \* 60 seconds in generate_jwt: how far iat is set back
  Hour,                 \* life of an installation token, and 3600 in the code
  Margin,               \* 60 seconds in get_installation_token
  MaxDrift,             \* how far the host's clock may be off
  Latency,              \* from a look at the clock until GitHub has the request
  MaxRequests,          \* bound: requests of one operation
  MaxTime               \* bound: the end of time

ASSUME ClientAssumption ==
  /\ {JwtLife, JwtLimit, Backdate, Hour, Margin, MaxDrift, Latency, MaxRequests, MaxTime} \subseteq Nat
  /\ MaxDrift <= Backdate
  /\ MaxDrift + Latency < JwtLife
  /\ 2 * MaxDrift + Latency <= Margin
  /\ Margin + Latency < Hour

Operation == {"get_diff", "get_file_content", "get_repo_context", "post_review",
              "get_comment_reactions"}

VARIABLES
  now,                  \* GitHub's clock
  drift,                \* how far the host's clock is ahead of it
  pc,                   \* where the client is in _request
  operation,            \* the method called, or "none"
  requests,             \* requests it has made
  result,               \* what it came to
  looked,               \* GitHub's time when the client last looked at its clock
  jwt,                  \* _app_jwt: when it was issued and expires, on the host's clock
  generated,            \* history: whether this request has generated it
  token,                \* the installation's entry: its end at GitHub, and as believed
  revoked,              \* history: whether GitHub has withdrawn the token
  started               \* now, in get_installation_token

clock == <<now, drift>>
call == <<pc, operation, requests, result>>
credentials == <<jwt, generated, token, revoked, started>>
vars == <<clock, call, looked, credentials>>

NoJwt == [issued |-> 0, expires |-> 0]
NoToken == [ends |-> 0, expires_at |-> 0]
Result == {"none", "returned", "empty", "raised"}

TypeOK ==
  /\ now \in Nat /\ drift \in -MaxDrift .. MaxDrift
  /\ pc \in {"idle", "check", "exchange", "send"}
  /\ operation \in Operation \cup {"none"}
  /\ requests \in 0 .. MaxRequests
  /\ result \in Result
  /\ looked \in Nat
  /\ jwt \in [issued : Int, expires : Int]
  /\ generated \in BOOLEAN
  /\ token \in [ends : Int, expires_at : Int]
  /\ revoked \in BOOLEAN
  /\ started \in Int

\* Both clocks are far past any credential of before.
Init ==
  /\ now = Hour /\ drift \in -MaxDrift .. MaxDrift
  /\ pc = "idle" /\ operation = "none" /\ requests = 0 /\ result = "none"
  /\ looked = Hour
  /\ jwt = NoJwt /\ generated = FALSE
  /\ token = NoToken /\ revoked = FALSE /\ started = 0

time == now + drift                     \* time.time()

-----------------------------------------------------------------------------
(* An operation, and how what a request raises comes out of it.             *)

Begin(op) ==
  /\ pc = "idle" /\ MaxRequests > 0
  /\ pc' = "check" /\ operation' = op /\ requests' = 1 /\ result' = "none"
  /\ UNCHANGED <<clock, looked, credentials>>

\* get_file_content and get_comment_reactions take some errors for "there is nothing";
\* in get_repo_context the first request is for the repository, the others for files.
Swallowed ==
  IF operation = "get_file_content" \/ (operation = "get_repo_context" /\ requests > 1)
  THEN {"HTTPStatusError", "KeyError", "ValueError"}
  ELSE IF operation = "get_repo_context" THEN {"HTTPStatusError"}
  ELSE IF operation = "get_comment_reactions" THEN {"HTTPStatusError", "HttpTimeout"}
  ELSE {}

EndCall(how) == pc' = "idle" /\ result' = how /\ UNCHANGED <<operation, requests>>

\* The context goes on to its next file, CONTRIBUTING.md first; up to MaxRequests.
NextRequest ==
  /\ operation = "get_repo_context" /\ requests < MaxRequests
  /\ pc' = "check" /\ requests' = requests + 1
  /\ UNCHANGED <<operation, result>>

Answered == EndCall("returned") \/ NextRequest
Raised(e) ==
  IF Caught(e, Swallowed) THEN EndCall("empty") \/ NextRequest ELSE EndCall("raised")

-----------------------------------------------------------------------------
(* TokenManager.                                                            *)

\* Mutant of Usable: a token is used until it ends.
Usable_NoMargin == token # NoToken /\ time < token.expires_at

Usable == token # NoToken /\ time < token.expires_at - Margin

UseToken ==
  /\ pc = "check" /\ Usable
  /\ pc' = "send" /\ looked' = now
  /\ UNCHANGED <<clock, operation, requests, result, credentials>>

\* Mutant of GetJwt: it ends a tick later.
GetJwt_Longer ==
  IF jwt = NoJwt \/ time >= jwt.expires
  THEN /\ jwt' = [issued |-> time - Backdate, expires |-> time + JwtLife + 1]
       /\ generated' = TRUE
  ELSE UNCHANGED jwt /\ generated' = FALSE

\* get_jwt: one that has not expired is used again, to its last second.
GetJwt ==
  IF jwt = NoJwt \/ time >= jwt.expires
  THEN jwt' = [issued |-> time - Backdate, expires |-> time + JwtLife] /\ generated' = TRUE
  ELSE UNCHANGED jwt /\ generated' = FALSE

PrepareExchange ==
  /\ pc = "check" /\ ~Usable
  /\ pc' = "exchange" /\ looked' = now /\ started' = time
  /\ GetJwt
  /\ UNCHANGED <<clock, operation, requests, result, token, revoked>>

\* The private key is not configured, or its file cannot be read.
NoPrivateKey ==
  /\ pc = "check" /\ ~Usable
  /\ \E e \in {"ValueError", "OSError"} : Raised(e)
  /\ UNCHANGED <<clock, looked, credentials>>

\* What GitHub demands of a JWT: that it is neither from the future nor over, nor ends too
\* far ahead.
JwtHonoured == jwt.issued <= now /\ now < jwt.expires /\ jwt.expires <= now + JwtLimit

\* Mutant of Exchanged: without an expiry the token is only good for this request.
Exchanged_NotKept ==
  /\ pc = "exchange" /\ JwtHonoured
  /\ \E expires_at \in {now + Hour, started} :
       token' = [ends |-> now + Hour, expires_at |-> expires_at]
  /\ revoked' = FALSE
  /\ pc' = "send" /\ looked' = now
  /\ UNCHANGED <<clock, operation, requests, result, jwt, generated, started>>

\* The answer tells when the token ends; where that cannot be read, an hour after the
\* client began is assumed.
Exchanged ==
  /\ pc = "exchange" /\ JwtHonoured
  /\ \E expires_at \in {now + Hour, started + Hour} :
       token' = [ends |-> now + Hour, expires_at |-> expires_at]
  /\ revoked' = FALSE
  /\ pc' = "send" /\ looked' = now
  /\ UNCHANGED <<clock, operation, requests, result, jwt, generated, started>>

\* The exchange is outside of the breaker and its status is not looked at: an error's
\* body has no "token", or is no JSON.  GitHub refuses a JWT that is not valid, an app
\* that is not installed, or has a bad hour.  The old entry stays.
ExchangeFails ==
  /\ pc = "exchange"
  /\ \E e \in {"KeyError", "ValueError", "TransportError", "HttpTimeout"} : Raised(e)
  /\ UNCHANGED <<clock, looked, credentials>>

-----------------------------------------------------------------------------
(* HTTPTransport.request.                                                   *)

\* GitHub has the request and takes the token.
Accepted ==
  /\ pc = "send" /\ now < token.ends /\ ~revoked
  /\ Answered
  /\ UNCHANGED <<clock, looked, credentials>>

\* 401: the token is no good any more.  It stays in the cache.
Unauthorized ==
  /\ pc = "send" /\ (revoked \/ now >= token.ends)
  /\ Raised("HTTPStatusError")
  /\ UNCHANGED <<clock, looked, credentials>>

\* Another error status, an answer that is no JSON, an open circuit (ConnectionError), no
\* connection or no answer in time.
RequestFails ==
  /\ pc = "send"
  /\ \E e \in {"HTTPStatusError", "ValueError", "ConnectionError", "TransportError",
               "HttpTimeout"} : Raised(e)
  /\ UNCHANGED <<clock, looked, credentials>>

-----------------------------------------------------------------------------
\* Time passes; what has been looked at is not on its way for longer than Latency.
Tick ==
  /\ now < MaxTime /\ now' = now + 1
  /\ pc \in {"exchange", "send"} => now < looked + Latency
  /\ UNCHANGED <<drift, call, looked, credentials>>

\* The host's clock is corrected, or drifts.
Adjust ==
  /\ drift' \in -MaxDrift .. MaxDrift
  /\ UNCHANGED <<now, call, looked, credentials>>

\* The installation is suspended or removed, or its permissions change.
Revoke ==
  /\ token # NoToken /\ revoked' = TRUE
  /\ UNCHANGED <<clock, call, looked, jwt, generated, token, started>>

\* clear_cache()
Clear ==
  /\ pc = "idle"
  /\ jwt' = NoJwt /\ token' = NoToken /\ revoked' = FALSE
  /\ UNCHANGED <<clock, call, looked, generated, started>>

Client ==
  \/ \E op \in Operation : Begin(op)
  \/ UseToken \/ PrepareExchange \/ NoPrivateKey \/ Exchanged \/ ExchangeFails
  \/ Accepted \/ Unauthorized \/ RequestFails \/ Clear

Next == Client \/ Tick \/ Adjust \/ Revoke

Spec == Init /\ [][Next]_vars

-----------------------------------------------------------------------------
(* Properties.                                                              *)

\* A token that was good enough to be used has not ended when GitHub reads it, though the
\* clock was off, was corrected meanwhile and the request took its time; so only a token
\* GitHub has withdrawn is refused (token_manager.py:78-101).
TokenArrivesAlive == pc = "send" => now < token.ends

\* When a JWT made for this exchange is honoured on arrival: unless it ends further ahead
\* than GitHub allows, whichever way the clock is off and however it is corrected.  The
\* comment at token_manager.py:51 sets iat back "to avoid clock drift", but exp is 600
\* seconds from the host's clock, just what GitHub allows from its own (:52): a host whose
\* clock is ahead has every fresh JWT refused that arrives before GitHub's clock has
\* reached the host's reading.  Nothing else can make GitHub refuse a fresh one; one that
\* is used again may be too old, as its last seconds have no margin (:63).
FreshJwtIsHonoured ==
  pc = "exchange" /\ generated => (JwtHonoured <=> started + JwtLife <= now + JwtLimit)

\* A token is not replaced before its time: while there is one GitHub would still take
\* for longer than the margin and the errors of the clocks, no other is asked for
\* (token_manager.py:78-101).
NoEarlyExchange ==
  pc = "exchange" /\ token # NoToken => token.ends <= now + Margin + 2 * MaxDrift + Latency
=============================================================================
