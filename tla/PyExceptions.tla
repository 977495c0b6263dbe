---------------------------- MODULE PyExceptions ----------------------------
(***************************************************************************)
(* The exception classes the review path can meet, and Python's rule for   *)
(* which except clause takes one.  A member names a class; only what the   *)
(* handlers of pipeline.py, pipeline_stages.py and llm.py tell apart is    *)
(* kept.  Three names stand for a family:                                  *)
(*   "ValueError"      json.JSONDecodeError, pydantic.ValidationError,     *)
(*                     UnicodeError and ValueError itself                  *)
(*   "TransportError"  httpx.RequestError (timeouts, refused connections)  *)
(*   "ProviderError"   what the anthropic and openai SDKs raise            *)
(* None of "TransportError", "HTTPStatusError", "ProviderError",           *)
(* "RedisError", "BrokerError" (kombu), "CeleryTimeout" and                *)
(* "SoftTimeLimit" is an OSError: each derives from Exception through its  *)
(* own library's base class.                                               *)
(***************************************************************************)
OSErrors == {"OSError", "ConnectionError", "TimeoutError"}

ForeignErrors ==
  {"HTTPStatusError", "TransportError", "ProviderError", "RedisError",
   "BrokerError", "DatabaseError", "CeleryTimeout", "WorkerLost",
   "SoftTimeLimit"}

PyException ==
  OSErrors \cup ForeignErrors
    \cup {"IntegrityError", "KeyError", "IndexError", "AttributeError", "ValueError",
          "TypeError", "RuntimeError"}

\* An except clause naming the classes of handlers takes an instance of e.
Caught(e, handlers) == e \in handlers \/ ("OSError" \in handlers /\ e \in OSErrors)
=============================================================================
