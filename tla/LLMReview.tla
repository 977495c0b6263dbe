------------------------------ MODULE LLMReview ------------------------------
(***************************************************************************)
(* LLMReviewStage.execute in one worker process: the cache of workers/     *)
(* cache.py, the providers of workers/llm.py with their one corrective     *)
(* retry, and the breaker their calls go through (CircuitBreaker, whose    *)
(* callers are the reviews).  The other processes of the deployment share  *)
(* the cache when it is in Redis, never the breaker.                       *)
(*                                                                         *)
(* A finding list is "valid" (it passed _validate_and_parse) or "invalid"  *)
(* (the empty list of an LLMResult with validation_success=False).         *)
(***************************************************************************)
EXTENDS CircuitBreaker

CONSTANTS
  Diff,                 \* cache keys: hash of diff and repository context
  MaxEntries            \* _DEFAULT_MAX_ENTRIES

ASSUME CacheAssumption == IsFiniteSet(Diff) /\ MaxEntries \in Nat \ {0}

VARIABLES
  setup,                \* settings of the process, fixed when it starts
  stage,                \* where a review is
  diff,                 \* what it reviews
  outcome,              \* what it came to
  entry,                \* the cache: findings kept for a key
  older,                \* in memory: pairs of keys in the order of their expiry
  stale,                \* in memory: keys past their expiry and not yet popped
  mine,                 \* history: failed calls of a review since a call succeeded
  blamed                \* history: reviews with failed calls since then

cacheVars == <<entry, older, stale>>
blameVars == <<mine, blamed>>
lvars == <<vars, setup, stage, diff, outcome, cacheVars, blameVars>>

Setup == [redis : BOOLEAN,      \* CELERY_BROKER_URL is set
          keyed : BOOLEAN,      \* the provider's API key is set
          garbles : BOOLEAN]    \* the model may answer what does not validate

Held == {d \in Diff : entry[d] # "none"}

LTypeOK ==
  /\ TypeOK
  /\ setup \in Setup
  /\ stage \in [Caller -> {"idle", "lookup", "first", "second", "store"}]
  /\ diff \in [Caller -> Diff \cup {"none"}]
  /\ outcome \in [Caller -> {"none", "valid", "invalid", "failed", "raised", "redis"}]
  /\ entry \in [Diff -> {"none", "valid", "invalid"}]
  /\ older \subseteq Held \X Held
  /\ stale \subseteq Held
  /\ mine \in [Caller -> 0 .. 2]
  /\ blamed \in Nat

LInit ==
  /\ Init
  /\ setup \in Setup
  /\ stage = [c \in Caller |-> "idle"]
  /\ diff = [c \in Caller |-> "none"]
  /\ outcome = [c \in Caller |-> "none"]
  /\ entry = [d \in Diff |-> "none"]
  /\ older = {} /\ stale = {}
  /\ mine = [c \in Caller |-> 0]
  /\ blamed = 0

-----------------------------------------------------------------------------
Goto(c, from, to) == stage[c] = from /\ stage' = [stage EXCEPT ![c] = to]
End(c, o) ==
  stage' = [stage EXCEPT ![c] = "idle"] /\ outcome' = [outcome EXCEPT ![c] = o]

\* A review reaches the stage; a prefork process has one at a time.
Begin(c, d) ==
  /\ Goto(c, "idle", "lookup")
  /\ pool = "prefork" => \A b \in Caller : stage[b] = "idle"
  /\ diff' = [diff EXCEPT ![c] = d]
  /\ outcome' = [outcome EXCEPT ![c] = "none"]
  /\ mine' = [mine EXCEPT ![c] = 0]
  /\ UNCHANGED <<vars, setup, cacheVars, blamed>>

-----------------------------------------------------------------------------
(* The cache.                                                               *)

Fresh(d) == entry[d] # "none" /\ d \notin stale

Forget(S) ==
  /\ entry' = [d \in Diff |-> IF d \in S THEN "none" ELSE entry[d]]
  /\ older' = {p \in older : p[1] \notin S /\ p[2] \notin S}
  /\ stale' = stale \ S

\* cache_get; an expired entry is popped.
LookUp(c) ==
  /\ stage[c] = "lookup"
  /\ \/ Fresh(diff[c]) /\ End(c, entry[diff[c]]) /\ UNCHANGED cacheVars
     \/ ~Fresh(diff[c]) /\ Goto(c, "lookup", "first") /\ Forget({diff[c]}) /\ UNCHANGED outcome
  /\ UNCHANGED <<vars, setup, diff, blameVars>>

\* Mutant of Evicted: sorted(..., reverse=True).
Evicted_Newest(S, keys, order) ==
  IF Cardinality(keys) > MaxEntries
  THEN /\ Cardinality(S) = Cardinality(keys) \div 2
       /\ \A old \in keys \ S, new \in S : <<old, new>> \in order
  ELSE S = {}

\* The half of the keys that expires first, when there are too many.
Evicted(S, keys, order) ==
  IF Cardinality(keys) > MaxEntries
  THEN /\ Cardinality(S) = Cardinality(keys) \div 2
       /\ \A old \in S, new \in keys \ S : <<old, new>> \in order
  ELSE S = {}

SetInMemory(d, value) ==
  LET others == Held \ {d}
      order == {p \in older : d \notin {p[1], p[2]}} \cup (others \X {d})
  IN  \E S \in SUBSET (others \cup {d}) :
        /\ Evicted(S, others \cup {d}, order)
        /\ entry' = [k \in Diff |-> IF k \in S THEN "none" ELSE IF k = d THEN value ELSE entry[k]]
        /\ older' = {p \in order : p[1] \notin S /\ p[2] \notin S}
        /\ stale' = stale \ (S \cup {d})

SetInRedis(d, value) ==
  entry' = [entry EXCEPT ![d] = value] /\ UNCHANGED <<older, stale>>

\* cache_set
Store(c) ==
  /\ stage[c] = "store"
  /\ End(c, outcome[c])
  /\ IF setup.redis THEN SetInRedis(diff[c], outcome[c]) ELSE SetInMemory(diff[c], outcome[c])
  /\ UNCHANGED <<vars, setup, diff, blameVars>>

\* RedisError is in no except clause of cache.py or of the stage; SETEX may have been
\* executed all the same.
RedisRaises(c) ==
  /\ setup.redis
  /\ \/ stage[c] = "lookup" /\ UNCHANGED cacheVars
     \/ stage[c] = "store" /\ (UNCHANGED cacheVars \/ SetInRedis(diff[c], outcome[c]))
  /\ End(c, "redis")
  /\ UNCHANGED <<vars, setup, diff, blameVars>>

\* cache_clear and cache_clear_all; Redis may fail before every key is deleted.
Clear ==
  /\ \/ \E d \in Diff : Forget({d})
     \/ Forget(Held)
     \/ setup.redis /\ \E S \in SUBSET Held : Forget(S)
  /\ UNCHANGED <<vars, setup, stage, diff, outcome, blameVars>>

\* Redis drops an expired key; in memory the entry stays until it is looked up.
Expires(d) ==
  /\ Fresh(d)
  /\ \/ setup.redis /\ Forget({d})
     \/ /\ ~setup.redis
        /\ \A k \in Held \ {d} : <<k, d>> \in older => k \in stale
        /\ stale' = stale \cup {d}
        /\ UNCHANGED <<entry, older>>
  /\ UNCHANGED <<vars, setup, stage, diff, outcome, blameVars>>

\* Another process of the deployment ends a review of the same diff.
OtherStores(d) ==
  /\ setup.redis
  /\ SetInRedis(d, "valid")
  /\ UNCHANGED <<vars, setup, stage, diff, outcome, blameVars>>

-----------------------------------------------------------------------------
(* The provider.                                                            *)

Asking(c) == stage[c] \in {"first", "second"}

\* Mutants of Retried: the result of the second call is stored like any other; the
\* call is repeated until it validates.
Retried_Stored(c) ==
  \/ Goto(c, "first", "second") /\ UNCHANGED outcome
  \/ Goto(c, "second", "store") /\ outcome' = [outcome EXCEPT ![c] = "invalid"]
Retried_Always(c) == Goto(c, stage[c], "second") /\ UNCHANGED outcome

\* _review_with_retry: whatever is wrong with the first result, the call is made once
\* more; the second result is returned, and not cached when it is invalid.
Retried(c) ==
  \/ Goto(c, "first", "second") /\ UNCHANGED outcome
  \/ stage[c] = "second" /\ End(c, "invalid")

NoApiKey(c) ==
  /\ Asking(c) /\ ~setup.keyed /\ pc[c] = "idle"
  /\ Retried(c)
  /\ UNCHANGED <<vars, setup, diff, cacheVars, blameVars>>

\* llm_circuit_breaker.call lets the call through.
Ask(c) ==
  /\ Asking(c) /\ setup.keyed
  /\ Admit(c)
  /\ UNCHANGED <<setup, stage, diff, outcome, cacheVars, blameVars>>

\* CircuitBreakerOpenError becomes an invalid result, which is retried at once.
OpenCircuit(c) ==
  /\ Asking(c) /\ setup.keyed
  /\ Reject(c)
  /\ Retried(c)
  /\ UNCHANGED <<setup, diff, cacheVars, blameVars>>

\* The provider answers and the answer has the fields the provider class reads: for the
\* breaker a success, whatever the answer is worth.
Answer(c) ==
  /\ Succeed(c)
  /\ \/ Goto(c, stage[c], "store") /\ outcome' = [outcome EXCEPT ![c] = "valid"]
     \/ setup.garbles /\ Retried(c)
  /\ mine' = [b \in Caller |-> 0] /\ blamed' = 0
  /\ UNCHANGED <<setup, diff, cacheVars>>

\* Failures beyond the threshold change nothing for the breaker and are not recorded.
Blame(c) ==
  IF failures = Threshold
  THEN UNCHANGED blameVars
  ELSE /\ blamed' = IF mine[c] = 0 THEN blamed + 1 ELSE blamed
       /\ mine' = [mine EXCEPT ![c] = @ + 1]

\* except clauses of _call_api; the stage makes a PipelineError of any other OSError.
ApiCatches == {"ConnectionError", "TimeoutError", "RuntimeError", "ValueError"}

CallFails(c) ==
  /\ Fail(c)
  /\ \E e \in Raised :
       /\ Counted(e)
       /\ IF Caught(e, ApiCatches) THEN Retried(c) ELSE End(c, "failed")
  /\ Blame(c)
  /\ UNCHANGED <<setup, diff, cacheVars>>

\* What the provider's SDK raises leaves the stage, and so does what reading its answer
\* raises inside the breaker's call, tokens paid for included: the usage of OpenAI's
\* answers has no input_tokens.
CallEscapes(c) ==
  /\ Escape(c)
  /\ End(c, "raised")
  /\ UNCHANGED <<setup, diff, cacheVars, blameVars>>

-----------------------------------------------------------------------------
BreakerReset ==
  /\ Reset
  /\ mine' = [c \in Caller |-> 0] /\ blamed' = 0
  /\ UNCHANGED <<setup, stage, diff, outcome, cacheVars>>

World ==
  (Tick \/ Toggle) /\ UNCHANGED <<setup, stage, diff, outcome, cacheVars, blameVars>>

Review(c) ==
  \/ LookUp(c) \/ Store(c) \/ NoApiKey(c) \/ Ask(c) \/ OpenCircuit(c)
  \/ Answer(c) \/ CallFails(c) \/ CallEscapes(c)

LNext ==
  \/ \E c \in Caller : Review(c) \/ RedisRaises(c) \/ \E d \in Diff : Begin(c, d)
  \/ \E d \in Diff : Expires(d) \/ OtherStores(d)
  \/ Clear \/ BreakerReset \/ World

LSpec == LInit /\ [][LNext]_lvars

\* A review goes on, a call ends (the SDK's timeout) and time passes.  Reviews need
\* not come, and nothing makes the cache or the provider change.
LFairSpec ==
  /\ LSpec
  /\ \A c \in Caller : WF_lvars(Review(c))
  /\ WF_lvars(Tick /\ World)

-----------------------------------------------------------------------------
(* Properties.                                                              *)

\* What no call validated is never kept: a review served from the cache never takes
\* the empty result of an outage or of malformed answers for that of a clean diff
\* (pipeline_stages.py:241-242).
OnlyValidatedIsCached == \A d \in Diff : entry[d] # "invalid"

\* A review makes two calls at most, so with the threshold of three no single review
\* opens the circuit for the others: the failures that opened it came from at least
\* half as many reviews (llm.py:57-97, circuit_breaker.py:89-102).
OneReviewCannotOpen == state # "closed" => 2 * blamed >= Threshold

\* The store in memory does not outgrow its bound, and evicting never takes the entry
\* that was just stored (cache.py:171-181).
MemoryBounded == ~setup.redis => Cardinality(Held) <= MaxEntries
StoredIsServed ==
  [][\A c \in Caller : stage[c] = "store" /\ stage'[c] = "idle" =>
       outcome'[c] = "redis" \/ Fresh(diff[c])']_lvars

\* The reviews use the breaker as its own specification has it: what is proved of
\* CircuitBreaker holds for the provider's circuit.
DrivesBreaker == Spec

\* Once the provider is back for good, with answers that validate and that its class can
\* read, no review comes to nothing any more, but for an error of Redis (llm.py:57-97,
\* circuit_breaker.py:58-64).  Readable is not idle: OpenAIProvider reads
\* usage.input_tokens and usage.output_tokens (llm.py:296), which OpenAI's usage lacks, and
\* its reviews raise while the provider is in best health.
Healthy == up /\ setup.keyed /\ ~setup.garbles /\ misreads = {}
Heals ==
  <>[]Healthy =>
    <>[][\A c \in Caller : outcome'[c] # outcome[c] =>
           outcome'[c] \in {"none", "valid", "redis"}]_lvars
=============================================================================
