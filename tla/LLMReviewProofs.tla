--------------------------- MODULE LLMReviewProofs ---------------------------
(***************************************************************************)
(* Proofs about CircuitBreaker and about LLMReview, which extends it, for  *)
(* any finite sets of callers and diffs, any size of the cache, threshold  *)
(* and timeout.                                                            *)
(***************************************************************************)
EXTENDS LLMReview, FiniteSetTheorems, TLAPS

-----------------------------------------------------------------------------
(* CircuitBreaker.                                                          *)

Calling == {c \in Caller : pc[c] = "calling"}

\* In a prefork process at most one call is on its way.
OneAtATime ==
  pool = "prefork" => \A c, d \in Caller : pc[c] = "calling" /\ pc[d] = "calling" => c = d

CountInv == state = "closed" <=> failures < Threshold

Inv == TypeOK /\ CountInv /\ OneAtATime

LEMMA CallerFacts == Cardinality(Caller) \in Nat
BY BreakerAssumption, FS_CardinalityType

LEMMA InitInv == Init => Inv
BY BreakerAssumption DEF Init, Inv, TypeOK, CountInv, OneAtATime

LEMMA StepInv == Inv /\ [Next]_vars => Inv'
<1> SUFFICES ASSUME Inv, [Next]_vars PROVE Inv'
  OBVIOUS
<1> USE BreakerAssumption, CallerFacts
    DEF Inv, TypeOK, CountInv, OneAtATime, config, history, NoProbes, CountProbe, UpTo
<1>1. ASSUME NEW c \in Caller, Admit(c) PROVE Inv'
  <2>1. TypeOK' /\ CountInv'
    BY <1>1 DEF Admit, UpTo
  <2>2. OneAtATime'
    BY <1>1 DEF Admit, MayCall
  <2>3. QED
    BY <2>1, <2>2
<1>2. ASSUME NEW c \in Caller, Reject(c) PROVE Inv'
  BY <1>2 DEF Reject, vars
<1>3. ASSUME NEW c \in Caller, Succeed(c) PROVE Inv'
  BY <1>3 DEF Succeed, Finish, OnSuccess
<1>4. ASSUME NEW c \in Caller, Fail(c) PROVE Inv'
  BY <1>4 DEF Fail, Finish, OnFailure, UpTo
<1>5. ASSUME NEW c \in Caller, Escape(c) PROVE Inv'
  BY <1>5 DEF Escape, Finish, CountEscape
<1>6. ASSUME Reset PROVE Inv'
  BY <1>6 DEF Reset
<1>7. ASSUME Tick PROVE Inv'
  BY <1>7 DEF Tick
<1>8. ASSUME Toggle PROVE Inv'
  BY <1>8 DEF Toggle
<1>9. ASSUME UNCHANGED vars PROVE Inv'
  BY <1>9 DEF vars
<1>10. QED
  BY <1>1, <1>2, <1>3, <1>4, <1>5, <1>6, <1>7, <1>8, <1>9 DEF Next

\* The invariant holds in every reachable state.
THEOREM Invariance == Spec => []Inv
<1>1. Init => Inv
  BY InitInv
<1>2. Inv /\ [Next]_vars => Inv'
  BY StepInv
<1>3. QED
  BY <1>1, <1>2, PTL DEF Spec

\* The breaker's state keeps its types.
THEOREM TypeCorrect == Spec => []TypeOK
<1>1. Inv => TypeOK
  BY DEF Inv
<1>2. QED
  BY <1>1, Invariance, PTL

\* The circuit is closed exactly while the count is below the threshold, for any
\* number of callers and whatever the dependency raises.
THEOREM CountAgrees == Spec => []StateAgreesWithCount
<1>1. Inv => StateAgreesWithCount
  BY DEF Inv, CountInv, StateAgreesWithCount
<1>2. QED
  BY <1>1, Invariance, PTL

-----------------------------------------------------------------------------
(* Probes.                                                                  *)

AtOnce == IF pool = "prefork" THEN 1 ELSE Cardinality(Caller)

\* A circuit that is not half open has no probes, and in a half-open one every probe
\* admitted so far still waits for its answer or has escaped, as long as both are counted.
ProbeInv ==
  /\ state # "half_open" => probes = 0 /\ escaped = 0
  /\ escaped < MaxEscapes => probes <= Cardinality(Calling) + escaped
  /\ probes <= AtOnce + escaped

LEMMA CallingFinite ==
  /\ IsFiniteSet(Calling) /\ Cardinality(Calling) \in Nat
  /\ Cardinality(Calling) <= Cardinality(Caller)
  /\ Cardinality(Calling') \in Nat /\ Cardinality(Calling') <= Cardinality(Caller)
<1>1. Calling \subseteq Caller /\ Calling' \subseteq Caller
  BY DEF Calling
<1>2. QED
  BY <1>1, BreakerAssumption, FS_Subset, FS_CardinalityType

LEMMA CallingOne ==
  ASSUME OneAtATime, pool = "prefork" PROVE Cardinality(Calling) <= 1
<1>1. CASE Calling = {}
  BY <1>1, FS_EmptySet
<1>2. CASE Calling # {}
  <2>1. PICK c \in Caller : Calling = {c}
    BY <1>2 DEF OneAtATime, Calling
  <2>2. Cardinality({c}) = 1
    BY FS_Singleton
  <2>3. QED
    BY <2>1, <2>2
<1>3. QED
  BY <1>1, <1>2

LEMMA CallingOneNext ==
  ASSUME OneAtATime', pool' = "prefork" PROVE Cardinality(Calling') <= 1
<1>1. CASE Calling' = {}
  BY <1>1, FS_EmptySet
<1>2. CASE Calling' # {}
  <2>1. PICK c \in Caller : Calling' = {c}
    BY <1>2 DEF OneAtATime, Calling
  <2>2. Cardinality({c}) = 1
    BY FS_Singleton
  <2>3. QED
    BY <2>1, <2>2
<1>3. QED
  BY <1>1, <1>2

LEMMA OneMoreCalling ==
  ASSUME TypeOK, NEW c \in Caller, pc[c] = "idle", pc' = [pc EXCEPT ![c] = "calling"]
  PROVE  Cardinality(Calling') = Cardinality(Calling) + 1
<1>1. Calling' = Calling \cup {c} /\ c \notin Calling
  BY DEF Calling, TypeOK
<1>2. QED
  BY <1>1, CallingFinite, FS_AddElement

LEMMA OneLessCalling ==
  ASSUME TypeOK, NEW c \in Caller, pc[c] = "calling", pc' = [pc EXCEPT ![c] = "idle"]
  PROVE  Cardinality(Calling') = Cardinality(Calling) - 1
<1>1. Calling' = Calling \ {c} /\ c \in Calling
  BY DEF Calling, TypeOK
<1>2. QED
  BY <1>1, CallingFinite, FS_RemoveElement

LEMMA ConfigStays == [Next]_vars => UNCHANGED config
BY DEF Next, Admit, Reject, Succeed, Fail, Escape, Finish, Reset, Tick, Toggle, vars

LEMMA StepProbes == Inv /\ ProbeInv /\ [Next]_vars => ProbeInv'
<1> SUFFICES ASSUME Inv, ProbeInv, [Next]_vars PROVE ProbeInv'
  OBVIOUS
<1> USE BreakerAssumption, CallerFacts, CallingFinite
    DEF Inv, TypeOK, CountInv, ProbeInv, NoProbes, history
<1>a. AtOnce' = AtOnce /\ AtOnce \in Nat /\ AtOnce >= 0
  BY ConfigStays DEF AtOnce, config
<1>b. Cardinality(Calling') <= AtOnce /\ Cardinality(Calling) <= AtOnce
  <2>1. OneAtATime'
    BY StepInv
  <2>2. pool' = pool
    BY ConfigStays DEF config
  <2>3. /\ pool = "prefork" => Cardinality(Calling) <= 1
        /\ pool' = "prefork" => Cardinality(Calling') <= 1
    BY <2>1, CallingOne, CallingOneNext
  <2>4. QED
    BY <2>2, <2>3, CallingFinite DEF AtOnce
<1>1. ASSUME NEW c \in Caller, Admit(c) PROVE ProbeInv'
  <2>1. Cardinality(Calling') = Cardinality(Calling) + 1
    BY <1>1, OneMoreCalling DEF Admit, MayCall
  <2>2. QED
    BY <1>1, <2>1, <1>a, <1>b DEF Admit, CountProbe
<1>2. ASSUME NEW c \in Caller, Reject(c) PROVE ProbeInv'
  BY <1>2, <1>a DEF Reject, vars, Calling
<1>3. ASSUME NEW c \in Caller, Succeed(c) PROVE ProbeInv'
  BY <1>3, <1>a DEF Succeed, Finish, OnSuccess
<1>4. ASSUME NEW c \in Caller, Fail(c) PROVE ProbeInv'
  BY <1>4, <1>a DEF Fail, Finish, OnFailure, UpTo
\* Beyond MaxEscapes nothing is counted any more, and AtOnce bounds what was on its way.
<1>5. ASSUME NEW c \in Caller, Escape(c) PROVE ProbeInv'
  <2>1. Cardinality(Calling') = Cardinality(Calling) - 1
    BY <1>5, OneLessCalling DEF Escape, Finish
  <2>2. QED
    BY <1>5, <2>1, <1>a DEF Escape, CountEscape, UpTo
<1>6. ASSUME Reset PROVE ProbeInv'
  BY <1>6, <1>a DEF Reset
<1>7. ASSUME Tick \/ Toggle \/ UNCHANGED vars PROVE ProbeInv'
  BY <1>7, <1>a DEF Tick, Toggle, vars, Calling
<1>8. QED
  BY <1>1, <1>2, <1>3, <1>4, <1>5, <1>6, <1>7 DEF Next

\* Each call beyond the first that a half-open circuit lets through in a prefork process
\* follows one that raised what call() does not count; among greenlets there may be one
\* for each caller besides.
THEOREM ProbesAreBounded == Spec => []ProbesBounded
<1>1. Init => ProbeInv
  <2>1. Init => AtOnce \in Nat /\ Cardinality(Calling) \in Nat
    BY CallerFacts, CallingFinite DEF AtOnce
  <2>2. QED
    BY <2>1, BreakerAssumption DEF Init, ProbeInv
<1>2. Inv /\ ProbeInv => ProbesBounded
  <2>1. ASSUME Inv, ProbeInv PROVE ProbesBounded
    <3>1. probes \in Nat /\ escaped \in Nat /\ AtOnce \in Nat
      BY <2>1, CallerFacts, BreakerAssumption DEF Inv, TypeOK, AtOnce
    <3>2. probes <= escaped + AtOnce
      BY <2>1, <3>1 DEF ProbeInv
    <3>3. QED
      BY <3>2 DEF AtOnce, ProbesBounded
  <2>2. QED
    BY <2>1
<1>3. QED
  BY <1>1, <1>2, StepProbes, Invariance, PTL DEF Spec

-----------------------------------------------------------------------------
(* A prefork process.                                                       *)

\* Nothing is on its way while the circuit is open.
NoneCalling == pool = "prefork" /\ state = "open" => \A c \in Caller : pc[c] = "idle"

LEMMA StepNoneCalling == Inv /\ NoneCalling /\ [Next]_vars => NoneCalling'
<1> SUFFICES ASSUME Inv, NoneCalling, [Next]_vars PROVE NoneCalling'
  OBVIOUS
<1> USE ConfigStays DEF Inv, TypeOK, CountInv, NoneCalling, config
<1>1. ASSUME NEW c \in Caller, Admit(c) PROVE NoneCalling'
  BY <1>1 DEF Admit
<1>2. ASSUME NEW c \in Caller, Reject(c) PROVE NoneCalling'
  BY <1>2 DEF Reject, vars
<1>3. ASSUME NEW c \in Caller, Succeed(c) \/ Fail(c) \/ Escape(c) PROVE NoneCalling'
  <2>1. pc[c] = "calling" /\ pc' = [pc EXCEPT ![c] = "idle"]
    BY <1>3 DEF Succeed, Fail, Escape, Finish
  <2>2. pool = "prefork" => \A d \in Caller : pc'[d] = "idle"
    BY <2>1 DEF OneAtATime
  <2>3. QED
    BY <2>2
<1>4. ASSUME Reset \/ Tick \/ Toggle \/ UNCHANGED vars PROVE NoneCalling'
  BY <1>4 DEF Reset, Tick, Toggle, vars
<1>5. QED
  BY <1>1, <1>2, <1>3, <1>4 DEF Next

\* In a prefork process an open circuit is closed by the success of a probe or by an
\* operator, never by a late answer.
THEOREM OpenEndsOnlyByProbe == Spec => OpenEndsByProbe
<1>1. Init => NoneCalling
  BY DEF Init, NoneCalling
<1>2. Inv /\ NoneCalling /\ [Next]_vars => NoneCalling'
  BY StepNoneCalling
<1>3. Inv /\ NoneCalling /\ [Next]_vars =>
        [pool = "prefork" /\ state = "open" /\ state' = "closed" => Reset]_vars
  <2> SUFFICES ASSUME Inv, NoneCalling, Next, pool = "prefork", state = "open",
                      state' = "closed"
               PROVE  Reset
    BY DEF vars
  <2>1. ASSUME NEW c \in Caller, Admit(c) \/ Reject(c) PROVE FALSE
    BY <2>1 DEF Admit, Reject, vars
  <2>2. ASSUME NEW c \in Caller, Succeed(c) \/ Fail(c) \/ Escape(c) PROVE FALSE
    BY <2>2 DEF Succeed, Fail, Escape, Finish, NoneCalling
  <2>3. ~Tick /\ ~Toggle
    BY DEF Tick, Toggle
  <2>4. QED
    BY <2>1, <2>2, <2>3 DEF Next
<1>4. QED
  BY <1>1, <1>2, <1>3, Invariance, PTL DEF Spec, OpenEndsByProbe

-----------------------------------------------------------------------------
(* LLMReview.                                                               *)

LEMMA BreakerSteps == LInit => Init
BY DEF LInit

LEMMA NextCases ==
  LNext =>
    \/ \E c \in Caller : \/ LookUp(c) \/ Store(c) \/ NoApiKey(c) \/ Ask(c)
                         \/ OpenCircuit(c) \/ Answer(c) \/ CallFails(c)
                         \/ CallEscapes(c) \/ RedisRaises(c)
    \/ \E c \in Caller : \E d \in Diff : Begin(c, d)
    \/ \E d \in Diff : Expires(d) \/ OtherStores(d)
    \/ Clear \/ BreakerReset \/ World
BY DEF LNext, Review

\* A step of a review is a step of its breaker, or leaves the breaker alone.
LEMMA StepIsBreakerStep == [LNext]_lvars => [Next]_vars
<1> SUFFICES ASSUME [LNext]_lvars PROVE [Next]_vars
  OBVIOUS
<1>1. ASSUME NEW c \in Caller,
             LookUp(c) \/ Store(c) \/ NoApiKey(c) \/ RedisRaises(c)
      PROVE  UNCHANGED vars
  BY <1>1 DEF LookUp, Store, NoApiKey, RedisRaises
<1>2. ASSUME NEW c \in Caller,
             Ask(c) \/ OpenCircuit(c) \/ Answer(c) \/ CallFails(c) \/ CallEscapes(c)
      PROVE  Next
  BY <1>2 DEF Ask, OpenCircuit, Answer, CallFails, CallEscapes, Next
<1>3. ASSUME NEW c \in Caller, NEW d \in Diff, Begin(c, d) PROVE UNCHANGED vars
  BY <1>3 DEF Begin
<1>4. ASSUME NEW d \in Diff, Expires(d) \/ OtherStores(d) PROVE UNCHANGED vars
  BY <1>4 DEF Expires, OtherStores
<1>5. ASSUME Clear PROVE UNCHANGED vars
  BY <1>5 DEF Clear
<1>6. ASSUME BreakerReset \/ World PROVE Next
  BY <1>6 DEF BreakerReset, World, Next
<1>7. CASE UNCHANGED lvars
  BY <1>7 DEF lvars
<1>8. QED
  BY <1>1, <1>2, <1>3, <1>4, <1>5, <1>6, <1>7, NextCases

\* Reviews drive the breaker as CircuitBreaker specifies it: its theorems hold for the
\* provider's circuit.
THEOREM RunsBreaker == LSpec => DrivesBreaker
<1>1. LInit => Init
  BY BreakerSteps
<1>2. [LNext]_lvars => [Next]_vars
  BY StepIsBreakerStep
<1>3. QED
  BY <1>1, <1>2, PTL DEF LSpec, Spec, DrivesBreaker

-----------------------------------------------------------------------------
(* What the cache holds.                                                    *)

\* A review past its beginning has a diff; a call is on its way only for one that
\* asks; only a validated result reaches the cache.
StageInv ==
  \A c \in Caller :
    /\ stage[c] # "idle" => diff[c] \in Diff
    /\ pc[c] = "calling" => Asking(c)
    /\ stage[c] = "store" => outcome[c] = "valid"

Types ==
  /\ stage \in [Caller -> {"idle", "lookup", "first", "second", "store"}]
  /\ diff \in [Caller -> Diff \cup {"none"}]
  /\ outcome \in [Caller -> {"none", "valid", "invalid", "failed", "raised", "redis"}]
  /\ entry \in [Diff -> {"none", "valid", "invalid"}]

CacheInv == TypeOK /\ Types /\ StageInv /\ OnlyValidatedIsCached

LEMMA InitCache == LInit => CacheInv
BY InitInv DEF LInit, Init, Inv, CacheInv, Types, StageInv, OnlyValidatedIsCached, Asking

LEMMA StepCache == CacheInv /\ TypeOK' /\ [LNext]_lvars => CacheInv'
<1> SUFFICES ASSUME CacheInv, TypeOK', [LNext]_lvars PROVE CacheInv'
  OBVIOUS
<1> USE DEF CacheInv, Types, StageInv, OnlyValidatedIsCached, Goto, End, Asking
<1>1. ASSUME NEW c \in Caller, LookUp(c) PROVE CacheInv'
  BY <1>1 DEF LookUp, Fresh, Forget, vars, cacheVars
<1>2. ASSUME NEW c \in Caller, Store(c) PROVE CacheInv'
  <2>1. entry' \in [Diff -> {"none", "valid", "invalid"}]
        /\ \A d \in Diff : entry'[d] # "invalid"
    <3>1. outcome[c] = "valid"
      BY <1>2 DEF Store
    <3>2. CASE setup.redis
      BY <1>2, <3>1, <3>2 DEF Store, SetInRedis
    <3>3. CASE ~setup.redis
      <4>1. SetInMemory(diff[c], "valid")
        BY <1>2, <3>1, <3>3 DEF Store
      <4>2. QED
        BY <4>1 DEF SetInMemory
    <3>4. QED
      BY <3>2, <3>3
  <2>2. QED
    BY <1>2, <2>1 DEF Store, vars
<1>3. ASSUME NEW c \in Caller, NoApiKey(c) PROVE CacheInv'
  <2>1. UNCHANGED <<pc, diff, entry>> /\ pc[c] = "idle" /\ Retried(c)
    BY <1>3 DEF NoApiKey, vars, cacheVars
  <2>2. TypeOK /\ TypeOK'
    OBVIOUS
  <2>3. QED
    BY <2>1, <2>2 DEF Retried
<1>4. ASSUME NEW c \in Caller, Ask(c) PROVE CacheInv'
  BY <1>4 DEF Ask, Admit, cacheVars, TypeOK
<1>5. ASSUME NEW c \in Caller, OpenCircuit(c) PROVE CacheInv'
  BY <1>5 DEF OpenCircuit, Reject, MayCall, Retried, vars, cacheVars
<1>6. ASSUME NEW c \in Caller, Answer(c) PROVE CacheInv'
  BY <1>6 DEF Answer, Succeed, Finish, Retried, cacheVars, TypeOK
<1>7. ASSUME NEW c \in Caller, CallFails(c) PROVE CacheInv'
  <2>1. Finish(c) /\ UNCHANGED <<diff, entry>> /\ (Retried(c) \/ End(c, "failed"))
    BY <1>7 DEF CallFails, Fail, cacheVars
  <2>2. QED
    BY <2>1 DEF Finish, Retried, TypeOK
<1>8. ASSUME NEW c \in Caller, CallEscapes(c) PROVE CacheInv'
  BY <1>8 DEF CallEscapes, Escape, Finish, cacheVars, TypeOK
<1>9. ASSUME NEW c \in Caller, RedisRaises(c) PROVE CacheInv'
  BY <1>9 DEF RedisRaises, SetInRedis, vars, cacheVars
<1>10. ASSUME NEW c \in Caller, NEW d \in Diff, Begin(c, d) PROVE CacheInv'
  BY <1>10 DEF Begin, vars, cacheVars
<1>11. ASSUME NEW d \in Diff, Expires(d) \/ OtherStores(d) PROVE CacheInv'
  BY <1>11 DEF Expires, OtherStores, Forget, SetInRedis, vars
<1>12. ASSUME Clear PROVE CacheInv'
  BY <1>12 DEF Clear, Forget, vars
<1>13. ASSUME BreakerReset \/ World PROVE CacheInv'
  BY <1>13 DEF BreakerReset, Reset, World, Tick, Toggle, cacheVars
<1>14. CASE UNCHANGED lvars
  BY <1>14 DEF lvars, vars, cacheVars
<1>15. QED
  BY <1>1, <1>2, <1>3, <1>4, <1>5, <1>6, <1>7, <1>8, <1>9, <1>10, <1>11, <1>12, <1>13,
     <1>14, NextCases

THEOREM CacheInvariance == LSpec => []CacheInv
<1>1. LInit => CacheInv
  BY InitCache
<1>2. CacheInv /\ TypeOK' /\ [LNext]_lvars => CacheInv'
  BY StepCache
<1>3. LSpec => []TypeOK
  BY RunsBreaker, TypeCorrect DEF DrivesBreaker
<1>4. QED
  BY <1>1, <1>2, <1>3, PTL DEF LSpec

\* Nothing invalid is ever kept, whatever fails, expires, is evicted or cleared and
\* whatever other processes store.
THEOREM CacheIsValidated == LSpec => []OnlyValidatedIsCached
<1>1. CacheInv => OnlyValidatedIsCached
  BY DEF CacheInv
<1>2. QED
  BY <1>1, CacheInvariance, PTL

-----------------------------------------------------------------------------
(* Who opens the circuit.                                                   *)

\* Reviews that have failed one of the two calls they are due.
Once == {c \in Caller : mine[c] = 1}

BlameInv ==
  /\ mine \in [Caller -> 0 .. 2] /\ blamed \in Nat
  /\ \A c \in Caller : stage[c] \in {"lookup", "first"} => mine[c] = 0
  /\ \A c \in Caller : stage[c] = "second" => mine[c] \in 0 .. 1
  /\ failures + Cardinality(Once) <= 2 * blamed

LEMMA OnceFinite ==
  IsFiniteSet(Once) /\ IsFiniteSet(Once') /\ Cardinality(Once) \in Nat /\ Cardinality(Once') \in Nat
<1>1. IsFiniteSet(Caller)
  BY BreakerAssumption
<1>2. Once \subseteq Caller /\ Once' \subseteq Caller
  BY DEF Once
<1>3. IsFiniteSet(Once) /\ IsFiniteSet(Once')
  BY <1>1, <1>2, FS_Subset
<1>4. QED
  BY <1>3, FS_CardinalityType

LEMMA FewerOnce ==
  ASSUME Once' \subseteq Once PROVE Cardinality(Once') <= Cardinality(Once)
BY OnceFinite, FS_Subset

\* History does not change, nor does a failure appear.
LEMMA QuietStep ==
  ASSUME BlameInv, TypeOK, UNCHANGED <<mine, blamed>>, failures' = failures,
         \A c \in Caller : \/ stage'[c] = stage[c]
                           \/ stage'[c] \in {"idle", "store"}
                           \/ stage[c] = "lookup" /\ stage'[c] = "first"
                           \/ stage[c] = "first" /\ stage'[c] = "second"
  PROVE  BlameInv'
<1>1. Once' = Once
  BY DEF Once
<1>2. QED
  BY <1>1 DEF BlameInv

LEMMA InitBlame == LInit => BlameInv
<1> SUFFICES ASSUME LInit PROVE BlameInv
  OBVIOUS
<1>1. Once = {}
  BY DEF LInit, Once
<1>2. QED
  BY <1>1, FS_EmptySet DEF LInit, Init, BlameInv

LEMMA StepBlame == CacheInv /\ BlameInv /\ [LNext]_lvars => BlameInv'
<1> SUFFICES ASSUME CacheInv, BlameInv, [LNext]_lvars PROVE BlameInv'
  OBVIOUS
<1>t. TypeOK /\ Types /\ StageInv
  BY DEF CacheInv
<1>1. ASSUME NEW c \in Caller,
             LookUp(c) \/ Store(c) \/ NoApiKey(c) \/ Ask(c) \/ OpenCircuit(c)
               \/ CallEscapes(c) \/ RedisRaises(c)
      PROVE  BlameInv'
  <2>1. UNCHANGED <<mine, blamed>> /\ failures' = failures
    BY <1>1 DEF LookUp, Store, NoApiKey, Ask, OpenCircuit, CallEscapes, RedisRaises, blameVars,
                vars, Admit, Reject, Escape
  <2>2. \/ stage' = stage
        \/ stage' = [stage EXCEPT ![c] = "idle"]
        \/ stage[c] = "lookup" /\ stage' = [stage EXCEPT ![c] = "first"]
        \/ stage[c] = "first" /\ stage' = [stage EXCEPT ![c] = "second"]
    BY <1>1 DEF LookUp, Store, NoApiKey, Ask, OpenCircuit, CallEscapes, RedisRaises, Retried,
                Goto, End
  <2>3. QED
    BY <2>1, <2>2, <1>t, QuietStep DEF Types
<1>2. ASSUME NEW c \in Caller, Answer(c) PROVE BlameInv'
  <2>1. failures' = 0 /\ mine' = [b \in Caller |-> 0] /\ blamed' = 0
    BY <1>2 DEF Answer, Succeed, OnSuccess
  <2>2. Once' = {}
    BY <2>1 DEF Once
  <2>3. QED
    BY <2>1, <2>2, FS_EmptySet DEF BlameInv
<1>3. ASSUME NEW c \in Caller, CallFails(c) PROVE BlameInv'
  <2>1. /\ stage[c] \in {"first", "second"}
        /\ \/ stage' = [stage EXCEPT ![c] = "idle"]
           \/ stage[c] = "first" /\ stage' = [stage EXCEPT ![c] = "second"]
    <3>1. stage[c] \in {"first", "second"}
      BY <1>3, <1>t DEF CallFails, Fail, Finish, StageInv, Asking
    <3>2. Retried(c) \/ End(c, "failed")
      BY <1>3 DEF CallFails
    <3>3. QED
      BY <3>1, <3>2 DEF Retried, Goto, End
  <2>2. Blame(c) /\ failures' = UpTo(failures + 1, Threshold)
    BY <1>3 DEF CallFails, Fail, OnFailure
  <2>3. CASE failures = Threshold
    <3>1. failures' = failures /\ UNCHANGED <<mine, blamed>>
      BY <2>2, <2>3, BreakerAssumption DEF Blame, blameVars, UpTo
    <3>2. QED
      BY <3>1, <2>1, <1>t, QuietStep DEF Types
  <2>4. CASE failures # Threshold
    <3>1. failures' = failures + 1
      BY <2>2, <2>4, <1>t, BreakerAssumption DEF UpTo, TypeOK
    <3>2. mine' = [mine EXCEPT ![c] = @ + 1]
          /\ blamed' = IF mine[c] = 0 THEN blamed + 1 ELSE blamed
      BY <2>2, <2>4 DEF Blame
    <3>3. mine[c] \in 0 .. 1 /\ (stage[c] = "first" => mine[c] = 0)
      BY <2>1 DEF BlameInv
    <3>4. failures' + Cardinality(Once') <= 2 * blamed'
      <4>1. CASE mine[c] = 0
        <5>1. Once' = Once \cup {c} /\ c \notin Once
          BY <3>2, <4>1 DEF Once, BlameInv
        <5>2. Cardinality(Once') = Cardinality(Once) + 1
          BY <5>1, OnceFinite, FS_AddElement
        <5>3. QED
          BY <3>1, <3>2, <4>1, <5>2, OnceFinite, <1>t, BreakerAssumption DEF BlameInv, TypeOK
      <4>2. CASE mine[c] = 1
        <5>1. Once' = Once \ {c} /\ c \in Once
          BY <3>2, <4>2 DEF Once, BlameInv
        <5>2. Cardinality(Once') = Cardinality(Once) - 1
          BY <5>1, OnceFinite, FS_RemoveElement
        <5>3. QED
          BY <3>1, <3>2, <4>2, <5>2, OnceFinite, <1>t, BreakerAssumption DEF BlameInv, TypeOK
      <4>3. QED
        BY <3>3, <4>1, <4>2
    <3>5. mine' \in [Caller -> 0 .. 2] /\ blamed' \in Nat
      BY <3>2, <3>3 DEF BlameInv
    <3>6. /\ \A b \in Caller : stage'[b] \in {"lookup", "first"} => mine'[b] = 0
          /\ \A b \in Caller : stage'[b] = "second" => mine'[b] \in 0 .. 1
      <4>1. ASSUME NEW b \in Caller
            PROVE  /\ stage'[b] \in {"lookup", "first"} => mine'[b] = 0
                   /\ stage'[b] = "second" => mine'[b] \in 0 .. 1
        <5>1. CASE b = c
          <6>1. mine'[c] = mine[c] + 1 /\ mine[c] \in 0 .. 1
            BY <3>2, <3>3 DEF BlameInv
          <6>2. stage'[c] = "idle" \/ (stage'[c] = "second" /\ stage[c] = "first")
            BY <2>1, <1>t DEF Types
          <6>3. QED
            BY <5>1, <6>1, <6>2, <3>3
        <5>2. CASE b # c
          <6>1. stage'[b] = stage[b] /\ mine'[b] = mine[b]
            BY <2>1, <3>2, <5>2, <1>t DEF BlameInv, Types
          <6>2. QED
            BY <6>1 DEF BlameInv
        <5>3. QED
          BY <5>1, <5>2
      <4>2. QED
        BY <4>1
    <3>7. QED
      BY <3>4, <3>5, <3>6 DEF BlameInv
  <2>5. QED
    BY <2>3, <2>4
<1>4. ASSUME NEW c \in Caller, NEW d \in Diff, Begin(c, d) PROVE BlameInv'
  <2>1. /\ stage' = [stage EXCEPT ![c] = "lookup"] /\ mine' = [mine EXCEPT ![c] = 0]
        /\ blamed' = blamed /\ failures' = failures
    BY <1>4 DEF Begin, Goto, vars
  <2>2. Once' \subseteq Once
    BY <2>1 DEF Once, BlameInv
  <2>3. Cardinality(Once') <= Cardinality(Once)
    BY <2>2, FewerOnce
  <2>4. QED
    BY <2>1, <2>3, OnceFinite, <1>t, BreakerAssumption DEF BlameInv, Types, TypeOK
<1>5. ASSUME (\E d \in Diff : Expires(d) \/ OtherStores(d)) \/ Clear \/ World
             \/ UNCHANGED lvars
      PROVE  BlameInv'
  <2>1. UNCHANGED <<stage, mine, blamed, failures>>
    BY <1>5 DEF Expires, OtherStores, Clear, World, Tick, Toggle, lvars, vars, blameVars
  <2>2. QED
    BY <2>1, <1>t, QuietStep
<1>6. ASSUME BreakerReset PROVE BlameInv'
  <2>1. failures' = 0 /\ mine' = [b \in Caller |-> 0] /\ blamed' = 0
    BY <1>6 DEF BreakerReset, Reset
  <2>2. Once' = {}
    BY <2>1 DEF Once
  <2>3. QED
    BY <2>1, <2>2, FS_EmptySet DEF BlameInv
<1>7. QED
  BY <1>1, <1>2, <1>3, <1>4, <1>5, <1>6, NextCases

THEOREM BlameInvariance == LSpec => []BlameInv
BY InitBlame, StepBlame, CacheInvariance, PTL DEF LSpec

\* An open or half-open circuit has at least half as many reviews to blame as its
\* threshold: with the threshold of three, never only one.
THEOREM NoReviewOpensAlone == LSpec => []OneReviewCannotOpen
<1>1. BlameInv /\ TypeOK /\ StateAgreesWithCount => OneReviewCannotOpen
  BY OnceFinite, BreakerAssumption
     DEF BlameInv, TypeOK, StateAgreesWithCount, OneReviewCannotOpen
<1>2. LSpec => []TypeOK /\ []StateAgreesWithCount
  BY RunsBreaker, TypeCorrect, CountAgrees DEF DrivesBreaker
<1>3. QED
  BY <1>1, <1>2, BlameInvariance, PTL

-----------------------------------------------------------------------------
(* The store in memory.                                                     *)

\* The keys of the two dictionaries agree, and in memory they are not too many.
StoreInv ==
  /\ setup \in Setup
  /\ older \subseteq Held \X Held
  /\ stale \subseteq Held
  /\ setup.redis => stale = {}
  /\ MemoryBounded

LEMMA HeldFinite ==
  /\ Held \subseteq Diff /\ IsFiniteSet(Held) /\ Cardinality(Held) \in Nat
  /\ Held' \subseteq Diff /\ IsFiniteSet(Held') /\ Cardinality(Held') \in Nat
<1>1. Held \subseteq Diff /\ Held' \subseteq Diff
  BY DEF Held
<1>2. IsFiniteSet(Held) /\ IsFiniteSet(Held')
  BY <1>1, CacheAssumption, FS_Subset
<1>3. QED
  BY <1>1, <1>2, FS_CardinalityType

LEMMA ForgetStep ==
  ASSUME StoreInv, NEW S, Forget(S), setup' = setup PROVE StoreInv'
<1>1. Held' = Held \ S
  BY DEF Held, Forget
<1>2. Cardinality(Held') <= Cardinality(Held)
  BY <1>1, HeldFinite, FS_Subset
<1>3. older' \subseteq Held' \X Held' /\ stale' \subseteq Held'
  BY <1>1 DEF StoreInv, Forget
<1>4. setup'.redis => stale' = {}
  BY DEF StoreInv, Forget
<1>5. MemoryBounded'
  BY <1>2, HeldFinite, CacheAssumption DEF StoreInv, MemoryBounded
<1>6. QED
  BY <1>3, <1>4, <1>5 DEF StoreInv

LEMMA RedisSetStep ==
  ASSUME StoreInv, Types, NEW d \in Diff, SetInRedis(d, "valid"), setup.redis, setup' = setup
  PROVE  StoreInv'
<1>1. Held' = Held \cup {d}
  BY DEF Held, SetInRedis, Types
<1>2. QED
  BY <1>1 DEF StoreInv, SetInRedis, MemoryBounded

\* A new entry in a full store takes the place of the older half.
LEMMA MemorySetStep ==
  ASSUME StoreInv, Types, NEW d \in Diff, SetInMemory(d, "valid"), ~setup.redis,
         setup' = setup
  PROVE  StoreInv' /\ d \in Held' /\ d \notin stale'
<1> DEFINE keys == (Held \ {d}) \cup {d}
           order == {p \in older : d \notin {p[1], p[2]}} \cup ((Held \ {d}) \X {d})
<1>1. PICK S \in SUBSET keys :
        /\ Evicted(S, keys, order)
        /\ entry' = [k \in Diff |-> IF k \in S THEN "none" ELSE IF k = d THEN "valid" ELSE entry[k]]
        /\ older' = {p \in order : p[1] \notin S /\ p[2] \notin S}
        /\ stale' = stale \ (S \cup {d})
  BY DEF SetInMemory
<1>2. Held' = keys \ S
  BY <1>1, HeldFinite DEF Held, Types
<1>3. order \subseteq keys \X keys
  BY DEF StoreInv
<1>4. older' \subseteq Held' \X Held' /\ stale' \subseteq Held'
  <2>1. older' \subseteq Held' \X Held'
    BY <1>1, <1>2, <1>3
  <2>2. stale' \subseteq Held'
    BY <1>1, <1>2 DEF StoreInv
  <2>3. QED
    BY <2>1, <2>2
<1>5. IsFiniteSet(keys) /\ Cardinality(keys) \in Nat /\ Cardinality(keys) <= MaxEntries + 1
  <2>1. IsFiniteSet(Held \ {d}) /\ Cardinality(Held \ {d}) <= Cardinality(Held)
        /\ Cardinality(Held \ {d}) \in Nat
    BY HeldFinite, FS_Subset, FS_CardinalityType
  <2>2. IsFiniteSet(keys) /\ Cardinality(keys) = Cardinality(Held \ {d}) + 1
    BY <2>1, FS_AddElement
  <2>3. Cardinality(Held) <= MaxEntries
    BY DEF StoreInv, MemoryBounded
  <2>4. QED
    BY <2>1, <2>2, <2>3, HeldFinite, CacheAssumption
<1>6. IsFiniteSet(S) /\ Cardinality(S) \in Nat
      /\ Cardinality(keys \ S) = Cardinality(keys) - Cardinality(S)
  <2>1. IsFiniteSet(S)
    BY <1>1, <1>5, FS_Subset
  <2>2. keys \cap S = S
    BY <1>1
  <2>3. Cardinality(keys \ S) = Cardinality(keys) - Cardinality(keys \cap S)
    BY <1>5, FS_Difference
  <2>4. QED
    BY <2>1, <2>2, <2>3, FS_CardinalityType
<1>7. CASE Cardinality(keys) <= MaxEntries
  <2>1. S = {}
    BY <1>1, <1>5, <1>7, CacheAssumption DEF Evicted
  <2>2. Held' = keys
    BY <1>2, <2>1
  <2>3. QED
    BY <1>1, <1>4, <1>7, <2>2 DEF StoreInv, MemoryBounded
<1>8. CASE ~(Cardinality(keys) <= MaxEntries)
  <2>1. Cardinality(keys) = MaxEntries + 1 /\ Cardinality(S) = Cardinality(keys) \div 2
        /\ \A old \in S, new \in keys \ S : <<old, new>> \in order
    BY <1>1, <1>5, <1>8, CacheAssumption DEF Evicted
  <2>2. Cardinality(S) >= 1 /\ Cardinality(S) < Cardinality(keys)
    BY <2>1, CacheAssumption
  <2>3. Cardinality(Held') <= MaxEntries
    BY <1>2, <1>6, <2>1, <2>2, CacheAssumption
  <2>4. d \notin S
    <3>1. SUFFICES ASSUME d \in S PROVE FALSE
      OBVIOUS
    <3>2. PICK k \in keys : k \notin S
      <4>1. S \subseteq keys
        BY <1>1
      <4> HIDE DEF keys
      <4>2. S # keys
        BY <2>2, <1>5, <1>6
      <4>3. QED
        BY <4>1, <4>2, Zenon
    <3>3. <<d, k>> \in order
      BY <2>1, <3>1, <3>2
    <3>4. QED
      BY <3>1, <3>2, <3>3
  <2>5. QED
    BY <1>1, <1>2, <1>4, <2>3, <2>4 DEF StoreInv, MemoryBounded
<1>9. QED
  BY <1>7, <1>8

LEMMA InitStore == LInit => StoreInv
<1> SUFFICES ASSUME LInit PROVE StoreInv
  OBVIOUS
<1>1. Held = {} /\ older = {} /\ stale = {} /\ setup \in Setup
  BY DEF LInit, Held
<1>2. Cardinality(Held) <= MaxEntries
  BY <1>1, FS_EmptySet, CacheAssumption
<1>3. QED
  BY <1>1, <1>2 DEF StoreInv, MemoryBounded

LEMMA StepStore == CacheInv /\ StoreInv /\ [LNext]_lvars => StoreInv'
<1> SUFFICES ASSUME CacheInv, StoreInv, [LNext]_lvars PROVE StoreInv'
  OBVIOUS
<1>t. Types /\ StageInv
  BY DEF CacheInv
<1>u. ASSUME UNCHANGED <<setup, cacheVars>> PROVE StoreInv'
  <2>1. Held' = Held
    BY <1>u DEF Held, cacheVars
  <2>2. QED
    BY <1>u, <2>1 DEF StoreInv, MemoryBounded, cacheVars
<1>1. ASSUME NEW c \in Caller, LookUp(c) PROVE StoreInv'
  <2>1. setup' = setup /\ (UNCHANGED cacheVars \/ Forget({diff[c]}))
    BY <1>1 DEF LookUp
  <2>2. QED
    BY <2>1, <1>u, ForgetStep
<1>2. ASSUME NEW c \in Caller, Store(c) PROVE StoreInv'
  <2>1. outcome[c] = "valid" /\ diff[c] \in Diff /\ setup' = setup
    BY <1>2, <1>t DEF Store, StageInv
  <2>2. CASE setup.redis
    <3>1. SetInRedis(diff[c], "valid")
      BY <1>2, <2>1, <2>2 DEF Store
    <3>2. QED
      BY <3>1, <2>1, <2>2, <1>t, RedisSetStep
  <2>3. CASE ~setup.redis
    <3>1. SetInMemory(diff[c], "valid")
      BY <1>2, <2>1, <2>3 DEF Store
    <3>2. QED
      BY <3>1, <2>1, <2>3, <1>t, MemorySetStep
  <2>4. QED
    BY <2>2, <2>3
<1>3. ASSUME NEW c \in Caller,
             NoApiKey(c) \/ Ask(c) \/ OpenCircuit(c) \/ Answer(c) \/ CallFails(c)
               \/ CallEscapes(c)
      PROVE  StoreInv'
  <2>1. UNCHANGED <<setup, cacheVars>>
    BY <1>3 DEF NoApiKey, Ask, OpenCircuit, Answer, CallFails, CallEscapes
  <2>2. QED
    BY <2>1, <1>u
<1>4. ASSUME NEW c \in Caller, RedisRaises(c) PROVE StoreInv'
  <2>1. setup' = setup /\ setup.redis
    BY <1>4 DEF RedisRaises
  <2>2. UNCHANGED cacheVars \/ (stage[c] = "store" /\ SetInRedis(diff[c], outcome[c]))
    BY <1>4 DEF RedisRaises
  <2>3. CASE UNCHANGED cacheVars
    BY <2>1, <2>3, <1>u
  <2>4. CASE stage[c] = "store" /\ SetInRedis(diff[c], outcome[c])
    <3>1. outcome[c] = "valid" /\ diff[c] \in Diff
      BY <2>4, <1>t DEF StageInv
    <3>2. SetInRedis(diff[c], "valid")
      BY <2>4, <3>1
    <3>3. QED
      BY <3>1, <3>2, <2>1, <1>t, RedisSetStep
  <2>5. QED
    BY <2>2, <2>3, <2>4
<1>5. ASSUME NEW c \in Caller, NEW d \in Diff, Begin(c, d) PROVE StoreInv'
  BY <1>5, <1>u DEF Begin
<1>6. ASSUME NEW d \in Diff, Expires(d) PROVE StoreInv'
  <2>1. setup' = setup /\ d \in Held
    BY <1>6 DEF Expires, Fresh, Held
  <2>2. CASE Forget({d})
    BY <2>1, <2>2, ForgetStep
  <2>3. CASE ~setup.redis /\ stale' = stale \cup {d} /\ UNCHANGED <<entry, older>>
    <3>1. Held' = Held
      BY <2>3 DEF Held
    <3>2. QED
      BY <2>1, <2>3, <3>1 DEF StoreInv, MemoryBounded
  <2>4. QED
    BY <1>6, <2>2, <2>3 DEF Expires
<1>7. ASSUME NEW d \in Diff, OtherStores(d) PROVE StoreInv'
  BY <1>7, <1>t, RedisSetStep DEF OtherStores
<1>8. ASSUME Clear PROVE StoreInv'
  <2>1. setup' = setup /\ \E S : Forget(S)
    BY <1>8 DEF Clear
  <2>2. QED
    BY <2>1, ForgetStep
<1>9. ASSUME BreakerReset \/ World \/ UNCHANGED lvars PROVE StoreInv'
  <2>1. UNCHANGED <<setup, cacheVars>>
    BY <1>9 DEF BreakerReset, World, lvars
  <2>2. QED
    BY <2>1, <1>u
<1>10. QED
  BY <1>1, <1>2, <1>3, <1>4, <1>5, <1>6, <1>7, <1>8, <1>9, NextCases

THEOREM StoreInvariance == LSpec => []StoreInv
BY InitStore, StepStore, CacheInvariance, PTL DEF LSpec

\* However reviews, expiries and evictions follow each other, the store in memory
\* keeps its bound: making room for one entry frees at least one.
THEOREM MemoryKeepsBound == LSpec => []MemoryBounded
<1>1. StoreInv => MemoryBounded
  BY DEF StoreInv
<1>2. QED
  BY <1>1, StoreInvariance, PTL

\* A review that stores a result leaves it in the cache, whatever is evicted for it.
THEOREM StoringServes == LSpec => StoredIsServed
<1> DEFINE Served == \A c \in Caller : stage[c] = "store" /\ stage'[c] = "idle" =>
                       outcome'[c] = "redis" \/ Fresh(diff[c])'
<1>1. CacheInv /\ StoreInv /\ [LNext]_lvars => [Served]_lvars
  <2> SUFFICES ASSUME CacheInv, StoreInv, [LNext]_lvars, NEW c \in Caller,
                      stage[c] = "store", stage'[c] = "idle", outcome'[c] # "redis"
               PROVE  Fresh(diff[c])'
    BY Zenon
  <2>t. Types /\ StageInv
    BY DEF CacheInv
  <2>1. Store(c)
    <3>1. ASSUME NEW b \in Caller, b # c PROVE ~(stage' = [stage EXCEPT ![b] = "idle"])
      BY <3>1, <2>t DEF Types
    <3>2. PICK b \in Caller :
            \/ LookUp(b) \/ Store(b) \/ NoApiKey(b) \/ Ask(b) \/ OpenCircuit(b) \/ Answer(b)
            \/ CallFails(b) \/ CallEscapes(b) \/ RedisRaises(b)
      <4>1. ~ UNCHANGED stage
        OBVIOUS
      <4>2. ASSUME NEW b \in Caller, NEW d \in Diff, Begin(b, d) PROVE FALSE
        BY <4>2, <2>t DEF Begin, Goto, Types
      <4>3. ~ (\/ \E d \in Diff : Expires(d) \/ OtherStores(d)
               \/ Clear \/ BreakerReset \/ World \/ UNCHANGED lvars)
        BY <4>1 DEF Expires, OtherStores, Clear, BreakerReset, World, lvars
      <4>4. QED
        BY <4>2, <4>3, NextCases
    <3>3. ~(LookUp(b) \/ NoApiKey(b) \/ Ask(b) \/ OpenCircuit(b) \/ Answer(b) \/ CallFails(b)
             \/ CallEscapes(b))
      <4>1. \A a \in Caller : stage'[a] # stage[a] => a = b
        BY <3>2, <2>t DEF LookUp, Store, NoApiKey, Ask, OpenCircuit, Answer, CallFails, CallEscapes,
           RedisRaises, Retried, End, Goto, Types
      <4>2. b = c
        BY <4>1
      <4>3. pc[c] # "calling"
        BY <2>t DEF StageInv, Asking
      <4>4. QED
        BY <4>2, <4>3 DEF LookUp, NoApiKey, Ask, OpenCircuit, Answer, CallFails,
           CallEscapes, Succeed, Fail, Escape, Finish, Asking, Goto
    <3>4. ~RedisRaises(b)
      BY <2>t, <3>1 DEF RedisRaises, End, Types
    <3>5. Store(b) /\ b = c
      BY <3>1, <3>2, <3>3, <3>4 DEF Store, End
    <3>6. QED
      BY <3>5
  <2>2. /\ diff' = diff /\ setup' = setup /\ diff[c] \in Diff /\ outcome[c] = "valid"
        /\ IF setup.redis THEN SetInRedis(diff[c], "valid") ELSE SetInMemory(diff[c], "valid")
    BY <2>1, <2>t DEF Store, StageInv
  <2>3. CASE ~setup.redis
    <3>1. diff[c] \in Held' /\ diff[c] \notin stale'
      BY <2>2, <2>3, <2>t, MemorySetStep
    <3>2. QED
      BY <2>2, <3>1 DEF Fresh, Held
  <2>4. CASE setup.redis
    <3>1. entry'[diff[c]] = "valid" /\ stale' = {}
      BY <2>2, <2>4, <2>t DEF SetInRedis, Types, StoreInv
    <3>2. QED
      BY <2>2, <3>1 DEF Fresh
  <2>5. QED
    BY <2>3, <2>4
<1>2. QED
  BY <1>1, CacheInvariance, StoreInvariance, PTL DEF LSpec, StoredIsServed

\* Every variable keeps its type, the two dictionaries of the store in memory their
\* agreement.
THEOREM ReviewTypes == LSpec => []LTypeOK
<1>1. CacheInv /\ BlameInv /\ StoreInv => LTypeOK
  BY DEF CacheInv, Types, BlameInv, StoreInv, LTypeOK
<1>2. QED
  BY <1>1, CacheInvariance, BlameInvariance, StoreInvariance, PTL
=============================================================================
