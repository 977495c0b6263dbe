---------------------------- MODULE CircuitBreaker ----------------------------
(***************************************************************************)
(* A breaker of workers/circuit_breaker.py and the callers that share it.  *)
(* A process of a prefork pool runs one task at a time; one that runs its  *)
(* tasks as greenlets interleaves them where a call waits for its answer.  *)
(* call() is therefore two steps, before and after fn().                   *)
(*                                                                         *)
(* time.time() - last_failure_time is kept as age, which stops growing     *)
(* where the comparison with recovery_timeout no longer changes, and       *)
(* failure_count stops at the threshold for the same reason.               *)
(***************************************************************************)
EXTENDS Naturals, FiniteSets, PyExceptions

CONSTANTS
  Caller,               \* tasks that share the breaker's process
  Threshold,            \* failure_threshold
  Timeout,              \* recovery_timeout, in ticks
  Failure,              \* classes the client may raise while the dependency is down
  Misread,              \* classes it may raise over an answer
  MaxEscapes            \* bound of the history variable escaped

ASSUME BreakerAssumption ==
  /\ IsFiniteSet(Caller)
  /\ Threshold \in Nat \ {0} /\ Timeout \in Nat \ {0}
  /\ Failure \subseteq PyException /\ Misread \subseteq PyException
  /\ MaxEscapes \in Nat

VARIABLES
  pool,                 \* Celery's pool, fixed when the process starts
  raises,               \* what the client raises while the dependency is down
  misreads,             \* what it raises over an answer: none if it can read them all
  pc,                   \* whether a caller is inside fn()
  state,                \* CircuitBreaker.state
  failures,             \* CircuitBreaker.failure_count
  age,                  \* time since last_failure_time
  up,                   \* whether the dependency answers
  probes,               \* history: calls admitted since HALF_OPEN was entered
  escaped               \* history: calls since then that ended uncounted

config == <<pool, raises, misreads>>
history == <<probes, escaped>>
vars == <<config, pc, state, failures, age, up, history>>

UpTo(n, cap) == IF n < cap THEN n ELSE cap

TypeOK ==
  /\ pool \in {"prefork", "greenlets"}
  /\ raises \in SUBSET Failure /\ misreads \in SUBSET Misread
  /\ pc \in [Caller -> {"idle", "calling"}]
  /\ state \in {"closed", "open", "half_open"}
  /\ failures \in 0 .. Threshold
  /\ age \in 0 .. Timeout
  /\ up \in BOOLEAN
  /\ probes \in Nat
  /\ escaped \in 0 .. MaxEscapes

Init ==
  /\ pool \in {"prefork", "greenlets"}
  /\ raises \in SUBSET Failure \ {{}}
  /\ misreads \in SUBSET Misread
  /\ pc = [c \in Caller |-> "idle"]
  /\ state = "closed"
  /\ failures = 0
  /\ age = Timeout
  /\ up = TRUE
  /\ probes = 0 /\ escaped = 0

-----------------------------------------------------------------------------
MayCall(c) ==
  /\ pc[c] = "idle"
  /\ pool = "prefork" => \A d \in Caller : pc[d] = "idle"

\* HALF_OPEN is left: its probes are history.
NoProbes == probes' = 0 /\ escaped' = 0

\* One more probe, one more escape; beyond MaxEscapes neither is recorded.
CountProbe ==
  probes' = (IF escaped < MaxEscapes THEN probes + 1 ELSE probes) /\ UNCHANGED escaped
CountEscape == escaped' = UpTo(escaped + 1, MaxEscapes) /\ UNCHANGED probes

\* Mutant of Admit: the circuit closes when the timeout has passed.
Admit_Closes(c) ==
  /\ MayCall(c)
  /\ state = "open" => age = Timeout
  /\ state' = "closed"
  /\ NoProbes
  /\ pc' = [pc EXCEPT ![c] = "calling"]
  /\ UNCHANGED <<config, failures, age, up>>

\* call() up to fn(): an open circuit whose timeout has passed becomes half open.
Admit(c) ==
  /\ MayCall(c)
  /\ state = "open" => age = Timeout
  /\ state' = IF state = "open" THEN "half_open" ELSE state
  /\ IF state = "closed" THEN NoProbes ELSE CountProbe
  /\ pc' = [pc EXCEPT ![c] = "calling"]
  /\ UNCHANGED <<config, failures, age, up>>

\* Mutant of Reject: a rejected call counts as a failure in time.
Reject_RestartsTimeout(c) ==
  /\ MayCall(c) /\ state = "open" /\ age < Timeout
  /\ age' = 0
  /\ UNCHANGED <<config, pc, state, failures, up, history>>

\* CircuitBreakerOpenError.
Reject(c) ==
  /\ MayCall(c) /\ state = "open" /\ age < Timeout
  /\ UNCHANGED vars

\* Mutant of OnSuccess: the count is kept.
OnSuccess_KeepsCount ==
  state' = "closed" /\ NoProbes /\ UNCHANGED <<failures, age>>
OnSuccess ==
  state' = "closed" /\ failures' = 0 /\ NoProbes /\ UNCHANGED age

\* Mutants of OnFailure: the count is set, not incremented; only a closed circuit opens.
OnFailure_CountsOne ==
  /\ failures' = 1
  /\ age' = 0
  /\ state' = IF failures' = Threshold THEN "open" ELSE state
  /\ IF state' = "half_open" THEN UNCHANGED history ELSE NoProbes
OnFailure_FailedProbeStays ==
  /\ failures' = UpTo(failures + 1, Threshold)
  /\ age' = 0
  /\ state' = IF failures' = Threshold /\ state = "closed" THEN "open" ELSE state
  /\ IF state' = "half_open" THEN UNCHANGED history ELSE NoProbes

OnFailure ==
  /\ failures' = UpTo(failures + 1, Threshold)
  /\ age' = 0
  /\ state' = IF failures' = Threshold THEN "open" ELSE state
  /\ IF state' = "half_open" THEN UNCHANGED history ELSE NoProbes

\* The except clause of call().
Counted(e) == Caught(e, {"OSError", "RuntimeError", "ValueError"})

Finish(c) == pc[c] = "calling" /\ pc' = [pc EXCEPT ![c] = "idle"] /\ UNCHANGED config

\* What fn() may raise now: a dependency that is down gives no answer, one that is up
\* may give one the client fails over.
Raised == IF up THEN misreads ELSE raises

Succeed(c) == Finish(c) /\ up /\ OnSuccess /\ UNCHANGED up

Fail(c) ==
  /\ Finish(c)
  /\ \E e \in Raised : Counted(e)
  /\ OnFailure
  /\ UNCHANGED up

\* fn() raises a class that the except clause of call() does not name: neither
\* _on_failure nor _on_success is called.
Escape(c) ==
  /\ Finish(c)
  /\ \E e \in Raised : ~Counted(e)
  /\ IF state = "half_open" THEN CountEscape ELSE UNCHANGED history
  /\ UNCHANGED <<state, failures, age, up>>

Reset ==
  /\ state' = "closed" /\ failures' = 0 /\ NoProbes
  /\ UNCHANGED <<config, pc, age, up>>

Tick == age < Timeout /\ age' = age + 1 /\ UNCHANGED <<config, pc, state, failures, up, history>>

\* The dependency goes down or comes back.
Toggle == up' = ~up /\ UNCHANGED <<config, pc, state, failures, age, history>>

Next ==
  \/ \E c \in Caller : Admit(c) \/ Reject(c) \/ Succeed(c) \/ Fail(c) \/ Escape(c)
  \/ Reset \/ Tick \/ Toggle

Spec == Init /\ [][Next]_vars

\* Time passes, a call ends (both clients have timeouts) and there is work that
\* calls again; nothing makes the dependency change or an operator reset.
FairSpec ==
  /\ Spec /\ WF_vars(Tick)
  /\ \A c \in Caller :
       WF_vars(Admit(c)) /\ WF_vars(Succeed(c) \/ Fail(c) \/ Escape(c))

-----------------------------------------------------------------------------
(* Properties.                                                              *)

\* The circuit is closed exactly while the count is below the threshold, whatever
\* the order in which calls of several callers end: a circuit that closes starts
\* with a fresh count, and one late failure cannot reopen it
\* (circuit_breaker.py:82-110).
StateAgreesWithCount == state = "closed" <=> failures < Threshold

\* In a prefork process only the success of a probe, or an operator, ends an open
\* circuit: it never becomes closed in one step.  (Among greenlets the late success of
\* a call admitted before the circuit opened closes it at once.)
\* (circuit_breaker.py:58-77)
OpenEndsByProbe ==
  [][pool = "prefork" /\ state = "open" /\ state' = "closed" => Reset]_vars

\* Who gets through a half-open circuit: in a prefork process a second probe only after
\* the first one raised what call() does not count, and a further one after each that
\* does; among greenlets one for each caller besides.  A probe that ends in any other way
\* closes the door or opens it for all.  (circuit_breaker.py:58-80.  "One request allowed
\* to probe recovery", :21, is more than the code ensures: see the calls that escaped.)
ProbesBounded ==
  probes <= escaped + IF pool = "prefork" THEN 1 ELSE Cardinality(Caller)

\* A dependency that is back for good, with answers its client can read, is called
\* again, and the circuit closes for good (circuit_breaker.py:58-64, 82-87).
Recovers == <>[](up /\ misreads = {}) => <>[](state = "closed")

\* An outage that lasts has one of two ends, unless an operator keeps resetting the
\* circuit: it does not close any more, or it is closed for good and call() counts
\* nothing of what the client raises.  The second one is an outage nobody notices: the
\* circuit opens on OSError, RuntimeError and ValueError and on nothing else, whatever
\* becomes of the calls (circuit_breaker.py:78-102).
Counting == \E c \in Caller : Fail(c)
OutageOpens ==
  <>[]~up =>
    \/ <>[](state # "closed")
    \/ <>[](state = "closed") /\ <>[][~Counting]_vars
    \/ []<><<Reset>>_vars
=============================================================================
