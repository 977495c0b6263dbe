---------------------------- MODULE WebhookIntake ----------------------------
(***************************************************************************)
(* The webhook endpoint of webhooks/views.py: gunicorn processes, the      *)
(* threads in each, and the requests GitHub sends for a delivery, which it *)
(* may send again at any time under the same X-GitHub-Delivery.  A step    *)
(* ends where another thread or process may come in between: after each    *)
(* call to Redis or to the broker and, without Redis, between the test and *)
(* the update of the set of known deliveries.                              *)
(***************************************************************************)
EXTENDS Naturals, FiniteSets

CONSTANTS
  Delivery,             \* values of X-GitHub-Delivery
  TaskDelivery,         \* those whose payload leads to a Celery task
  Attempts,             \* bound: requests for each delivery
  Process,              \* gunicorn workers
  NoProcess,            \* that of a request not yet served
  Threads,              \* gunicorn --threads
  MaxKnown              \* size at which the in-memory set is cleared

ASSUME IntakeAssumption ==
  /\ TaskDelivery \subseteq Delivery
  /\ Attempts \in [Delivery -> Nat] /\ Threads \in Nat \ {0} /\ MaxKnown \in Nat
  /\ NoProcess \notin Process

Request == UNION {{d} \X (1 .. Attempts[d]) : d \in Delivery}

VARIABLES
  redis,                \* settings.CELERY_BROKER_URL is set: fixed
  anonymous,            \* deliveries sent without the header X-GitHub-Delivery: fixed
  pc,                   \* where a request is
  answer,               \* its HTTP answer
  proc,                 \* the process that serves it
  key,                  \* Redis key webhook:delivery:<id>
  known,                \* _PROCESSED_DELIVERIES of each process
  queued,               \* tasks enqueued for a delivery
  windows               \* history: how often the delivery's key expired

settings == <<redis, anonymous>>
vars == <<settings, pc, answer, proc, key, known, queued, windows>>

\* Inside github_webhook, past the signature check.
Serving == {"dedup", "expire", "add", "route"}

TypeOK ==
  /\ redis \in BOOLEAN /\ anonymous \subseteq Delivery
  /\ pc \in [Request -> {"unsent", "sent", "answered", "dead"} \cup Serving]
  /\ answer \in [Request -> {"none", "unauthorized", "duplicate", "invalid", "ok",
                             "accepted", "error"}]
  /\ proc \in [Request -> Process \cup {NoProcess}]
  /\ key \in [Delivery -> {"absent", "forever", "expiring"}]
  /\ known \in [Process -> SUBSET Delivery]
  /\ queued \in [Delivery -> Nat]
  /\ windows \in [Delivery -> Nat]

Init ==
  /\ redis \in BOOLEAN /\ anonymous \in SUBSET Delivery
  /\ pc = [r \in Request |-> "unsent"]
  /\ answer = [r \in Request |-> "none"]
  /\ proc = [r \in Request |-> NoProcess]
  /\ key = [d \in Delivery |-> "absent"]
  /\ known = [p \in Process |-> {}]
  /\ queued = [d \in Delivery |-> 0]
  /\ windows = [d \in Delivery |-> 0]

-----------------------------------------------------------------------------
Goto(r, from, to) == pc[r] = from /\ pc' = [pc EXCEPT ![r] = to] /\ UNCHANGED settings
Answer(r, from, a) == Goto(r, from, "answered") /\ answer' = [answer EXCEPT ![r] = a]

\* GitHub sends, or somebody has GitHub send again, whatever became of the last
\* request.
Send(r) ==
  /\ Goto(r, "unsent", "sent")
  /\ r[2] > 1 => pc[<<r[1], r[2] - 1>>] # "unsent"
  /\ UNCHANGED <<answer, proc, key, known, queued, windows>>

FreeThread(p) ==
  Cardinality({r \in Request : pc[r] \in Serving /\ proc[r] = p}) < Threads

\* Without an id there is nothing to compare.
AfterVerify(r) == IF r[1] \in anonymous THEN "route" ELSE "dedup"

\* Mutant of Verify: the delivery is marked before the signature is verified.
Verify_Late(r, p) ==
  /\ FreeThread(p)
  /\ proc' = [proc EXCEPT ![r] = p]
  /\ \/ Goto(r, "sent", AfterVerify(r)) /\ UNCHANGED <<answer, key>>
     \/ /\ Answer(r, "sent", "unauthorized")
        /\ key' = [key EXCEPT ![r[1]] = "expiring"]
  /\ UNCHANGED <<known, queued, windows>>

\* A thread takes the request and verifies its signature.
Verify(r, p) ==
  /\ FreeThread(p)
  /\ proc' = [proc EXCEPT ![r] = p]
  /\ \/ Goto(r, "sent", AfterVerify(r)) /\ UNCHANGED answer
     \/ Answer(r, "sent", "unauthorized")
  /\ UNCHANGED <<key, known, queued, windows>>

\* Mutant of SetNx: GET, then SET.
SetNx_TestsFirst(r) ==
  /\ redis
  /\ IF key[r[1]] # "absent"
     THEN Answer(r, "dedup", "duplicate") /\ UNCHANGED key
     ELSE Goto(r, "dedup", "expire") /\ UNCHANGED <<answer, key>>
  /\ UNCHANGED <<proc, known, queued, windows>>

\* r.setnx(key): only the first request finds no key.
SetNx(r) ==
  /\ redis
  /\ IF key[r[1]] # "absent"
     THEN Answer(r, "dedup", "duplicate") /\ UNCHANGED key
     ELSE Goto(r, "dedup", "expire") /\ key' = [key EXCEPT ![r[1]] = "forever"] /\ UNCHANGED answer
  /\ UNCHANGED <<proc, known, queued, windows>>

\* Mutants of Expire: no lifetime is set; its result is returned as that of the test.
Expire_NoLifetime(r) ==
  Goto(r, "expire", "route") /\ UNCHANGED <<answer, proc, key, known, queued, windows>>

Expire_IsDuplicate(r) ==
  /\ Answer(r, "expire", "duplicate")
  /\ key' = [key EXCEPT ![r[1]] = "expiring"]
  /\ UNCHANGED <<proc, known, queued, windows>>

\* r.expire(key, _DELIVERY_TTL)
Expire(r) ==
  /\ Goto(r, "expire", "route")
  /\ key' = [key EXCEPT ![r[1]] = "expiring"]
  /\ UNCHANGED <<answer, proc, known, queued, windows>>

\* redis.exceptions.RedisError is in no except clause; the command may have been
\* executed all the same.
RedisRaises(r) ==
  /\ \/ /\ redis /\ Answer(r, "dedup", "error")
        /\ key' \in {key, [key EXCEPT ![r[1]] = IF @ = "absent" THEN "forever" ELSE @]}
     \/ /\ Answer(r, "expire", "error")
        /\ key' \in {key, [key EXCEPT ![r[1]] = "expiring"]}
  /\ UNCHANGED <<proc, known, queued, windows>>

KeyExpires(d) ==
  /\ key[d] = "expiring"
  /\ key' = [key EXCEPT ![d] = "absent"]
  /\ windows' = [windows EXCEPT ![d] = @ + 1]
  /\ UNCHANGED <<settings, pc, answer, proc, known, queued>>

\* Without Redis: the id is looked up in the process's own set ...
LookUp(r) ==
  /\ ~redis /\ pc[r] = "dedup"
  /\ IF r[1] \in known[proc[r]]
     THEN Answer(r, "dedup", "duplicate")
     ELSE Goto(r, "dedup", "add") /\ UNCHANGED answer
  /\ UNCHANGED <<proc, key, known, queued, windows>>

\* ... and added to it; a set that grows too large is emptied.
Add(r) ==
  /\ Goto(r, "add", "route")
  /\ LET ids == known[proc[r]] \cup {r[1]}
     IN  known' = [known EXCEPT ![proc[r]] = IF Cardinality(ids) > MaxKnown THEN {} ELSE ids]
  /\ UNCHANGED <<answer, proc, key, queued, windows>>

Enqueued(d) == [queued EXCEPT ![d] = @ + 1]

\* json.loads and the handlers of the events: only opened and synchronize, and
\* created comments with an id, lead to a task.  A created comment without an id is
\* answered 202 as well; a body that is not UTF-8, or a payload without the dictionaries
\* the handlers expect, raises what nothing catches.
Route(r) ==
  /\ \/ /\ r[1] \in TaskDelivery
        /\ Answer(r, "route", "accepted") /\ queued' = Enqueued(r[1])
     \/ /\ r[1] \notin TaskDelivery
        /\ \E a \in {"ok", "invalid", "accepted", "error"} : Answer(r, "route", a)
        /\ UNCHANGED queued
  /\ UNCHANGED <<proc, key, known, windows>>

\* delay() raises what kombu raises; the message may be in the queue all the same.
EnqueueRaises(r) ==
  /\ r[1] \in TaskDelivery
  /\ Answer(r, "route", "error")
  /\ queued' \in {queued, Enqueued(r[1])}
  /\ UNCHANGED <<proc, key, known, windows>>

\* A gunicorn worker is killed, with its requests, and a new one takes its place.
ProcessDies(p) ==
  /\ pc' = [r \in Request |-> IF proc[r] = p /\ pc[r] \in Serving THEN "dead" ELSE pc[r]]
  /\ known' = [known EXCEPT ![p] = {}]
  /\ UNCHANGED <<settings, answer, proc, key, queued, windows>>

Handle(r) ==
  SetNx(r) \/ Expire(r) \/ LookUp(r) \/ Add(r) \/ Route(r)

Next ==
  \/ \E r \in Request :
       \/ Send(r) \/ Handle(r) \/ RedisRaises(r) \/ EnqueueRaises(r)
       \/ \E p \in Process : Verify(r, p)
  \/ \E d \in Delivery : KeyExpires(d)
  \/ \E p \in Process : ProcessDies(p)

Spec == Init /\ [][Next]_vars

\* A request that was sent is served and its thread runs; nothing makes GitHub send,
\* a key expire or anything fail.
FairSpec ==
  /\ Spec
  /\ \A r \in Request :
       WF_vars(Handle(r)) /\ WF_vars(\E p \in Process : Verify(r, p))

-----------------------------------------------------------------------------
(* Properties.                                                              *)

\* With Redis a delivery with an id leads to at most one task per lifetime of its key, however
\* often it is sent, in whatever processes its requests run at the same time, and
\* whatever fails between two commands (views.py:37-48).
OneTaskPerWindow ==
  redis => \A d \in Delivery \ anonymous : queued[d] <= 1 + windows[d]

\* A request answered "OK - duplicate" has another behind it that passed the
\* signature check and claimed the delivery (views.py:70-83).
Claimed(q) ==
  \/ pc[q] \in {"expire", "route", "dead"}
  \/ pc[q] = "answered" /\ answer[q] \notin {"unauthorized", "duplicate"}
DuplicateHasOriginal ==
  \A r \in Request : answer[r] = "duplicate" =>
    \E n \in 1 .. Attempts[r[1]] : n # r[2] /\ Claimed(<<r[1], n>>)

\* A key that never expires, which would turn away the delivery for good, is left
\* only by a request on its way to expire() or one that failed on it
\* (views.py:45-46).
EternalKeyHasCause ==
  \A d \in Delivery : key[d] = "forever" =>
    \E n \in 1 .. Attempts[d] :
      pc[<<d, n>>] \in {"expire", "dead"} \/ answer[<<d, n>>] = "error"

\* Every 202 to a delivery with work in it has a task of its own in the queue, and only
\* work is queued.  A 202 to another delivery, a comment without an id, has none, though
\* it says "Accepted" (views.py:128-143, 159-166).
AcceptedAt(d) == {n \in 1 .. Attempts[d] : answer[<<d, n>>] = "accepted"}
AcceptedIsQueued ==
  \A d \in Delivery :
    IF d \in TaskDelivery THEN Cardinality(AcceptedAt(d)) <= queued[d] ELSE queued[d] = 0

\* A delivery with work in it gets its task, unless a request for it was refused,
\* failed or died: a duplicate is never all there is (views.py:81-100).
Failed(d) ==
  \E n \in 1 .. Attempts[d] :
    pc[<<d, n>>] = "dead" \/ answer[<<d, n>>] \in {"error", "unauthorized"}
SentIsQueued ==
  \A d \in TaskDelivery : pc[<<d, 1>>] = "sent" ~> queued[d] > 0 \/ Failed(d)
=============================================================================
