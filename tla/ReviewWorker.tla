---------------------------- MODULE ReviewWorker ----------------------------
(***************************************************************************)
(* The Celery worker: messages of the queues, a pool of Slots processes,   *)
(* and the runs of ReviewPipeline in them.  Each accepted delivery is a    *)
(* message; an attempt at it is a run.  The tasks acknowledge late         *)
(* (acks_late=True): after the task has ended, so a worker that dies       *)
(* leaves the message to be delivered again.  A pool process that dies     *)
(* alone (out of memory, hard time limit) has its message acknowledged by  *)
(* the worker, as task_reject_on_worker_lost is not set.                   *)
(*                                                                         *)
(* Review tasks and Semgrep tasks compete for the same slots, and a review *)
(* task keeps its slot while it waits for its Semgrep task.                *)
(***************************************************************************)
EXTENDS ReviewPipeline, FiniteSets

CONSTANTS
  Delivery,             \* accepted webhook deliveries
  Slots,                \* pool size: celery worker -c
  MaxCrashes            \* bound: deaths of the whole worker

ASSUME WorkerAssumption ==
  /\ Slots \in Nat \ {0} /\ MaxCrashes \in Nat
  /\ Run = Delivery \X (1 .. MaxCrashes + 1)

VARIABLES
  msg,                  \* state of the delivery's message at the broker
  attempt,              \* how often it was handed to the pool
  crashes

workerVars == <<msg, attempt, crashes>>
allVars == <<vars, workerVars>>

WTypeOK ==
  /\ TypeOK
  /\ msg \in [Delivery -> {"none", "queued", "unacked", "acked"}]
  /\ attempt \in [Delivery -> 0 .. MaxCrashes + 1]
  /\ crashes \in 0 .. MaxCrashes

WInit ==
  /\ Init
  /\ msg = [d \in Delivery |-> "none"]
  /\ attempt = [d \in Delivery |-> 0]
  /\ crashes = 0

-----------------------------------------------------------------------------
Live(r) == pc[r] \in Active

FreeSlot ==
  Cardinality({r \in Run : Live(r)}) + Cardinality({r \in Run : semgrep[r] = "running"})
    < Slots

Latest(d) == <<d, attempt[d]>>

\* review_pull_request.delay(...) of the webhook.
Enqueue(d) ==
  /\ msg[d] = "none"
  /\ msg' = [msg EXCEPT ![d] = "queued"]
  /\ UNCHANGED <<vars, attempt, crashes>>

\* A free pool process starts the task.  (No message is handed out more often than
\* MaxCrashes + 1 times; the guard says so to keep Latest(d) a run.)
Take(d) ==
  /\ msg[d] = "queued" /\ FreeSlot /\ attempt[d] <= MaxCrashes
  /\ msg' = [msg EXCEPT ![d] = "unacked"]
  /\ attempt' = [attempt EXCEPT ![d] = @ + 1]
  /\ Start(<<d, attempt[d] + 1>>)
  /\ UNCHANGED crashes

\* The task returned or raised, or its process died: no error class that leaves
\* the pipeline is in autoretry_for, so this is the end of the message.
Ack(d) ==
  /\ msg[d] = "unacked"
  /\ pc[Latest(d)] \in Ended
  /\ msg' = [msg EXCEPT ![d] = "acked"]
  /\ UNCHANGED <<vars, attempt, crashes>>

\* Mutant of TakeSemgrep: the worker does not consume the queue "default".
TakeSemgrep_NotConsumed(r) ==
  FreeSlot /\ semgrep[r] = "running" /\ BeginSemgrep(r) /\ UNCHANGED workerVars

\* A free pool process takes the Semgrep task of a run.
TakeSemgrep(r) == FreeSlot /\ BeginSemgrep(r) /\ UNCHANGED workerVars

\* Mutant of PoolProcessLost: task_reject_on_worker_lost=True.
PoolProcessLost_Requeued(r) ==
  /\ Live(r)
  /\ ProcessesLost({r}, {})
  /\ msg' = [msg EXCEPT ![r[1]] = "queued"]
  /\ UNCHANGED <<attempt, crashes>>

\* The process of one run dies.
PoolProcessLost(r) ==
  /\ Live(r)
  /\ ProcessesLost({r}, {})
  /\ UNCHANGED workerVars

\* Mutant of WorkerCrash: the broker's visibility timeout is shorter than a run, and
\* delivers again what is still being worked on.
WorkerCrash_VisibilityTimeout ==
  /\ crashes < MaxCrashes
  /\ crashes' = crashes + 1
  /\ msg' = [d \in Delivery |-> IF msg[d] = "unacked" THEN "queued" ELSE msg[d]]
  /\ UNCHANGED <<vars, attempt>>

\* Mutant of WorkerCrash: the broker keeps no unacknowledged message.
WorkerCrash_MessagesLost ==
  /\ crashes < MaxCrashes
  /\ crashes' = crashes + 1
  /\ ProcessesLost({r \in Run : Live(r)}, {r \in Run : semgrep[r] = "running"})
  /\ msg' = [d \in Delivery |-> IF msg[d] = "unacked" THEN "none" ELSE msg[d]]
  /\ UNCHANGED attempt

\* The worker dies with all its processes.  What it had not acknowledged, of
\* either task, is delivered again.
WorkerCrash ==
  /\ crashes < MaxCrashes
  /\ crashes' = crashes + 1
  /\ ProcessesLost({r \in Run : Live(r)}, {r \in Run : semgrep[r] = "running"})
  /\ msg' = [d \in Delivery |-> IF msg[d] = "unacked" THEN "queued" ELSE msg[d]]
  /\ UNCHANGED attempt

RunOf(r) ==
  /\ Progress(r) \/ Fault(r) \/ EndSemgrep(r)
  /\ UNCHANGED workerVars

WNext ==
  \/ \E d \in Delivery : Enqueue(d) \/ Take(d) \/ Ack(d)
  \/ \E r \in Run : RunOf(r) \/ TakeSemgrep(r) \/ PoolProcessLost(r)
  \/ WorkerCrash

WSpec == WInit /\ [][WNext]_allVars

\* The worker serves its queues, its processes run, and Semgrep itself ends (its
\* subprocess has a timeout of 120 s).  Faults and webhooks need not happen.
Fairness ==
  /\ \A d \in Delivery : WF_allVars(Take(d)) /\ WF_allVars(Ack(d))
  /\ \A r \in Run :
       /\ WF_allVars(Progress(r) /\ UNCHANGED workerVars)
       /\ WF_allVars(TakeSemgrep(r))
       /\ WF_allVars(EndSemgrep(r) /\ UNCHANGED workerVars)

WFairSpec == WSpec /\ Fairness

-----------------------------------------------------------------------------
(* Properties.                                                              *)

\* Only the latest attempt of an unacknowledged message is alive: a message
\* delivered again after a crash never runs twice at the same time, and no run
\* outlives the acknowledgement of its message (acks_late, review_worker.py:23).
OneLiveRunPerDelivery ==
  \A r \in Run : Live(r) => msg[r[1]] = "unacked" /\ r = Latest(r[1])

\* No exception that leaves the pipeline is one Celery would retry: autoretry_for
\* never applies, so the outcome of a run is final (review_worker.py:24,
\* pipeline.py:83-89).
AutoRetryFor == {"ConnectionError", "TimeoutError"}
NothingIsRetried == \A r \in Run : ~Caught(exc[r], AutoRetryFor)

\* A message leaves the broker only when its last attempt has ended, and only the
\* death of a process lets an attempt end without returning or raising
\* (review_worker.py:18-25).
AckedOnlyAfterEnd ==
  \A d \in Delivery : msg[d] = "acked" => attempt[d] > 0 /\ pc[Latest(d)] \in Ended

\* A pull request gets a second review for the same delivery only after a crash of
\* the worker, and at most one more per crash.
Reviews(d) == Cardinality({r \in Run : r[1] = d /\ review[r] # "none"})
SecondReviewNeedsCrash == \A d \in Delivery : Reviews(d) <= 1 + crashes

\* A row of an earlier attempt is never closed later: what a crash leaves
\* PROCESSING stays PROCESSING, the next attempt opens a row of its own
\* (pipeline_stages.py:107-112).
AbandonedRowStays ==
  [][\A r \in Run : row[r] = "processing" /\ r[2] < attempt[r[1]] => row'[r] = row[r]]_allVars

\* Every accepted delivery is acknowledged after finitely many attempts: reviews
\* waiting for Semgrep do not block the pool for good, even when they hold every
\* slot, and a crash loses no message.
EveryDeliveryEnds == \A d \in Delivery : msg[d] = "queued" ~> msg[d] = "acked"

\* A dispatched Semgrep task gets its slot in the end.
SemgrepGetsItsTurn ==
  \A r \in Run : semgrep[r] = "queued" ~> semgrep[r] \in {"ready", "failed"}
=============================================================================
