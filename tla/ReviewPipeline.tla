--------------------------- MODULE ReviewPipeline ---------------------------
(***************************************************************************)
(* Runs of the review_pull_request task through the seven stages of        *)
(* workers/pipeline.py and workers/pipeline_stages.py, each run a process  *)
(* of its own, together with the Semgrep sub-task a run dispatches.  A     *)
(* step is a stage, or a part of one where other processes, a crash or an  *)
(* exception can come in between: posting the review, posting the summary  *)
(* and each Comment row are separate effects on GitHub and the database.   *)
(*                                                                         *)
(* Data are reduced to counts: how many findings the provider returned,    *)
(* how many survive merging and filtering, how many comments GitHub's      *)
(* answer lists, how many rows are stored.                                 *)
(***************************************************************************)
EXTENDS Naturals, PyExceptions

CONSTANTS
  Run,                  \* executions of the task
  PrivateRun,           \* those of a private repository
  MaxFindings           \* cap on findings of one review (max_comments)

ASSUME PipelineAssumption == PrivateRun \subseteq Run /\ MaxFindings \in Nat

VARIABLES
  pc,                   \* where the run is
  row,                  \* status of the Review row the run created
  llm,                  \* LLMResult: validated or not
  found,                \* findings of the LLM result
  semgrep,              \* the run's Semgrep sub-task
  merged,               \* len(ctx.merged_findings)
  review,               \* the review posted on the pull request
  reply,                \* len(review_result["comments"]) of GitHub's answer
  stored,               \* Comment rows of the run's Review row
  count,                \* Review.findings_count
  exc,                  \* exception that left the task, if one did
  result,               \* "status" of the dict the task returned
  metric                \* label of reviews_total the run incremented

data == <<row, llm, found, semgrep, merged, review, reply, stored, count, exc,
          result, metric>>
vars == <<pc, row, llm, found, semgrep, merged, review, reply, stored, count, exc,
          result, metric>>

\* The stages in the order of ReviewPipeline.stages, PostCommentsStage in its
\* three effects; then the code of run() after its loop, and the failure handler.
Active == {"upsert", "diff", "context", "llm", "semgrep", "dedupe", "post",
           "summary", "store", "finalise", "handler"}
Ended == {"returned", "raised", "lost"}

TypeOK ==
  /\ pc      \in [Run -> {"idle"} \cup Active \cup Ended]
  /\ row     \in [Run -> {"none", "processing", "completed", "failed"}]
  /\ llm     \in [Run -> {"none", "valid", "invalid"}]
  /\ found   \in [Run -> 0 .. MaxFindings]
  /\ semgrep \in [Run -> {"none", "queued", "running", "ready", "failed"}]
  /\ merged  \in [Run -> 0 .. MaxFindings]
  /\ review  \in [Run -> {"none", "clean", "inline"}]
  /\ reply   \in [Run -> 0 .. MaxFindings + 1]
  /\ stored  \in [Run -> 0 .. MaxFindings]
  /\ count   \in [Run -> 0 .. MaxFindings]
  /\ exc     \in [Run -> {"none"} \cup PyException]
  /\ result  \in [Run -> {"none", "skipped", "error", "completed"}]
  /\ metric  \in [Run -> {"none", "skipped", "failed", "completed"}]

Init ==
  /\ pc      = [r \in Run |-> "idle"]
  /\ row     = [r \in Run |-> "none"]
  /\ llm     = [r \in Run |-> "none"]
  /\ found   = [r \in Run |-> 0]
  /\ semgrep = [r \in Run |-> "none"]
  /\ merged  = [r \in Run |-> 0]
  /\ review  = [r \in Run |-> "none"]
  /\ reply   = [r \in Run |-> 0]
  /\ stored  = [r \in Run |-> 0]
  /\ count   = [r \in Run |-> 0]
  /\ exc     = [r \in Run |-> "none"]
  /\ result  = [r \in Run |-> "none"]
  /\ metric  = [r \in Run |-> "none"]

-----------------------------------------------------------------------------
(* Exceptions: what can leave the code of each step, and who catches it.    *)

\* A GitHubClient._request: the breaker is open, the API answers >= 400, the
\* connection fails, the token exchange answers without a token or without JSON.
GitHubCall == {"ConnectionError", "HTTPStatusError", "TransportError", "KeyError",
               "ValueError"}

\* What the calls of a step can raise and nothing below the stage absorbs.  In "llm",
\* IndexError and AttributeError come from reading an answer that lacks a field; in
\* "semgrep", ValueError and TypeError from a limit of the configuration that is no number,
\* which this stage is the first to read.
Raises ==
  [upsert   |-> {"IntegrityError", "DatabaseError"},
   diff     |-> GitHubCall,
   context  |-> GitHubCall \ {"HTTPStatusError"},
   llm      |-> {"RedisError", "ProviderError", "OSError", "IndexError", "AttributeError"},
   semgrep  |-> {"BrokerError", "OSError", "ValueError", "TypeError"},
   dedupe   |-> {"TypeError"},
   post     |-> GitHubCall,
   summary  |-> GitHubCall,
   store    |-> {"DatabaseError"},
   finalise |-> {"DatabaseError"},
   handler  |-> {"DatabaseError"}]

\* AsyncResult.get in DedupeStage, by the state of the sub-task: the result backend
\* is lost, or the sub-task's own exception is raised again in the run.
SemgrepGetRaises ==
  [none    |-> {},
   queued  |-> {"RuntimeError"},
   running |-> {"RuntimeError"},
   ready   |-> {"RuntimeError"},
   failed  |-> {"RuntimeError", "ValueError", "KeyError", "WorkerLost",
                "SoftTimeLimit"}]

\* The task's soft time limit (240 s) may strike in any step.
MayRaise(r) ==
  Raises[pc[r]] \cup {"SoftTimeLimit"}
    \cup (IF pc[r] = "dedupe" THEN SemgrepGetRaises[semgrep[r]] ELSE {})

\* except clauses of the stages that go on with the run.  (The one of SemgrepStage is
\* around the dispatch, which raises an OSError.)
NonFatal ==
  [context |-> {"ConnectionError", "TimeoutError"},
   semgrep |-> {"OSError", "RuntimeError"},
   dedupe  |-> {"TimeoutError", "OSError", "RuntimeError", "KeyError", "ValueError"},
   summary |-> {"OSError", "RuntimeError"}]
Absorbed(s, e) == s \in DOMAIN NonFatal /\ Caught(e, NonFatal[s])

\* except clauses of the stages that raise PipelineError instead.
PostCatches == {"ConnectionError", "TimeoutError", "KeyError", "ValueError"}
StageCatches ==
  [upsert  |-> {"IntegrityError", "KeyError", "ValueError"},
   diff    |-> {"ConnectionError", "TimeoutError"},
   llm     |-> {"RuntimeError", "ValueError", "OSError"},
   post    |-> PostCatches,
   summary |-> PostCatches,
   store   |-> PostCatches]

\* ReviewPipeline.run turns a PipelineError and these classes into a failed
\* review; its code after the loop and the handler itself are in no try block.
RunCatches == {"RuntimeError", "OSError", "ValueError", "TypeError"}

Handled(s, e) ==
  /\ s \notin {"finalise", "handler"}
  /\ \/ s \in DOMAIN StageCatches /\ Caught(e, StageCatches[s])
     \/ Caught(e, RunCatches)

Goto(r, s) == pc' = [pc EXCEPT ![r] = s]
Step(r, from, to) == pc[r] = from /\ Goto(r, to)

Raise(r, e) ==
  IF Handled(pc[r], e)
  THEN Goto(r, "handler") /\ UNCHANGED exc
  ELSE Goto(r, "raised") /\ exc' = [exc EXCEPT ![r] = e]

\* The step fails before it changed anything.
StageRaises(r) ==
  /\ pc[r] \in Active
  /\ \E e \in MayRaise(r) : ~Absorbed(pc[r], e) /\ Raise(r, e)
  /\ UNCHANGED <<row, llm, found, semgrep, merged, review, reply, stored, count,
                 result, metric>>

-----------------------------------------------------------------------------
(* The stages.                                                              *)

Start(r) == Step(r, "idle", "upsert") /\ UNCHANGED data

\* Mutant of UpsertStage: skip_reason does not end the loop.
UpsertStage_GoesOn(r) ==
  /\ \/ r \in PrivateRun /\ Step(r, "upsert", "diff") /\ UNCHANGED row
     \/ Step(r, "upsert", "diff") /\ row' = [row EXCEPT ![r] = "processing"]
  /\ UNCHANGED <<llm, found, semgrep, merged, review, reply, stored, count, exc,
                 result, metric>>

\* A private repository that has not opted in sets skip_reason, which ends the
\* loop; any other run creates its Review row.  (The opt-in is read from
\* Repo.config, so a private run takes either branch.)
UpsertStage(r) ==
  /\ \/ r \in PrivateRun /\ Step(r, "upsert", "finalise") /\ UNCHANGED row
     \/ Step(r, "upsert", "diff") /\ row' = [row EXCEPT ![r] = "processing"]
  /\ UNCHANGED <<llm, found, semgrep, merged, review, reply, stored, count, exc,
                 result, metric>>

FetchDiffStage(r) == Step(r, "diff", "context") /\ UNCHANGED data

\* Also the run whose context could not be fetched: it goes on with an empty one.
FetchContextStage(r) == Step(r, "context", "llm") /\ UNCHANGED data

\* A cached or a fresh validated result, or the empty result the provider classes
\* return when the circuit is open, the call fails or the answer stays malformed:
\* the stage does not look at validation_success except to decide on caching.
LLMReviewStage(r) ==
  /\ Step(r, "llm", "semgrep")
  /\ \/ \E n \in 0 .. MaxFindings :
          /\ llm' = [llm EXCEPT ![r] = "valid"]
          /\ found' = [found EXCEPT ![r] = n]
     \/ llm' = [llm EXCEPT ![r] = "invalid"] /\ UNCHANGED found
  /\ UNCHANGED <<row, semgrep, merged, review, reply, stored, count, exc, result,
                 metric>>

\* Dispatch, or none: the repository's flag disables Semgrep, there is no file
\* to scan, or delay() failed with an exception the stage absorbs.
SemgrepStage(r) ==
  /\ Step(r, "semgrep", "dedupe")
  /\ semgrep' \in {semgrep, [semgrep EXCEPT ![r] = "queued"]}
  /\ UNCHANGED <<row, llm, found, merged, review, reply, stored, count, exc, result,
                 metric>>

\* run_semgrep_async, executed by the worker pool.
BeginSemgrep(r) ==
  /\ semgrep[r] = "queued"
  /\ semgrep' = [semgrep EXCEPT ![r] = "running"]
  /\ UNCHANGED <<pc, row, llm, found, merged, review, reply, stored, count, exc,
                 result, metric>>

EndSemgrep(r) ==
  /\ semgrep[r] = "running"
  /\ \E s \in {"ready", "failed"} : semgrep' = [semgrep EXCEPT ![r] = s]
  /\ UNCHANGED <<pc, row, llm, found, merged, review, reply, stored, count, exc,
                 result, metric>>

\* The main process of the worker does not know the task and discards its message
\* with the error NotRegistered, a KeyError: only the stage itself imports the module
\* that declares the task.
SemgrepDiscarded(r) ==
  /\ semgrep[r] = "queued"
  /\ semgrep' = [semgrep EXCEPT ![r] = "failed"]
  /\ UNCHANGED <<pc, row, llm, found, merged, review, reply, stored, count, exc,
                 result, metric>>

\* Merging, filtering and deduplicating may drop any finding.
DedupeTo(r, counts) ==
  /\ Step(r, "dedupe", "post")
  /\ \E n \in counts : merged' = [merged EXCEPT ![r] = n]
  /\ UNCHANGED <<row, llm, found, semgrep, review, reply, stored, count, exc, result,
                 metric>>

\* get() has an answer: findings of both tools, or no sub-task was dispatched, or
\* the ValueError or KeyError of a failed one reaches the outer except clause of the stage,
\* which leaves no finding at all.
DedupeStage(r) ==
  \/ semgrep[r] = "none"   /\ DedupeTo(r, 0 .. found[r])
  \/ semgrep[r] = "ready"  /\ DedupeTo(r, 0 .. MaxFindings)
  \/ semgrep[r] = "failed" /\ DedupeTo(r, {0})

\* get() raises an exception of the inner except clause: the LLM's findings go on.
SemgrepResultLost(r) ==
  /\ semgrep[r] # "none"
  /\ DedupeTo(r, 0 .. found[r])

\* Mutant of SemgrepTimesOut: get() without a timeout.
SemgrepTimesOut_Never(r) ==
  /\ pc[r] = "dedupe" /\ semgrep[r] = "none"
  /\ semgrep[r] \in {"queued", "running"}
  /\ UNCHANGED vars

\* 30 s without an answer.  celery.exceptions.TimeoutError is not the builtin
\* TimeoutError of the except clause.
SemgrepTimesOut(r) ==
  /\ pc[r] = "dedupe"
  /\ semgrep[r] \in {"queued", "running"}
  /\ Raise(r, "CeleryTimeout")
  /\ UNCHANGED <<row, llm, found, semgrep, merged, review, reply, stored, count,
                 result, metric>>

\* GitHub accepts the review; its answer may list any number of comments.
Accepted(r) ==
  review' = [review EXCEPT ![r] = IF merged[r] = 0 THEN "clean" ELSE "inline"]

\* Mutant of PostCommentsStage: nothing is posted when there is no finding.
PostCommentsStage_SilentWhenClean(r) ==
  /\ pc[r] = "post"
  /\ IF merged[r] = 0
     THEN Goto(r, "finalise") /\ UNCHANGED <<reply, review>>
     ELSE /\ Goto(r, "summary")
          /\ Accepted(r)
          /\ \E n \in 0 .. MaxFindings + 1 : reply' = [reply EXCEPT ![r] = n]
  /\ UNCHANGED <<row, llm, found, semgrep, merged, stored, count, exc, result, metric>>

PostCommentsStage(r) ==
  /\ pc[r] = "post"
  /\ Accepted(r)
  /\ IF merged[r] = 0
     THEN Goto(r, "finalise") /\ UNCHANGED reply
     ELSE /\ Goto(r, "summary")
          /\ \E n \in 0 .. MaxFindings + 1 : reply' = [reply EXCEPT ![r] = n]
  /\ UNCHANGED <<row, llm, found, semgrep, merged, stored, count, exc, result, metric>>

\* The review is on the pull request, but its answer is lost or is not JSON.
PostedButRaises(r) ==
  /\ pc[r] = "post"
  /\ Accepted(r)
  /\ \E e \in {"TransportError", "ValueError"} : Raise(r, e)
  /\ UNCHANGED <<row, llm, found, semgrep, merged, reply, stored, count, result, metric>>

PostSummaryComment(r) == Step(r, "summary", "store") /\ UNCHANGED data

\* One Comment row per listed comment, as long as there is a finding for it.
StoreComment(r) ==
  /\ pc[r] = "store"
  /\ IF stored[r] < reply[r] /\ stored[r] < merged[r]
     THEN stored' = [stored EXCEPT ![r] = @ + 1] /\ UNCHANGED pc
     ELSE Goto(r, "finalise") /\ UNCHANGED stored
  /\ UNCHANGED <<row, llm, found, semgrep, merged, review, reply, count, exc, result,
                 metric>>

Return(r, status) ==
  Goto(r, "returned") /\ result' = [result EXCEPT ![r] = status]

\* Mutant of Finalise: findings_count counts the merged findings, not the posted ones.
Finalise_CountsMerged(r) ==
  /\ pc[r] = "finalise"
  /\ IF row[r] # "none"
     THEN /\ row' = [row EXCEPT ![r] = "completed"]
          /\ count' = [count EXCEPT ![r] = merged[r]]
          /\ metric' = [metric EXCEPT ![r] = "completed"]
          /\ Return(r, "completed")
     ELSE /\ metric' = [metric EXCEPT ![r] = "skipped"]
          /\ Return(r, "skipped")
          /\ UNCHANGED <<row, count>>
  /\ UNCHANGED <<llm, found, semgrep, merged, review, reply, stored, exc>>

\* run() after its loop.  Its branch for ctx.errors is never taken: a failed run
\* has returned from within the loop.
Finalise(r) ==
  /\ pc[r] = "finalise"
  /\ IF row[r] # "none"
     THEN /\ row' = [row EXCEPT ![r] = "completed"]
          /\ count' = [count EXCEPT ![r] = stored[r]]
          /\ metric' = [metric EXCEPT ![r] = "completed"]
          /\ Return(r, "completed")
     ELSE /\ metric' = [metric EXCEPT ![r] = "skipped"]
          /\ Return(r, "skipped")
          /\ UNCHANGED <<row, count>>
  /\ UNCHANGED <<llm, found, semgrep, merged, review, reply, stored, exc>>

\* Mutant of HandleStageFailure: the row is not saved.
HandleStageFailure_NotSaved(r) ==
  /\ pc[r] = "handler"
  /\ Return(r, "error")
  /\ UNCHANGED <<row, llm, found, semgrep, merged, review, reply, stored, count, exc,
                 metric>>

HandleStageFailure(r) ==
  /\ pc[r] = "handler"
  /\ row' = [row EXCEPT ![r] = IF @ = "none" THEN @ ELSE "failed"]
  /\ Return(r, "error")
  /\ UNCHANGED <<llm, found, semgrep, merged, review, reply, stored, count, exc, metric>>

\* The processes of the runs in S die; Semgrep tasks in T go back to the broker.
ProcessesLost(S, T) ==
  /\ S \subseteq {r \in Run : pc[r] \in Active}
  /\ T \subseteq {r \in Run : semgrep[r] = "running"}
  /\ pc' = [r \in Run |-> IF r \in S THEN "lost" ELSE pc[r]]
  /\ semgrep' = [r \in Run |-> IF r \in T THEN "queued" ELSE semgrep[r]]
  /\ UNCHANGED <<row, llm, found, merged, review, reply, stored, count, exc, result,
                 metric>>

\* The steps of a run that need nothing but time.
Progress(r) ==
  \/ UpsertStage(r) \/ FetchDiffStage(r) \/ FetchContextStage(r)
  \/ LLMReviewStage(r) \/ SemgrepStage(r) \/ DedupeStage(r)
  \/ SemgrepTimesOut(r) \/ PostCommentsStage(r) \/ PostSummaryComment(r)
  \/ StoreComment(r) \/ Finalise(r) \/ HandleStageFailure(r)

Fault(r) ==
  StageRaises(r) \/ SemgrepDiscarded(r) \/ SemgrepResultLost(r) \/ PostedButRaises(r)

Next ==
  \/ \E r \in Run :
       Start(r) \/ Progress(r) \/ Fault(r) \/ BeginSemgrep(r) \/ EndSemgrep(r)
  \/ \E S, T \in SUBSET Run : ProcessesLost(S, T)

Spec == Init /\ [][Next]_vars

\* Every step of a run ends by itself: HTTP calls have timeouts, and so has the
\* wait for Semgrep.  Nothing is assumed of the Semgrep task, which needs a free
\* slot of the pool, and no fault is assumed to happen.
FairSpec == Spec /\ \A r \in Run : WF_vars(Progress(r))

-----------------------------------------------------------------------------
(* Properties.                                                              *)

\* A COMPLETED row says what the pull request shows: its run has posted a review,
\* the "no issues" review exactly when no finding was left, and findings_count is
\* the number of Comment rows, never more than the inline comments posted
\* (pipeline.py:92-106 after pipeline_stages.py:396-426).
CompletedMeansPosted ==
  \A r \in Run : row[r] = "completed" =>
    /\ review[r] = IF merged[r] = 0 THEN "clean" ELSE "inline"
    /\ count[r] = stored[r] /\ count[r] <= merged[r]

\* Comment rows exist only under a review that GitHub has accepted, one per comment
\* GitHub listed and per finding at most, even when the run dies half-way through
\* storing them (pipeline_stages.py:396-426).
CommentsOnlyOfPostedReview ==
  \A r \in Run : stored[r] > 0 =>
    review[r] = "inline" /\ stored[r] <= merged[r] /\ stored[r] <= reply[r]

\* A task that returned a dict has closed the row it opened, if it had come so far, as
\* the dict says; reviews_total counts it as completed or skipped, but never as failed:
\* the handler's return leaves the branch for that label out of reach, so a failed
\* review is in the database and in no metric (pipeline.py:81-124,
\* review_worker.py:65-76; an alert on the label is set up in
\* docs/assets/grafana/prometheus-alerts.yml:16-21).
ReturnMatchesRow ==
  \A r \in Run : pc[r] = "returned" =>
    \/ result[r] = "completed" /\ row[r] = "completed" /\ metric[r] = "completed"
    \/ result[r] = "error" /\ row[r] \in {"none", "failed"} /\ metric[r] = "none"
    \/ result[r] = "skipped" /\ row[r] = "none" /\ metric[r] = "skipped"

\* A skipped review leaves no trace: no row, nothing on the pull request, no code
\* sent to the provider or to Semgrep (pipeline_stages.py:88-92, pipeline.py:77-79).
SkippedLeavesNoTrace ==
  \A r \in Run : result[r] = "skipped" =>
    /\ r \in PrivateRun
    /\ row[r] = "none" /\ review[r] = "none" /\ llm[r] = "none" /\ semgrep[r] = "none"

\* Once a row is COMPLETED or FAILED the run touches neither it nor its Comment
\* rows nor the pull request again (pipeline.py:83-89: the handler's return).
ClosedRowIsFinal ==
  [][\A r \in Run : row[r] \in {"completed", "failed"} =>
       /\ row'[r] = row[r] /\ count'[r] = count[r]
       /\ stored'[r] = stored[r] /\ review'[r] = review[r]]_vars

\* A started run ends, whatever becomes of its Semgrep sub-task
\* (pipeline_stages.py:308-320: the wait is bounded).
EveryRunEnds == \A r \in Run : pc[r] = "upsert" ~> pc[r] \in Ended

\* The pipeline implements the lifecycle of reviews.
Lifecycle == INSTANCE ReviewLifecycle WITH
  inline <- [r \in Run |-> IF review[r] = "inline" THEN merged[r] ELSE 0]
ImplementsLifecycle == Lifecycle!Spec

-----------------------------------------------------------------------------
(* A claim of the documentation that the code does not keep.                *)

\* "No silent failures - specific exceptions, review marked FAILED."
\* (docs/project/Rules.md:16): a run whose exception was not the death of its
\* process has closed its row.
NoSilentFailure ==
  \A r \in Run : pc[r] = "raised" => row[r] # "processing"

=============================================================================
