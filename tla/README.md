# Sentinel Review: verification project

TLA+ modules of the core of Sentinel Review (`src/backend/sentinel_review`) and of its
evaluation runner (`src/scripts/eval_pkg`), the TLC configurations that check them on small instances, and TLAPS proofs of
theorems about them for every value of the constants. File names below are
relative to `backend/sentinel_review/` unless they start with `docs/`, `scripts/`
or a file of the repository's root.

Run from this directory:

    tlc -config MCReviewPipeline.cfg MCReviewPipeline     # one model-checking run
    tlapm FindingsProofs.tla                              # one module's proofs

Contents: 1 the system, 2 the modules, 3 the runs, 4 fairness, 5 the proofs,
6 where code and documentation differ, 7 what is not modelled, 8 plan.

---

## 1. The system

    GitHub --webhook--> webhooks/views.py --delay()--> Redis broker
       ^                      |  SETNX / set in memory      | queue "reviews"
       |                                                    v
       |                    Celery worker, prefork, -c 2: review_pull_request
       |                      ReviewPipeline: 7 stages --- Review, Comment rows
       |                        |        |       \--delay()--> run_semgrep_async
       +--- GitHubClient -------+        |            (queue "default", same pool)
       |    (github_circuit_breaker)     +--- LLM provider (llm_circuit_breaker)
       |    (TokenManager)                      + review cache (Redis or memory)
       |
       +--- process_reaction (queue "feedback") --- Feedback rows --- REST API
       |
       +--- gha_runner.py: the whole review in one GitHub Actions job, no database
            scripts/run_evaluation.py: rules or a model over data/eval_set.json

| Component | State it keeps | Operations | What is hard |
|---|---|---|---|
| Webhook intake (`webhooks/`) | Redis key `webhook:delivery:<id>`, or one set per gunicorn process | `github_webhook`: signature, dedup, route, enqueue | 4 processes x 2 threads; two Redis commands that are not one; mark-before-work; redelivery after a failure; the emptied set |
| Review pipeline (`workers/pipeline*.py`) | `PipelineContext`, rows Review / Comment / PullRequest | seven stages, failure handler, completion | which exception class is caught where; effects on GitHub that cannot be undone; a run that dies half-way |
| Celery worker (`workers/review_worker.py`, `celery_app.py`) | messages at the broker, pool processes | start, acknowledge, redeliver | late acknowledgement, crash, tasks that wait for tasks of the same pool |
| Semgrep task (`workers/semgrep_integration.py`) | result in the backend | `run_semgrep_async` | late, failed or never-answered result |
| Circuit breaker (`workers/circuit_breaker.py`) | state, count, time of the last failure | `call`, `_on_success`, `_on_failure`, `reset` | overlapping calls, uncounted exception classes, recovery |
| LLM providers (`workers/llm.py`) | none | `review`, one corrective retry | an outage and a clean diff look alike afterwards |
| Review cache (`workers/cache.py`) | entries and expiry times, in Redis or memory | get, set, clear, evict | two dictionaries kept in step, the limit, what may be kept |
| Findings (`semgrep_integration.merge_with_llm_findings`, `feature_flags.py`, `ignore_rules.py`, `helpers.py`) | none | merge, filter, limit, ignore, deduplicate | the order of the filters, one-to-one matching |
| GitHub client (`workers/github_client.py`, `http_transport.py`) | none of its own | five operations of one or more requests | which error is swallowed where; a lost answer to a request that was executed |
| Installation tokens (`workers/token_manager.py`) | JWT and tokens with expiry | get, exchange, clear | two clocks, the margin, requests that take their time, revocation |
| Feedback capture (`workers/feedback_worker.py`, `api/views.py`) | Feedback rows | one task per comment event; POST, PATCH, DELETE | concurrent `get_or_create` against a wider constraint, event before its row |
| Repository configuration (`api/`, `dashboard/`, `models/repo.py`) | `Repo.config` (JSON) | read-change-write | lost update |
| GitHub Action runner (`workers/gha_runner.py`) | report file | one-shot review | exit code and outputs after partial failure, cancellation, another attempt |
| Evaluation runner (`scripts/eval_pkg/`) | scores, report | number lines, review, match, count | numbering that slips, greedy pairing, a loop variable used after its loop |

How they interact. The intake and the worker share only the broker. A run of the
pipeline and its Semgrep task share the broker, the result backend and the slots
of the same pool (`docker-compose.yml`: `-Q reviews,feedback,default -c 2`). Runs
share the two breakers and the in-memory cache of their process, and the cache in
Redis with other processes. Celery's prefork pool runs one task at a time in a
process; a greenlet pool, which nothing in the code rules out, interleaves tasks
where a call waits.

What makes each part correct:

- *Intake*: one task per delivery and lifetime of its key; a delivery called a
  duplicate has another request behind it; each 202 to work has its own task; no key
  that never expires without a failure that explains it.
- *Pipeline*: a row opens once and closes at most once; COMPLETED only after the
  review is on the pull request, and with the count of what was stored; a private
  repository that has not opted in leaves no trace; what the task returns and the row
  agree, and the metric agrees with completed and skipped; every run ends.
- *Worker*: no message is lost and none acknowledged before its attempt has ended;
  attempts never overlap; a second review for a delivery needs a crash; reviews
  that wait for Semgrep never block the pool for good.
- *Breaker*: state and count agree; an open circuit ends through a probe; probes
  are bounded by the callers and the calls that escape uncounted; an outage opens the
  circuit or is one it counts nothing of; recovery closes it.
- *Provider and cache*: only validated results are kept; the bound of the store
  holds and does not cost the entry just stored; one review alone does not open
  the circuit; reviews succeed again after an outage, if the answers can be read.
- *Findings*: matching is one-to-one; a confirmed finding stays confirmed; limits
  hold at the end; what is missing stood behind as many entries as a limit admits.
- *Client and tokens*: a token that is sent is still valid when GitHub reads it, and is
  not replaced long before its end; a JWT is refused only where its expiry is too far off.
- *Feedback*: one row per reactor on a comment, whatever runs at once; a task that says
  completed has passed over nobody; every task ends.
- *Action runner*: green means reviewed; at most one review per attempt; report, exit
  code and pull request agree.
- *Evaluation*: matching is maximal and counts everything once; an issue is found where
  the counted number of a line that a rule matches is its own; the tables agree.

---

## 2. The modules

| Module | Models | Extends / instantiates |
|---|---|---|
| `PyExceptions` | exception classes and Python's rule for `except` | - |
| `ReviewLifecycle` | abstract: what one run promises to the readers of database and pull request | - |
| `ReviewPipeline` | `pipeline.py`, `pipeline_stages.py` | `PyExceptions`; implements `ReviewLifecycle` |
| `ReviewWorker` | the Celery worker around the pipeline | `ReviewPipeline` |
| `CircuitBreaker` | `circuit_breaker.py` | `PyExceptions` |
| `LLMReview` | `LLMReviewStage`, `llm.py`, `cache.py` | `CircuitBreaker`; implements it |
| `WebhookIntake` | `webhooks/views.py` | - |
| `Findings` | `DedupeStage` and the functions it calls | `SequencesExt` |
| `GitHubClient` | `github_client.py`, `token_manager.py`, `http_transport.py` | `PyExceptions` |
| `FeedbackCapture` | `feedback_worker.py`, `FeedbackViewSet` | `PyExceptions` |
| `ReviewJob` | abstract: what the review step of a CI workflow promises | - |
| `GhaRunner` | `gha_runner.py` | `PyExceptions`; implements `ReviewJob` |
| `EvalHarness` | `scripts/eval_pkg/analyzers.py`, `runners.py` | `Functions` |
| `*Proofs` | theorems about the module of that name; `ReviewWorkerProofs` also those about `ReviewPipeline`, `LLMReviewProofs` those about `CircuitBreaker` | the module, `TLAPS` |
| `MC*` | constants for TLC | the module |

Each operator whose comment begins "Mutant of X" is X with a plausible bug. It is
used by no specification; replacing X by it makes the property it was written for
fail, which shows that the property depends on the code.

### ReviewPipeline

State: for each run its program counter, the status of its Review row, the LLM
result, the state of its Semgrep task, the number of merged findings, what is on
the pull request (`review`), the number of comments GitHub's answer lists
(`reply`), Comment rows (`stored`), `findings_count` (`count`), the exception that
left the task, the returned status and the label of `reviews_total`.

| Action | Code |
|---|---|
| `UpsertStage` ... `DedupeStage` | the stage of that name |
| `SemgrepTimesOut`, `SemgrepResultLost` | the two ways `AsyncResult.get(timeout=30)` fails: Celery's TimeoutError leaves the task, what the inner clause names does not |
| `PostCommentsStage`, `PostSummaryComment`, `StoreComment` | `PostCommentsStage.execute`, split at its effects: the review, the summary comment, each Comment row |
| `PostedButRaises` | GitHub accepted the review, its answer is lost or not JSON |
| `StageRaises` | a step fails before it changed anything; `Raises` lists the classes, `NonFatal`, `StageCatches` and `RunCatches` are the except clauses. A limit of the configuration that is no number ends the review in `SemgrepStage`, the first to read it |
| `Finalise`, `HandleStageFailure` | `run()` after its loop; the failure handler |
| `BeginSemgrep`, `EndSemgrep` | `run_semgrep_async` |
| `SemgrepDiscarded` | the worker does not know that task (section 6) |
| `ProcessesLost` | processes die (memory, hard time limit, SIGKILL) |

Findings are counts here; what merging and filtering do to them is in `Findings`.
Which exceptions are possible is read from the calls a stage makes. httpx, redis-py,
kombu, the SDKs and Celery derive their errors from Exception, not from OSError,
and the model keeps that: it is why several handlers never apply.

`Lifecycle` maps a run to `ReviewLifecycle`: `inline` is the number of merged
findings once a review with inline comments is posted, the other variables are
themselves. Every step is `Open`, `Publish`, `Complete`, `Fail` or a stutter.
`ReviewLifecycle` does not say that a row closes, and the code does not ensure it
(section 6).

### ReviewWorker

Adds the messages, the number of attempts at each and the worker's crashes. A run
is a pair of a delivery and an attempt. `Take` needs a free slot; a run keeps its
slot until it ends, also while it waits for Semgrep; `TakeSemgrep` needs one too.
`Ack` comes after the end (`acks_late=True`). `PoolProcessLost` lets one process
die, and the message is acknowledged all the same, as `task_reject_on_worker_lost`
is not set. `WorkerCrash` kills all processes and puts unacknowledged messages
back. Redelivery by the visibility timeout is not an action: Redis' default, 3600
s, is far beyond the hard time limit of 300 s. A mutant of `WorkerCrash` shows what
a shorter one would do.

### CircuitBreaker

One breaker with its callers. `call()` is two steps, before `fn()` (`Admit`,
`Reject`) and after (`Succeed`, `Fail`, `Escape`), with other callers in between
when the pool runs greenlets. `Escape` is an exception that the except clause does
not name, so that neither `_on_success` nor `_on_failure` runs. `raises` is what the
client raises while the dependency is down, `misreads` what it raises over an answer:
`fn()` also reads the answer, so it may fail while the dependency is `up`. Time is an
`age` that stops at the timeout; the count stops at the threshold, as no comparison
distinguishes more. `probes` and `escaped` are history variables: calls admitted since
the circuit became half open, and those among them that ended uncounted.
An HTTP answer of 400 or more is a success of the breaker (`http_transport.py`
looks at the status after the call), so it is `Succeed`.

### LLMReview

Extends the breaker by what its callers do: `LookUp` (`cache_get`), `Ask`,
`Answer`, `CallFails`, `CallEscapes`, `OpenCircuit` and `NoApiKey` for the two calls
of `_review_with_retry`, `Store` (`cache_set`) with `Evicted`, and the surroundings:
expiry, `cache_clear`, other processes, Redis errors. `Answer` is an answer whose fields
the provider class can read; OpenAI's usage has no `input_tokens`, so with it a good
answer may be a `CallEscapes` (`misreads`). The order of expiry times in
memory is the relation `older`; two entries that expire at exactly the same time are
not modelled. `mine` and `blamed` are history variables: they
attribute the failures the breaker counts to reviews.

### WebhookIntake

Requests of the same or different deliveries, in threads of several processes. A
request goes `sent` -> `dedup` -> `expire` or `add` -> `route` -> `answered`; a step
ends after each call to Redis or the broker and, in memory, between test and
update. `anonymous` are the deliveries sent without an id, which skip the test. `Route`
answers a delivery without work in any way the handlers have, 202 and 500 among them:
a comment without an id is "Accepted" too. GitHub does not redeliver by itself; `Send` lets an operator or an
integration do so at any time. The HMAC is a choice between accepted and refused.

### Findings

The lists of both tools through the loops of `merge_with_llm_findings`,
`filter_findings`, `filter_ignored_findings` and `_deduplicate`, in the stage's order.
State: `stage`, the loop that runs; `i`, its next turn; `merged`, the list it reads, and
`out`, the list it builds; `used`; the configuration and the ignored files once they are
read. A finding is what these functions compare, its `Place` (file, line, category), and
its severity, which none of them looks at. Glob patterns are the set of files they match.
`combined` is a history variable: the merged list. The limits are numbers: a review
with others does not get past `SemgrepStage`.

| Action | Code |
|---|---|
| `Match`, `Matched`, `AddUnused` | the two loops of `merge_with_llm_findings`; the inner loop is the choice of the first unused Semgrep finding at the same place |
| `ReadFlags` | `FeatureFlags.__init__` |
| `FilterFinding`, `Filtered` | `filter_findings`: categories and the limit per file, then the total limit. The code filters categories in a loop of its own, in the same order; one turn does both |
| `FilterIgnored`, `IgnoredFiltered` | `filter_ignored_findings`; without the file nothing is ignored |
| `Deduplicate`, `Deduplicated` | `_deduplicate`; `seen` are the findings of `out` |

### GitHubClient

One client of one task: the operation it is in, the JWT and the token of the
installation, and two clocks. `now` is GitHub's; the host's `time` is off by `drift`,
which `Adjust` changes at any moment. `looked` is the time of the client's last look
at its clock: what it sends is at most `Latency` on its way.

| Action | Code |
|---|---|
| `Begin`, `NextRequest` | an operation's requests; `get_repo_context` makes up to `MaxRequests` of them |
| `UseToken` | `get_installation_token` when the entry is good for `Margin` more |
| `PrepareExchange`, `GetJwt` | the JWT for the exchange, kept or generated; `JwtHonoured` is GitHub's rule: begun, not ended, and ending within `JwtLimit` (600 s, exactly the life the code gives it) |
| `Exchanged`, `ExchangeFails` | the exchange, with an `expires_at` that can be read or not; its status is not looked at, so an error is a `KeyError` or `ValueError` |
| `Accepted`, `Unauthorized`, `RequestFails` | `HTTPTransport.request` |
| `Raised` | the except clauses of the operations: `Swallowed` is what each takes for "nothing there" |
| `Tick`, `Adjust`, `Revoke` | time, the host's clock, GitHub |

### FeedbackCapture

Reactions on GitHub per comment, Comment rows, Feedback rows, and for each task the
reactions its loop has not handled. A step is one query: `Select`, `Insert` and
`Reselect` are the three queries of `get_or_create`, and between them other tasks and
the API write. The table's constraint is over (comment, reactor, reaction), while
`get_or_create` looks for (comment, reactor). `Post`/`ApiInsert`, `Patch`/`ApiUpdate` and
`Delete` are the API, whose requests validate in one step and write in another; a
`save()` of a row that is gone inserts it again. `touched` is a history variable: the
pairs of comment and reactor that the API wrote or a user withdrew from.
A reaction may have the empty login `NoLogin`, which the loop passes over.
`TaskEndsEarly` is every end that writes nothing more: a query that fails, a reaction
without a user, the soft time limit, the death of the process, an unknown task.

### GhaRunner and ReviewJob

One process from `main()` (`NoPayload`) through `run()` (`Begin` up to its try block) to
its exit code. `env` is what an attempt finds (event,
checkout, provider, keys); the actions follow `run()`: `DiffBase`, `DiffParent`, `Contents`,
`Key`, `Answer` or `CallRaises`, `OpenClient`, `Post` or `PostRaises`, `ReadAnswer` or
`AnswerLost`, `SaveReport` or `SaveRaises`. `Raise` sends an exception where the one
except clause of `run()` does: to the handler, or past it to a traceback (exit code 1
without a report). `Cancel` is the runner stopping the job; `Rerun` another attempt at
the same event, on a disk that may still hold the last report. A finding is its
deduplication key; `Outside` are those GitHub refuses, and one of them is enough to
lose the whole review.

`ReviewJob` says what the job promises: one review per attempt at most, none after the
end, green only after a review or with nothing to review. `Job` maps the runner to it.

### EvalHarness

An evaluation set is generated line by line: each action of `ReadDiff` reads one kind
of diff line and keeps the number the code counts (`current_line_num`) beside the
number the line has (`real`); `extra` and `missed` count, for each hunk, the lines that
were counted and should not have been, and the reverse. What a line is about is the set of
rules that match it and of issues planted on it. A rule does not report what an earlier
finding of the same number has in its comment; `Guard` gives for each rule the rules whose
comments hold the words it looks for: its own for most, that of `items[` for the range
rule, none for the division rule, whose own comment has no such word. `Review` is the
rules or the model with its fallback, `MatchFinding` one turn of `_compute_metrics`,
`NextEntry` the sums of the report, with the variable `cat` as Python leaves it.

---

## 3. The runs

Passing runs:

| Run | Instance | Distinct states | What it shows |
|---|---|---|---|
| `pipeline` | one run of a private repository, up to 3 findings | 3,901 | the promises of section 1 under every exception and death; refinement; every run ends |
| `worker_pool` | 2 deliveries, 2 slots, no crash | 123,116 | two reviews that wait for Semgrep hold every slot, and both still end, as does every Semgrep task |
| `worker_crash` | 1 delivery, 2 slots, 1 crash | 52,339 | redelivery loses nothing, attempts do not overlap, a second review needs the crash |
| `breaker` | 3 callers, threshold 3, timeout 3, one counted and one uncounted class of an outage and of answers, 2 escapes counted | 4,812 | any interleaving of calls; outage and recovery |
| `llm` | 1 review at a time, 3 diffs, room for 2 entries, threshold 3 | 325,656 | cache, retry and breaker together |
| `intake` | one delivery sent twice and one sent once, 2 processes x 2 threads, with Redis and without | 91,524 | deduplication under every interleaving and failure |
| `findings` | two lists of up to 3 of 4 findings, limits 0, 1, 2, every flag and set of categories | 5,390,442 | the filters as a whole |
| `client` | token life 8, margin 3, JWT life and limit 3, drift and latency 1, time to 20, 2 requests | 1,974,159 | tokens are valid on arrival and kept while they are; when a JWT is not |
| `feedback` | 2 tasks for 1 comment, 1 reactor and one without a login, 2 reactions, 1 API request | 224,073 | one row per reactor; "completed" is true; tasks end |
| `gha` | 3 findings (plain, ignored, outside the diff), 2 attempts | 139,428 | green, report and pull request agree; refinement; attempts end |
| `eval` | 2 entries, 5 diff lines, 3 matches or issues per entry, 3 rules in 2 categories | 1,871,365 | numbering, matching and counting as a whole |

One run ends in a counterexample (section 6): `silent_failure`.

Why the bounds are enough.

- *pipeline*: runs read nothing of one another in this module, so one run shows
  all of them. A private run takes both branches of `UpsertStage`. Three findings
  allow fewer, as many and more comments in GitHub's answer than findings.
- *worker_pool*: two slots are the deployed pool size, and two deliveries fill it.
  Findings are bounded by zero because no property of the worker depends on their
  number.
- *worker_crash*: one crash gives two attempts, which is what the properties relate;
  for the safety properties the proofs cover any number of crashes. Two slots let the
  Semgrep task of the first attempt run beside the second attempt.
- *breaker*: three is the threshold of the provider's breaker. Three callers are
  enough for a probe, a late success and a late failure at the same time. The
  timeout only has to be longer than one tick. `MaxEscapes` caps a history variable: two
  escapes let a circuit stay half open over a probe and the next one; beyond the cap
  neither is recorded any more, and the theorem holds for every cap.
- *llm*: three keys for two entries make the store evict; a review calls at most
  twice, so opening the circuit takes a second review. One class over an answer is
  OpenAI's AttributeError; escapes are not counted, as no property here speaks of them.
- *intake*: the second request may come before, during or after the first, in the
  same process or the other one, or after its key has expired. `MaxKnown` = 1 makes
  the second delivery empty the set. Either delivery may come without an id. The number of expiries is bounded by the
  number of requests, as only a request creates a key.
- *findings*: the four findings differ in file, category or only in severity, so that
  lists hold exact duplicates, neighbours at the same line, findings of one place that are
  not the same, and findings of another file; the
  limits allow none (no limit), one and two. Three of each tool are more than either
  limit, and let one place be reported three times by one tool and fewer by the other.
- *client*: the lives are long enough for a token to be used, to come into its margin
  and to be replaced by a second one, with JWTs that are reused and JWTs that expire
  in between. The margin is the smallest the assumption allows, `2 * MaxDrift +
  Latency`, so that every tick counts; the code's 60 s against seconds of drift and
  latency leaves more room. `JwtLimit` is the JWT's life, as in the code (600 s).
- *feedback*: the hazard needs two tasks between two queries of each other, a reactor
  with both votes and a writer that is no task; each is there once, and so is a voter
  without a login. The page of two
  is as long as the list; a shorter one hides later reactions and was explored too.
- *gha*: findings differ only in whether they are ignored and whether GitHub takes
  them, so one of each kind and their subsets are all answers. The second attempt
  is for the report the first one left.
- *eval*: five lines hold two files with a header and an added line each, or a hunk
  whose numbering slips before an added line; two entries let `cat` be left over. The
  three rules are one that finds its own words (`sql`), one whose words another's comment
  has (`off_by_one`) and that other (`items`); the latter two share a category, so one
  finding can have two issues to choose from, and one number two findings. A rule whose
  words no comment has is left to the proof.

Deadlock checking is off in these runs because every system stops legitimately:
reviews end, and webhooks need not come. That reviews end is stated by the
liveness properties instead.

Properties with more than one actor or step behind them:

- `ImplementsLifecycle`, `ReturnMatchesRow`, `CompletedMeansPosted`: three records of
  one outcome (row, returned dict, metric) and the pull request, over all exits; the
  metric never has the failed ones (section 6).
- `EveryDeliveryEnds`, `SemgrepGetsItsTurn`: liveness of a pool whose tasks wait for
  each other. They hold because the wait is bounded by 30 s, and fail when it is
  not (`SemgrepTimesOut_Never`).
- `SecondReviewNeedsCrash`: what late acknowledgement costs.
- `StateAgreesWithCount`, `ProbesBounded`, `OpenEndsByProbe`: with overlapping calls
  whose results come in any order, and calls whose results are not counted.
- `OutageOpens`, `Recovers`: the ends an outage can have, and what recovery takes.
- `OneReviewCannotOpen`: relates the corrective retry of one module to the threshold
  of another.
- `OneTaskPerWindow`, `DuplicateHasOriginal`, `EternalKeyHasCause`, `SentIsQueued`.
- `AgreementSurvives`, `PostedIsAllowed`, `NothingLost`: the composition of filters
  written separately.
- `OneVotePerReactor`: the constraint of the table would allow two rows; what prevents
  them is that all tasks come to a reactor's oldest vote first.
- `TokenArrivesAlive`, `NoEarlyExchange`: the two sides of the margin, against drift that
  changes between the look at the clock and the arrival. `FreshJwtIsHonoured`: when a JWT
  just made is refused, on a clock that is ahead.
- `GreenMeansReviewed`, `ReportAgreesWithReview`: exit code, report and pull request over
  all exits, cancellation and a second attempt.
- `PlantedIssueIsFound`, `CategoriesAddUp`: from a diff's lines to the figures of the
  report; the first says exactly which issues are credited, slipped numbers included.

The invariants of types, and a few that follow from less (`CommentsOnlyOfPostedReview`,
`ClosedRowIsFinal`, `AckedOnlyAfterEnd`, `NothingIsRetried`, `AbandonedRowStays`,
`AcceptedIsQueued`, `MemoryBounded`, `DrivesBreaker`), are proved (section 5) and not in a
configuration.

---

## 4. Fairness

Fairness is assumed of steps that need nothing but time, never of a fault, a
webhook, a crash, an operator or the recovery of a dependency.

- `ReviewPipeline.FairSpec`: weak fairness of `Progress(r)`. HTTP calls and SDKs have
  timeouts, the wait for Semgrep ends after 30 s, and each stage is a finite
  computation. The Semgrep task is *not* assumed to run.
- `ReviewWorker.WFairSpec`: also `Take`, `TakeSemgrep` and `Ack` (the worker serves
  all three queues and acknowledges) and `EndSemgrep` (its subprocess has a timeout
  of 120 s). Weak fairness of `Take` is enough because slots that become free stay
  free until somebody takes them and the number of tasks is finite.
- `CircuitBreaker.FairSpec`: time passes, an admitted call ends, and callers keep
  calling. Nothing makes the dependency change. `Recovers` assumes in its own
  premise that the dependency is back and its answers can be read (`misreads = {}`).
- `LLMReview.LFairSpec`: a review that began goes on, and time passes. Reviews need
  not come.
- `WebhookIntake.FairSpec`: a request that was sent is given a thread and its thread
  runs. This leaves out a Redis that accepts connections and never answers: the
  client there has a connect timeout but no socket timeout (`views.py:43`).
- `FeedbackCapture.FairSpec`: a queued task is begun and its queries and its call end.
  Nothing makes people, the API or the review task act.
- `GhaRunner.FairSpec`: the process runs on; git, the SDKs and httpx have timeouts.
- `GitHubClient` and `EvalHarness` state no liveness and assume no fairness.

---

## 5. The proofs

Every theorem is proved for all values of the constants under the named
assumptions (`PipelineAssumption`, `WorkerAssumption`, `BreakerAssumption`,
`CacheAssumption`, `IntakeAssumption`, `FeedbackAssumption`, `GhaAssumption`,
`FindingsAssumption`, `EvalAssumption`), which say only that sizes and limits are natural
numbers, that sets of callers, diffs and rules are finite, and how runs and findings are
named; that an empty login is no user's; and that the words a rule's guard looks for are
in comments of its own category only. Every safety property that a passing run checks is
stated by a theorem. `ClientAssumption` says more, and has to: the drift is at most what
the JWT is set back by, and twice the drift and the latency fit into the margin.

**`ReviewWorkerProofs`, the pipeline** - `TypeCorrect`, `CompletedWasPosted`, `CommentsWerePosted`,
`ReturnsClosed`, `SkipIsTraceless`, `ClosedIsFinal`, `Refinement`. None of the
properties is inductive alone. The invariant `Inv` adds, for each value of the
program counter, what is known there: which row exists, whether a review can be on
the pull request, that the handler is reached only with an open or no row, that
`stored` stays zero before "store". It is preserved action by action; the action
property and the refinement follow from `Inv` and one step.

**`ReviewWorkerProofs`, the worker** - first `WorkerRunsPipeline`: a step of the worker is a step of
the pipeline or leaves its variables alone, so all theorems above hold of every run in a
worker with crashes. Then `OneLiveRun`, `LateAcknowledgement`, `NoRetry`,
`AbandonedStays`, `SecondReview` and `WorkerTypeCorrect`. The invariant `WInv` says
that attempts beyond the counter have not begun, that only the latest attempt of an
unacknowledged message is alive, and that a message is handed out once more than
the worker crashed at most. `SecondReview` then needs that the runs of a delivery that posted
are among its attempts, and counts them.

**`LLMReviewProofs`, the breaker** - `TypeCorrect`, `CountAgrees`, `ProbesAreBounded`,
`OpenEndsOnlyByProbe`. The bound on probes follows from a stronger invariant: while
the circuit is half open, every probe admitted so far still waits for its answer or has
escaped, so there are no more than callers in a call and calls that escaped. It needs no
premise on what the client raises.

**`LLMReviewProofs`, the reviews** - `RunsBreaker`: the reviews drive the breaker as its
specification allows, hence `CountAgrees` and the others hold of the provider's
circuit. `CacheIsValidated` rests on what `outcome` can be in stage "store".
`NoReviewOpensAlone` rests on `failures + |reviews with one failure| <= 2 * blamed`,
which a review that fails a first time keeps by entering the set, and one that
fails a second time by leaving it. `MemoryKeepsBound` and `StoringServes` rest on
the order `older` being over keys in the store: the entry just stored is younger than every
other, and the half that goes is the older one.

**`WebhookIntakeProofs`** - `TypeCorrect`, `OneTaskPerKey`, `DuplicatesHaveOriginals`,
`EternalKeysHaveCauses`, `AcceptedHasTask`. The
invariant behind `OneTaskPerKey` counts, for a delivery, the requests between the
claim and the queue: tasks queued plus claims on their way never exceed the number of
expired keys plus the one that is there.

`EternalKeysHaveCauses` follows each key from SETNX on to the request that made it, and
`AcceptedHasTask` counts the requests answered 202 against the tasks, delivery by delivery.

**`FeedbackCaptureProofs`** - `TypeCorrect`, `OneVoteEach`, `CompletedIsTrue`. For a pair
of comment and reactor nobody has touched, the reactions on GitHub only grow, and the
oldest vote is the first one in every list a task gets. `RowsAreFirst` says that a row of
such a pair is that vote; two tasks that both want to insert then insert the same
entry, and the constraint refuses the second. Without the order of the list the theorem
is false: that is the argument, and it is not in the code.

**`GhaRunnerProofs`** - `TypeCorrect`, `GreenIsReviewed`, `ReportIsTrue`, `RunnerImplementsJob`.
The invariant says for each point of `run()` whether the review is posted, what the diff
is and what the report of this attempt can be.

**`GitHubClientProofs`** - `TypeCorrect`, `TokensArriveAlive`, `FreshJwtsAreHonoured`,
`ExchangesAreDue`. The invariant bounds the believed end of a token by its true end,
`drift` and the latency of the exchange, and `now` by `looked + Latency` while
something is on its way. `FreshJwtsAreHonoured` is an equivalence: the beginning and the
end of a fresh JWT are always in order on arrival, so its expiry against GitHub's limit
alone decides.

**`FindingsProofs`** - `InvCorrect`, `MergePairsCorrect`, `AgreementSurvivesCorrect`,
`PostedIsAllowedCorrect`, `NothingLostCorrect`, for lists of any length. The four properties
speak of the end of the stage, so the invariant `Inv` has a part for each loop that
relates what it has built to what it has read. What they need:

- merging: the entries confirmed for a finding are as many as the indices used for it
  (`Confirmed`), an entry left to the model means that no unused Semgrep finding is at its
  place, and the entries of any set of findings are those of the model plus those added
  alone (`UnusedInv`);
- `FirstBoth`: of the entries at a place both tools reported, a confirmed one comes
  first. Each loop keeps it: a limit that drops the first entry drops the later ones of the
  file too (`Overfull`), the total limit keeps a prefix, ignoring drops all of a file, and
  deduplication then keeps the confirmed one. This is why `AgreementSurvives` holds, and it
  depends on the order in which the lists are merged;
- `Selected`: what a loop has built is part of what it has read, counted with
  repetitions, so a limit that holds after one loop holds after the next;
- `Taken` and `Overfull`: the loop of the limits has taken as many entries of a file as
  stand wanted before its turn, unless the file is full, and an entry it drops has as many
  before it as the limit admits. For the total limit the same holds of its prefix. This
  is `CutOff`.

**`EvalHarnessProofs`** - `InvCorrect`, `MatchingIsMaximalCorrect`,
`PlantedIssueIsFoundCorrect`, `CategoriesAddUpCorrect`, for any number of entries, lines
and rules. `Numbered` gives each recorded number as the real one plus `extra` less
`missed`. `FoundByRules` is why no guard loses an issue: of the lines of one number with
a rule of a category, the first one reports, or is kept silent by one of the same
category and number before it. The invariant says that at each place and category the pairing so far matched as
many as the smaller of the findings seen and the issues known; that for each category
the issues matched are as many as the true positives counted; and that the sums are
the sums over what was counted. The sum of a column is defined by recursion over a set:
that it exists and grows by what one entry adds is proved by taking the smallest number
of elements for which it would fail (`LeastNumber`), which needs no induction rule.

Model-checked only: all liveness (`EveryRunEnds`, `EveryDeliveryEnds`,
`SemgrepGetsItsTurn`, `Recovers`, `OutageOpens`, `Heals`, `SentIsQueued`, `EveryTaskEnds`,
`EveryAttemptEnds`), as TLAPS has no ENABLED and no fairness. What TLC adds to the proofs
elsewhere is that the states they are about exist: each mutant is found by a run.

---

## 6. Where code and documentation differ

The run `silent_failure` ends in a counterexample: exceptions outside five classes leave
the task and the row stays PROCESSING; a 404 of GitHub is enough
(`workers/pipeline.py:86`). `docs/project/Rules.md:16` says "No silent failures", and so
does `docs/technical/TechSpec.md:128`.

Met while modelling, without a run of their own. In the main modules:

- Celery's TimeoutError is not the builtin one that is caught: a review whose LLM
  findings are complete is lost when Semgrep is slow (`workers/pipeline_stages.py:319`,
  action `SemgrepTimesOut`); `docs/design/AppFlow.md:87` says "Non-fatal skip".
- The empty result of an outage of the provider is posted as "No issues found" and the
  row is COMPLETED (`workers/pipeline_stages.py:236`); `docs/design/AppFlow.md:57` and
  `:89` say FAILED.
- What SDKs and httpx raise is not counted by the breaker (action `Escape`): an outage
  that shows itself only in their classes never opens the circuit
  (`workers/circuit_breaker.py:78`); `docs/technical/TechSpec.md:130` says OPEN. `OutageOpens`
  gives both ends of an outage: the circuit stays away from closed, or it is closed for
  good while nothing is counted.
- A delivery is marked before its task is enqueued: after a failure in between every
  redelivery within the key's lifetime is a "duplicate" of nothing
  (`webhooks/views.py:81`); `webhooks/views.py:33` says "already been processed".
  `SentIsQueued` names these failures.
- A failed review increments no `reviews_total{status="failed"}`: the handler returns
  before the branch for it (`workers/pipeline.py:83-89`, `:119`). The alert on that
  label in `docs/assets/grafana/prometheus-alerts.yml:16-21` cannot fire.
  `ReturnMatchesRow` says so: with the answer "error", `metric` is "none".
- Nothing is retried: the exceptions of `autoretry_for` (`workers/review_worker.py:24`)
  never leave the pipeline (theorem `NoRetry`), so rate limits are not retried as
  `PROJECT_OVERVIEW.md:537` says. It also means that a posted review is never posted
  again by a retry.
- "One probe" of a half-open circuit (`workers/circuit_breaker.py:21`) is more than the
  code ensures. After a probe that escapes uncounted the circuit stays half open and
  admits the next caller, and so on; `ProbesBounded` counts the escapes (theorem
  `ProbesAreBounded`).
- OpenAI's usage has no `input_tokens` (`workers/llm.py:296`): with that provider every
  answer that says what it cost raises AttributeError inside the breaker's call, paid for
  and uncounted, and the run ends with its row PROCESSING. `Recovers` and `Heals` are
  stated for a client that can read the answers.
- A limit in the configuration that is no number raises in `SemgrepStage`
  (`workers/pipeline_stages.py:266`), outside of its try block: the review ends FAILED
  after the model was paid. `DedupeStage`'s clause for it (`:354`) is never reached.
- A created comment without an id is answered 202 "Accepted" and nothing is queued
  (`webhooks/views.py:160-166`); a payload with null where a dictionary is expected, or a
  body that is no UTF-8, is a 500.
- Without Redis, two threads of one process that both look the delivery up before
  either adds it enqueue two tasks: `LookUp`, `LookUp`, `Add`, `Add`, `Route`, `Route`
  reaches `queued` = 2 (`webhooks/views.py:53`). `OneTaskPerWindow` is therefore
  stated for Redis only.
- An outage of Redis ends a webhook with 500; the in-memory set is used only when no
  broker URL is set, not when Redis fails, since redis-py's errors are not caught
  (`webhooks/views.py:49-50`, `docs/technical/TechSpec.md:59`).
- `disable_style_nits` drops the category "style" and not the severity "nit", which
  `workers/feature_flags.py:10-12` promises as well: a nit of another category is posted.
  `PostedIsAllowed` is about categories, as the code is.
- Limits are applied before ignored files and duplicates are removed: a review can be
  posted as clean although unignored findings existed, because ignored ones took
  the places. The stage's docstring has deduplication before the limit
  (`workers/pipeline_stages.py:298`). `NothingLost` counts as the code does: what is missing
  has as many wanted entries before it as a limit admits, ignored and repeated ones included.
- Answers of GitHub with an error status are successes of the breaker.
- A Semgrep task that ends with a KeyError or ValueError empties the list of findings,
  the model's included, and the review is posted as clean: the inner except clause
  does not name these classes, and the outer one starts from nothing
  (`workers/pipeline_stages.py:319`, `:355-356`; `:258` "continues with LLM-only
  findings").
- Such an end is likely: no module named `tasks` exists for `autodiscover_tasks()`
  (`celery_app.py:12`), `webhooks/views.py` imports `review_worker` only, and
  `semgrep_integration` and `feedback_worker` are imported inside functions. A main
  process that has not imported them discards their messages with NotRegistered, a
  KeyError. It depends on Celery and on what else is imported, so the model allows
  both (`SemgrepDiscarded`).
- `PROJECT_OVERVIEW.md:456` starts the worker without `-Q` and another module name;
  such a worker consumes none of the queues "reviews", "feedback" and "default". The
  worker modelled is the one of `docker-compose.yml` and `render.yaml`.

In feedback capture:

- GitHub announces a comment once, when it has no reactions yet, and only that event
  (`webhooks/views.py:149`) starts a task: reactions that come later are not captured,
  though `workers/feedback_worker.py:4` says "Listens for reaction events". The model
  lets people react before the task fetches, and lets messages be repeated.
- Only the first page of reactions is read; an HTTP error or timeout ends as "completed"
  with nothing captured (`workers/github_client.py:199`); an event handled before its
  Comment row is stored is skipped for good.
- Two rows of one reactor, which the API can make, fail every later task for that
  comment with MultipleObjectsReturned. A PATCH that races a DELETE inserts the row again.

In the client:

- A 401 does not drop the token from the cache: one that GitHub has withdrawn is sent
  again until its believed end (`workers/token_manager.py:80`).
- The exchange goes around the breaker, and an error's body is read as an answer:
  `KeyError: 'token'`, which `get_file_content` takes for a missing file.
- A JWT that is reused has no margin (`workers/token_manager.py:63`); `FreshJwtIsHonoured`
  is stated for one made for the exchange, and the kept one may be refused.
- A JWT's beginning is set back "to avoid clock drift" (`workers/token_manager.py:51`), its
  end is not: it is exactly as far off as GitHub allows (600 s), so a host clock that is
  ahead by more than the request takes gets every fresh JWT refused. `FreshJwtIsHonoured`
  says when.

In the action runner:

- In a checkout of depth one neither git diff works, `get_diff()` returns "" and the job
  ends green with a completed report and no review (`workers/gha_runner.py:115-137`):
  the exception that `GreenMeansReviewed` makes.
- What httpx, the SDKs and subprocess raise passes the except clause (`:505`): a
  traceback and no report. OpenAI's usage has no `input_tokens` (`:213`), so every
  answer that says what it cost ends so.
- An answer that is no JSON is posted as "The code looks clean!" (`:270`), and one finding
  at a line GitHub refuses loses the whole review (a `None` line becomes 1, `:458`).
- A payload that is no UTF-8, or whose `pull_request` is null, is a traceback and not the
  error message of `main()` (`:536`, `:359-360`).
- The token is looked at after the model was paid (`:453`), and the handler saves its
  report outside of any try block (`:511`).

In the evaluation runner:

- "\ No newline at end of file" after a removed line counts as a line, and an added
  line that begins with "++" does not (`analyzers.py:117-123`): later numbers of the hunk
  slip, and an issue planted there is missed unless another line slips to its number.
  `PlantedIssueIsFound` says which.
- Two guards against repeated findings look for words in lower case that their own comments
  do not have (`analyzers.py:203`, `:240`): the range rule is silent after a finding of
  `items[` of the same number instead, the division rule never. No issue is lost by it,
  as both are of one category; a line may be reported twice.
- Findings of every file carry the path of the diff's first one (`analyzers.py:259`).
- In live mode an entry the model could not review is scored with the rules' findings,
  while the report says live (`runners.py:224-228`).
- False positives are counted under the category `cat` was left with
  (`runners.py:138-139`); when it has no value yet, the report fails with
  UnboundLocalError. The sums agree all the same, which is what `CategoriesAddUp` shows.

---

## 7. What is not modelled, and why

- Payloads and their formatting: prompts, review bodies, diffs, request
  construction, the conversion of Semgrep's output, glob matching, the HMAC.
- Queries and rendering: REST serializers, statistics, dashboard, frontend.
- Settings, logging, metrics endpoints, migrations, CI scripts: no state of their
  own beyond the constants named above.
- `services/notification_service.py`: no part of the program calls it.
- `circuit_breaker.py` in the repository's root: imported by no part of the program.
- `Repo.config`, which the API (`api/views.py:44-60`) and the dashboard
  (`dashboard/views.py:129-147`) read, change and write in full: the last writer wins,
  an unchecked box of the dashboard's form resets the opt-in, and nothing in code or
  documentation promises otherwise, so there is no property to check.
- The scripts that build evaluation sets from GitHub or fixtures, and `run_comparison.py`,
  which repeats the runner per provider.
- Two deliveries of one pull request that are reviewed at the same time: each has its
  own row and run, and nothing in the code relates them.

Abstractions to keep in mind: database writes are atomic and visible at once;
`PullRequest` rows are part of `UpsertStage`'s single step; the soft time limit may
strike at the start of any step, not in the middle of one; the order of messages in
a queue is free.

---

## 8. Plan

Done, in the order of importance: pipeline and lifecycle, worker, breaker, intake,
provider and cache, findings, client and tokens, feedback, action runner, evaluation
runner; the theorems of section 5.

Left:

1. a composition of intake and worker over one broker: a pull request's deliveries from
   webhook to posted review, and what two at the same time may do;
2. the configuration of a repository, once the code says what two writers may expect;
3. safety lemmas the liveness properties rest on, such as the measure that falls with each
   step of a run.
