------------------------------ MODULE GhaRunner ------------------------------
(***************************************************************************)
(* workers/gha_runner.py: the whole review as one step of a GitHub Actions *)
(* job, without Django, Celery or a database.  One process, no retry of    *)
(* its own; what makes it hard is where it can stop: run() has one except  *)
(* clause for RuntimeError, OSError, ValueError and TypeError, and what    *)
(* httpx, the SDKs and subprocess raise passes it by.  The runner may      *)
(* cancel the job anywhere, and people rerun it.                           *)
(*                                                                         *)
(* A finding is its deduplication key (file, line, category), so           *)
(* deduplicate() is what makes the answer a set.                           *)
(***************************************************************************)
EXTENDS Naturals, PyExceptions

CONSTANTS
  Finding,              \* keys of findings
  Ignored,              \* those in files that .sentinel-ignore names
  Outside,              \* those GitHub takes no inline comment for: not a line of the diff
  MaxAttempts           \* bound: runs of the job

ASSUME GhaAssumption ==
  /\ Ignored \subseteq Finding /\ Outside \subseteq Finding
  /\ MaxAttempts \in Nat \ {0}

\* GITHUB_REPOSITORY, GITHUB_EVENT_PATH and the payload it names.
Event == {"no_repository", "no_file", "unreadable", "not_utf8", "not_an_object",
          "other_action", "null_pull_request", "no_number", "pull_request"}

\* What an attempt finds in its environment and in its checkout.
Environment ==
  [event : Event, base : BOOLEAN, changes : BOOLEAN,
   provider : {"anthropic", "openai", "other"},
   anthropicKey : BOOLEAN, openaiKey : BOOLEAN, token : BOOLEAN]

VARIABLES
  env,                  \* the attempt's Environment
  pc,                   \* where the process is
  diff,                 \* get_diff(): not yet, "" or a diff
  rules,                \* whether file_contents holds .sentinel-ignore
  findings,             \* findings, after parse_findings and the filters
  review,               \* the review this attempt posted, if any: the set of its comments
  reviews,              \* reviews on the pull request
  report,               \* the JSON file under _REPORT_DIR
  faults,               \* history: what failed around this attempt
  attempt               \* number of this run of the job

progress == <<diff, rules, findings>>
published == <<review, reviews>>
vars == <<env, pc, progress, published, report, faults, attempt>>

None == "none"
Saving == {"save_empty", "save_no_key", "save", "handler"}
Ended == {"exit0", "exit1", "traceback", "cancelled"}
Running == {"main", "diff_base", "diff_parent", "contents", "key", "call",
            "client", "post", "answer"} \cup Saving
Fault == {"git", "rules", "answer", "report"}
Report == [attempt : 1 .. MaxAttempts, status : {"completed", "failed", "truncated"},
           findings : SUBSET Finding]
NoReport == [attempt |-> 0, status |-> None, findings |-> {}]

TypeOK ==
  /\ env \in Environment
  /\ pc \in Running \cup Ended
  /\ diff \in {None, "empty", "some"}
  /\ rules \in BOOLEAN
  /\ findings \in SUBSET Finding
  /\ review \in {{}} \cup {{comments} : comments \in SUBSET Finding}
  /\ reviews \in Nat
  /\ report \in {NoReport} \cup Report
  /\ faults \in SUBSET Fault
  /\ attempt \in 1 .. MaxAttempts

Init ==
  /\ env \in Environment
  /\ pc = "main"
  /\ diff = None /\ rules = FALSE /\ findings = {}
  /\ review = {} /\ reviews = 0
  /\ report = NoReport
  /\ faults = {} /\ attempt = 1

-----------------------------------------------------------------------------
Goto(from, to) == pc = from /\ pc' = to
\* Where an exception inside run()'s try block takes the process.
Handled(e) == Caught(e, {"RuntimeError", "OSError", "ValueError", "TypeError"})
Raise(from, e) == Goto(from, IF Handled(e) THEN "handler" ELSE "traceback")

\* main(): a file that is missing, not to be opened or no JSON is an exit code of 1; one
\* that is no UTF-8 raises a ValueError that is no JSONDecodeError.
NoPayload ==
  \/ env.event \in {"no_repository", "no_file", "unreadable"} /\ Goto("main", "exit1")
  \/ env.event = "not_utf8" /\ Goto("main", "traceback")

\* run() up to its try block: a payload, or a pull_request in it, that is no object has
\* no get().
Begin ==
  \/ env.event \in {"not_an_object", "null_pull_request"} /\ Goto("main", "traceback")
  \/ env.event = "other_action" /\ Goto("main", "exit0")
  \/ env.event = "no_number" /\ Goto("main", "exit1")
  \/ /\ env.event = "pull_request"
     /\ Goto("main", IF env.base THEN "diff_base" ELSE "diff_parent")

Main ==
  /\ NoPayload \/ Begin
  /\ UNCHANGED <<env, progress, published, report, faults, attempt>>

\* A git process may be missing (OSError), print what is no UTF-8 (ValueError) or take
\* over 30 seconds.
GitRaises == {"OSError", "ValueError", "TimeoutExpired"}

\* git diff <base> HEAD
DiffBase ==
  /\ \/ /\ env.changes /\ diff' = "some"
        /\ Goto("diff_base", "contents") /\ UNCHANGED faults
     \/ /\ ~env.changes /\ UNCHANGED <<diff, faults>>
        /\ Goto("diff_base", "diff_parent")
     \/ /\ faults' = faults \cup {"git"} /\ UNCHANGED diff
        /\ Goto("diff_base", "diff_parent")
     \/ /\ faults' = faults \cup {"git"} /\ UNCHANGED diff
        /\ \E e \in GitRaises : Raise("diff_base", e)
  /\ UNCHANGED <<env, rules, findings, published, report, attempt>>

\* git diff HEAD~1 HEAD: in a checkout of depth one there is no HEAD~1.  What the last
\* commit changes says nothing of the whole pull request.
DiffParent ==
  /\ \/ /\ diff' = "some" /\ UNCHANGED faults
        /\ Goto("diff_parent", "contents")
     \/ /\ diff' = "empty" /\ faults' \in {faults, faults \cup {"git"}}
        /\ Goto("diff_parent", "save_empty")
     \/ /\ faults' = faults \cup {"git"} /\ UNCHANGED diff
        /\ \E e \in GitRaises : Raise("diff_parent", e)
  /\ UNCHANGED <<env, rules, findings, published, report, attempt>>

\* Files are read as they are in the checkout; one that cannot be read is left out,
\* .sentinel-ignore too.  Looking for one may raise.
Contents ==
  /\ \/ rules' = TRUE /\ UNCHANGED faults /\ Goto("contents", "key")
     \/ rules' = FALSE /\ faults' = faults \cup {"rules"} /\ Goto("contents", "key")
     \/ UNCHANGED <<rules, faults>> /\ Raise("contents", "OSError")
  /\ UNCHANGED <<env, diff, findings, published, report, attempt>>

\* LLM_PROVIDER=openai without its key falls back to Anthropic where there is a key.
CallsOpenAI == env.provider = "openai" /\ env.openaiKey

\* Mutant of Key: without a key there is nothing to do, as in a pull request from a fork.
Key_Skips ==
  /\ IF CallsOpenAI \/ env.anthropicKey
     THEN Goto("key", "call")
     ELSE Goto("key", "save_empty")
  /\ UNCHANGED <<env, progress, published, report, faults, attempt>>

Key ==
  /\ IF CallsOpenAI \/ env.anthropicKey
     THEN Goto("key", "call")
     ELSE Goto("key", "save_no_key")
  /\ UNCHANGED <<env, progress, published, report, faults, attempt>>

\* The answer is parsed and filtered; one that is no JSON, or not of the schema, is the
\* same as one with no findings.
Kept(answer) == IF rules THEN answer \ Ignored ELSE answer
Answer ==
  /\ Goto("call", "client")
  /\ \E answer \in SUBSET Finding : findings' = Kept(answer)
  /\ UNCHANGED <<env, diff, rules, published, report, faults, attempt>>

CallRaisesWhat ==
  {"ProviderError", "ImportError", "IndexError", "AttributeError", "TypeError"}

\* Mutant of CallRaises: a call that fails is made again, with a key that is there.
CallRaises_Retries ==
  /\ Goto("call", "key")
  /\ UNCHANGED <<env, progress, published, report, faults, attempt>>

\* The SDK fails after its own retries, is not installed, or answers with no content.
\* OpenAI's usage has no input_tokens: every answer that says what it cost raises.
CallRaises ==
  /\ \E e \in CallRaisesWhat : Raise("call", e)
  /\ UNCHANGED <<env, progress, published, report, faults, attempt>>

\* Mutant of OpenClient: the report is saved before the review is posted.
OpenClient_SavesReport ==
  /\ IF env.token THEN Goto("client", "post") ELSE Raise("client", "RuntimeError")
  /\ report' = [attempt |-> attempt, status |-> "completed", findings |-> findings]
  /\ UNCHANGED <<env, progress, published, faults, attempt>>

\* GHAClient(): the token is looked at after the model was paid.
OpenClient ==
  /\ IF env.token THEN Goto("client", "post") ELSE Raise("client", "RuntimeError")
  /\ UNCHANGED <<env, progress, published, report, faults, attempt>>

\* GitHub takes all comments of a review or none.
Accepted == findings \cap Outside = {}
Published == review' = {findings} /\ reviews' = reviews + 1

Post ==
  /\ Goto("post", "answer") /\ Accepted
  /\ Published
  /\ UNCHANGED <<env, progress, report, faults, attempt>>

\* raise_for_status() and the transport: GitHub refused, or was not reached.
PostRaises ==
  /\ \E e \in {"HTTPStatusError", "TransportError"} : Raise("post", e)
  /\ UNCHANGED <<env, progress, published, report, faults, attempt>>

ReadAnswer ==
  /\ Goto("answer", "save")
  /\ UNCHANGED <<env, progress, published, report, faults, attempt>>

\* Mutant of AnswerLost: a request that fails is sent once more.
AnswerLost_SendsAgain ==
  /\ Goto("answer", "post")
  /\ faults' = faults \cup {"answer"}
  /\ UNCHANGED <<env, progress, published, report, attempt>>

\* GitHub has the review, and its answer does not arrive or is no JSON.
AnswerLost ==
  /\ \E e \in {"TransportError", "ValueError"} : Raise("answer", e)
  /\ faults' = faults \cup {"answer"}
  /\ UNCHANGED <<env, progress, published, report, attempt>>

\* The four calls of save_report(), and how run() ends after each.
StatusSaved == IF pc \in {"save_empty", "save"} THEN "completed" ELSE "failed"
ReportSaved == IF pc = "save" THEN findings ELSE {}
SaveReport ==
  /\ pc \in Saving
  /\ report' = [attempt |-> attempt, status |-> StatusSaved, findings |-> ReportSaved]
  /\ pc' = IF StatusSaved = "completed" THEN "exit0" ELSE "exit1"
  /\ UNCHANGED <<env, progress, published, faults, attempt>>

\* The disk is full or the directory is another user's: the file is as it was, or cut
\* short.  The handler saves again, outside of any try block.
SaveRaises ==
  /\ pc \in Saving
  /\ faults' = faults \cup {"report"}
  /\ \/ UNCHANGED report
     \/ report' = [attempt |-> attempt, status |-> "truncated", findings |-> {}]
  /\ pc' = IF pc = "handler" THEN "traceback" ELSE "handler"
  /\ UNCHANGED <<env, progress, published, attempt>>

\* The runner cancels the job or reaches its time limit.
Cancel ==
  /\ pc \in Running /\ pc' = "cancelled"
  /\ UNCHANGED <<env, progress, published, report, faults, attempt>>

\* Another attempt at the same event and commit, perhaps after a secret was set.  A
\* hosted runner starts with an empty disk, a self-hosted one may still have the report.
Rerun ==
  /\ pc \in Ended /\ attempt < MaxAttempts
  /\ attempt' = attempt + 1
  /\ pc' = "main"
  /\ env' \in {e \in Environment :
                /\ e.event = env.event /\ e.base = env.base
                /\ e.changes = env.changes}
  /\ diff' = None /\ rules' = FALSE /\ findings' = {}
  /\ review' = {} /\ UNCHANGED reviews
  /\ report' \in {report, NoReport}
  /\ faults' = {}

-----------------------------------------------------------------------------
Progress ==
  \/ Main \/ DiffBase \/ DiffParent \/ Contents \/ Key \/ Answer \/ CallRaises
  \/ OpenClient \/ Post \/ PostRaises \/ ReadAnswer \/ AnswerLost \/ SaveReport \/ SaveRaises

Next == Progress \/ Cancel \/ Rerun

Spec == Init /\ [][Next]_vars

\* The process runs on: git, the SDKs and httpx end each call, with an exception at worst.
FairSpec == Spec /\ WF_vars(Progress)

-----------------------------------------------------------------------------
(* Properties.                                                              *)

NothingDue == env.event = "other_action" \/ diff = "empty"

\* The job as ReviewJob sees it.
Job == INSTANCE ReviewJob WITH
  result <- IF pc \in Running THEN "running" ELSE IF pc = "exit0" THEN "green" ELSE "red",
  idle <- NothingDue,
  published <- review # {},
  reviews <- reviews

\* At most one review per attempt, posted while the attempt runs, and green only after
\* that or with nothing to review (gha_runner.py:345-512).
ImplementsJob == Job!Spec

\* A green job is a reviewed one: where the pull request changes something against its
\* base, it takes a git command that failed to end with exit code 0 and no review
\* (gha_runner.py:115-137 and 378-383).
GreenMeansReviewed ==
  pc = "exit0" /\ env.event = "pull_request" /\ env.base /\ env.changes
    => review # {} \/ "git" \in faults

\* The artifact agrees with GitHub: a completed report of this attempt lists what the
\* posted review comments on, or nothing when none was due; one that says failed beside
\* a posted review, or an exit code of 1, takes a lost answer or a report that could
\* not be written (gha_runner.py:452-512).
ReportAgreesWithReview ==
  /\ report.attempt = attempt /\ report.status = "completed"
       => IF diff = "empty" THEN review = {} /\ report.findings = {}
          ELSE review = {report.findings}
  /\ review # {} /\ pc \in {"exit1", "traceback"} => faults \cap {"answer", "report"} # {}

\* Every attempt comes to an end.
EveryAttemptEnds == pc \in Running ~> pc \in Ended
=============================================================================
