--------------------------- MODULE GhaRunnerProofs ---------------------------
(***************************************************************************)
(* Proofs about GhaRunner, for any findings and any number of attempts.    *)
(* The invariant says what is known at each place of the program.          *)
(***************************************************************************)
EXTENDS GhaRunner, TLAPS

Before == {"main", "diff_base", "diff_parent"}
WithDiff == {"contents", "key", "call", "client", "post", "answer", "save", "save_no_key"}

\* What get_diff has come to, place by place.
DiffInv ==
  /\ pc \in Before => diff = None
  /\ pc \in WithDiff => diff = "some"
  /\ pc = "save_empty" => diff = "empty"
  /\ pc \in Running \ {"main"} => env.event = "pull_request"

\* A failed git command is behind an empty diff of a pull request that changes something.
GitInv ==
  env.base /\ env.changes /\ (pc = "diff_parent" \/ diff = "empty") => "git" \in faults

\* Where there is a review, and whose fault it is when the attempt fails after it.
ReviewInv ==
  /\ pc \in {"answer", "save"} => review = {findings}
  /\ review # {} => diff = "some"
  /\ pc \in Running \ {"answer", "save", "handler"} => review = {}
  /\ pc \in {"handler", "exit1", "traceback"} /\ review # {} => faults \cap {"answer", "report"} # {}

\* How a green attempt got there.
GreenInv ==
  pc = "exit0" => env.event = "other_action" \/ diff = "empty" \/ review # {}

\* The report of this attempt is written as its last act, or was cut short.
ReportInv ==
  /\ report.attempt = attempt =>
       /\ pc \in {"exit0", "exit1", "handler", "traceback", "cancelled"}
       /\ pc \in {"handler", "traceback", "cancelled"} => report.status = "truncated"
       /\ report.status = "completed" =>
            IF diff = "empty" THEN review = {} /\ report.findings = {}
            ELSE review = {report.findings}
  /\ report.attempt <= attempt

Inv == TypeOK /\ DiffInv /\ GitInv /\ ReviewInv /\ GreenInv /\ ReportInv
Parts == DiffInv /\ GitInv /\ ReviewInv /\ GreenInv /\ ReportInv

USE DEF Running, Ended, Saving, None, NoReport

LEMMA InitInv == Init => Inv
<1> SUFFICES ASSUME Init PROVE Inv
  OBVIOUS
<1>1. TypeOK
  <2>1. rules \in BOOLEAN
    BY DEF Init
  <2>2. /\ env \in Environment /\ pc \in Running \cup Ended
        /\ diff \in {None, "empty", "some"} /\ findings \in SUBSET Finding
        /\ review \in {{}} \cup {{comments} : comments \in SUBSET Finding}
        /\ reviews \in Nat
    BY DEF Init
  <2>3. report \in {NoReport} \cup Report /\ faults \in SUBSET Fault /\ attempt \in 1 .. MaxAttempts
    BY GhaAssumption DEF Init
  <2>4. QED
    BY <2>1, <2>2, <2>3 DEF TypeOK
<1>2. Parts
  BY GhaAssumption DEF Init, Parts, DiffInv, GitInv, ReviewInv, GreenInv, ReportInv, Before,
     WithDiff
<1>3. QED
  BY <1>1, <1>2 DEF Inv, Parts

LEMMA MainInv == ASSUME Inv, Main PROVE Inv'
<1> USE GhaAssumption DEF Inv
<1>1. TypeOK'
  BY DEF Main, NoPayload, Begin, Goto, TypeOK, Fault, Report, progress, published
<1>2. DiffInv' /\ GitInv'
  BY DEF Main, NoPayload, Begin, Goto, TypeOK, DiffInv, GitInv, Before, WithDiff, progress,
     published
<1>3. ReviewInv' /\ GreenInv'
  BY DEF Main, NoPayload, Begin, Goto, TypeOK, DiffInv, ReviewInv, GreenInv, Before, WithDiff, progress,
     published
<1>4. ReportInv'
  BY DEF Main, NoPayload, Begin, Goto, TypeOK, DiffInv, ReviewInv, ReportInv, Before, WithDiff, progress,
     published
<1>5. QED
  BY <1>1, <1>2, <1>3, <1>4

LEMMA DiffBaseInv == ASSUME Inv, DiffBase PROVE Inv'
<1> USE GhaAssumption DEF Inv
<1>1. TypeOK'
  BY DEF DiffBase, Goto, Raise, GitRaises, TypeOK, Fault, Report, progress, published
<1>2. DiffInv' /\ GitInv'
  BY DEF DiffBase, Goto, Raise, GitRaises, TypeOK, DiffInv, GitInv, Before, WithDiff, progress,
     published
<1>3. ReviewInv' /\ GreenInv'
  BY DEF DiffBase, Goto, Raise, GitRaises, TypeOK, DiffInv, ReviewInv, GreenInv, Before, WithDiff, progress,
     published
<1>4. ReportInv'
  BY DEF DiffBase, Goto, Raise, GitRaises, TypeOK, DiffInv, ReviewInv, ReportInv, Before, WithDiff, progress,
     published
<1>5. QED
  BY <1>1, <1>2, <1>3, <1>4

LEMMA DiffParentInv == ASSUME Inv, DiffParent PROVE Inv'
<1> USE GhaAssumption DEF Inv
<1>1. TypeOK'
  BY DEF DiffParent, Goto, Raise, GitRaises, TypeOK, Fault, Report, progress, published
<1>2. DiffInv' /\ GitInv'
  BY DEF DiffParent, Goto, Raise, GitRaises, TypeOK, DiffInv, GitInv, Before, WithDiff, progress,
     published
<1>3. ReviewInv' /\ GreenInv'
  BY DEF DiffParent, Goto, Raise, GitRaises, TypeOK, DiffInv, ReviewInv, GreenInv, Before, WithDiff, progress,
     published
<1>4. ReportInv'
  BY DEF DiffParent, Goto, Raise, GitRaises, TypeOK, DiffInv, ReviewInv, ReportInv, Before, WithDiff, progress,
     published
<1>5. QED
  BY <1>1, <1>2, <1>3, <1>4

LEMMA ContentsInv == ASSUME Inv, Contents PROVE Inv'
<1> USE GhaAssumption DEF Inv
<1>1. TypeOK'
  BY DEF Contents, Goto, Raise, TypeOK, Fault, Report, progress, published
<1>2. DiffInv' /\ GitInv'
  BY DEF Contents, Goto, Raise, TypeOK, DiffInv, GitInv, Before, WithDiff, progress,
     published
<1>3. ReviewInv' /\ GreenInv'
  BY DEF Contents, Goto, Raise, TypeOK, DiffInv, ReviewInv, GreenInv, Before, WithDiff, progress,
     published
<1>4. ReportInv'
  BY DEF Contents, Goto, Raise, TypeOK, DiffInv, ReviewInv, ReportInv, Before, WithDiff, progress,
     published
<1>5. QED
  BY <1>1, <1>2, <1>3, <1>4

LEMMA KeyInv == ASSUME Inv, Key PROVE Inv'
<1> USE GhaAssumption DEF Inv
<1>1. TypeOK'
  BY DEF Key, Goto, TypeOK, Fault, Report, progress, published
<1>2. DiffInv' /\ GitInv'
  BY DEF Key, Goto, TypeOK, DiffInv, GitInv, Before, WithDiff, progress,
     published
<1>3. ReviewInv' /\ GreenInv'
  BY DEF Key, Goto, TypeOK, DiffInv, ReviewInv, GreenInv, Before, WithDiff, progress,
     published
<1>4. ReportInv'
  BY DEF Key, Goto, TypeOK, DiffInv, ReviewInv, ReportInv, Before, WithDiff, progress,
     published
<1>5. QED
  BY <1>1, <1>2, <1>3, <1>4

LEMMA AnswerInv == ASSUME Inv, Answer PROVE Inv'
<1> USE GhaAssumption DEF Inv
<1>1. TypeOK'
  BY DEF Answer, Goto, Kept, TypeOK, Fault, Report, progress, published
<1>2. DiffInv' /\ GitInv'
  BY DEF Answer, Goto, Kept, TypeOK, DiffInv, GitInv, Before, WithDiff, progress,
     published
<1>3. ReviewInv' /\ GreenInv'
  BY DEF Answer, Goto, Kept, TypeOK, DiffInv, ReviewInv, GreenInv, Before, WithDiff, progress,
     published
<1>4. ReportInv'
  BY DEF Answer, Goto, Kept, TypeOK, DiffInv, ReviewInv, ReportInv, Before, WithDiff, progress,
     published
<1>5. QED
  BY <1>1, <1>2, <1>3, <1>4

LEMMA CallRaisesInv == ASSUME Inv, CallRaises PROVE Inv'
<1> USE GhaAssumption DEF Inv
<1>1. TypeOK'
  BY DEF CallRaises, Goto, Raise, CallRaisesWhat, TypeOK, Fault, Report, progress, published
<1>2. DiffInv' /\ GitInv'
  BY DEF CallRaises, Goto, Raise, CallRaisesWhat, TypeOK, DiffInv, GitInv, Before, WithDiff, progress,
     published
<1>3. ReviewInv' /\ GreenInv'
  BY DEF CallRaises, Goto, Raise, CallRaisesWhat, TypeOK, DiffInv, ReviewInv, GreenInv, Before, WithDiff, progress,
     published
<1>4. ReportInv'
  BY DEF CallRaises, Goto, Raise, CallRaisesWhat, TypeOK, DiffInv, ReviewInv, ReportInv, Before, WithDiff, progress,
     published
<1>5. QED
  BY <1>1, <1>2, <1>3, <1>4

LEMMA OpenClientInv == ASSUME Inv, OpenClient PROVE Inv'
<1> USE GhaAssumption DEF Inv
<1>1. TypeOK'
  BY DEF OpenClient, Goto, Raise, TypeOK, Fault, Report, progress, published
<1>2. DiffInv' /\ GitInv'
  BY DEF OpenClient, Goto, Raise, TypeOK, DiffInv, GitInv, Before, WithDiff, progress,
     published
<1>3. ReviewInv' /\ GreenInv'
  BY DEF OpenClient, Goto, Raise, TypeOK, DiffInv, ReviewInv, GreenInv, Before, WithDiff, progress,
     published
<1>4. ReportInv'
  BY DEF OpenClient, Goto, Raise, TypeOK, DiffInv, ReviewInv, ReportInv, Before, WithDiff, progress,
     published
<1>5. QED
  BY <1>1, <1>2, <1>3, <1>4

LEMMA PostInv == ASSUME Inv, Post PROVE Inv'
<1> USE GhaAssumption DEF Inv
<1>1. TypeOK'
  BY DEF Post, Goto, Published, TypeOK, Fault, Report, progress, published
<1>2. DiffInv' /\ GitInv'
  BY DEF Post, Goto, Published, TypeOK, DiffInv, GitInv, Before, WithDiff, progress,
     published
<1>3. ReviewInv' /\ GreenInv'
  BY DEF Post, Goto, Published, TypeOK, DiffInv, ReviewInv, GreenInv, Before, WithDiff, progress,
     published
<1>4. ReportInv'
  BY DEF Post, Goto, Published, TypeOK, DiffInv, ReviewInv, ReportInv, Before, WithDiff, progress,
     published
<1>5. QED
  BY <1>1, <1>2, <1>3, <1>4

LEMMA PostRaisesInv == ASSUME Inv, PostRaises PROVE Inv'
<1> USE GhaAssumption DEF Inv
<1>1. TypeOK'
  BY DEF PostRaises, Goto, Raise, TypeOK, Fault, Report, progress, published
<1>2. DiffInv' /\ GitInv'
  BY DEF PostRaises, Goto, Raise, TypeOK, DiffInv, GitInv, Before, WithDiff, progress,
     published
<1>3. ReviewInv' /\ GreenInv'
  BY DEF PostRaises, Goto, Raise, TypeOK, DiffInv, ReviewInv, GreenInv, Before, WithDiff, progress,
     published
<1>4. ReportInv'
  BY DEF PostRaises, Goto, Raise, TypeOK, DiffInv, ReviewInv, ReportInv, Before, WithDiff, progress,
     published
<1>5. QED
  BY <1>1, <1>2, <1>3, <1>4

LEMMA ReadAnswerInv == ASSUME Inv, ReadAnswer PROVE Inv'
<1> USE GhaAssumption DEF Inv
<1>1. TypeOK'
  BY DEF ReadAnswer, Goto, TypeOK, Fault, Report, progress, published
<1>2. DiffInv' /\ GitInv'
  BY DEF ReadAnswer, Goto, TypeOK, DiffInv, GitInv, Before, WithDiff, progress,
     published
<1>3. ReviewInv' /\ GreenInv'
  BY DEF ReadAnswer, Goto, TypeOK, DiffInv, ReviewInv, GreenInv, Before, WithDiff, progress,
     published
<1>4. ReportInv'
  BY DEF ReadAnswer, Goto, TypeOK, DiffInv, ReviewInv, ReportInv, Before, WithDiff, progress,
     published
<1>5. QED
  BY <1>1, <1>2, <1>3, <1>4

LEMMA AnswerLostInv == ASSUME Inv, AnswerLost PROVE Inv'
<1> USE GhaAssumption DEF Inv
<1>1. TypeOK'
  BY DEF AnswerLost, Goto, Raise, TypeOK, Fault, Report, progress, published
<1>2. DiffInv' /\ GitInv'
  BY DEF AnswerLost, Goto, Raise, TypeOK, DiffInv, GitInv, Before, WithDiff, progress,
     published
<1>3. ReviewInv' /\ GreenInv'
  BY DEF AnswerLost, Goto, Raise, TypeOK, DiffInv, ReviewInv, GreenInv, Before, WithDiff, progress,
     published
<1>4. ReportInv'
  BY DEF AnswerLost, Goto, Raise, TypeOK, DiffInv, ReviewInv, ReportInv, Before, WithDiff, progress,
     published
<1>5. QED
  BY <1>1, <1>2, <1>3, <1>4

LEMMA SaveReportInv == ASSUME Inv, SaveReport PROVE Inv'
<1> USE GhaAssumption DEF Inv
<1>1. TypeOK'
  <2>1. report' \in Report
    BY DEF SaveReport, StatusSaved, ReportSaved, TypeOK, Report
  <2>2. pc' \in Ended
    BY DEF SaveReport
  <2>3. QED
    BY <2>1, <2>2 DEF SaveReport, TypeOK, progress, published
<1>2. DiffInv' /\ GitInv'
  BY DEF SaveReport, StatusSaved, ReportSaved, TypeOK, DiffInv, GitInv, Before, WithDiff, progress,
     published
<1>3. ReviewInv' /\ GreenInv'
  BY DEF SaveReport, StatusSaved, ReportSaved, TypeOK, DiffInv, ReviewInv, GreenInv, Before, WithDiff, progress,
     published
<1>4. ReportInv'
  <2>1. CASE pc = "save_empty"
    BY <2>1 DEF SaveReport, StatusSaved, ReportSaved, TypeOK, DiffInv, ReviewInv, ReportInv,
       progress, published
  <2>2. CASE pc = "save"
    BY <2>2 DEF SaveReport, StatusSaved, ReportSaved, TypeOK, DiffInv, ReviewInv, ReportInv,
       WithDiff, progress, published
  <2>3. CASE pc \in {"save_no_key", "handler"}
    BY <2>3 DEF SaveReport, StatusSaved, ReportSaved, TypeOK, ReportInv, progress, published
  <2>4. QED
    BY <2>1, <2>2, <2>3 DEF SaveReport
<1>5. QED
  BY <1>1, <1>2, <1>3, <1>4

LEMMA SaveRaisesInv == ASSUME Inv, SaveRaises PROVE Inv'
<1> USE GhaAssumption DEF Inv
<1>1. TypeOK'
  BY DEF SaveRaises, TypeOK, Fault, Report, progress, published
<1>2. DiffInv' /\ GitInv'
  BY DEF SaveRaises, TypeOK, DiffInv, GitInv, Before, WithDiff, progress,
     published
<1>3. ReviewInv' /\ GreenInv'
  BY DEF SaveRaises, TypeOK, DiffInv, ReviewInv, GreenInv, Before, WithDiff, progress,
     published
<1>4. ReportInv'
  BY DEF SaveRaises, TypeOK, DiffInv, ReviewInv, ReportInv, Before, WithDiff, progress,
     published
<1>5. QED
  BY <1>1, <1>2, <1>3, <1>4

LEMMA CancelInv == ASSUME Inv, Cancel PROVE Inv'
<1> USE GhaAssumption DEF Inv
<1>1. TypeOK'
  BY DEF Cancel, TypeOK, Fault, Report, progress, published
<1>2. DiffInv' /\ GitInv'
  BY DEF Cancel, TypeOK, DiffInv, GitInv, Before, WithDiff, progress,
     published
<1>3. ReviewInv' /\ GreenInv'
  BY DEF Cancel, TypeOK, DiffInv, ReviewInv, GreenInv, Before, WithDiff, progress,
     published
<1>4. ReportInv'
  BY DEF Cancel, TypeOK, DiffInv, ReviewInv, ReportInv, Before, WithDiff, progress,
     published
<1>5. QED
  BY <1>1, <1>2, <1>3, <1>4

LEMMA RerunInv == ASSUME Inv, Rerun PROVE Inv'
<1> USE GhaAssumption DEF Inv
<1>1. TypeOK'
  <2>1. attempt' \in 1 .. MaxAttempts /\ report' \in {NoReport} \cup Report
    BY DEF Rerun, TypeOK
  <2>2. rules' \in BOOLEAN
    BY DEF Rerun
  <2>3. env' \in Environment /\ pc' \in Running
    BY DEF Rerun
  <2>4. QED
    BY <2>1, <2>2, <2>3 DEF Rerun, TypeOK
<1>2. DiffInv' /\ GitInv'
  BY DEF Rerun, TypeOK, DiffInv, GitInv, Before, WithDiff, progress,
     published
<1>3. ReviewInv' /\ GreenInv'
  BY DEF Rerun, TypeOK, DiffInv, ReviewInv, GreenInv, Before, WithDiff, progress,
     published
<1>4. ReportInv'
  <2>1. report'.attempt <= attempt
    BY DEF Rerun, TypeOK, ReportInv
  <2>2. report'.attempt \in Nat
    BY DEF Rerun, TypeOK, Report
  <2>3. report'.attempt < attempt'
    BY <2>1, <2>2 DEF Rerun, TypeOK
  <2>4. QED
    BY <2>2, <2>3 DEF Rerun, TypeOK, ReportInv
<1>5. QED
  BY <1>1, <1>2, <1>3, <1>4

LEMMA StutterInv == ASSUME Inv, UNCHANGED vars PROVE Inv'
BY DEF Inv, TypeOK, DiffInv, GitInv, ReviewInv, GreenInv, ReportInv, vars, progress, published

LEMMA StepInv == Inv /\ [Next]_vars => Inv'
BY MainInv, DiffBaseInv, DiffParentInv, ContentsInv, KeyInv, AnswerInv, CallRaisesInv, OpenClientInv, PostInv, PostRaisesInv, ReadAnswerInv, AnswerLostInv, SaveReportInv, SaveRaisesInv, CancelInv, RerunInv, StutterInv DEF Next, Progress

\* The invariant holds in every reachable state.
THEOREM Invariance == Spec => []Inv
<1>1. Init => Inv
  BY InitInv
<1>2. Inv /\ [Next]_vars => Inv'
  BY StepInv
<1>3. QED
  BY <1>1, <1>2, PTL DEF Spec

\* Every variable keeps its type.
THEOREM TypeCorrect == Spec => []TypeOK
<1>1. Inv => TypeOK
  BY DEF Inv
<1>2. QED
  BY <1>1, Invariance, PTL

\* A pull request that changes something is reviewed before the job ends green, unless a
\* git command failed (gha_runner.py:115-137, 378-383).
THEOREM GreenIsReviewed == Spec => []GreenMeansReviewed
<1>1. Inv => GreenMeansReviewed
  BY DEF Inv, GitInv, GreenInv, GreenMeansReviewed
<1>2. QED
  BY <1>1, Invariance, PTL

\* The report and the exit code agree with what is on the pull request, or the answer or
\* the report was lost (gha_runner.py:452-512).
THEOREM ReportIsTrue == Spec => []ReportAgreesWithReview
<1>1. Inv => ReportAgreesWithReview
  BY DEF Inv, ReviewInv, ReportInv, ReportAgreesWithReview
<1>2. QED
  BY <1>1, Invariance, PTL

-----------------------------------------------------------------------------
(* GhaRunner implements ReviewJob.                                          *)

LEMMA JobInit == Init => Job!Init
BY DEF Init, Job!Init, NothingDue

LEMMA JobPost == ASSUME Inv, Post PROVE Job!Publish
<1>1. review = {} /\ ~NothingDue
  BY DEF Inv, DiffInv, ReviewInv, Post, Goto, WithDiff, NothingDue
<1>2. review' # {} /\ reviews' = reviews + 1
  BY DEF Post, Published
<1>3. pc \in Running /\ pc' \in Running
  BY DEF Post, Goto
<1>4. NothingDue' = NothingDue
  BY DEF Post, NothingDue, progress
<1>5. QED
  BY <1>1, <1>2, <1>3, <1>4 DEF Job!Publish

LEMMA JobMain == ASSUME Inv, Main PROVE [Job!Next]_Job!job
BY DEF Inv, ReviewInv, Main, NoPayload, Begin, Goto, progress, published, Job!Next, Job!Fail, Job!Succeed, Job!job,
   NothingDue

LEMMA JobDiff == ASSUME Inv, DiffBase \/ DiffParent PROVE [Job!Next]_Job!job
BY DEF Inv, DiffInv, ReviewInv, Before, DiffBase, DiffParent, Goto, Raise, published, Job!Next,
   Job!Fail, Job!Discover, Job!job, NothingDue

LEMMA JobRaise ==
  ASSUME Inv, Contents \/ CallRaises \/ OpenClient \/ PostRaises \/ AnswerLost
  PROVE  [Job!Next]_Job!job
BY DEF Contents, CallRaises, OpenClient, PostRaises, AnswerLost, Goto, Raise, progress, published,
   Job!Next, Job!Fail, Job!job, NothingDue

LEMMA JobQuiet == ASSUME Inv, Key \/ Answer \/ ReadAnswer PROVE [Job!Next]_Job!job
BY DEF Key, Answer, ReadAnswer, Goto, progress, published, Job!job, NothingDue

LEMMA JobSave == ASSUME Inv, SaveReport PROVE [Job!Next]_Job!job
BY DEF Inv, DiffInv, ReviewInv, SaveReport, StatusSaved, progress, published, Job!Next, Job!Fail,
   Job!Succeed, Job!job, NothingDue

LEMMA JobSaveRaises == ASSUME Inv, SaveRaises \/ Cancel PROVE [Job!Next]_Job!job
BY DEF SaveRaises, Cancel, progress, published, Job!Next, Job!Fail, Job!job, NothingDue

LEMMA JobRerun == ASSUME Inv, Rerun PROVE Job!Rerun
BY DEF Rerun, Job!Rerun, NothingDue

LEMMA JobStep == Inv /\ [Next]_vars => [Job!Next]_Job!job
<1> SUFFICES ASSUME Inv, [Next]_vars PROVE [Job!Next]_Job!job
  OBVIOUS
<1>1. CASE Post
  BY <1>1, JobPost DEF Job!Next
<1>2. CASE Rerun
  BY <1>2, JobRerun DEF Job!Next
<1>3. CASE UNCHANGED vars
  BY <1>3 DEF vars, progress, published, Job!job, NothingDue
<1>4. QED
  BY <1>1, <1>2, <1>3, JobMain, JobDiff, JobRaise, JobQuiet, JobSave, JobSaveRaises
     DEF Next, Progress

\* Every behaviour of the runner is one ReviewJob allows: at most one review per attempt,
\* none after its end, and green only after a review or with nothing to review.
THEOREM RunnerImplementsJob == Spec => ImplementsJob
<1>1. Init => Job!Init
  BY JobInit
<1>2. Inv /\ [Next]_vars => [Job!Next]_Job!job
  BY JobStep
<1>3. QED
  BY <1>1, <1>2, Invariance, PTL DEF Spec, ImplementsJob, Job!Spec
=============================================================================
