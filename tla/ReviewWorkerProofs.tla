------------------------- MODULE ReviewWorkerProofs -------------------------
(***************************************************************************)
(* Proofs about ReviewPipeline, for every set of runs and every cap on the *)
(* findings: the inductive invariant Inv, the safety properties it implies, *)
(* and the refinement of ReviewLifecycle.  Then about ReviewWorker, which  *)
(* extends it, for every set of deliveries, every pool size and every      *)
(* number of crashes: each step of the worker is a step of ReviewPipeline  *)
(* or leaves it alone, so that what is proved of the pipeline holds in the *)
(* worker, and late acknowledgement keeps at most one run of a delivery    *)
(* alive.                                                                  *)
(***************************************************************************)
EXTENDS ReviewWorker, FiniteSetTheorems, TLAPS

-----------------------------------------------------------------------------
(* ReviewPipeline.                                                          *)

BeforePost == {"diff", "context", "llm", "semgrep", "dedupe", "post"}

Untouched(r) ==
  row[r] = "none" /\ review[r] = "none" /\ llm[r] = "none" /\ semgrep[r] = "none"

Shown(r) == IF merged[r] = 0 THEN "clean" ELSE "inline"

\* What holds of a run at each place, in terms of the row and of the pull request.
PlaceInv(r) ==
  /\ pc[r] \in {"idle", "upsert"} => Untouched(r)
  /\ pc[r] \in BeforePost => row[r] = "processing" /\ review[r] = "none"
  /\ pc[r] \in {"summary", "store"} => row[r] = "processing" /\ review[r] # "none"
  /\ pc[r] = "finalise" =>
       \/ r \in PrivateRun /\ Untouched(r)
       \/ row[r] = "processing" /\ review[r] # "none"
  /\ pc[r] = "handler" => row[r] \in {"none", "processing"}
  /\ pc[r] # "returned" =>
       /\ result[r] = "none" /\ metric[r] = "none"
       /\ row[r] \notin {"completed", "failed"}

\* What relates the effects of a run, wherever it is.
EffectInv(r) ==
  /\ review[r] # "none" => review[r] = Shown(r)
  /\ stored[r] <= merged[r] /\ stored[r] <= reply[r]
  /\ stored[r] > 0 => review[r] # "none"
  /\ review[r] = "none" => stored[r] = 0
  /\ row[r] = "completed" => review[r] # "none" /\ count[r] = stored[r]

ResultInv(r) ==
  /\ pc[r] = "returned" =>
       \/ result[r] = "completed" /\ row[r] = "completed" /\ metric[r] = "completed"
       \/ result[r] = "error" /\ row[r] \in {"none", "failed"} /\ metric[r] = "none"
       \/ result[r] = "skipped" /\ row[r] = "none" /\ metric[r] = "skipped"
  /\ result[r] = "skipped" => r \in PrivateRun /\ Untouched(r)

Inv == TypeOK /\ \A r \in Run : PlaceInv(r) /\ EffectInv(r) /\ ResultInv(r)

-----------------------------------------------------------------------------
(* Exceptions.                                                              *)

LEMMA MayRaiseType ==
  ASSUME TypeOK, NEW r \in Run, pc[r] \in Active
  PROVE  MayRaise(r) \subseteq PyException
<1>1. Raises[pc[r]] \subseteq PyException
  BY DEF Active, Raises, GitHubCall, PyException, OSErrors, ForeignErrors
<1>2. SemgrepGetRaises[semgrep[r]] \subseteq PyException
  BY DEF TypeOK, SemgrepGetRaises, PyException, OSErrors, ForeignErrors
<1>3. "SoftTimeLimit" \in PyException
  BY DEF PyException, ForeignErrors
<1>4. QED
  BY <1>1, <1>2, <1>3 DEF MayRaise

\* An exception either sends the run to the failure handler, which never happens
\* after the loop or in the handler itself, or it leaves the task.
LEMMA RaiseEffect ==
  ASSUME TypeOK, NEW r \in Run, NEW e, Raise(r, e)
  PROVE  \/ /\ pc[r] \notin {"finalise", "handler"}
            /\ pc' = [pc EXCEPT ![r] = "handler"]
            /\ exc' = exc
         \/ /\ pc' = [pc EXCEPT ![r] = "raised"]
            /\ exc' = [exc EXCEPT ![r] = e]
BY DEF Raise, Goto, Handled

-----------------------------------------------------------------------------
(* The invariant.                                                           *)

LEMMA InitInv == Init => Inv
<1>1. ASSUME Init PROVE TypeOK
  BY <1>1, PipelineAssumption DEF Init, TypeOK
<1>2. ASSUME Init, NEW r \in Run PROVE PlaceInv(r) /\ EffectInv(r) /\ ResultInv(r)
  BY <1>2 DEF Init, PlaceInv, EffectInv, ResultInv, Untouched, BeforePost
<1>3. QED
  BY <1>1, <1>2 DEF Inv

LEMMA StepInv ==
  ASSUME Inv, NEW r \in Run
  PROVE  Start(r) \/ Progress(r) \/ Fault(r) \/ BeginSemgrep(r) \/ EndSemgrep(r) => Inv'
<1> USE PipelineAssumption DEF Inv
<1>1. ASSUME Start(r) PROVE Inv'
  <2>1. TypeOK'
    BY <1>1 DEF TypeOK, Active, Ended, Start, Step, Goto, data
  <2>2. ASSUME NEW q \in Run PROVE (PlaceInv(q) /\ EffectInv(q) /\ ResultInv(q))'
    BY <1>1 DEF TypeOK, PlaceInv, EffectInv, ResultInv, Untouched, Shown, BeforePost,
                Active, Ended, Start, Step, Goto, data
  <2>3. QED
    BY <2>1, <2>2
<1>2. ASSUME UpsertStage(r) PROVE Inv'
  <2>1. TypeOK'
    BY <1>2 DEF TypeOK, Active, Ended, UpsertStage, Step, Goto
  <2>2. ASSUME NEW q \in Run PROVE (PlaceInv(q) /\ EffectInv(q) /\ ResultInv(q))'
    BY <1>2 DEF TypeOK, PlaceInv, EffectInv, ResultInv, Untouched, Shown, BeforePost,
                Active, Ended, UpsertStage, Step, Goto
  <2>3. QED
    BY <2>1, <2>2
<1>3. ASSUME FetchDiffStage(r) PROVE Inv'
  <2>1. TypeOK'
    BY <1>3 DEF TypeOK, Active, Ended, FetchDiffStage, Step, Goto, data
  <2>2. ASSUME NEW q \in Run PROVE (PlaceInv(q) /\ EffectInv(q) /\ ResultInv(q))'
    BY <1>3 DEF TypeOK, PlaceInv, EffectInv, ResultInv, Untouched, Shown, BeforePost,
                Active, Ended, FetchDiffStage, Step, Goto, data
  <2>3. QED
    BY <2>1, <2>2
<1>4. ASSUME FetchContextStage(r) PROVE Inv'
  <2>1. TypeOK'
    BY <1>4 DEF TypeOK, Active, Ended, FetchContextStage, Step, Goto, data
  <2>2. ASSUME NEW q \in Run PROVE (PlaceInv(q) /\ EffectInv(q) /\ ResultInv(q))'
    BY <1>4 DEF TypeOK, PlaceInv, EffectInv, ResultInv, Untouched, Shown, BeforePost,
                Active, Ended, FetchContextStage, Step, Goto, data
  <2>3. QED
    BY <2>1, <2>2
<1>5. ASSUME LLMReviewStage(r) PROVE Inv'
  <2>1. TypeOK'
    BY <1>5 DEF TypeOK, Active, Ended, LLMReviewStage, Step, Goto
  <2>2. ASSUME NEW q \in Run PROVE (PlaceInv(q) /\ EffectInv(q) /\ ResultInv(q))'
    BY <1>5 DEF TypeOK, PlaceInv, EffectInv, ResultInv, Untouched, Shown, BeforePost,
                Active, Ended, LLMReviewStage, Step, Goto
  <2>3. QED
    BY <2>1, <2>2
<1>6. ASSUME SemgrepStage(r) PROVE Inv'
  <2>1. TypeOK'
    BY <1>6 DEF TypeOK, Active, Ended, SemgrepStage, Step, Goto
  <2>2. ASSUME NEW q \in Run PROVE (PlaceInv(q) /\ EffectInv(q) /\ ResultInv(q))'
    BY <1>6 DEF TypeOK, PlaceInv, EffectInv, ResultInv, Untouched, Shown, BeforePost,
                Active, Ended, SemgrepStage, Step, Goto
  <2>3. QED
    BY <2>1, <2>2
<1>7. ASSUME BeginSemgrep(r) PROVE Inv'
  <2>1. TypeOK'
    BY <1>7 DEF TypeOK, Active, Ended, BeginSemgrep
  <2>2. ASSUME NEW q \in Run PROVE (PlaceInv(q) /\ EffectInv(q) /\ ResultInv(q))'
    BY <1>7 DEF TypeOK, PlaceInv, EffectInv, ResultInv, Untouched, Shown, BeforePost,
                Active, Ended, BeginSemgrep
  <2>3. QED
    BY <2>1, <2>2
<1>8. ASSUME EndSemgrep(r) PROVE Inv'
  <2>1. TypeOK'
    BY <1>8 DEF TypeOK, Active, Ended, EndSemgrep
  <2>2. ASSUME NEW q \in Run PROVE (PlaceInv(q) /\ EffectInv(q) /\ ResultInv(q))'
    BY <1>8 DEF TypeOK, PlaceInv, EffectInv, ResultInv, Untouched, Shown, BeforePost,
                Active, Ended, EndSemgrep
  <2>3. QED
    BY <2>1, <2>2
<1>9. ASSUME PostCommentsStage(r) PROVE Inv'
  <2>1. TypeOK'
    BY <1>9 DEF TypeOK, Active, Ended, PostCommentsStage, Accepted, Goto
  <2>2. ASSUME NEW q \in Run PROVE (PlaceInv(q) /\ EffectInv(q) /\ ResultInv(q))'
    BY <1>9 DEF TypeOK, PlaceInv, EffectInv, ResultInv, Untouched, Shown, BeforePost,
                Active, Ended, PostCommentsStage, Accepted, Goto
  <2>3. QED
    BY <2>1, <2>2
<1>10. ASSUME PostSummaryComment(r) PROVE Inv'
  <2>1. TypeOK'
    BY <1>10 DEF TypeOK, Active, Ended, PostSummaryComment, Step, Goto, data
  <2>2. ASSUME NEW q \in Run PROVE (PlaceInv(q) /\ EffectInv(q) /\ ResultInv(q))'
    BY <1>10 DEF TypeOK, PlaceInv, EffectInv, ResultInv, Untouched, Shown, BeforePost,
                Active, Ended, PostSummaryComment, Step, Goto, data
  <2>3. QED
    BY <2>1, <2>2
<1>11. ASSUME StoreComment(r) PROVE Inv'
  <2>1. TypeOK'
    BY <1>11 DEF TypeOK, Active, Ended, StoreComment, Goto
  <2>2. ASSUME NEW q \in Run PROVE (PlaceInv(q) /\ EffectInv(q) /\ ResultInv(q))'
    BY <1>11 DEF TypeOK, PlaceInv, EffectInv, ResultInv, Untouched, Shown, BeforePost,
                Active, Ended, StoreComment, Goto
  <2>3. QED
    BY <2>1, <2>2
<1>12. ASSUME Finalise(r) PROVE Inv'
  <2>1. TypeOK'
    BY <1>12 DEF TypeOK, Active, Ended, Finalise, Return, Goto
  <2>2. ASSUME NEW q \in Run PROVE (PlaceInv(q) /\ EffectInv(q) /\ ResultInv(q))'
    BY <1>12 DEF TypeOK, PlaceInv, EffectInv, ResultInv, Untouched, Shown, BeforePost,
                Active, Ended, Finalise, Return, Goto
  <2>3. QED
    BY <2>1, <2>2
<1>13. ASSUME HandleStageFailure(r) PROVE Inv'
  <2>1. TypeOK'
    BY <1>13 DEF TypeOK, Active, Ended, HandleStageFailure, Return, Goto
  <2>2. ASSUME NEW q \in Run PROVE (PlaceInv(q) /\ EffectInv(q) /\ ResultInv(q))'
    BY <1>13 DEF TypeOK, PlaceInv, EffectInv, ResultInv, Untouched, Shown, BeforePost,
                Active, Ended, HandleStageFailure, Return, Goto
  <2>3. QED
    BY <2>1, <2>2
<1>14. ASSUME NEW counts \in SUBSET (0 .. MaxFindings), DedupeTo(r, counts) PROVE Inv'
  <2>1. TypeOK'
    BY <1>14 DEF TypeOK, Active, Ended, DedupeTo, Step, Goto
  <2>2. ASSUME NEW q \in Run PROVE (PlaceInv(q) /\ EffectInv(q) /\ ResultInv(q))'
    BY <1>14 DEF TypeOK, PlaceInv, EffectInv, ResultInv, Untouched, Shown, BeforePost,
                Active, Ended, DedupeTo, Step, Goto
  <2>3. QED
    BY <2>1, <2>2
<1>15. ASSUME DedupeStage(r) \/ SemgrepResultLost(r) PROVE Inv'
  <2>1. /\ 0 .. found[r] \in SUBSET (0 .. MaxFindings)
        /\ 0 .. MaxFindings \in SUBSET (0 .. MaxFindings)
        /\ {0} \in SUBSET (0 .. MaxFindings)
    BY DEF TypeOK
  <2>2. PICK counts \in SUBSET (0 .. MaxFindings) : DedupeTo(r, counts)
    BY <1>15, <2>1 DEF DedupeStage, SemgrepResultLost
  <2>3. QED
    BY <2>2, <1>14
\* A step that raises: nothing changes but, perhaps, the review on GitHub.
<1>16. ASSUME NEW e \in PyException, pc[r] \in Active, Raise(r, e),
              review' = review \/ (pc[r] = "post" /\ Accepted(r)),
              UNCHANGED <<row, llm, found, semgrep, merged, reply, stored, count,
                          result, metric>>
       PROVE  Inv'
  <2>1. \/ pc[r] \notin {"finalise", "handler"} /\ pc' = [pc EXCEPT ![r] = "handler"]
        \/ pc' = [pc EXCEPT ![r] = "raised"]
    BY <1>16, RaiseEffect
  <2>2. exc' = exc \/ exc' = [exc EXCEPT ![r] = e]
    BY <1>16, RaiseEffect
  <2>3. TypeOK'
    BY <1>16, <2>1, <2>2 DEF TypeOK, Active, Ended, Accepted
  <2>4. ASSUME NEW q \in Run PROVE (PlaceInv(q) /\ EffectInv(q) /\ ResultInv(q))'
    BY <1>16, <2>1 DEF TypeOK, PlaceInv, EffectInv, ResultInv, Untouched, Shown,
                BeforePost, Active, Ended, Accepted
  <2>5. QED
    BY <2>3, <2>4
<1>17. ASSUME StageRaises(r) PROVE Inv'
  <2>1. PICK e \in MayRaise(r) : Raise(r, e)
    BY <1>17 DEF StageRaises
  <2>2. pc[r] \in Active /\ e \in PyException
    BY <1>17, MayRaiseType DEF StageRaises
  <2>3. QED
    BY <1>16, <1>17, <2>1, <2>2 DEF StageRaises
<1>18. ASSUME SemgrepTimesOut(r) PROVE Inv'
  <2>1. pc[r] \in Active /\ "CeleryTimeout" \in PyException
    BY <1>18 DEF SemgrepTimesOut, Active, PyException, ForeignErrors
  <2>2. QED
    BY <1>16, <1>18, <2>1 DEF SemgrepTimesOut
<1>19. ASSUME PostedButRaises(r) PROVE Inv'
  <2>1. PICK e \in {"TransportError", "ValueError"} : Raise(r, e)
    BY <1>19 DEF PostedButRaises
  <2>2. pc[r] \in Active /\ e \in PyException
    BY <1>19 DEF PostedButRaises, Active, PyException, ForeignErrors
  <2>3. QED
    BY <1>16, <1>19, <2>1, <2>2 DEF PostedButRaises
<1>20. ASSUME SemgrepDiscarded(r) PROVE Inv'
  <2>1. TypeOK'
    BY <1>20 DEF TypeOK, Active, Ended, SemgrepDiscarded
  <2>2. ASSUME NEW q \in Run PROVE (PlaceInv(q) /\ EffectInv(q) /\ ResultInv(q))'
    BY <1>20 DEF TypeOK, PlaceInv, EffectInv, ResultInv, Untouched, Shown, BeforePost,
                Active, Ended, SemgrepDiscarded
  <2>3. QED
    BY <2>1, <2>2
<1>21. QED
  BY <1>1, <1>2, <1>3, <1>4, <1>5, <1>6, <1>7, <1>8, <1>9, <1>10, <1>11, <1>12, <1>13,
     <1>15, <1>17, <1>18, <1>19, <1>20 DEF Progress, Fault

LEMMA LossInv ==
  ASSUME Inv, NEW S, NEW T, ProcessesLost(S, T)
  PROVE  Inv'
<1>1. TypeOK'
  BY DEF Inv, TypeOK, Active, Ended, ProcessesLost
<1>2. ASSUME NEW q \in Run PROVE (PlaceInv(q) /\ EffectInv(q) /\ ResultInv(q))'
  BY DEF Inv, TypeOK, PlaceInv, EffectInv, ResultInv, Untouched, Shown, BeforePost,
         Active, Ended, ProcessesLost
<1>3. QED
  BY <1>1, <1>2 DEF Inv

LEMMA StutterInv == Inv /\ UNCHANGED vars => Inv'
BY DEF Inv, TypeOK, PlaceInv, EffectInv, ResultInv, Untouched, Shown, vars

LEMMA NextInv == Inv /\ [Next]_vars => Inv'
BY StepInv, LossInv, StutterInv DEF Next

THEOREM Invariance == Spec => []Inv
BY InitInv, NextInv, PTL DEF Spec

-----------------------------------------------------------------------------
(* What the invariant gives.                                                *)

\* Every variable keeps its type, whatever exceptions and deaths of processes occur.
THEOREM TypeCorrect == Spec => []TypeOK
<1>1. Inv => TypeOK
  BY DEF Inv
<1>2. QED
  BY <1>1, Invariance, PTL

\* A COMPLETED row was preceded by a posted review and counts its Comment rows.
THEOREM CompletedWasPosted == Spec => []CompletedMeansPosted
<1>1. Inv => CompletedMeansPosted
  BY DEF Inv, TypeOK, EffectInv, Shown, CompletedMeansPosted
<1>2. QED
  BY <1>1, Invariance, PTL

\* Comment rows belong to a review that is on the pull request.
THEOREM CommentsWerePosted == Spec => []CommentsOnlyOfPostedReview
<1>1. Inv => CommentsOnlyOfPostedReview
  <2> SUFFICES ASSUME Inv, NEW r \in Run, stored[r] > 0
               PROVE  review[r] = "inline" /\ stored[r] <= merged[r] /\ stored[r] <= reply[r]
    BY DEF CommentsOnlyOfPostedReview
  <2>1. review[r] # "none" /\ stored[r] <= merged[r] /\ stored[r] <= reply[r]
    BY DEF Inv, EffectInv
  <2>2. merged[r] # 0
    BY <2>1 DEF Inv, TypeOK
  <2>3. QED
    BY <2>1, <2>2 DEF Inv, EffectInv, Shown
<1>2. QED
  BY <1>1, Invariance, PTL

\* A task that returns has closed its row, if it had one, and its answer says how; the
\* metric counts completed and skipped reviews, and never a failed one.
THEOREM ReturnsClosed == Spec => []ReturnMatchesRow
<1>1. Inv => ReturnMatchesRow
  BY DEF Inv, ResultInv, ReturnMatchesRow
<1>2. QED
  BY <1>1, Invariance, PTL

\* A skipped review touches neither database, pull request, provider nor Semgrep.
THEOREM SkipIsTraceless == Spec => []SkippedLeavesNoTrace
<1>1. Inv => SkippedLeavesNoTrace
  BY DEF Inv, ResultInv, Untouched, SkippedLeavesNoTrace
<1>2. QED
  BY <1>1, Invariance, PTL

-----------------------------------------------------------------------------
(* What one step may do to the database and the pull request: the steps of  *)
(* ReviewLifecycle, or nothing.                                             *)

Seen == <<row, review, stored, count>>

ShownInline(r) == IF review[r] = "inline" THEN merged[r] ELSE 0

\* The effect of a step of run r on what can be seen from outside.
Effect(r) ==
  \/ UNCHANGED Seen
  \/ /\ row[r] = "none" /\ row' = [row EXCEPT ![r] = "processing"]
     /\ UNCHANGED <<review, stored, count>>
  \/ /\ row[r] = "processing" /\ review[r] = "none" /\ Accepted(r)
     /\ UNCHANGED <<row, stored, count>>
  \/ /\ row[r] = "processing" /\ stored' = [stored EXCEPT ![r] = @ + 1]
     /\ UNCHANGED <<row, review, count>>
  \/ /\ row[r] = "processing" /\ review[r] # "none"
     /\ row' = [row EXCEPT ![r] = "completed"]
     /\ count' = [count EXCEPT ![r] = stored[r]]
     /\ UNCHANGED <<review, stored>>
  \/ /\ row[r] = "processing" /\ row' = [row EXCEPT ![r] = "failed"]
     /\ UNCHANGED <<review, stored, count>>

\* The merged findings are settled before anything is posted, and stay.
Settled == \A q \in Run : merged'[q] = merged[q] \/ review'[q] = "none"

LEMMA StepEffect ==
  ASSUME Inv, NEW r \in Run,
         Start(r) \/ Progress(r) \/ Fault(r) \/ BeginSemgrep(r) \/ EndSemgrep(r)
  PROVE  Effect(r) /\ Settled
<1>1. ASSUME Start(r) \/ FetchDiffStage(r) \/ FetchContextStage(r) \/ LLMReviewStage(r)
             \/ SemgrepStage(r) \/ BeginSemgrep(r) \/ EndSemgrep(r) \/ SemgrepDiscarded(r)
             \/ PostSummaryComment(r) \/ StageRaises(r) \/ SemgrepTimesOut(r)
      PROVE  Effect(r) /\ Settled
  BY <1>1 DEF Start, FetchDiffStage, FetchContextStage, LLMReviewStage, SemgrepStage,
              BeginSemgrep, EndSemgrep, SemgrepDiscarded, PostSummaryComment, StageRaises,
              SemgrepTimesOut, data, Effect, Seen, Settled
<1>2. ASSUME NEW counts, DedupeTo(r, counts)
      PROVE  Effect(r) /\ Settled
  BY <1>2 DEF DedupeTo, Step, Inv, TypeOK, PlaceInv, BeforePost, Effect, Seen, Settled
<1>3. ASSUME DedupeStage(r) \/ SemgrepResultLost(r)
      PROVE  Effect(r) /\ Settled
  BY <1>2, <1>3 DEF DedupeStage, SemgrepResultLost
<1>4. ASSUME UpsertStage(r)
      PROVE  Effect(r) /\ Settled
  BY <1>4 DEF UpsertStage, Step, Inv, PlaceInv, Untouched, Effect, Seen, Settled
<1>5. ASSUME PostCommentsStage(r) \/ PostedButRaises(r)
      PROVE  Effect(r) /\ Settled
  BY <1>5 DEF PostCommentsStage, PostedButRaises, Inv, PlaceInv, BeforePost, Effect,
              Settled
<1>6. ASSUME StoreComment(r)
      PROVE  Effect(r) /\ Settled
  BY <1>6 DEF StoreComment, Inv, PlaceInv, Effect, Seen, Settled
<1>7. ASSUME Finalise(r)
      PROVE  Effect(r) /\ Settled
  BY <1>7 DEF Finalise, Inv, PlaceInv, Untouched, Effect, Seen, Settled
<1>8. ASSUME HandleStageFailure(r)
      PROVE  Effect(r) /\ Settled
  <2>1. row[r] \in {"none", "processing"}
    BY <1>8 DEF HandleStageFailure, Inv, PlaceInv
  <2>2. CASE row[r] = "none"
    BY <1>8, <2>2 DEF HandleStageFailure, Inv, TypeOK, Effect, Seen, Settled
  <2>3. CASE row[r] = "processing"
    BY <1>8, <2>3 DEF HandleStageFailure, Effect, Settled
  <2>4. QED
    BY <2>1, <2>2, <2>3
<1>9. QED
  BY <1>1, <1>3, <1>4, <1>5, <1>6, <1>7, <1>8 DEF Progress, Fault

LEMMA LossEffect ==
  ASSUME NEW S, NEW T, ProcessesLost(S, T)
  PROVE  UNCHANGED Seen /\ Settled
BY DEF ProcessesLost, Seen, Settled

\* A closed row, its Comment rows and the posted review stay as they are.
THEOREM ClosedIsFinal == Spec => ClosedRowIsFinal
<1> DEFINE Final == \A r \in Run : row[r] \in {"completed", "failed"} =>
                      /\ row'[r] = row[r] /\ count'[r] = count[r]
                      /\ stored'[r] = stored[r] /\ review'[r] = review[r]
<1>1. ASSUME Inv, NEW r \in Run, Effect(r) PROVE Final
  BY <1>1 DEF Inv, TypeOK, Effect, Seen, Accepted
<1>2. ASSUME UNCHANGED Seen PROVE Final
  BY <1>2 DEF Seen
<1>3. Inv /\ [Next]_vars => [Final]_vars
  BY <1>1, <1>2, StepEffect, LossEffect DEF Next
<1>4. QED
  BY <1>3, Invariance, PTL DEF Spec, ClosedRowIsFinal

\* The pipeline implements ReviewLifecycle: a row opens and closes once, one review
\* at most is posted while it is open, and COMPLETED comes after it.
THEOREM Refinement == Spec => ImplementsLifecycle
<1>1. Init => Lifecycle!Init
  BY DEF Init, Lifecycle!Init
<1>2. ASSUME Inv, NEW r \in Run, Effect(r), Settled, Inv'
      PROVE  Lifecycle!Next \/ UNCHANGED Lifecycle!lifecycle
  <2> DEFINE shown == [q \in Run |-> IF review[q] = "inline" THEN merged[q] ELSE 0]
  <2>1. ASSUME review' = review PROVE shown' = shown
    BY <1>2, <2>1 DEF Settled
  <2>2. CASE UNCHANGED Seen
    BY <2>1, <2>2 DEF Seen, Lifecycle!lifecycle
  <2>3. CASE /\ row[r] = "none" /\ row' = [row EXCEPT ![r] = "processing"]
             /\ UNCHANGED <<review, stored, count>>
    BY <2>1, <2>3 DEF Lifecycle!Next, Lifecycle!Open
  <2>4. CASE /\ row[r] = "processing" /\ review[r] = "none" /\ Accepted(r)
             /\ UNCHANGED <<row, stored, count>>
    <3>1. merged'[r] = merged[r] /\ merged[r] \in 0 .. MaxFindings
      BY <1>2, <2>4 DEF Settled, Accepted, Inv, TypeOK
    <3>2. \A q \in Run \ {r} : shown'[q] = shown[q]
      BY <1>2, <2>4 DEF Settled, Accepted, Inv, TypeOK
    <3>3. shown'[r] = merged[r]
      BY <1>2, <2>4, <3>1 DEF Accepted, Inv, TypeOK
    <3>4. shown' = [shown EXCEPT ![r] = merged[r]]
      BY <3>2, <3>3
    <3>5. QED
      BY <2>4, <3>1, <3>4 DEF Accepted, Lifecycle!Next, Lifecycle!Publish
  <2>5. CASE /\ row[r] = "processing" /\ stored' = [stored EXCEPT ![r] = @ + 1]
             /\ UNCHANGED <<row, review, count>>
    BY <2>1, <2>5 DEF Lifecycle!lifecycle
  <2>6. CASE /\ row[r] = "processing" /\ review[r] # "none"
             /\ row' = [row EXCEPT ![r] = "completed"]
             /\ count' = [count EXCEPT ![r] = stored[r]]
             /\ UNCHANGED <<review, stored>>
    <3>1. stored[r] \in 0 .. shown[r]
      BY <1>2, <2>6 DEF Inv, TypeOK, EffectInv, Shown
    <3>2. QED
      BY <2>1, <2>6, <3>1 DEF Lifecycle!Next, Lifecycle!Complete
  <2>7. CASE /\ row[r] = "processing" /\ row' = [row EXCEPT ![r] = "failed"]
             /\ UNCHANGED <<review, stored, count>>
    BY <2>1, <2>7 DEF Lifecycle!Next, Lifecycle!Fail
  <2>8. QED
    BY <1>2, <2>2, <2>3, <2>4, <2>5, <2>6, <2>7 DEF Effect
<1>3. ASSUME UNCHANGED Seen, Settled
      PROVE  UNCHANGED Lifecycle!lifecycle
  BY <1>3 DEF Seen, Settled, Lifecycle!lifecycle
<1>4. UNCHANGED vars => UNCHANGED Seen /\ Settled
  BY DEF vars, Seen, Settled
<1>5. Inv /\ Inv' /\ [Next]_vars => [Lifecycle!Next]_(Lifecycle!lifecycle)
  BY <1>2, <1>3, <1>4, StepEffect, LossEffect DEF Next
<1>6. QED
  BY <1>1, <1>5, Invariance, PTL DEF Spec, ImplementsLifecycle, Lifecycle!Spec

-----------------------------------------------------------------------------
(* ReviewWorker.                                                            *)

\* Attempts are numbered by the order in which the message was handed out; a
\* message back in its queue was put there by the webhook or by a crash.
AttemptInv ==
  /\ \A r \in Run : pc[r] = "idle" <=> r[2] > attempt[r[1]]
  /\ \A d \in Delivery :
       /\ msg[d] = "none" => attempt[d] = 0
       /\ msg[d] = "queued" => attempt[d] <= crashes
       /\ msg[d] \in {"unacked", "acked"} => attempt[d] > 0
       /\ attempt[d] <= crashes + 1

WInv ==
  /\ Inv /\ WTypeOK /\ AttemptInv
  /\ OneLiveRunPerDelivery /\ AckedOnlyAfterEnd /\ NothingIsRetried

-----------------------------------------------------------------------------
(* The worker's steps are steps of the pipeline.                            *)

\* A step of the worker, seen from the pipeline.
LEMMA WStep ==
  ASSUME WTypeOK, [WNext]_allVars
  PROVE  [Next]_vars
<1>1. ASSUME NEW d \in Delivery, Take(d) PROVE Next
  <2>1. <<d, attempt[d] + 1>> \in Run
    BY <1>1, WorkerAssumption DEF Take, WTypeOK
  <2>2. QED
    BY <1>1, <2>1 DEF Take, Next
<1>2. ASSUME NEW d \in Delivery, Enqueue(d) \/ Ack(d) PROVE UNCHANGED vars
  BY <1>2 DEF Enqueue, Ack
<1>3. ASSUME NEW r \in Run, RunOf(r) \/ TakeSemgrep(r) PROVE Next
  BY <1>3 DEF RunOf, TakeSemgrep, Next
<1>4. ASSUME NEW r \in Run, PoolProcessLost(r) PROVE Next
  BY <1>4 DEF PoolProcessLost, Next
<1>5. ASSUME WorkerCrash PROVE Next
  BY <1>5 DEF WorkerCrash, Next
<1>6. CASE UNCHANGED allVars
  BY <1>6 DEF allVars
<1>7. QED
  BY <1>1, <1>2, <1>3, <1>4, <1>5, <1>6 DEF WNext

-----------------------------------------------------------------------------
(* Which exceptions leave a run.                                            *)

\* Neither Celery's autoretry classes nor anything derived from them.
LEMMA EscapeIsNotRetried ==
  ASSUME TypeOK, NEW r \in Run, pc[r] \in Active,
         NEW e \in MayRaise(r), ~Handled(pc[r], e)
  PROVE  ~Caught(e, AutoRetryFor)
<1>1. CASE pc[r] \notin {"finalise", "handler"}
  <2>1. e \notin OSErrors
    BY <1>1 DEF Handled, Caught, RunCatches, OSErrors
  <2>2. QED
    BY <2>1 DEF Caught, AutoRetryFor, OSErrors
<1>2. CASE pc[r] \in {"finalise", "handler"}
  <2>1. e \in {"DatabaseError", "SoftTimeLimit"}
    BY <1>2 DEF MayRaise, Raises
  <2>2. QED
    BY <2>1 DEF Caught, AutoRetryFor
<1>3. QED
  BY <1>1, <1>2

LEMMA ExcStep ==
  ASSUME TypeOK, NothingIsRetried, [Next]_vars
  PROVE  NothingIsRetried'
<1>1. ASSUME NEW r \in Run, NEW e, Raise(r, e), Handled(pc[r], e) \/ ~Caught(e, AutoRetryFor)
      PROVE  NothingIsRetried'
  BY <1>1 DEF Raise, NothingIsRetried, TypeOK
<1>2. ASSUME NEW r \in Run, StageRaises(r) PROVE NothingIsRetried'
  BY <1>1, <1>2, EscapeIsNotRetried DEF StageRaises
<1>3. ASSUME NEW r \in Run, SemgrepTimesOut(r) PROVE NothingIsRetried'
  <2>1. ~Caught("CeleryTimeout", AutoRetryFor)
    BY DEF Caught, AutoRetryFor
  <2>2. QED
    BY <1>1, <1>3, <2>1 DEF SemgrepTimesOut
<1>4. ASSUME NEW r \in Run, PostedButRaises(r) PROVE NothingIsRetried'
  <2>1. \A e \in {"TransportError", "ValueError"} : ~Caught(e, AutoRetryFor)
    BY DEF Caught, AutoRetryFor
  <2>2. QED
    BY <1>1, <1>4, <2>1 DEF PostedButRaises
<1>5. ASSUME exc' = exc PROVE NothingIsRetried'
  BY <1>5 DEF NothingIsRetried
<1>6. ASSUME NEW r \in Run,
             \/ Start(r) \/ UpsertStage(r) \/ FetchDiffStage(r) \/ FetchContextStage(r)
             \/ LLMReviewStage(r) \/ SemgrepStage(r) \/ DedupeStage(r)
             \/ PostCommentsStage(r) \/ PostSummaryComment(r) \/ StoreComment(r)
             \/ Finalise(r) \/ HandleStageFailure(r) \/ SemgrepResultLost(r)
             \/ BeginSemgrep(r) \/ EndSemgrep(r) \/ SemgrepDiscarded(r)
      PROVE  exc' = exc
  BY <1>6 DEF Start, UpsertStage, FetchDiffStage, FetchContextStage, LLMReviewStage,
       SemgrepStage, DedupeStage, DedupeTo, PostCommentsStage, PostSummaryComment,
       StoreComment, Finalise, HandleStageFailure, SemgrepResultLost, BeginSemgrep,
       EndSemgrep, SemgrepDiscarded, data
<1>7. ASSUME NEW S, NEW T, ProcessesLost(S, T) PROVE exc' = exc
  BY <1>7 DEF ProcessesLost
<1>8. UNCHANGED vars => exc' = exc
  BY DEF vars
<1>9. QED
  BY <1>2, <1>3, <1>4, <1>5, <1>6, <1>7, <1>8 DEF Next, Progress, Fault

-----------------------------------------------------------------------------
(* Where a step of a run leaves it.                                         *)

\* A step of run r moves only r, and not back to "idle".
LEMMA StepMoves ==
  ASSUME TypeOK, NEW r \in Run, Progress(r) \/ Fault(r) \/ EndSemgrep(r)
  PROVE  \/ UNCHANGED pc
         \/ /\ pc[r] \in Active
            /\ \E s \in Active \cup Ended : pc' = [pc EXCEPT ![r] = s]
<1>1. ASSUME NEW e, pc[r] \in Active, Raise(r, e)
      PROVE  \E s \in Active \cup Ended : pc' = [pc EXCEPT ![r] = s]
  BY <1>1 DEF Raise, Goto, Active, Ended
<1>2. ASSUME StageRaises(r) \/ SemgrepTimesOut(r) \/ PostedButRaises(r)
      PROVE  /\ pc[r] \in Active
             /\ \E s \in Active \cup Ended : pc' = [pc EXCEPT ![r] = s]
  <2>1. pc[r] \in Active
    BY <1>2 DEF StageRaises, SemgrepTimesOut, PostedButRaises, Active
  <2>2. \E e \in PyException \cup MayRaise(r) : Raise(r, e)
    BY <1>2 DEF StageRaises, SemgrepTimesOut, PostedButRaises, PyException, ForeignErrors
  <2>3. QED
    BY <1>1, <2>1, <2>2
<1>3. ASSUME \/ UpsertStage(r) \/ FetchDiffStage(r) \/ FetchContextStage(r)
             \/ LLMReviewStage(r) \/ SemgrepStage(r) \/ DedupeStage(r)
             \/ PostCommentsStage(r) \/ PostSummaryComment(r) \/ StoreComment(r)
             \/ Finalise(r) \/ HandleStageFailure(r) \/ SemgrepResultLost(r)
      PROVE  \/ UNCHANGED pc
             \/ /\ pc[r] \in Active
                /\ \E s \in Active \cup Ended : pc' = [pc EXCEPT ![r] = s]
  BY <1>3 DEF UpsertStage, FetchDiffStage, FetchContextStage, LLMReviewStage,
       SemgrepStage, DedupeStage, DedupeTo, PostCommentsStage, PostSummaryComment,
       StoreComment, Finalise, HandleStageFailure, SemgrepResultLost, Step, Goto,
       Return, Active, Ended
<1>4. ASSUME EndSemgrep(r) \/ SemgrepDiscarded(r) PROVE UNCHANGED pc
  BY <1>4 DEF EndSemgrep, SemgrepDiscarded
<1>5. QED
  BY <1>2, <1>3, <1>4 DEF Progress, Fault

-----------------------------------------------------------------------------
(* The invariant of the worker.                                             *)

LEMMA WInitInv == WInit => WInv
<1> SUFFICES ASSUME WInit PROVE WInv
  OBVIOUS
<1>1. Inv
  BY InitInv DEF WInit
<1>2. WTypeOK
  BY <1>1, WorkerAssumption DEF WInit, WTypeOK, Inv
<1>3. AttemptInv
  BY WorkerAssumption DEF WInit, Init, AttemptInv
<1>4. OneLiveRunPerDelivery /\ AckedOnlyAfterEnd
  BY DEF WInit, Init, OneLiveRunPerDelivery, AckedOnlyAfterEnd, Live, Active
<1>5. NothingIsRetried
  BY DEF WInit, Init, NothingIsRetried, Caught, AutoRetryFor
<1>6. QED
  BY <1>1, <1>2, <1>3, <1>4, <1>5 DEF WInv

\* The parts of the invariant that speak of messages and attempts.
BrokerInv == WTypeOK /\ AttemptInv /\ OneLiveRunPerDelivery /\ AckedOnlyAfterEnd

LEMMA BrokerStep ==
  ASSUME WInv, TypeOK', WNext
  PROVE  BrokerInv'
<1> USE WorkerAssumption
<1>1. ASSUME NEW d \in Delivery, Enqueue(d) PROVE BrokerInv'
  BY <1>1 DEF WInv, BrokerInv, Enqueue, vars, WTypeOK, AttemptInv,
              OneLiveRunPerDelivery, AckedOnlyAfterEnd, Live, Latest
<1>2. ASSUME NEW d \in Delivery, Take(d) PROVE BrokerInv'
  <2> DEFINE r == <<d, attempt[d] + 1>>
  <2>1. /\ r \in Run /\ pc[r] = "idle" /\ pc' = [pc EXCEPT ![r] = "upsert"]
        /\ msg[d] = "queued" /\ msg' = [msg EXCEPT ![d] = "unacked"]
        /\ attempt' = [attempt EXCEPT ![d] = @ + 1] /\ crashes' = crashes
        /\ attempt[d] <= crashes
    BY <1>2 DEF Take, Start, Step, Goto, WInv, WTypeOK, AttemptInv
  <2>2. WTypeOK'
    BY <2>1 DEF WInv, WTypeOK
  <2>3. AttemptInv'
    <3>1. ASSUME NEW q \in Run PROVE pc'[q] = "idle" <=> q[2] > attempt'[q[1]]
      <4>1. CASE q = r
        BY <2>1, <4>1 DEF WInv, WTypeOK, TypeOK
      <4>2. CASE q # r /\ q[1] = d
        <5>1. q[2] # attempt[d] + 1
          BY <4>2
        <5>2. q[2] \in Nat /\ attempt[d] \in Nat
          BY DEF WInv, WTypeOK
        <5>3. QED
          BY <2>1, <4>2, <5>1, <5>2 DEF WInv, WTypeOK, TypeOK, AttemptInv
      <4>3. CASE q[1] # d
        BY <2>1, <4>3 DEF WInv, WTypeOK, TypeOK, AttemptInv
      <4>4. QED
        BY <4>1, <4>2, <4>3
    <3>2. ASSUME NEW c \in Delivery
          PROVE  /\ msg'[c] = "none" => attempt'[c] = 0
                 /\ msg'[c] = "queued" => attempt'[c] <= crashes'
                 /\ msg'[c] \in {"unacked", "acked"} => attempt'[c] > 0
                 /\ attempt'[c] <= crashes' + 1
      BY <2>1 DEF WInv, WTypeOK, AttemptInv
    <3>3. QED
      BY <3>1, <3>2 DEF AttemptInv
  <2>4. OneLiveRunPerDelivery'
    <3> SUFFICES ASSUME NEW q \in Run, Live(q)'
                 PROVE  msg'[q[1]] = "unacked" /\ q = <<q[1], attempt'[q[1]]>>
      BY DEF OneLiveRunPerDelivery, Latest
    <3>1. CASE q = r
      BY <2>1, <3>1 DEF WInv, WTypeOK
    <3>2. CASE q # r
      <4>1. Live(q)
        BY <2>1, <3>2 DEF Live, WInv, WTypeOK, TypeOK
      <4>2. msg[q[1]] = "unacked" /\ q = <<q[1], attempt[q[1]]>>
        BY <4>1 DEF WInv, OneLiveRunPerDelivery, Latest
      <4>3. q[1] # d
        BY <2>1, <4>2
      <4>4. QED
        BY <2>1, <4>2, <4>3 DEF WInv, WTypeOK
    <3>3. QED
      BY <3>1, <3>2
  <2>5. AckedOnlyAfterEnd'
    <3> SUFFICES ASSUME NEW c \in Delivery, msg'[c] = "acked"
                 PROVE  attempt'[c] > 0 /\ pc'[<<c, attempt'[c]>>] \in Ended
      BY DEF AckedOnlyAfterEnd, Latest
    <3>1. c # d /\ msg[c] = "acked" /\ attempt'[c] = attempt[c]
      BY <2>1 DEF WInv, WTypeOK
    <3>2. attempt[c] > 0 /\ pc[<<c, attempt[c]>>] \in Ended
      BY <3>1 DEF WInv, AckedOnlyAfterEnd, Latest
    <3>3. pc'[<<c, attempt[c]>>] = pc[<<c, attempt[c]>>]
      BY <2>1, <3>1, <3>2 DEF WInv, WTypeOK, TypeOK, AttemptInv
    <3>4. QED
      BY <3>1, <3>2, <3>3
  <2>6. QED
    BY <2>2, <2>3, <2>4, <2>5 DEF BrokerInv
<1>3. ASSUME NEW d \in Delivery, Ack(d) PROVE BrokerInv'
  BY <1>3 DEF WInv, BrokerInv, Ack, vars, WTypeOK, AttemptInv,
              OneLiveRunPerDelivery, AckedOnlyAfterEnd, Live, Latest, Active, Ended
<1>4. ASSUME NEW r \in Run, RunOf(r) PROVE BrokerInv'
  <2>1. UNCHANGED workerVars
    BY <1>4 DEF RunOf
  <2>2. CASE UNCHANGED pc
    BY <2>1, <2>2 DEF WInv, BrokerInv, workerVars, WTypeOK, AttemptInv,
              OneLiveRunPerDelivery, AckedOnlyAfterEnd, Live, Latest
  <2>3. CASE /\ pc[r] \in Active
             /\ \E s \in Active \cup Ended : pc' = [pc EXCEPT ![r] = s]
    <3>1. PICK s \in Active \cup Ended : pc' = [pc EXCEPT ![r] = s]
      BY <2>3
    <3>2. Live(r) /\ pc[r] # "idle" /\ s # "idle" /\ pc[r] \notin Ended
      BY <2>3 DEF Live, Active, Ended
    <3>3. msg[r[1]] = "unacked" /\ r = Latest(r[1])
      BY <3>2 DEF WInv, OneLiveRunPerDelivery
    <3>4. AttemptInv'
      BY <2>1, <3>1, <3>2 DEF WInv, AttemptInv, workerVars, WTypeOK, TypeOK
    <3>5. OneLiveRunPerDelivery'
      BY <2>1, <3>1, <3>2, <3>3
         DEF WInv, OneLiveRunPerDelivery, Live, Latest, workerVars, WTypeOK, TypeOK
    <3>6. AckedOnlyAfterEnd'
      BY <2>1, <3>1, <3>2, <3>3
         DEF WInv, AckedOnlyAfterEnd, Latest, workerVars, WTypeOK, TypeOK
    <3>7. QED
      BY <2>1, <3>4, <3>5, <3>6 DEF BrokerInv, WInv, WTypeOK, workerVars
  <2>4. QED
    BY <1>4, <2>2, <2>3, StepMoves DEF RunOf, WInv, WTypeOK
<1>5. ASSUME NEW r \in Run, TakeSemgrep(r) PROVE BrokerInv'
  BY <1>5 DEF WInv, BrokerInv, TakeSemgrep, BeginSemgrep, workerVars, WTypeOK,
              AttemptInv, OneLiveRunPerDelivery, AckedOnlyAfterEnd, Live, Latest
\* Deaths end live runs and start none.
<1>6. ASSUME NEW S, NEW T, ProcessesLost(S, T)
      PROVE  \A q \in Run : /\ pc[q] = "idle" <=> pc'[q] = "idle"
                            /\ pc'[q] \in Active => pc[q] \in Active /\ q \notin S
                            /\ pc[q] \in Ended => pc'[q] \in Ended
  BY <1>6 DEF ProcessesLost, Active, Ended
<1>7. ASSUME NEW r \in Run, PoolProcessLost(r) PROVE BrokerInv'
  <2>1. UNCHANGED workerVars /\ ProcessesLost({r}, {})
    BY <1>7 DEF PoolProcessLost
  <2>2. QED
    BY <1>6, <2>1 DEF WInv, BrokerInv, workerVars, WTypeOK, AttemptInv,
         OneLiveRunPerDelivery, AckedOnlyAfterEnd, Live, Latest
<1>8. ASSUME WorkerCrash PROVE BrokerInv'
  <2> DEFINE S == {r \in Run : Live(r)}
             T == {r \in Run : semgrep[r] = "running"}
  <2>1. /\ ProcessesLost(S, T)
        /\ crashes < MaxCrashes /\ crashes' = crashes + 1 /\ attempt' = attempt
        /\ msg' = [d \in Delivery |-> IF msg[d] = "unacked" THEN "queued" ELSE msg[d]]
    BY <1>8 DEF WorkerCrash
  <2>2. WTypeOK'
    BY <2>1 DEF WInv, WTypeOK
  <2>3. AttemptInv'
    BY <1>6, <2>1 DEF WInv, WTypeOK, AttemptInv
  <2>4. OneLiveRunPerDelivery'
    BY <1>6, <2>1 DEF OneLiveRunPerDelivery, Live
  <2>5. AckedOnlyAfterEnd'
    BY <1>6, <2>1 DEF WInv, WTypeOK, AckedOnlyAfterEnd, Latest
  <2>6. QED
    BY <2>2, <2>3, <2>4, <2>5 DEF BrokerInv
<1>9. QED
  BY <1>1, <1>2, <1>3, <1>4, <1>5, <1>7, <1>8 DEF WNext

LEMMA WNextInv == WInv /\ [WNext]_allVars => WInv'
<1> SUFFICES ASSUME WInv, [WNext]_allVars PROVE WInv'
  OBVIOUS
<1>1. [Next]_vars
  BY WStep DEF WInv
<1>2. Inv' /\ NothingIsRetried'
  BY <1>1, NextInv, ExcStep DEF WInv, WTypeOK
<1>3. CASE WNext
  BY <1>2, <1>3, BrokerStep DEF BrokerInv, WInv, Inv
<1>4. CASE UNCHANGED allVars
  BY <1>2, <1>4 DEF WInv, Inv, allVars, vars, workerVars, WTypeOK, AttemptInv,
       OneLiveRunPerDelivery, AckedOnlyAfterEnd, Live, Latest
<1>5. QED
  BY <1>3, <1>4

THEOREM WInvariance == WSpec => []WInv
BY WInitInv, WNextInv, PTL DEF WSpec

\* Every run in the worker behaves like a run of the pipeline alone: the theorems of
\* the pipeline above hold of the worker, crashes and redeliveries included.
THEOREM WorkerRunsPipeline == WSpec => Spec
<1>1. WInit => Init
  BY DEF WInit
<1>2. WInv /\ [WNext]_allVars => [Next]_vars
  BY WStep DEF WInv
<1>3. QED
  BY <1>1, <1>2, WInvariance, PTL DEF WSpec, Spec

\* The types of the worker's state.
THEOREM WorkerTypeCorrect == WSpec => []WTypeOK
<1>1. WInv => WTypeOK
  BY DEF WInv
<1>2. QED
  BY <1>1, WInvariance, PTL

\* No two runs of a delivery are alive at once, and none after the acknowledgement.
THEOREM OneLiveRun == WSpec => []OneLiveRunPerDelivery
<1>1. WInv => OneLiveRunPerDelivery
  BY DEF WInv
<1>2. QED
  BY <1>1, WInvariance, PTL

\* The broker forgets a delivery only after its last attempt has ended.
THEOREM LateAcknowledgement == WSpec => []AckedOnlyAfterEnd
<1>1. WInv => AckedOnlyAfterEnd
  BY DEF WInv
<1>2. QED
  BY <1>1, WInvariance, PTL

\* Celery's automatic retry never applies to a review.
THEOREM NoRetry == WSpec => []NothingIsRetried
<1>1. WInv => NothingIsRetried
  BY DEF WInv
<1>2. QED
  BY <1>1, WInvariance, PTL

\* An attempt that ended before the current one is never closed afterwards.
THEOREM AbandonedStays == WSpec => AbandonedRowStays
<1> DEFINE Stays == \A r \in Run : row[r] = "processing" /\ r[2] < attempt[r[1]]
                                    => row'[r] = row[r]
<1>1. ASSUME WInv, [WNext]_allVars PROVE Stays
  <2> SUFFICES ASSUME NEW q \in Run, q[2] < attempt[q[1]] PROVE row'[q] = row[q]
    OBVIOUS
  <2>1. ~Live(q)
    BY <1>1, WorkerAssumption DEF WInv, OneLiveRunPerDelivery, Latest, WTypeOK
  <2>2. pc[q] # "idle"
    BY <1>1, <2>1, WorkerAssumption DEF WInv, AttemptInv, WTypeOK
  <2>3. [Next]_vars
    BY <1>1, WStep DEF WInv
  <2>4. ASSUME NEW r \in Run, UpsertStage(r) \/ Finalise(r) \/ HandleStageFailure(r)
        PROVE  row'[q] = row[q]
    BY <1>1, <2>1, <2>4 DEF UpsertStage, Finalise, HandleStageFailure, Step, Live, Active,
         WInv, WTypeOK, TypeOK
  <2>5. ASSUME NEW r \in Run,
               \/ Start(r) \/ FetchDiffStage(r) \/ FetchContextStage(r)
               \/ LLMReviewStage(r) \/ SemgrepStage(r) \/ DedupeStage(r)
               \/ SemgrepTimesOut(r) \/ PostCommentsStage(r) \/ PostSummaryComment(r)
               \/ StoreComment(r) \/ StageRaises(r) \/ SemgrepResultLost(r)
               \/ PostedButRaises(r) \/ BeginSemgrep(r) \/ EndSemgrep(r)
               \/ SemgrepDiscarded(r)
        PROVE  row' = row
    BY <2>5 DEF Start, FetchDiffStage, FetchContextStage, LLMReviewStage, SemgrepStage,
         DedupeStage, DedupeTo, SemgrepTimesOut, PostCommentsStage, PostSummaryComment,
         StoreComment, StageRaises, SemgrepResultLost, PostedButRaises, BeginSemgrep,
         EndSemgrep, SemgrepDiscarded, data
  <2>6. ASSUME NEW S, NEW T, ProcessesLost(S, T) PROVE row' = row
    BY <2>6 DEF ProcessesLost
  <2>7. UNCHANGED vars => row' = row
    BY DEF vars
  <2>8. QED
    BY <2>3, <2>4, <2>5, <2>6, <2>7 DEF Next, Progress, Fault
<1>2. WInv /\ [WNext]_allVars => [Stays]_allVars
  BY <1>1
<1>3. QED
  BY <1>2, WInvariance, PTL DEF WSpec, AbandonedRowStays

\* A delivery is reviewed on GitHub at most once more than the worker has crashed:
\* the runs that posted something are numbered by 1 .. crashes + 1.
THEOREM SecondReview == WSpec => []SecondReviewNeedsCrash
<1>1. ASSUME WInv, NEW d \in Delivery PROVE Reviews(d) <= 1 + crashes
  <2> DEFINE P == {r \in Run : r[1] = d /\ review[r] # "none"}
             f == [r \in P |-> r[2]]
  <2>1. crashes \in Nat
    BY <1>1, WorkerAssumption DEF WInv, WTypeOK
  <2>2. ASSUME NEW r \in P PROVE r[2] \in 1 .. crashes + 1 /\ r = <<d, r[2]>>
    <3>1. r \in Delivery \X (1 .. MaxCrashes + 1)
      BY WorkerAssumption
    <3>2. pc[r] # "idle"
      BY <1>1, <2>2 DEF WInv, Inv, PlaceInv, Untouched
    <3>3. ~(r[2] > attempt[d]) /\ attempt[d] <= crashes + 1
      BY <1>1, <2>2, <3>2 DEF WInv, AttemptInv
    <3>4. QED
      BY <1>1, <2>1, <2>2, <3>1, <3>3 DEF WInv, WTypeOK
  <2>3. f \in Injection(P, 1 .. crashes + 1)
    BY <2>2 DEF Injection, IsInjective
  <2>4. /\ IsFiniteSet(1 .. crashes + 1)
        /\ Cardinality(1 .. crashes + 1) = crashes + 1
    BY <2>1, FS_Interval
  <2>5. IsFiniteSet(P) /\ Cardinality(P) <= Cardinality(1 .. crashes + 1)
    BY <2>3, <2>4, FS_Injection
  <2>6. QED
    BY <2>1, <2>4, <2>5, FS_CardinalityType DEF Reviews
<1>2. WInv => SecondReviewNeedsCrash
  BY <1>1 DEF SecondReviewNeedsCrash
<1>3. QED
  BY <1>2, WInvariance, PTL
=============================================================================
