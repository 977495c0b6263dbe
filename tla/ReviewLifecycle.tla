-------------------------- MODULE ReviewLifecycle ---------------------------
(***************************************************************************)
(* What one run of the review task promises to the readers of the database *)
(* and of the pull request: its Review row opens once and closes at most   *)
(* once; at most one review is posted on GitHub, only while the row is     *)
(* open; the row is COMPLETED only after that, and never claims more       *)
(* findings than the posted review shows inline.                           *)
(***************************************************************************)
EXTENDS Naturals

CONSTANTS
  Run,                  \* executions of the review_pull_request task
  MaxFindings           \* most findings one review may show

VARIABLES
  row,                  \* Review.status of the row the run created
  review,               \* what the run posted on the pull request
  inline,               \* inline comments of that posted review
  count                 \* Review.findings_count

lifecycle == <<row, review, inline, count>>

Init == /\ row    = [r \in Run |-> "none"]
        /\ review = [r \in Run |-> "none"]
        /\ inline = [r \in Run |-> 0]
        /\ count  = [r \in Run |-> 0]

Open(r) == /\ row[r] = "none"
           /\ row' = [row EXCEPT ![r] = "processing"]
           /\ UNCHANGED <<review, inline, count>>

Publish(r) == /\ row[r] = "processing"
              /\ review[r] = "none"
              /\ \E n \in 0 .. MaxFindings :
                   /\ inline' = [inline EXCEPT ![r] = n]
                   /\ review' = [review EXCEPT ![r] = IF n = 0 THEN "clean" ELSE "inline"]
              /\ UNCHANGED <<row, count>>

Complete(r) == /\ row[r] = "processing"
               /\ review[r] # "none"
               /\ row' = [row EXCEPT ![r] = "completed"]
               /\ \E n \in 0 .. inline[r] : count' = [count EXCEPT ![r] = n]
               /\ UNCHANGED <<review, inline>>

Fail(r) == /\ row[r] = "processing"
           /\ row' = [row EXCEPT ![r] = "failed"]
           /\ UNCHANGED <<review, inline, count>>

Next == \E r \in Run : Open(r) \/ Publish(r) \/ Complete(r) \/ Fail(r)

Spec == Init /\ [][Next]_lifecycle
=============================================================================
