------------------------------ MODULE ReviewJob ------------------------------
(***************************************************************************)
(* What the review step of a CI workflow promises to the people who read   *)
(* the pull request: one attempt of the job posts at most one review,      *)
(* nothing is posted once it is over, and nothing but another attempt      *)
(* changes how it ended.  An attempt that ends green has posted a review   *)
(* or has found nothing to review.                                         *)
(***************************************************************************)
EXTENDS Naturals

VARIABLES
  result,               \* "running", "green" or "red"
  idle,                 \* whether there turned out to be nothing to review
  published,            \* whether this attempt has posted its review
  reviews               \* Sentinel's reviews on the pull request

job == <<result, idle, published, reviews>>

Init == result = "running" /\ idle \in BOOLEAN /\ ~published /\ reviews = 0

Discover == /\ result = "running" /\ ~published
            /\ idle' = TRUE
            /\ UNCHANGED <<result, published, reviews>>

Publish == /\ result = "running" /\ ~idle /\ ~published
           /\ published' = TRUE /\ reviews' = reviews + 1
           /\ UNCHANGED <<result, idle>>

Succeed == /\ result = "running" /\ (idle \/ published)
           /\ result' = "green"
           /\ UNCHANGED <<idle, published, reviews>>

\* Red is possible at any point, after the review was posted too.
Fail == /\ result = "running"
        /\ result' = "red"
        /\ UNCHANGED <<idle, published, reviews>>

Rerun == /\ result # "running"
         /\ result' = "running" /\ idle' \in BOOLEAN /\ published' = FALSE
         /\ UNCHANGED reviews

Next == Discover \/ Publish \/ Succeed \/ Fail \/ Rerun

Spec == Init /\ [][Next]_job
=============================================================================
