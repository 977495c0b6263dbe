------------------------- MODULE MCFeedbackCapture -------------------------
EXTENDS FeedbackCapture

CONSTANTS c1, u1, t1, t2, k1

MCCommentOf == [t \in Task |-> c1]
=============================================================================
