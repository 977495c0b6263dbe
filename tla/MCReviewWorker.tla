--------------------------- MODULE MCReviewWorker ---------------------------
EXTENDS ReviewWorker

CONSTANTS d1, d2

MCRun == Delivery \X (1 .. MaxCrashes + 1)
=============================================================================
