-------------------------- MODULE MCReviewPipeline --------------------------
\* Runs of the pipeline share nothing that it reads: one run of a private
\* repository, which may go either way in UpsertStage, shows every behaviour.
\* The runs of several deliveries are composed in ReviewWorker.
EXTENDS ReviewPipeline

CONSTANT r1
=============================================================================
