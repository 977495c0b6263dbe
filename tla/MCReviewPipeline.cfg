CONSTANTS
  r1 = r1
  Run = {r1}
  PrivateRun = {r1}
  MaxFindings = 3
SPECIFICATION FairSpec
CHECK_DEADLOCK FALSE
INVARIANTS
  CompletedMeansPosted
  ReturnMatchesRow
  SkippedLeavesNoTrace
PROPERTIES
  ImplementsLifecycle
  EveryRunEnds
