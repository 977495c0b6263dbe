\* Up to three findings of the model and two of Semgrep, out of four at three places, two
\* of them nits; limits of none, one and two.
CONSTANTS
  Finding <- MCFinding
  MaxLLM = 3
  MaxSemgrep = 2
  Limit = {0, 1, 2}
SPECIFICATION Spec
CHECK_DEADLOCK FALSE
INVARIANTS
  MergePairs
  AgreementSurvives
  PostedIsAllowed
  NothingLost
