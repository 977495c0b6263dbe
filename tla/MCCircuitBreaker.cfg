\* The threshold of the LLM breaker; three callers; counted and uncounted failures, in
\* an outage and over answers.
CONSTANTS
  c1 = c1
  c2 = c2
  c3 = c3
  Caller = {c1, c2, c3}
  Threshold = 3
  Timeout = 3
  Failure = {"OSError", "ProviderError"}
  Misread = {"ValueError", "AttributeError"}
  MaxEscapes = 2
SPECIFICATION FairSpec
CHECK_DEADLOCK FALSE
INVARIANTS
  StateAgreesWithCount
  ProbesBounded
PROPERTIES
  OpenEndsByProbe
  Recovers
  OutageOpens
