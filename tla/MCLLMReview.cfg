\* One review after the other in a process, three diffs, room for two entries in
\* memory, the threshold of the LLM breaker.
CONSTANTS
  c1 = c1
  f1 = f1
  f2 = f2
  f3 = f3
  Caller = {c1}
  Threshold = 3
  Timeout = 2
  Failure = {"ConnectionError", "ProviderError"}
  Misread = {"AttributeError"}
  MaxEscapes = 0
  Diff = {f1, f2, f3}
  MaxEntries = 2
SPECIFICATION LFairSpec
CHECK_DEADLOCK FALSE
INVARIANTS
  OnlyValidatedIsCached
  OneReviewCannotOpen
PROPERTIES
  StoredIsServed
  Heals
