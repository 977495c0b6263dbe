\* A delivery with work in it, sent up to twice, and one without, sent once, each with its
\* header and without; two processes of two threads, with Redis and without.
CONSTANTS
  d1 = d1
  d2 = d2
  p1 = p1
  p2 = p2
  Delivery = {d1, d2}
  TaskDelivery = {d1}
  Attempts <- MCAttempts
  Process = {p1, p2}
  NoProcess = NoProcess
  Threads = 2
  MaxKnown = 1
SPECIFICATION FairSpec
CHECK_DEADLOCK FALSE
INVARIANTS
  OneTaskPerWindow
  DuplicateHasOriginal
  EternalKeyHasCause
PROPERTIES
  SentIsQueued
