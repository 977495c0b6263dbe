\* Two deliveries in a pool of two processes: two reviews that wait for Semgrep hold
\* every slot.  No crash of the worker.
CONSTANTS
  d1 = d1
  d2 = d2
  Delivery = {d1, d2}
  Run <- MCRun
  PrivateRun = {}
  MaxFindings = 0
  Slots = 2
  MaxCrashes = 0
SPECIFICATION WFairSpec
CHECK_DEADLOCK FALSE
PROPERTIES
  EveryDeliveryEnds
  SemgrepGetsItsTurn
