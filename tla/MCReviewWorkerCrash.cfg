\* One delivery, one crash of the worker at any point, every other step fair.
CONSTANTS
  d1 = d1
  d2 = d2
  Delivery = {d1}
  Run <- MCRun
  PrivateRun = {}
  MaxFindings = 0
  Slots = 2
  MaxCrashes = 1
SPECIFICATION WFairSpec
CHECK_DEADLOCK FALSE
INVARIANTS
  OneLiveRunPerDelivery
  SecondReviewNeedsCrash
PROPERTIES
  EveryDeliveryEnds
