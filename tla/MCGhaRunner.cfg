SPECIFICATION FairSpec
CONSTANTS
  plain = plain
  ignored = ignored
  outside = outside
  Finding = {plain, ignored, outside}
  Ignored <- MCIgnored
  Outside <- MCOutside
  MaxAttempts = 2
CHECK_DEADLOCK FALSE
INVARIANTS
  GreenMeansReviewed
  ReportAgreesWithReview
PROPERTIES
  ImplementsJob
  EveryAttemptEnds
