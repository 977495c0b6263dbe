CONSTANTS
  r1 = r1
  Run = {r1}
  PrivateRun = {r1}
  MaxFindings = 1
SPECIFICATION Spec
CHECK_DEADLOCK FALSE
INVARIANT NoSilentFailure
