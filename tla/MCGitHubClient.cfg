\* Two tokens one after the other, each with more than one JWT in its life.
SPECIFICATION Spec
CONSTANTS
  JwtLife = 3
  JwtLimit = 3
  Backdate = 1
  Hour = 8
  Margin = 3
  MaxDrift = 1
  Latency = 1
  MaxRequests = 2
  MaxTime = 20
CHECK_DEADLOCK FALSE
INVARIANTS
  TokenArrivesAlive
  FreshJwtIsHonoured
  NoEarlyExchange
