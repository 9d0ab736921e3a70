SPECIFICATION MatchSpec
CONSTANTS
  s1 = s1
  s2 = s2
  MaxTurns = 3
  Window = 2
  Failures = {}
  PayFailures = {"job", "stop"}
  Seats <- Duel
  Active <- MCActive
INVARIANTS
  SignsOnlyEnded
PROPERTIES
  Finishes
  MatchSettles
CHECK_DEADLOCK FALSE
