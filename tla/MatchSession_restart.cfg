SPECIFICATION FairSpec
CONSTANTS
  s1 = s1
  s2 = s2
  s3 = s3
  MaxTurns = 2
  Window = 1
  Failures = {"stop"}
  Seats <- Duel
  Active <- MCActive
PROPERTIES
  PublishedTurnArrives
CHECK_DEADLOCK FALSE
