SPECIFICATION FairSpec
CONSTANTS
  s1 = s1
  s2 = s2
  s3 = s3
  MaxTurns = 2
  Window = 1
  Failures = {"send"}
  Seats <- Duel
  Active <- MCActive
PROPERTIES
  OwnTurnIsPublished
CHECK_DEADLOCK FALSE
