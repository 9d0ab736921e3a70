SPECIFICATION Spec
CONSTANTS
  s1 = s1
  s2 = s2
  s3 = s3
  MaxTurns = 3
  Window = 1
  Failures = {"stop", "send", "write"}
  Seats <- Trio
  Active <- MCActive
INVARIANTS
  NoPlayBeforeStakes
  NoStakeBeforeAgreement
  AuthorHasTurn
