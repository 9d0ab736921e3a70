SPECIFICATION FairSpec
CONSTANTS
  s1 = s1
  s2 = s2
  s3 = s3
  m1 = m1
  m2 = m2
  None = None
  MaxTurns = 3
  Window = 1
  Seats <- Lagging
  Moves <- MCMoves
  ActiveSeat <- MCActiveSeat
  Ended <- MCEnded
  MaxForged = 0
  Faulty = {}
INVARIANTS
  HeadIsDurable
  NoFalseConflict
  PendingBounded
PROPERTIES
  CatchUp
  ImplementsMatchLog
