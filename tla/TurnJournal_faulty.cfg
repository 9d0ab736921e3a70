SPECIFICATION Spec
CONSTANTS
  s1 = s1
  s2 = s2
  s3 = s3
  m1 = m1
  m2 = m2
  None = None
  MaxTurns = 2
  Window = 1
  Seats <- Duel
  Moves <- MCMoves
  ActiveSeat <- MCActiveSeat
  Ended <- MCEnded
  MaxForged = 2
  Faulty <- OneFaulty
INVARIANTS
  OneBodyPerTurn
  AcceptedIsSigned
PROPERTIES
  HeadOnlyGrows
