SPECIFICATION WorldSpec
CONSTANTS
  s1 = s1
  s2 = s2
  s3 = s3
  b1 = b1
  b2 = b2
  None = None
  Seats <- MCSeats
  Blocks <- MCBlocks
  Faulty <- MCFaulty
INVARIANTS
  OneWorldPerSeat
  OpenIsUnanimous
