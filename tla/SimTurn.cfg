SPECIFICATION FairSpec
CONSTANTS
  Seats = 2
  Units = 3
  ReadyTicks = 1
  TurnTicks = 2
  RetreatTicks = 1
  MaxPhaseTick = 2
  SuddenDeathTurn = 3
  Rises = 2
  MaxDeaths = 1
  Scripts <- MCScripts
INVARIANTS
  RotationIsFair
  ChargeEndsWithTurn
  OneAttackPerTurn
PROPERTIES
  MatchEnds
CHECK_DEADLOCK FALSE
