SPECIFICATION PartsSpec
CONSTANTS
  Seats = {p1}
  Failures = {"stop", "tick", "write", "job", "abort", "refund"}
  Configs = {"good", "bad"}
  MaxGenerations = 4
  Rosters <- MCRosters
  Timings <- MCTimings
  WordSize = 16
  Sound = 1
  NSeats = 2
  Tables = {"a", "b"}
  FullPower = 2
  Moves = {"a", "b"}
  TurnTicks = 2
  MaxTurns = 3
  QueueSize = 1
  WindowFailures = {"tick", "disconnect", "quit", "write", "switch"}
  NFields = 2
  MaxText = 1
  MaxRevision = 3
  Width = 5
  Height = 5
  WaterY = 5
  Lands <- MCLands
  Targets <- MCTargets
  MaxChanges = 1
  Recordings <- MCRecordings
  MaxTicks = 5
  Columns <- MCColumns
  Layouts <- MCLayouts
  MaxObjects = 4
  MaxShots = 1
INVARIANTS
  PartsTypeOK
  OneJobAtATime
  ConfirmedIsPaid
  SessionIsCurrent
  BusyIsAnswered
  WindowShowsTheMatch
  CountdownRuns
  ChargeIsOfThisTurn
  EvidenceUnlocks
  ResumesTheLatest
  ViewDecides
  ChainsEnd
  SettingsAreAsChosen
  HonestStepIsFound
  NobodyBuried
  PictureShowsGround
  FallsAreReal
CHECK_DEADLOCK FALSE
