SPECIFICATION WorkSpec
CONSTANTS
  turn = turn
  sub = sub
  notes = notes
  env = env
  Callers <- TwoCallers
  Turn = turn
  Files <- TwoFiles
  Blacklisted <- EnvFile
  Batches <- TwoBatches
  MaxVersions = 3
  MaxClock = 2
  MaxCalls = 3
INVARIANTS QuietEditSurvives OwnWritesNeverRefuse
CHECK_DEADLOCK FALSE
