SPECIFICATION Spec
CONSTANTS
  KeepTurns = 2
  KeepBlocks = 1
  KeepMessages = 1
  Margin = 1
  MaxIds = 6
  MaxTurns = 3
  Markers = {"memory", "coder", "writer"}
  Texts = {1, 2}
  Openings <- MCOpenings
  Endings <- MCEndings
  Orphans = TRUE
  Restarts = 1
INVARIANTS ModelIsTold PromptsAreCurrent SavedStays PairsAreSent RecentTurnsIntact
CHECK_DEADLOCK FALSE
