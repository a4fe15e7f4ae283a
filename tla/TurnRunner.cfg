SPECIFICATION FairSpec
CONSTANTS
  MaxTurns = 2
  MayCancel <- FirstTurn
  Speech <- AllSpeech
  NoTurn = NoTurn
  NoThread = NoThread
INVARIANTS InterruptedOnce OwnOutcome QuietThreadAccepts
PROPERTIES AbandonedStops HolderReturns
CHECK_DEADLOCK FALSE
