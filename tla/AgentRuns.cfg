SPECIFICATION FairSpec
CONSTANTS
  MaxRuns = 2
  t1 = t1
  Turns <- OneTurn
  Stoppers <- AllRuns
  NoRun = NoRun
PROPERTIES ImplementsMailbox OutcomeArrives StopReturns
CHECK_DEADLOCK FALSE
