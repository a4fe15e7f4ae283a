SPECIFICATION FairSpec
CONSTANTS
  Tools <- AllTools
  Gated <- GatedTools
  SubAgents <- TaskTools
  Batches <- TwoBatches
  MaxIterations = 2
  TokenBudget = 3
  SkipApproval = FALSE
  SessionRules <- NoRules
  FileRules <- AnyRules
  MayCancel = TRUE
  NoCall = NoCall
  MaxTurns = 2
  MaxCalls = 4
INVARIANTS ResultsInCallOrder TurnIsAnswered
PROPERTIES KeepsPromise TurnEnds
CHECK_DEADLOCK FALSE
