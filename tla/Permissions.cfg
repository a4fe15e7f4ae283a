SPECIFICATION Spec
CONSTANTS
  s1 = s1
  s2 = s2
  r1 = r1
  Write = Write
  Bash = Bash
  Read = Read
  Task = Task
  src = src
  secret = secret
  status = status
  inSrc = inSrc
  inSecret = inSecret
  inStatus = inStatus
  any = any
  Malformed = Malformed
  Nil = Nil
  Sessions <- TwoSessions
  Runs <- OneRun
  Tools <- AllTools
  Calls <- AllCalls
  ToolOf <- ToolOfCall
  Patterns <- AllPatterns
  Matched <- MatchedCalls
  Blank <- any
  InferPattern <- Inferred
  UserFiles <- SomeUserFiles
  ProjectFiles <- SomeProjectFiles
  LocalFiles <- SomeLocalFiles
  CliTools <- SomeCliTools
  CommandTools <- SomeCommands
  Roles <- SomeRoles
  Definitions <- SomeDefinitions
  MaxStarts = 3
  MaxAlways = 2
SYMMETRY Symmetry
INVARIANTS UnaskedIsGranted DecisionsStand RunKeepsToBound
CHECK_DEADLOCK FALSE
