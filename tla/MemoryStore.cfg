SPECIFICATION MemorySpec
CONSTANTS
  serve = serve
  repl1 = repl1
  repl2 = repl2
  f1 = f1
  f2 = f2
  Procs <- MCProcs
  Credits <- MCCredits
  MaxMemories = 3
  MaxForgets = 2
INVARIANTS ChainsAreLines FeedbackStays ForgottenStays
SYMMETRY Alike
