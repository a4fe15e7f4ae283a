SPECIFICATION Spec
SYMMETRY Symmetry
CONSTANTS
  turn = turn
  sub = sub
  a = a
  b = b
  c = c
  Unknown = Unknown
  Callers <- TwoCallers
  Tasks <- ThreeTasks
  Lists <- AWaitedFor
  Creates <- SomeCreates
  Updates <- SomeUpdates
  MaxCalls = 3
  MaxFaults = 1
INVARIANTS LinksAgree BlockersComeFirst AnswersStand
CHECK_DEADLOCK FALSE
