SPECIFICATION FairSpec
CONSTANTS
  serve = serve
  repl = repl
  daily = daily
  weekly = weekly
  None = None
  Writers <- TwoWriters
  Names <- TwoNames
  Values <- TwoValues
  Asked <- OneValue
  Static <- DailyIsSet
  RunAtStart <- DailyName
  Slots <- TwoSlots
  BusSize = 1
  MaxTime = 2
  MaxCalls = 2
  MaxFaults = 1
INVARIANTS OneJobPerSchedule SavedSchedulesStay
  DriftIsNoticed
PROPERTIES ChangesBecomeActive
CHECK_DEADLOCK FALSE
