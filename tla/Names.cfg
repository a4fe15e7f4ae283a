SPECIFICATION NamesSpec
CONSTANTS
  x = x
  X = X
  y = y
  p = p
  q = q
  r = r
  tools = tools
  extras = extras
  None = None
  Names <- AllNames
  Lower <- InLowerCase
  Plugins <- AllPlugins
  PluginName <- NameOf
  Market <- Listed
  Files <- AllFiles
  Commands <- AllCommands
  Own <- OwnNames
  Drivers <- NoDrivers
INVARIANTS BareNamesAreUnambiguous LocalNamesWin ListedNamesAnswer
CHECK_DEADLOCK FALSE
