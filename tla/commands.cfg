\* Seven configurations, two terminals with two tabs; three windows in a row; two
\* windows on three workspaces of two outputs, with a call that dies; a fourth window
\* placed beside one of three on a strip.
CONSTANTS
  Directions <- TheDirections
  Tabs <- TheTabs
  Files <- TheFiles
  Defaults <- Empty
  Hosts <- TheHosts
  MaxRequests = 1
  MaxWorld = 1
  MaxBlind = 1
  Windows <- TheWindows
  MaxFocusChanges = 1
  o1 = o1  o2 = o2
  Window = {w1, w2}
  Space = {1, 2, 3}
  Output = {o1, o2}
  OutputOf <- TwoOutputs
  Proc = {c1, c2}
  NoWindow = NoWindow
  NoSpace = 0
  NoOutput = NoOutput
  Torn = Torn
  MaxCalls = 3
  MaxEnv = 1
  MaxDeaths = 1
  WmWindow = {1, 2, 3, 4}
  NewWindow = 4
  NoWmWindow = 0
  Strips <- TheStrips
  Adapters <- TheAdapters
  MaxWmEvents = 2
SPECIFICATION Spec
SYMMETRY Alike
INVARIANTS ChainIsFocusedStack OriginsKept LandsBeside
PROPERTIES ComesHome ActsWhereShown PolicyHonoured OnlyTheSourceMoves
CHECK_DEADLOCK FALSE
