\* A nested editor's merge: the window closed afterwards may show other panes.
CONSTANTS
  a = a  b = b  c = c  host = host  inner = inner  mux = mux
  NoAdapter = NoAdapter
  Window = {1, 2, 3}
  Pane = {a, b, c}
  Adapter = {inner, host}
  Chain <- EditorsChain
  Profile <- NestedProfile
  Pid <- SamePid
  AppId <- SameApp
  Transferable <- NoPairs
  CanPlace = TRUE
  InitPlace <- TwoAndOne
  MaxLayers = 2
  MaxPolls = 2
  MaxFail = 0
  MaxEnv = 0
  MaxRequests = 1
SPECIFICATION Spec
PROPERTIES ClosesOnlyEmptyWindows
CHECK_DEADLOCK FALSE
