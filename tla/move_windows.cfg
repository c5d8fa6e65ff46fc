\* A multiplexer in one window and a terminal in the other; two requests, the user interferes.
CONSTANTS
  a = a  b = b  c = c  host = host  inner = inner  mux = mux
  NoAdapter = NoAdapter
  Window = {1, 2, 3, 4}
  Pane = {a, b, c}
  Adapter = {mux, host}
  Chain <- MixedChain
  Profile <- MixedProfile
  Pid <- SamePid
  AppId <- SameApp
  Transferable <- AllPairs
  CanPlace = TRUE
  InitPlace <- TwoAndOne
  MaxLayers = 1
  MaxPolls = 2
  MaxFail = 1
  MaxEnv = 2
  MaxRequests = 2
SPECIFICATION Spec
INVARIANTS TypeOK NothingStranded
PROPERTIES FocusComesBack PlacesTornOutWindow ClosesOnlyEmptyWindows KeepsContract
CHECK_DEADLOCK FALSE
