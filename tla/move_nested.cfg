\* An editor nested in a terminal: probes inside the source window.
CONSTANTS
  a = a  b = b  c = c  host = host  inner = inner  mux = mux
  NoAdapter = NoAdapter
  Window = {1, 2, 3}
  Pane = {a, b, c}
  Adapter = {inner, host}
  Chain <- NestedChain
  Profile <- NestedProfile
  Pid <- SamePid
  AppId <- SameApp
  Transferable <- AllPairs
  CanPlace = TRUE
  InitPlace <- TwoAndOne
  MaxLayers = 2
  MaxPolls = 2
  MaxFail = 3
  MaxEnv = 2
  MaxRequests = 1
SPECIFICATION FairSpec
INVARIANTS NoDoubleMove InPlaceProbeIsUndone
PROPERTIES RequestEnds
CHECK_DEADLOCK FALSE
