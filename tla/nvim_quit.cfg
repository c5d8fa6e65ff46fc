\* The same instance as in buffers.cfg.
CONSTANTS
  NvimServer = {s1, s2}
  NvimPane = {p1, p2}
  File = {f1, f2}
  FirstServer = s1
  FirstPane = p1
  NoServer = NoServer
  NoPane = NoPane
  NoFile = NoFile
  MaxLooks = 1
  MaxCalls = 2
  MaxUser = 2
  MaxNvimFail = 1
SPECIFICATION NvimSpec
INVARIANT UnsavedEditsSurvive
CHECK_DEADLOCK FALSE
