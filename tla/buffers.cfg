\* Two calls on nvim instances; two processes on a tmux server; one call on three
\* panes of kitty or wezterm; one on three buffers of Emacs; one merge of two windows of VS Code; one call on three panes of zellij.
CONSTANTS
  NvimServer = {s1, s2}
  NvimPane = {p1, p2}
  File = {f1, f2}
  FirstServer = s1
  FirstPane = p1
  NoServer = NoServer
  NoPane = NoPane
  NoFile = NoFile
  MaxLooks = 1
  MaxCalls = 2
  MaxUser = 2
  MaxNvimFail = 1
  TPane = {t1, t2, t3}
  OtherPane = t3
  NoTPane = NoTPane
  Window = {w1, w2, w3}
  MainWindow = w1
  OtherWindow = w2
  NoWindow = NoWindow
  Session = {m, o, d1}
  MainSession = m
  OtherSession = o
  DetachedSession = {d1}
  NoSession = NoSession
  Ttl = 1
  MaxTicks = 2
  MaxCmds = 2
  MaxMux = 2
  Emulators <- TheEmulators
  Asked = {"west"}
  MuxPane = {1, 2, 3}
  MuxWindow = {1, 2, 3}
  MaxMuxOps = 1
  MaxMuxTrouble = 1
  Buffer = {1, 2, 3}
  Frame = {1, 2, 3}
  EmacsAsked = {"south"}
  MaxEmacsCalls = 1
  MaxEmacsUser = 1
  MaxEmacsFail = 1
  Tabs0 <- TheTabs
  Pathless = {"n"}
  TargetTab = "t"
  Nets <- TheNets
  MaxTabs = 3
  MaxLags = 1
  MaxMeddling = 1
  MaxSendFails = 1
  Tabs1 <- TheTabs1
  Blocks = {{}}
  TemplateLines = 1
  Hosts <- TheHosts
  ZAsked = {"west"}
  MaxZCalls = 1
  MaxZTrouble = 1
SPECIFICATION Spec
INVARIANTS
  CheckedEditsKept BufferHeld SourceGoneFirst
  PanesSurvive AskingLeavesFocus TextReachesPane GroupArrivesWhole ClipboardGivenBack
PROPERTIES
  EveryCallReturns ActsOnShownPane MergesWhereShown FramesKeepBuffers
CHECK_DEADLOCK FALSE
