\* One tear-out that something may disturb, or two that may overlap.
CONSTANTS
  p1 = p1  p2 = p2  p3 = p3
  Pane = {p1, p2, p3}
  NoPane = NoPane
  MaxAttempts = 3
  MaxChecks = 2
  Bounds <- OneOrTwo
  Homes <- TheHomes
SPECIFICATION FairSpec
INVARIANTS SpawnMeansDetached
PROPERTIES NewTerminalShowsPane WatchSettles
CHECK_DEADLOCK FALSE
