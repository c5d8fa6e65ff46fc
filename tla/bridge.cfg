\* Two calls of one process, the second after the first has returned; the host
\* may be started again.  Or one operation on three tabs; or two starts of two hosts.
CONSTANTS
  a1 = a1  a2 = a2
  Call = {a1, a2}
  Before <- TwoInTurn
  MaxStarts = 2
  BWindow = {1, 2, 3}
  Strips0 <- TheStrips0
  BAsked = {"west", "east", "north"}
  MaxBTrouble = 2
  BHost = {"h1", "h2"}
  MaxBStarts = 2
  Base = 2
  Width = 2
SPECIFICATION BrowserSpec
INVARIANTS AnswersMatch PendingIsOwed TabsMoveOneStep SocketLeadsToHost
PROPERTIES CarriesCalls LateNeverOvertaken HandlersEnd
CHECK_DEADLOCK FALSE
