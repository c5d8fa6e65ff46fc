\* VS Code keeps empty groups; two calls that may overlap.
CONSTANTS
  Size = 12
  Layouts <- UpToThree
  Proc = {c1, c2}
  NoState = NoState
  ManageTerminal = TRUE
  GroupsClose = FALSE
  MaxActs = 3
SPECIFICATION Spec
SYMMETRY Alike
INVARIANTS ActiveIsPossible EdgeIsReached
CHECK_DEADLOCK FALSE
