\* VS Code closes a group whose last editor leaves; one call at a time.
CONSTANTS
  Size = 12
  Layouts <- UpToThree
  Proc = {c1}
  NoState = NoState
  ManageTerminal = FALSE
  GroupsClose = TRUE
  MaxActs = 2
SPECIFICATION Spec
INVARIANTS ActiveIsPossible
CHECK_DEADLOCK FALSE
