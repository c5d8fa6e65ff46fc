\* Two calls that may overlap, in one column of one or two groups.
CONSTANTS
  Size = 12
  Layouts <- OneOrTwo
  Proc = {c1, c2}
  NoState = NoState
  ManageTerminal = FALSE
  GroupsClose = FALSE
  MaxActs = 4
SPECIFICATION Spec
SYMMETRY Alike
INVARIANTS BeliefSurvivesQuickPresses
CHECK_DEADLOCK FALSE
