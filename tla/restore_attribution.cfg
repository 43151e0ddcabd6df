SPECIFICATION Spec
CONSTANTS
  Editor = Editor
  Terminal = Terminal
  OldWindow = OldWindow
  App = {Editor, Terminal}
  Window = {OldWindow, w1, w2}
  Request = {1, 2, 3}
  Unplaced = Unplaced
  Plans <- DistinctPlans
  Refusals = {FALSE}
  MaxUserWindows = 1
  MaxFailures = 1
  MaxOutages = 0
SYMMETRY NewWindows
INVARIANTS DoneIsClaimed OwnWindowClaimed
CHECK_DEADLOCK FALSE
