SPECIFICATION FairSpec
CONSTANTS
  Editor = Editor
  Terminal = Terminal
  OldWindow = OldWindow
  App = {Editor, Terminal}
  Window = {w1, w2}
  Request = {1, 2}
  Unplaced = Unplaced
  Plans <- MixedPlans
  Refusals = {FALSE}
  MaxUserWindows = 0
  MaxFailures = 0
  MaxOutages = 1
INVARIANTS TypeOK EveryActionOnce RightApplication OldestFirst
PROPERTIES RestoreEnds
CHECK_DEADLOCK FALSE
