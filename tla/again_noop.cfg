SPECIFICATION MCSpec
CONSTANTS
  a = a
  b = b
  Editor = Editor
  Viewer = Viewer
  Reviewer = Reviewer
  NoApp = NoApp
  App = {Editor, Viewer, Reviewer}
  Class = {Editor, Reviewer}
  Char <- MCChar
  Title <- MCTitle
  Inputs <- Both
  Snapshots <- Identified
  Workspace <- MCWorkspace
  UserWindows <- MCUserWindows
  Review <- MCReview
  NewTitles <- MCNewTitles
  MaxRestores = 2
  MaxEvents = 1
INVARIANTS RestoreTypeOK NeverTooMany ListedIsLaunched MatchingInv NothingLeftSilently
CHECK_DEADLOCK FALSE
