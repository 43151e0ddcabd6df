SPECIFICATION RestoreSpec
CONSTANTS
  a = a
  b = b
  Editor = Editor
  Viewer = Viewer
  Reviewer = Reviewer
  NoApp = NoApp
  App = {Editor, Viewer, Reviewer}
  Class = {Editor, Reviewer}
  Char <- MCChar
  Title <- MCTitle
  Inputs = {}
  Snapshots <- Identified
  Workspace <- MCWorkspace
  UserWindows <- MCUserWindows
  Review <- MCReview
  NewTitles <- MCNewTitles
  MaxRestores = 1
  MaxEvents = 0
INVARIANTS UserSaidYes
CHECK_DEADLOCK FALSE
