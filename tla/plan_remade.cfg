SPECIFICATION RestoreSpec
CONSTANTS
  a = a
  b = b
  Editor = Editor
  Viewer = Viewer
  Reviewer = Reviewer
  NoApp = NoApp
  App = {Editor, Viewer, Reviewer}
  Class = {Editor, Reviewer}
  Char <- MCChar
  Title <- MCTitle
  Inputs = {}
  Snapshots <- Identified
  Workspace <- MCWorkspace
  UserWindows = {}
  Review <- MCReview
  NewTitles = {}
  MaxRestores = 1
  MaxEvents = 1
INVARIANTS AskedForComesBack
CHECK_DEADLOCK FALSE
