SPECIFICATION FairSpec
CONSTANTS
  p = p
  q = q
  Page = {p, q}
  About = About
  Host = {h1, h2}
  NoHost = NoHost
  NoFile = NoFile
  SavedLists <- MCSavedLists
  LastSessions <- MCLastSessions
  UserWindows <- MCUserWindows
  MaxRestores = 2
  MaxAsked = 2
  MaxStarts = 2
  MaxEvents = 2
INVARIANTS TypeOK OneForOne DoneWasTaken
PROPERTIES NeverDuplicated AskedIsOpened
CHECK_DEADLOCK FALSE
