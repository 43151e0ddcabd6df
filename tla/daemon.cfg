SPECIFICATION FairSpec
CONSTANTS
  Desktop = {Empty, Work}
  EmptyDesktop = Empty
  Uncaptured = Uncaptured
  NoSnapshot = NoSnapshot
  Boots = {1}
  Interval = 2
  PausedValues = {FALSE, TRUE}
  MaxBurst = 1
  FaultKinds = {"tear", "outage", "fail", "stop"}
  MaxFaults = 2
  AgeCap = 4
INVARIANTS TypeOK NoLostChange ReportedIsRecent
PROPERTIES QuitSaves SettledIsSaved
CHECK_DEADLOCK FALSE
