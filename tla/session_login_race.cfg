SPECIFICATION SessionSpec
CONSTANTS
  Desktop = {Empty, Work}
  EmptyDesktop = Empty
  Uncaptured = Uncaptured
  NoSnapshot = NoSnapshot
  Boots = {1, 2}
  Interval = 1
  PausedValues = {FALSE}
  MaxBurst = 0
  FaultKinds = {}
  MaxFaults = 0
  AgeCap = 0
INVARIANT LoginIsHonest
CHECK_DEADLOCK FALSE
