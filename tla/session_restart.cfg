SPECIFICATION SessionSpec
CONSTANTS
  Desktop = {Empty, Work}
  EmptyDesktop = Empty
  Uncaptured = Uncaptured
  NoSnapshot = NoSnapshot
  Boots = {1, 2}
  Interval = 1
  PausedValues = {FALSE}
  MaxBurst = 0
  FaultKinds = {"outage", "fail", "stop"}
  MaxFaults = 1
  AgeCap = 0
INVARIANTS PreviousBootSpared OfferIsOfLastBoot
CHECK_DEADLOCK FALSE
