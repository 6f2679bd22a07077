CONSTANTS
  Procs = {p1, p2}
  Broken = Broken
  MaxRelease = 3
  MaxFaults = 1
SPECIFICATION FairSpec
INVARIANTS NoVersionTooHigh DownOnlyTorn
PROPERTIES AgainOnlyStale InstalledIfStarted
CHECK_DEADLOCK FALSE
