CONSTANTS
  Record = {r1, r2}
  Beat = Beat
  NoFile = NoFile
  Torn = Torn
  Exchanges = {"ok", "fail", "eof", "serverError", "badCred", "forbidden"}
  MaxFaults = 4
  MaxCrashes = 2
  MaxDepth = 3
SPECIFICATION FairSpec
INVARIANTS NoOtherLoss TwiceOnlyIfBlurred
PROPERTY CacheDrains
CHECK_DEADLOCK FALSE
