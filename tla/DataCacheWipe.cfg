CONSTANTS
  Record = {r1}
  Beat = Beat
  NoFile = NoFile
  Torn = Torn
  Exchanges = {"ok", "fail"}
  MaxFaults = 2
  MaxCrashes = 0
  MaxDepth = 3
SPECIFICATION Spec
INVARIANT NoRecordLost
