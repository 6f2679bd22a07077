CONSTANTS
  PutRequest = {q1, q2}
  User = {u1}
  Amount = {5}
  Length <- MCLength
  Size1 = 2
  Lag1 = 1
  Size2 = 4
  Lag2 = 2
  MaxInt = 12
  MaxPuts = 3
  MaxTime = 4
  Users = {"a", "b"}
  Lists <- MCLists
  Data <- MCData
  Trust = {1, 2}
  Quotas = {0, 3}
  MaxEnd = 4
  MaxRequests = 2
SPECIFICATION RecordsSpec
SYMMETRY MCSymmetry
INVARIANTS OneRowPerBlock SharesAddUp TotalsSplit
PROPERTY OnlyEdgesLose
CHECK_DEADLOCK FALSE
