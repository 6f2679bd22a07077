CONSTANTS
  Ids = {u1, u2}
  None = None
  Names = {ann}
  NewUser = new
  Numbers = {0, 1}
  MaxCalls = 5
  MaxTyped = 2
SYMMETRY MCSymmetry
SPECIFICATION Spec
INVARIANTS ForeignOnlyMeanwhile ShowsStored
CHECK_DEADLOCK FALSE
