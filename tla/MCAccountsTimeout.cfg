CONSTANTS
  a = a
  b = b
  x = x
  y = y
  i1 = i1
  Request = {q1, q2}
  Name = {a, b}
  Password = {x, y}
  Ip = {i1, i2}
  Old <- MCOld
  Rights <- MCRights
  NoUser = NoUser
  NoSession = NoSession
  Unasked = Unasked
  MaxUsers = 2
  MaxTime = 3
  Hour = 2
  ColumnMax = 1
SPECIFICATION Spec
SYMMETRY MCSymmetry
PROPERTIES TimesOut
CHECK_DEADLOCK FALSE
