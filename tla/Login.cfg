CONSTANTS
  App = {a1, a2}
  When = {w1, w2}
  Inits = {s1, s2}
  Ids = {i1, i2}
  MaxChecks = 2
  MaxRejects = 2
  MaxErrors = 1
SPECIFICATION FairSpec
INVARIANTS OnePlace SomebodyDrains HangsOnlyCrossed
PROPERTY QueueServed
CHECK_DEADLOCK FALSE
