SPECIFICATION Spec
CONSTANTS
  m = m
  w1 = w1
  w2 = w2
  a = a
  b = b
  Nobody = Nobody
  Nodes = {m, w1}
  Master = m
  Subjects = {a, b}
  MaxInits = 3
  MaxResets = 2
  MaxFaults = 1
INVARIANTS TypeOK OwnershipSound NoBrokenCore
PROPERTY ConfirmedMeansInstalled
CHECK_DEADLOCK FALSE
SYMMETRY Symmetry
