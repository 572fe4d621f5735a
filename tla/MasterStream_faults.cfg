SPECIFICATION Spec
CONSTANTS
  m = m
  w1 = w1
  w2 = w2
  a = a
  b = b
  Nodes = {m, w1}
  Master = m
  Subjects = {a, b}
  Assign <- AssignSplit
  ClientWaits = TRUE
  MaxStarts = 2
  MaxStops = 1
  MaxRetries = 1
  MaxCommits = 0
  MaxFaults = 1
  MaxIOFaults = 1
INVARIANTS TypeOK BarrierSafety  
PROPERTY ImplementsBarrier
CHECK_DEADLOCK FALSE
