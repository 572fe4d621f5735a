SPECIFICATION FairSpec
CONSTANTS
  m = m
  w1 = w1
  w2 = w2
  a = a
  b = b
  Nodes = {m, w1}
  Master = m
  Subjects = {a, b}
  Assign <- AssignSplit
  ClientWaits = FALSE
  MaxStarts = 1
  MaxStops = 1
  MaxRetries = 1
  MaxCommits = 1
  MaxFaults = 0
  MaxIOFaults = 1
PROPERTIES StopAnswered ReadyLeadsToOfficial
CHECK_DEADLOCK FALSE
