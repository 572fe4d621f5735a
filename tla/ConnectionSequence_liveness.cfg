SPECIFICATION FairSpec
CONSTANTS
  m = m
  w = w
  a = a
  b = b
  x1 = x1
  x2 = x2
  x3 = x3
  Nodes = {m, w}
  Master = m
  Subjects = {a, b}
  NodeOf <- NodeOfTwo
  Order <- OrderTwo
  Addresses = {x1, x2}
  Slots <- OneSlot
  MaxRuns = 2
  MaxSearches = 0
  MaxResets = 1
  MaxConfigures = 0
  MaxLinkLosses = 1
  MaxFaults = 1
PROPERTY ConnectAllEnds
CHECK_DEADLOCK FALSE
