SPECIFICATION Spec
CONSTANTS
  m = m
  w = w
  a = a
  b = b
  x1 = x1
  x2 = x2
  x3 = x3
  Nodes = {m, w}
  Master = m
  Subjects = {a, b}
  NodeOf <- NodeOfTwo
  Order <- OrderTwo
  Addresses = {x1, x2, x3}
  Slots <- TwoSlots
  MaxRuns = 3
  MaxSearches = 1
  MaxResets = 1
  MaxConfigures = 1
  MaxLinkLosses = 1
  MaxFaults = 1
INVARIANTS TypeOK DisjointSelections OneStepAtATime 
PROPERTY CompletionHonest
CHECK_DEADLOCK FALSE
SYMMETRY Symmetry
