SPECIFICATION Spec
CONSTANTS
  Subjects = {s1, s2}
  Roles = {"standalone", "worker"}
  MaxStarts = 2
  MaxStops = 3
  MaxFaults = 1
INVARIANTS TypeOK PersistedWasStable PersistedNotArchived  StartDecided
SYMMETRY Symmetry
CHECK_DEADLOCK FALSE
