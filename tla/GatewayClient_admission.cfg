SPECIFICATION Spec
CONSTANTS
  t1 = t1
  t2 = t2
  sensor1 = sensor1
  None = None
  Threads = {t1, t2}
  Resetters = {t1}
  Addresses = {sensor1}
  Commands <- FewCommands
  RepeatsReset = FALSE
  MaxRequests = 3
  MaxBytes = 6
  MaxFaults = 1
INVARIANTS  OwnersAccounted ReaderParsesAlike
CHECK_DEADLOCK FALSE
