SPECIFICATION FairSpec
CONSTANTS
  a1 = a1
  a2 = a2
  m1 = m1
  Archives = {a1, a2}
  Usb = {a2}
  Methods = {m1}
  TelemetryFails = FALSE
  MaxReplies = 2
  MaxLocal = 1
  MaxFaults = 1
INVARIANTS TypeOK  AnswersHonest
PROPERTIES UploadsHappen
CHECK_DEADLOCK FALSE
