SPECIFICATION FilesSpec
CONSTANTS
  s1 = s1
  s2 = s2
  local = local
  usb = usb
  Subjects = {s1, s2}
  Roots = {local, usb}
  Shapes <- TwoShapes
  Block = 2
  FaultyIO = {"raw", "zip"}
  Hotplug = FALSE
  Diagnostics = TRUE
  MaxSessions = 2
  MaxEvents = 5
  MaxRecords = 1
SYMMETRY Interchangeable
INVARIANTS FilesTypeOK  ArchivedStaysGone 
CHECK_DEADLOCK FALSE
