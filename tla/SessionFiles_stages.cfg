SPECIFICATION FilesSpec
CONSTANTS
  s1 = s1
  s2 = s2
  local = local
  usb = usb
  Subjects = {s1}
  Roots = {local}
  Shapes <- TwoShapes
  Block = 2
  FaultyIO = {}
  Hotplug = FALSE
  Diagnostics = TRUE
  MaxSessions = 2
  MaxEvents = 5
  MaxRecords = 1
INVARIANTS ExecutorsStayRegistered
CHECK_DEADLOCK FALSE
