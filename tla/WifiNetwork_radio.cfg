SPECIFICATION FairWifiSpec
CONSTANTS
  Sensors = {1, 2}
  Devices = {1, 2, 3}
  AllowRestart = TRUE
  PerSubject = FALSE
  MaxSearches = 2
  MaxConfigures = 2
  MaxMoves = 1
  MaxFailures = 1
INVARIANTS RadioRestored AddressesDistinct
 
CHECK_DEADLOCK FALSE
