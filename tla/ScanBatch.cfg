SPECIFICATION FairSpec
CONSTANTS
  a = a
  b = b
  c = c
  CMU = CMU
  BMU = BMU
  NoResult = NoResult
  Hosts <- MCHosts
  Ranges <- MCSome
  Firmware <- MCFirmware
  MaxClicks = 3
INVARIANTS TypeOK ReportsInTheirRow OneCommandAtATime BusyWhileWorking
PROPERTIES FreedWhenDone BusyEnds
CHECK_DEADLOCK FALSE
