SPECIFICATION Spec
CONSTANTS
  a = a
  b = b
  c = c
  CMU = CMU
  BMU = BMU
  NoResult = NoResult
  Hosts <- MCHosts
  Ranges <- MCTwo
  Firmware <- MCFirmware
  MaxClicks = 2
PROPERTIES DoneMeansDone
CHECK_DEADLOCK FALSE
