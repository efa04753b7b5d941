SPECIFICATION Spec
CONSTANTS
  Tables <- MCSorted
  MCAddrs = {0, 9, 19, 108, 109, 118}
  MCLength = 4
INVARIANTS TypeOK UsableMessages EachPlannedOnce NoGap
CHECK_DEADLOCK FALSE
