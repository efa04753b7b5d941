SPECIFICATION Spec
CONSTANTS
  Tables <- MCExtended
  MCAddrs = {4, 50, 105, 108, 110, 200}
  MCLength = 0
INVARIANTS UsableMessages
CHECK_DEADLOCK FALSE
