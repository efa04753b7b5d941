SPECIFICATION FairSpec
CONSTANTS
  Clients = {c1}
  Retries = 3
  MaxFull = 3
  Wrap = 10
  RetryBound = 5
  ChangeBound = 0
  NoSession = NoSession
  Requests <- MCUploads
INVARIANTS OkOnBothSides
PROPERTIES RefinesTftp PutEnds PutSucceeds
CHECK_DEADLOCK FALSE
