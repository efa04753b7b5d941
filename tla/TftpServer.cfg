SPECIFICATION FairSpec
CONSTANTS
  Clients = {c1}
  Retries = 3
  MaxFull = 3
  Wrap = 6
  RetryBound = 5
  ChangeBound = 1
  NoSession = NoSession
  Requests <- MCRequests
INVARIANTS TypeOK CleanCopy SuccessMeansReceived UploadComplete
PROPERTIES SessionEnds Completes
CHECK_DEADLOCK FALSE
