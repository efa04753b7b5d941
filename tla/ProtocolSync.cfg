SPECIFICATION FairSpec
CONSTANTS
  BMS_PROTOCOL = {0, 1}
  Versions <- MCVersions
  cproVerList <- MCcproVerList
  CmuVers <- MCCmuVers
  Recommended <- MCRecommended
  Recorded <- MCRecorded
  NoTable <- MCNoTable
  Picked <- MCPicked
  UserBound = 2
  SwapBound = 1
  QueueBound = 2
INVARIANTS TypeOK TableFollowsVersion BoxShowsVersion ChangeTakesEffect
  DetectedTableFits
PROPERTIES Settles
