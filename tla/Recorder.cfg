SPECIFICATION Spec
CONSTANTS
  Versions <- MCVersions
  cproVerList = {4, 3001}
  Sizes <- MCSizes
  MaxSizes <- MCMaxSizes
  Faults = {f1}
  Counts = {2, 5}
  DefaultCount = 2
  Wrap = 4
  NoFile = NoFile
  ChangeBound = 1
  SeenBound = 3
INVARIANTS TypeOK ColumnsFit LinesAsAsked Survives
PROPERTIES NewFileWhenNeeded
CHECK_DEADLOCK FALSE
