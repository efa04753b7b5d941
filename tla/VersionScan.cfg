SPECIFICATION Spec
CONSTANTS
  Versions <- MCVersions
INVARIANTS HigherTableOnOverlap
