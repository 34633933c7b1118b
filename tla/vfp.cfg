\* The instructions of the floating point unit.
CONSTANTS
  Single <- MCSingle
  Double <- MCDouble
  RootError = 1
  Builds <- MCBuilds
  Starts <- MCStarts
SPECIFICATION Spec
PROPERTY SinglesAsArchitected
PROPERTY DoublesAsArchitected
PROPERTY VectorsGoRound
CHECK_DEADLOCK FALSE
