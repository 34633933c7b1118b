SPECIFICATION Spec
CONSTANTS
  B = 2
  Scenes <- MCScenes
  Mapped <- MCMapped
PROPERTIES
  ArithmeticAsArchitected
  TransfersAsArchitected
  ThumbAsArchitected
  ExclusiveStoresReplaceTheLoaded
CHECK_DEADLOCK FALSE
