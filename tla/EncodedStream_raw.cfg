SPECIFICATION Spec
CONSTANTS
  NClient = 2
  Kinds = {"R"}
  DataSize <- Images
  PageSize = 2
  PipePages = 4
  CanClose = TRUE
  MaxFrames = 3
  MaxConnects = 3
INVARIANTS
  TypeOK
  FramesWhole
  HalfFrameMeansGone
CHECK_DEADLOCK FALSE
