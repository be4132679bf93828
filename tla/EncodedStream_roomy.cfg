SPECIFICATION Spec
CONSTANTS
  NClient = 2
  Kinds = {"H", "I", "P"}
  DataSize <- Sizes
  PageSize = 1
  PipePages = 12
  CanClose = FALSE
  MaxFrames = 3
  MaxConnects = 2
INVARIANTS
  StartsWithIFrame
  NewHeaderNeedsIFrame
CHECK_DEADLOCK FALSE
