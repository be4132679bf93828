SPECIFICATION FairSpec
CONSTANTS
  QueueSize = 4
  QueueLimit = 1
  Color = FALSE
  MayStop = TRUE
  MayOverrun = FALSE
  MaxFrames = 2
PROPERTIES ExitsCleanly
CHECK_DEADLOCK FALSE
