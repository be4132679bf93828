SPECIFICATION Spec
CONSTANTS
  QueueSize = 4
  QueueLimit = 1
  Color = FALSE
  MayStop = TRUE
  MayOverrun = FALSE
  MaxFrames = 8
INVARIANTS TypeOK OneResultInFlight TensorsHeld PublishedMatches
PROPERTIES PublishedInOrder StreamSpec
CHECK_DEADLOCK FALSE
