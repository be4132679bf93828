SPECIFICATION Spec
CONSTANTS
  NBufs = 2
  NClient = 2
  PipeSize = 1
  SockSize = 2
  MaxInFlight = 1
  CanClose = TRUE
  MaxClaims = 4
  MaxConnects = 3
  MaxMessages = 2
INVARIANTS TypeOK FillingHeld
CHECK_DEADLOCK FALSE
