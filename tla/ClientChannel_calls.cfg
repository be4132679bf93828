SPECIFICATION FairSpec
CONSTANTS
  App = App
  Helpers = {h1, h2}
  NoThread = NoThread
  Ion = TRUE
  CallbackStops = TRUE
  Overlap = FALSE
  SocketFaults = {"connect"}
  MaxBadPackets = 1
INVARIANTS TypeOK UnclaimedIsClean OneHelperUnlessLeft BufferLives
PROPERTIES AppReturns
