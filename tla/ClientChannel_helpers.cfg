SPECIFICATION FairSpec
CONSTANTS
  App = App
  Helpers = {h1, h2}
  NoThread = NoThread
  Ion = FALSE
  CallbackStops = FALSE
  Overlap = FALSE
  SocketFaults = {"connect"}
  MaxBadPackets = 1
INVARIANTS OneHelper
