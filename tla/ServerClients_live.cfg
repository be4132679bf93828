SPECIFICATION FairSpec
CONSTANTS
  Clients = {a, b}
  NoName = NoName
  NClient = 1
  ReqBatch = 1
  MaxRequests = 1
  MaxEvents = 1
  Writing = TRUE
  SetupCanFail = TRUE
PROPERTIES
  ThreadsReturn
  
