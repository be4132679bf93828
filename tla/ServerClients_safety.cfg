SPECIFICATION Spec
CONSTANTS
  Clients = {a, b}
  NoName = NoName
  NClient = 2
  ReqBatch = 2
  MaxRequests = 2
  MaxEvents = 1
  Writing = TRUE
  SetupCanFail = FALSE
SYMMETRY NameSymmetry
INVARIANTS
  TypeOK
  LiveNamesUnique
  LiveCounted
  LookupFindsLive
  PipeBelongsToName
  NameInv
PROPERTIES RegistrySpec
