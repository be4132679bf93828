SPECIFICATION FairSpec
CONSTANTS
  Procs = {p1, p2, p3}
  Clients = {c1}
  NoPid = NoPid
  NoContent = NoContent
  StartsApart = TRUE
  MayCrash = TRUE
  FopenFails = FALSE
  RemovesPid = TRUE
INVARIANTS TypeOK OneInstance PidFileNamesInstance
PROPERTIES InstancesSpareEachOther StartCompletes Reconnects
CHECK_DEADLOCK FALSE
