SPECIFICATION FairSpec
CONSTANTS
  Procs = {p1, p2}
  Clients = {c1}
  NoPid = NoPid
  NoContent = NoContent
  StartsApart = TRUE
  MayCrash = FALSE
  FopenFails = FALSE
  RemovesPid = TRUE
CHECK_DEADLOCK FALSE
INVARIANTS Reachable
