SPECIFICATION Spec
CONSTANTS
  Threads = {t1, t2}
  Channels = {ch1, ch2}
  Dirs = {d1, d2}
  Listeners = {l1, l2, l3}
  NoChannel = NoChannel
  NoDir = NoDir
  NoListener = NoListener
  NoThread = NoThread
  Fixed <- OneHasItsOwn
  NumbersApart = TRUE
  CreatesApart = TRUE
  AnyoneCloses = FALSE
INVARIANTS TypeOK UnclaimedIsClean ClaimsHaveOwners DirsExclusive FilesInPlace OneListenerUnlessLeft
PROPERTIES RegisterSpec
SYMMETRY Symmetry
