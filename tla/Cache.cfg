SPECIFICATION FairSpec
CONSTANTS
  Threads = {t1, t2}
  Cleaners = {t1}
  Paths = {p, q}
  Branches = {main, b}
  Main = main
  Gone = Gone
  NoPath = NoPath
  MaxOpened = 2
INVARIANTS
  CacheInv
  NothingLeaks
  SelectSetsDb
  PointersStayOpen
PROPERTIES
  CreationKeepsBranches
  SelectReturns
