SPECIFICATION Spec
CONSTANTS
  Threads = {t1, t2}
  Cleaners = {t1}
  Paths = {p}
  Branches = {main}
  Main = main
  Gone = Gone
  NoPath = NoPath
  MaxOpened = 2
INVARIANTS
  EntriesAreSerialized
