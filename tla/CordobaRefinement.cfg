SPECIFICATION Spec
CONSTANTS
  Threads = {t1, t2}
  Keepers = {}
  Branches = {main, topic}
  Main = main
  Files = {f}
  Contents = {x}
  Absent = Absent
  NoCtx = NoCtx
  NoThread = NoThread
  MaxCommits = 2
  MaxUpdates = 2
SYMMETRY Symmetry
PROPERTIES
  Refines
