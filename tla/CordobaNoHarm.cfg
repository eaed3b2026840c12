SPECIFICATION Spec
CONSTANTS
  Threads = {t1}
  Keepers = {}
  Branches = {main}
  Main = main
  Files = {f}
  Contents = {x}
  Absent = Absent
  NoCtx = NoCtx
  NoThread = NoThread
  MaxCommits = 2
  MaxUpdates = 1
INVARIANTS
  ErrorMeansNoCommit
