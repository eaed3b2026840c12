SPECIFICATION FairSpec
CONSTANTS
  Threads = {t1, t2}
  Keepers = {t1}
  Branches = {main, topic}
  Main = main
  Files = {f}
  Contents = {x}
  Absent = Absent
  NoCtx = NoCtx
  NoThread = NoThread
  MaxCommits = 2
  MaxUpdates = 1
INVARIANTS
  IInv
PROPERTIES
  OnlyUnseenDiverge
  CommitReturns
