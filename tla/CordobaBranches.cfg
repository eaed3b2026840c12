SPECIFICATION Spec
CONSTANTS
  Threads = {t1, t2}
  Keepers = {}
  Branches = {main, topic}
  Main = main
  Files = {f, g}
  Contents = {x}
  Absent = Absent
  NoCtx = NoCtx
  NoThread = NoThread
  MaxCommits = 3
  MaxUpdates = 1
SYMMETRY Symmetry
INVARIANTS
  TypeOK
  IInv
  NoLostCommit
  FirstWins
  BaseOnBranch
  CommitIsParentPlusDelta
PROPERTIES
  FastForward
