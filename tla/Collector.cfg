SPECIFICATION Spec
CONSTANTS
  Files <- FilesAround
  Targets <- FilesAndDirectory
  Contents = {c1, c2}
  Absent = Absent
  Directory = Directory
  MaxCollected = 3
  MaxDepth = 3
SYMMETRY Symmetry
INVARIANTS
  TypeOK
  UpdatesInOrder
  ApplyIsSnapshot
  ReadsWhatCommits
  NothingElseChanges
  LastUpdateDecides
