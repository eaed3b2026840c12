SPECIFICATION Spec
CONSTANTS
  Files <- FilesBelow
  Targets <- DirectoriesToo
  Contents = {c}
  Absent = Absent
  Directory = Directory
  MaxCollected = 2
  MaxDepth = 2
INVARIANTS
  DelRemovesDirectory
