SPECIFICATION Spec
CONSTANTS
  NoRef = NoRef
  Null = Null
  Main = main
  Branches = {main, topic}
  Objects <- SomeObjects
  MaxCommits = 2
  MaxUpdates = 2
INVARIANT ReusableUnlessError
