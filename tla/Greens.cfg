SPECIFICATION Spec
CONSTANTS
  Agents = {a1, a2}
  Branches = {main, brn1}
  Main = main
  Files = {f, g}
  Contents = {x}
  Absent = Absent
  NoTxn = NoTxn
  NoAgent = NoAgent
  NumCommits = 2
  NumOps = 1
INVARIANTS GreensInv NeverLate NamedIsCreated RecordAgrees
PROPERTIES AllReturn
CHECK_DEADLOCK FALSE
