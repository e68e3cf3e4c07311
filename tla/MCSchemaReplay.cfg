SPECIFICATION MCSpec
CONSTANTS
  r1 = r1
  r2 = r2
  r3 = r3
  ghost = ghost
  Revisions = {r1, r2, r3}
  Unknown = {ghost}
  MaxParents = 2
  Tables <- MCTables
  MaxStatements = 4
  Chain <- MCChain
INVARIANTS
  CycleSearchIsExact
  ReplayedInOrder
  ReplayIsTheDatabase
  RisksAreReported
PROPERTY Terminates
CHECK_DEADLOCK FALSE
