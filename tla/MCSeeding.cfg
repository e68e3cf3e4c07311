SPECIFICATION Spec
CONSTANTS
  Tables <- MCTables
  MaxForeignKeyColumns = 4
  KeyKinds <- MCKeyKinds
  Scale = 2
  MaxLiteral = 2
  Ceiling = 4
INVARIANTS
  LoadOrderIsSound
  
  LoadedIsComplete
CHECK_DEADLOCK FALSE
