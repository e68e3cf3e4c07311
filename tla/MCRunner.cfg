SPECIFICATION MCSpec
CONSTANTS
  MayFail = {"stage", "create", "start", "inspect", "stop", "rm", "read", "rmtree"}
  MaxInterrupts = 2
  t1 = t1
  t2 = t2
  q1 = q1
  i1 = i1
  i2 = i2
  Tests <- TwoTests
  Queries = {q1}
  Ids = {i1, i2}
  MaxQueries = 2
  MaxTransactions = 2
INVARIANTS
  SuccessIsReal
  NothingLeft
  TransactionsAreReal
  EveryQueryIsRecorded
  VerifiedMeansPassed
PROPERTY Terminates
CHECK_DEADLOCK FALSE
