SPECIFICATION Spec
CONSTANTS
  orders = orders
  users = users
  number = number
  id = id
  email = email
  tenant = tenant
  status = status
  at = at
  TypeOf <- Schema
  Indexes <- CatalogIndexes
  Constraints <- CatalogConstraints
  MaxCandidates = 3
  Queries <- AllQueries
  Benchmarked <- Measured
  Settings <- TwoSettings
  MayFail = {"set", "query", "ddl", "hypopg"}
  MaxRuns = 3
INVARIANTS
  ComparisonsAreControlled
  OnlyFailuresLeaveTraces
  CandidatesServeTheQuery
CHECK_DEADLOCK FALSE
