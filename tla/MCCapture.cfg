SPECIFICATION CaptureSpec
CONSTANTS
  r1 = r1
  r2 = r2
  MigrationSandbox = MigrationSandbox
  QueryCapture = QueryCapture
  SchemaPath = SchemaPath
  WorkloadPath = WorkloadPath
  Runs = {r1, r2}
  Stages = {MigrationSandbox, QueryCapture}
  Shared = {SchemaPath, WorkloadPath}
  MaxWrites = 2
SYMMETRY Perms
INVARIANTS
  ReportIsTrue
  ReleasedAtEnd
  SessionUsedAsMeant
CHECK_DEADLOCK FALSE
