SPECIFICATION MCSpec
CONSTANTS
  w1 = w1
  w2 = w2
  r1 = r1
  r2 = r2
  s1 = s1
  a1 = a1
  Writers = {w1, w2}
  MaxFiles = 3
  Runs = {r1, r2}
  Stages = {s1}
  Shared = {a1}
  MaxWrites = 2
  MaxCleans = 2
SYMMETRY AnyOrder
INVARIANTS
  ReturnedWritesSurvive
  OnlyDeathLeavesTemps
  LogIsTrue
  ManifestIsTrue
  CleanedRunsAreConsistent
PROPERTIES
  ImplementsDurableFile
  ManifestIsFinal
CHECK_DEADLOCK FALSE
