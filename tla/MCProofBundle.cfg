SPECIFICATION SpecReproduction
CONSTANTS
  b1 = b1
  b2 = b2
  parameters = parameters
  dataset = dataset
  evidence = evidence
  Bundles = {b1, b2}
  Names <- ThreeFiles
  Declared <- DeclaredFiles
  Fixed <- FixedFiles
  ParametersFile = parameters
  DatasetFile = dataset
  EvidenceFile = evidence
  Traits <- AnyTraits
  MaxWrites = 2
  MaxReads = 2
  MaxEdits = 1
INVARIANTS
  VerdictIsHonest
  ManifestMeansFinished
  ReproducedIsEarned
CHECK_DEADLOCK FALSE
