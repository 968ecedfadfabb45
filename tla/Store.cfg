CONSTANTS
  NItems = 5
  Legacy = {2}
  Index = 3
  Schema = 4
  MaxRuns = 4
  MaxCrashes = 2
  MaxFailures = 2
  Keys = {k1, k2}
  NoKey = NoKey
  EvidenceVersions = 1
  MaxRev = 2
  MaxEvi = 2
  MaxRestarts = 1
  Width = 2
  MaxMs = 3
  MaxId = 6
SPECIFICATION MixSpec
INVARIANTS
  OldDataSurvives UpgradeIsAtomic
  LatestReadable EvidenceLossExplained IdsIncrease
PROPERTY ImplementsMap
SYMMETRY KeySymmetry
CHECK_DEADLOCK FALSE
