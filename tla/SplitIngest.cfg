CONSTANTS
  Total = 2
  Parallelism = 2
  MaxCrashes = 1
  MaxRaises = 1
  Overlaps = TRUE
SPECIFICATION FairSpec
INVARIANTS
  CompletedMeansStored JournalBehindStore ReworkBounded
PROPERTIES
  JobsEnd
CHECK_DEADLOCK FALSE
