CONSTANTS
  t1 = t1  t2 = t2  m1 = m1  m2 = m2  s1 = s1
  MaxBuckets = 5
  Mems <- TwoMems
  Titles <- OneTitle
  MaxDepth = 3
  Tasks <- TwoTasks
  Kinds <- RebuildKinds
  Droppable <- TwoMems
  MaxOps = 4
  Listing = FALSE
  Abandons = FALSE
SPECIFICATION RebuildSpec
INVARIANTS
  FoundAnyway
CHECK_DEADLOCK FALSE
