CONSTANTS
  t1 = t1  t2 = t2  m1 = m1  m2 = m2  s1 = s1
  MaxBuckets = 5
  Mems <- TwoMems
  Titles <- OneTitle
  MaxDepth = 3
  Tasks <- TwoTasks
  Kinds <- RebuildKinds
  Droppable <- Keys
  MaxOps = 4
  Listing = FALSE
  Abandons = TRUE
SPECIFICATION RebuildSpec
INVARIANTS
  NoneStranded HandlesLeadToWritable FoundFromRoot
CHECK_DEADLOCK FALSE
