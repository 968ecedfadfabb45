CONSTANTS
  t1 = t1  t2 = t2  m1 = m1  m2 = m2  s1 = s1
  MaxBuckets = 5
  Mems <- OneMem
  Titles <- OneTitle
  MaxDepth = 3
  Tasks <- TwoTasks
  Kinds <- EditCompress
  Droppable <- OneMem
  MaxOps = 4
  Listing = FALSE
  Abandons = FALSE
SPECIFICATION Spec
INVARIANTS
  NoneStranded
CHECK_DEADLOCK FALSE
