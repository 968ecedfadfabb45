CONSTANTS
  t1 = t1  t2 = t2  m1 = m1  m2 = m2  s1 = s1
  MaxBuckets = 4
  Mems <- OneMem
  Titles <- OneTitle
  MaxDepth = 3
  Tasks <- TwoTasks
  Kinds <- TitleKinds
  Droppable <- Keys
  MaxOps = 5
  Listing = FALSE
  Abandons = FALSE
SPECIFICATION Spec
INVARIANTS
  OneChildPerTitle
CHECK_DEADLOCK FALSE
