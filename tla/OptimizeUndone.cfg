CONSTANTS
  t1 = t1  t2 = t2  m1 = m1  m2 = m2  m3 = m3  s1 = s1
  MaxBuckets = 6
  Mems <- ThreeMems
  Titles <- OneTitle
  MaxDepth = 3
  Tasks <- OneTask
  Kinds <- Adds
  Droppable <- OneMem
  MaxOps = 1
  Listing = FALSE
  Abandons = FALSE
  LossPercent = 40
  MaxGroups = 1
  Fails = FALSE
SPECIFICATION OptimizeSpec
INVARIANTS
  LeavesKept
CHECK_DEADLOCK FALSE
