CONSTANTS
  t1 = t1  t2 = t2  m1 = m1  m2 = m2  s1 = s1
  MaxBuckets = 6
  Mems <- OneMem
  Titles <- OneTitle
  MaxDepth = 3
  Tasks <- TwoTasks
  Kinds <- MoveKinds
  Droppable <- Keys
  MaxOps = 5
  Listing = FALSE
  Abandons = FALSE
SPECIFICATION MixSpec
INVARIANTS
  TitlesUntilMoved RecordsAgreeWithTree LayoutValid
CHECK_DEADLOCK FALSE
