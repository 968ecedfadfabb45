CONSTANTS
  Root = Root  Child = Child
  Askers = {q1}
  Writers = {w1}
  Worker = worker
  None = None
  RecallDepth = 2
  QueueCap = 1
  TableCap = 1
  Evictable = {"context"}
  MaxWrites = 1
  MaxAsks = 2
SPECIFICATION FairSpec
INVARIANTS AnswersCurrent CachesCurrent
PROPERTIES CallsReturn
CHECK_DEADLOCK FALSE
