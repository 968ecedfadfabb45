CONSTANTS
  Root = Root  Child = Child
  Askers = {q1}
  Writers = {w1}
  Worker = worker
  None = None
  RecallDepth = 2
  QueueCap = 1
  TableCap = 1
  Evictable = {}
  MaxWrites = 1
  MaxAsks = 1
SPECIFICATION Spec
INVARIANTS EveryIndexCurrent
CHECK_DEADLOCK FALSE
