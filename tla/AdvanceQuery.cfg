CONSTANTS
  Kids <- TreeKids
  Mems <- TreeMems
  Sizes = {1, 2}
  Wrap = 1
  Threshold = 3
  Replies = {1, 3}
  MaxReductions = 2
  Parallel = 1
  Ids = {1, 2}
  Callers = {"a", "b"}
  MaxBuckets = 2
  MaxOps = 3
  MaxCrashes = 1
SPECIFICATION MixSpec
INVARIANTS
  NothingDropped RequestsFit AliasesStick AnswersDecode
PROPERTIES EveryQueryEnds
CHECK_DEADLOCK FALSE
