CONSTANTS
  Kids <- TreeKids
  Mems <- TreeMems
  Sizes = {1, 2}
  Wrap = 1
  Threshold = 3
  Replies = {1, 3}
  MaxReductions = 2
  Parallel = 1
SPECIFICATION Spec
INVARIANTS AnswerReadable
CHECK_DEADLOCK FALSE
