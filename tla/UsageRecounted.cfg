CONSTANTS
  Clients = {"a"}
  Workers = {}
  Programs <- OnlyAdds
  Cleaning = {FALSE}
  MaxRetries = 2
  MaxOps = 2
SPECIFICATION Spec
INVARIANTS AnswersCounted
CHECK_DEADLOCK FALSE
