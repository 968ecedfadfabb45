CONSTANTS
  Clients = {"a", "b", "w"}
  Workers = {"w"}
  Programs <- SeveralTools
  Cleaning = {TRUE, FALSE}
  MaxRetries = 2
  MaxOps = 2
  LineSizes = {0, 1, 4}
  NumLines = 3
  MaxChars = 3
  Overlaps = {0, 1, 3}
  Cuts <- SomeCuts
  Keys = {"k1", "k2", "k3"}
SPECIFICATION MixSpec
INVARIANTS
  CountedUnlessShared DiagnosesOwn ResultsLoseNothing
PROPERTIES OperationsReturn
CHECK_DEADLOCK FALSE
