CONSTANTS
  a1 = a1  a2 = a2  a3 = a3
  Tasks <- ThreeTasks
  NoTask = NoTask
  Modes <- AllModes
  KeepAlive = FALSE
  MaxStops = 1
SPECIFICATION MCSpec
INVARIANT TurnKept
CHECK_DEADLOCK FALSE
