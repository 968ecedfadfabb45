CONSTANTS
  t1 = t1  t2 = t2  t3 = t3
  NoTask = NoTask
  Tasks <- MCTasks
  Buckets <- MCBuckets
  Global <- MCGlobal
  Kinds <- MCKinds
  MaxJobs = 1
  Cancels = TRUE
SPECIFICATION MixSpec
INVARIANTS
  MutualExclusion
  OnlyInvolvedBucketsLocked
  AcquiresUpwards
  NoCircularWait
PROPERTIES
  OperationsComplete
