CONSTANTS
  t1 = t1  t2 = t2  t3 = t3
  NoTask = NoTask
  Tasks <- MCTasks
  Buckets <- MCBuckets
  Global <- MCGlobal
  Kinds <- ResumeKinds
  MaxJobs = 1
  Cancels = FALSE
SPECIFICATION FairSpec
PROPERTIES
  ResumesComplete
CHECK_DEADLOCK FALSE
