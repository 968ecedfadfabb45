--------------------------- MODULE MCBucketLocks ---------------------------
(* BucketLocks for TLC: three tasks and two buckets, so that two movers and *)
(* a creator can meet on one pair of locks.                                 *)
EXTENDS BucketLocks, TLC

CONSTANTS t1, t2, t3

MCTasks == {t1, t2, t3}
MCBuckets == {1, 2}
MCGlobal == 3
MCKinds == {"write", "move", "create", "meta", "resume"}
ResumeKinds == {"create", "resume"}
============================================================================
