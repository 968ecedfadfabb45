-------------------------- MODULE MCBucketServices --------------------------
(* Constants of the BucketServices runs. *)
EXTENDS BucketServices, TLC

CONSTANTS t1, t2, m1, m2, s1

OneTask == {t1}
TwoTasks == {t1, t2}
OneMem == {m1}
TwoMems == {m1, m2}
OneTitle == {s1}

\* Kinds of operations callers use.
TitleKinds == {"set", "create", "delete", "refresh"}
MoveKinds == OpNames \ {"compress", "split"}
RebuildKinds == {"add", "set", "compress", "split"}
DeleteAfterRebuild == {"set", "create", "compress", "delete"}
EditCompress == {"add", "edit", "compress"}
============================================================================
