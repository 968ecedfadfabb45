----------------------------- MODULE MCRebuild -----------------------------
(* Rebuilds beside operations on bucket handles, with a history of what a    *)
(* later rebuild does not mend: four things after which a bucket may have no *)
(* record that leads to it from the root.                                    *)
EXTENDS MCBucketServices

VARIABLE spoilt   \* one of them has happened

\* A summary's row or node record is written over a newer one.
WritesOver(t) ==
    \/ At(t, "save") /\ info[Head(task[t].sums)] # task[t].old
    \/ At(t, "tell") /\ \E b \in {Head(task[t].sums)} : rec[b] # task[t].was[b]

\* The record of a new bucket is written in a bucket that is not locked: of a child
\* in its parent's successor, of a sibling in the parent of both.
FiledUnlocked(t) == At(t, "node") /\ task[t].up \notin task[t].held

\* A new bucket is left before its record is written, a rebuild before its source
\* is sealed and switched.
StopsHalfway(t) ==
    /\ At(t, "node") \/ task[t].into # None
    /\ task'[t].op = "idle" /\ UNCHANGED treeVars

RebuildInit == Init /\ spoilt = FALSE
RebuildNext ==
    \E t \in Tasks :
        /\ OnHandles(t)
        /\ spoilt' = (spoilt \/ WritesOver(t) \/ FiledUnlocked(t) \/ StopsHalfway(t))

RebuildSpec == RebuildInit /\ [][RebuildNext]_<<vars, spoilt>>

\* Where a query comes that goes down the live node records from the root.
Reached ==
    LET down[n \in 0..MaxBuckets] ==
            IF n = 0 THEN {Resolve(root)}
            ELSE down[n - 1] \cup
                 {Resolve(rec[k].child) : k \in {x \in Buckets :
                                                Live(x) /\ rec[x].bucket \in down[n - 1]}}
    IN  down[MaxBuckets]

AllReached == Quiet => \A m \in Mems :
                  rec[m].bucket # None /\ m \notin forgone => rec[m].bucket \in Reached

\* Whatever rebuilds did and however they overlapped with additions, new children
\* and each other: when nothing is going on, a query that goes down from the root
\* comes to every memory added and not given up, unless a plan dropped a child
\* with its subtree or one of the four things above has happened.
FoundFromRoot == ~spoilt /\ forgone \subseteq Mems => AllReached

\* The same with only the plans' own drops excused (SubtreeUnreached.cfg).  The
\* code does not keep this: the first memory of a child refreshes its summary, whose
\* node record is written back into the bucket that a rebuild of the parent has just
\* taken it from, and the rebuild seals that bucket.
FoundAnyway == forgone \subseteq Mems => AllReached
============================================================================
