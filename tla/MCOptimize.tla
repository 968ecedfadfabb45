----------------------------- MODULE MCOptimize -----------------------------
(* An optimize beside the services that write (BucketServices), from a root  *)
(* with a memory and a child, which has a memory and a child of its own.     *)
EXTENDS MCBucketServices

CONSTANTS m3, LossPercent, MaxGroups, Fails
VARIABLES opt

O == INSTANCE Optimize

ThreeMems == {m1, m2, m3}
CreatesAndGrays == {"set", "create", "gray"}
Adds == {"add"}

Grown == [b \in Buckets |->
    CASE b = 1 -> [Row(None, 1) EXCEPT !.children = {2}]
      [] b = 2 -> [Row(1, 2) EXCEPT !.children = {3}]
      [] b = 3 -> Row(2, 3)
      [] OTHER -> Row(None, 1)]
Stored == [k \in Keys |->
    CASE k \in {2, 3} -> [bucket |-> k - 1, gray |-> FALSE, child |-> k]
      [] k = m1 -> [bucket |-> 1, gray |-> FALSE, child |-> None]
      [] k = m2 -> [bucket |-> 2, gray |-> FALSE, child |-> None]
      [] OTHER -> NoRecord]

GrownInit ==
    /\ info = Grown /\ rec = Stored /\ made = 3 /\ root = 1
    /\ titleOf = [b \in Buckets |-> [s \in Titles |-> None]]
    /\ task = [t \in Tasks |-> Idle] /\ ops = 0 /\ forgone = {}
    /\ asked = [b \in Buckets |-> None]
    /\ O!OptimizeInit

Optimizes ==
    /\ (\E h \in Handles : O!BeginOptimize(h)) \/ O!OptimizeNext
    /\ Unobserved /\ UNCHANGED task

Writes == Next /\ UNCHANGED opt

OptimizeSpec == GrownInit /\ [][Optimizes \/ Writes]_<<vars, opt>>

\* Any tree that was only ever planted: the record of a bucket is the one under
\* its own key, each bucket was made before those it holds, and none is sealed.
PlantedInit ==
    /\ TypeOK /\ O!OptimizeInit
    /\ \A b \in Buckets : ~info[b].sealed /\ info[b].to = None
    /\ \A k \in Keys : rec[k].bucket # None =>
          /\ rec[k].child = (IF k \in Buckets THEN k ELSE None)
          /\ k \in Buckets => k \in 1..made /\ rec[k].bucket < k
    /\ \A t \in Tasks : task[t] = Idle

PlantedSpec == PlantedInit /\ [][Optimizes \/ Writes]_<<vars, opt>>

\* Every variable of the services and of the optimize keeps to its domain.
OptimizeTypeOK ==
    /\ TypeOK
    /\ opt.todo \subseteq Keys /\ opt.flat \subseteq Keys /\ opt.direct \subseteq Keys
    /\ opt.b \in {None} \cup Buckets /\ opt.dst \in {None} \cup Buckets
    /\ \A i \in DOMAIN opt.into : opt.into[i] \in 1..made
    /\ opt.end \in {"none", "empty", "skipped", "rejected", "failed", "ok"}

\* The plan puts a group nowhere but into a new bucket or that of a node which
\* it keeps at the top.  The code takes any other bucket too, the one it is about
\* to seal or one it archives included, and what is put there is lost: the
\* properties below are about plans that do not.
Sane == \A i \in DOMAIN opt.groups : opt.groups[i].at \in {None} \cup (opt.flat \cap Buckets)

Applied == O!Applying \/ opt.end \in {"failed", "ok"}

\* An optimize that succeeded has kept, within reach of a query from the root,
\* every leaf it found but those a caller gave up meanwhile and, of the
\* memories, the share the threshold allows; no bucket among the leaves is lost
\* (_validate_leaf_retention, _apply_optimize_plan).
LeavesKept ==
    opt.end = "ok" /\ Sane /\ forgone \cap Buckets = {} =>
        LET lost == {k \in O!Leaves \ forgone : ~O!Found(k)} IN
        /\ lost \cap Buckets = {}
        /\ 100 * Cardinality(lost) <= LossPercent * Cardinality(O!Leaves)

\* At every step, and wherever the optimize stops, each record its plan keeps
\* is live in a bucket that can be written, unless a caller gave it up.  That
\* bucket may be under the successor, to which nothing leads until the switch.
NeverInLimbo ==
    Sane /\ Applied =>
        \A k \in O!Retained \ forgone : Live(k) /\ ~info[rec[k].bucket].sealed

\* At every step, and wherever the optimize stops, each record its plan keeps
\* is found from the root or from the successor: a failure half-way leaves what
\* was moved so far in one bucket that nothing leads to, and nowhere else
\* (_apply_optimize_plan).
KeptInTwoTrees ==
    Sane /\ Applied /\ forgone \cap Buckets = {} =>
        \A k \in O!Retained \ forgone :
            Live(k) /\ rec[k].bucket \in O!ReachedFrom({root, opt.dst} \ {None})

\* What a reader may expect of an optimize that raised, and of any plan at all:
\* the first does not hold of a failure half-way, the second of a group in the
\* target.
FailureLosesNothing ==
    opt.end = "failed" /\ Sane /\ forgone = {} => \A k \in O!Retained : O!Found(k)
AnyPlanKeepsLeaves ==
    opt.end = "ok" /\ forgone = {} =>
        100 * Cardinality({k \in O!Leaves : ~O!Found(k)}) <= LossPercent * Cardinality(O!Leaves)
=============================================================================
