------------------------------ MODULE Optimize ------------------------------
(***************************************************************************)
(* One optimize of a bucket (services/optimize_service.py), on the tree of *)
(* BucketTree: the records of the target and of its children are read, an  *)
(* LLM plans where they go, the plan is checked, and a successor takes the *)
(* target's place.  No lock is taken; whatever others do to the tree comes *)
(* between any two of its steps (MCOptimize).                              *)
(*                                                                         *)
(* A node stands in a plan for its bucket.  Sizes are left out: a plan may *)
(* be refused for them at will, and what follows an optimize that fills a  *)
(* bucket to 70 percent (a compress, and a storage GC) is BucketServices'  *)
(* and RecordStore's.                                                      *)
(***************************************************************************)
EXTENDS BucketTree

CONSTANTS
    LossPercent, \* optimize_leaf_loss_threshold
    MaxGroups,   \* bound: groups of a plan
    Fails        \* TRUE: an await may raise

VARIABLES opt

optimizeVars == <<treeVars, opt>>

Opt == [pc |-> "idle", b |-> None,
        was |-> [k \in Keys |-> NoRecord],   \* records read: the candidates
        direct |-> {},                       \* those of the target itself
        under |-> [k \in Keys |-> {}],       \* those of a node's bucket
        todo |-> {},
        flat |-> {}, groups |-> <<>>,        \* the plan
        into |-> <<>>,                       \* the buckets of its groups
        dst |-> None, key |-> None, cur |-> NoRecord, old |-> Row(None, 1),
        end |-> "none"]

OptimizeInit == opt = Opt

Doing(pc) == opt.pc = pc
Goes(r) == opt' = r
Quiescent == UNCHANGED treeVars
Ends(how) == Goes([opt EXCEPT !.pc = "done", !.end = how])

-----------------------------------------------------------------------------
\* A bucket of the deepest level cannot be optimized.
BeginOptimize(h) ==
    /\ Doing("idle")
    /\ \E b \in {Resolve(h)} :
          /\ info[b].level < MaxDepth
          /\ Goes([opt EXCEPT !.pc = "collect", !.b = b])
    /\ Quiescent

Nodes(S) == {k \in S : opt.was[k].child # None}
Candidates == {k \in Keys : opt.was[k] # NoRecord}
Seen(S, was) == [k \in Keys |-> IF was[k] = NoRecord /\ k \in S THEN rec[k] ELSE was[k]]

Collect ==
    /\ Doing("collect")
    /\ \E S \in {Snapshot(opt.b)} :
          Goes([opt EXCEPT !.pc = "expand", !.was = Seen(S, @), !.direct = S,
                           !.todo = {k \in S : rec[k].child # None}])
    /\ Quiescent

Expand ==
    /\ Doing("expand")
    /\ IF opt.todo = {} THEN IF Candidates = {} THEN Ends("empty") ELSE Goes([opt EXCEPT !.pc = "plan"])
       ELSE \E k \in opt.todo : \E S \in {Snapshot(Resolve(opt.was[k].child))} :
              Goes([opt EXCEPT !.was = Seen(S, @), !.under = [@ EXCEPT ![k] = S],
                               !.todo = Without(@, k)])
    /\ Quiescent

-----------------------------------------------------------------------------
(* The plan and the checks it has to pass. *)

\* A key counts where the plan has it first; a plan that assigns nothing keeps
\* the target as it is; a group of a single node is no group.  The groups that
\* are left keep their numbers.
Grouped(gs) == UNION {gs[i].members : i \in DOMAIN gs}
Folded(g) == Cardinality(g.members) = 1 /\ g.members \subseteq Nodes(Candidates)
Prepared(flat, said) ==
    LET first == [i \in DOMAIN said |->
            [said[i] EXCEPT !.members =
                @ \ (flat \cup UNION {said[j].members : j \in 1..(i - 1)})]]
        kept == {i \in DOMAIN first : first[i].members # {} /\ ~Folded(first[i])}
        singles == UNION {first[i].members : i \in {j \in DOMAIN first : Folded(first[j])}} IN
    IF flat = {} /\ said = <<>> THEN [flat |-> opt.direct, groups |-> <<>>]
    ELSE [flat |-> flat \cup singles, groups |-> [i \in kept |-> first[i]]]

Explicit == opt.flat \cup Grouped(opt.groups)
Attached == UNION {opt.under[k] : k \in Explicit}
Retained == Explicit \cup Attached

\* Memories of the target, and whatever its children hold.
Leaves == (opt.direct \ Nodes(opt.direct)) \cup UNION {opt.under[k] : k \in opt.direct}

\* Fault: lost leaves count only with those of the target itself.
LosesLeavesDirect ==
    \/ Nodes(Leaves \cap opt.direct) \ Retained # {}
    \/ 100 * Cardinality((Leaves \cap opt.direct) \ Retained) > LossPercent * Cardinality(Leaves)

LosesLeaves ==
    \/ Nodes(Leaves) \ Retained # {}
    \/ 100 * Cardinality(Leaves \ Retained) > LossPercent * Cardinality(Leaves)

\* A leaf that a node brings along is not assigned a second time.
Duplicates ==
    \E k \in Leaves :
        Cardinality({p \in Explicit : k \in opt.under[p]})
            + (IF k \in Explicit THEN 1 ELSE 0) > 1

CoversLittle == 10 * Cardinality(Retained) < 6 * Cardinality(Candidates)

\* What the LLM may reply: nodes of the tree it was shown, and for each group
\* members and none or any of the buckets there are, for nothing checks whose a
\* group_bucket_id is.
Plans ==
    {[flat |-> f, groups |-> gs] : f \in SUBSET Candidates, gs \in {<<>>} \cup
        UNION {[1..n -> [members : (SUBSET Candidates) \ {{}}, at : {None} \cup 1..made]]
                  : n \in 1..MaxGroups}}

\* The model may find the structure good; so does the local fallback.
Plan ==
    /\ Doing("plan")
    /\ \/ Ends("skipped")
       \/ \E p \in Plans : \E q \in {Prepared(p.flat, p.groups)} :
            Goes([opt EXCEPT !.pc = "validate", !.flat = q.flat, !.groups = q.groups])
    /\ Quiescent

Validate ==
    /\ Doing("validate")
    /\ \/ Ends("rejected")
       \/ /\ ~Duplicates /\ ~LosesLeaves /\ ~CoversLittle
          /\ Goes([opt EXCEPT !.pc = "successor"])
    /\ Quiescent

-----------------------------------------------------------------------------
(* Applying the plan; whatever raises ends it where it is. *)

Successor ==
    /\ Doing("successor")
    /\ CreateBucket(info[opt.b].parent, info[opt.b].level, None)
    /\ Goes([opt EXCEPT !.pc = "group", !.dst = made + 1])

\* The next group's bucket: the one it names, if that can be written, or a new
\* child of the successor.
Homeless == DOMAIN opt.groups \ DOMAIN opt.into
NextGroup == {i \in Homeless : \A j \in Homeless : i <= j}
Usable(b) == b # None /\ ~info[Resolve(b)].sealed
Housing(i, b) ==
    [opt EXCEPT !.into = [j \in DOMAIN opt.into \cup {i} |-> IF j = i THEN b ELSE opt.into[j]]]

UseGroup ==
    /\ Doing("group")
    /\ \E i \in NextGroup :
          Usable(opt.groups[i].at) /\ Goes(Housing(i, Resolve(opt.groups[i].at)))
    /\ Quiescent

\* Fault: no record leads to the new bucket of a group.
MakeGroupUnhung ==
    /\ Doing("group")
    /\ \E i \in NextGroup :
          /\ ~Usable(opt.groups[i].at)
          /\ Goes(Housing(i, made + 1))
    /\ CreateBucket(Resolve(opt.dst), info[Resolve(opt.dst)].level + 1, None)

MakeGroup ==
    /\ Doing("group")
    /\ \E i \in NextGroup :
          /\ ~Usable(opt.groups[i].at)
          /\ Goes([Housing(i, made + 1) EXCEPT !.pc = "node", !.key = made + 1])
    /\ CreateBucket(Resolve(opt.dst), info[Resolve(opt.dst)].level + 1, None)

PutRecord(k, r, q) ==
    \/ Write(k, r) /\ Goes(q)
    \/ ~MayWrite(r.bucket) /\ Quiescent /\ Ends("failed")

GroupNode ==
    /\ Doing("node")
    /\ \E g \in {opt.key} :
          PutRecord(g, [bucket |-> info[g].parent, gray |-> FALSE, child |-> g],
                    [opt EXCEPT !.pc = "group"])

Assign ==
    /\ Doing("group") /\ Homeless = {}
    /\ Goes([opt EXCEPT !.pc = "next", !.todo = Explicit])
    /\ Quiescent

GoesTo(k) ==
    IF k \in opt.flat THEN opt.dst
    ELSE opt.into[CHOOSE i \in DOMAIN opt.groups : k \in opt.groups[i].members]

\* A key that went gray in the meantime is passed over.
Fetch ==
    /\ Doing("next") /\ opt.todo # {}
    /\ \E k \in opt.todo :
          Goes(IF Live(k)
               THEN [opt EXCEPT !.todo = Without(@, k), !.key = k, !.cur = rec[k],
                                !.pc = IF rec[k].child # None THEN "rehang" ELSE "write"]
               ELSE [opt EXCEPT !.todo = Without(@, k)])
    /\ Quiescent

Rehang ==
    /\ Doing("rehang")
    /\ \/ /\ Reparent(opt.cur.child, Resolve(GoesTo(opt.key)), TRUE)
          /\ Goes([opt EXCEPT !.pc = "write"])
       \/ /\ ~MayReparent(opt.cur.child, Resolve(GoesTo(opt.key)))
          /\ Quiescent /\ Ends("failed")

\* Fault: records stay where they are.
RebuildInPlace ==
    /\ Doing("write")
    /\ PutRecord(opt.key, [opt.cur EXCEPT !.gray = FALSE], [opt EXCEPT !.pc = "next"])

Rebuild ==
    /\ Doing("write")
    /\ PutRecord(opt.key, [opt.cur EXCEPT !.bucket = Resolve(GoesTo(opt.key)), !.gray = FALSE],
                 [opt EXCEPT !.pc = "next"])

Omitted == Candidates \ Retained

Rebuilt ==
    /\ Doing("next") /\ opt.todo = {}
    /\ Goes([opt EXCEPT !.pc = "omit", !.todo = Omitted])
    /\ Quiescent

Omit ==
    /\ Doing("omit") /\ opt.todo # {}
    /\ \E k \in opt.todo :
          Goes(IF Live(k)
               THEN [opt EXCEPT !.todo = Without(@, k), !.key = k, !.cur = rec[k], !.pc = "gray"]
               ELSE [opt EXCEPT !.todo = Without(@, k)])
    /\ Quiescent

GrayOut ==
    /\ Doing("gray")
    /\ PutRecord(opt.key, [opt.cur EXCEPT !.gray = TRUE],
                 [opt EXCEPT !.pc = IF opt.cur.child # None THEN "archive" ELSE "omit"])

\* An omitted node's bucket is sealed, and leads nowhere from then on.
Archive ==
    /\ Doing("archive")
    /\ Goes([opt EXCEPT !.pc = "archived", !.old = info[Resolve(opt.cur.child)]])
    /\ Quiescent
Archived ==
    /\ Doing("archived")
    /\ SaveInfo(Resolve(opt.cur.child), [opt.old EXCEPT !.sealed = TRUE])
    /\ Goes([opt EXCEPT !.pc = "omit"])

\* The plan's summary is written over the successor's row.
AllOmitted ==
    /\ Doing("omit") /\ opt.todo = {}
    /\ Goes([opt EXCEPT !.pc = "summary", !.old = info[opt.dst]])
    /\ Quiescent

Summarise ==
    /\ Doing("summary")
    /\ SaveInfo(opt.dst, opt.old)
    /\ Goes([opt EXCEPT !.pc = "seal"])

SealTarget ==
    /\ Doing("seal")
    /\ \/ Seal(opt.b, opt.dst) /\ Goes([opt EXCEPT !.pc = "switch"])
       \/ ~MaySeal(opt.b, opt.dst) /\ Quiescent /\ Ends("failed")

SwitchRoot ==
    /\ Doing("switch")
    /\ IF root = opt.b THEN SetRoot(opt.dst) ELSE Quiescent
    /\ Ends("ok")

Applying == opt.pc \notin {"idle", "collect", "expand", "plan", "validate", "done"}

Raise == Fails /\ Applying /\ Quiescent /\ Ends("failed")

OptimizeNext ==
    \/ Collect \/ Expand \/ Plan \/ Validate
    \/ Successor \/ UseGroup \/ MakeGroup \/ GroupNode \/ Assign
    \/ Fetch \/ Rehang \/ Rebuild \/ Rebuilt
    \/ Omit \/ GrayOut \/ Archive \/ Archived \/ AllOmitted
    \/ Summarise \/ SealTarget \/ SwitchRoot \/ Raise

-----------------------------------------------------------------------------
\* Buckets a query comes to from those of S.
ReachedFrom(S) ==
    LET down[n \in 0..MaxDepth] ==
          IF n = 0 THEN S
          ELSE down[n - 1] \cup {Resolve(rec[k].child) :
                  k \in {j \in Keys : Live(j) /\ rec[j].bucket \in down[n - 1] /\ rec[j].child # None}}
    IN  down[MaxDepth]
Found(k) == Live(k) /\ rec[k].bucket \in ReachedFrom({root})
=============================================================================
