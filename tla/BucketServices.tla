--------------------------- MODULE BucketServices ---------------------------
(***************************************************************************)
(* The services that write buckets and memories, interleaved: topology,    *)
(* record, compression, split and summary service.  An operation locks     *)
(* some buckets, then goes through storage tasks (BucketTree) one await at *)
(* a time; what it reads between two awaits is kept in its task record and *)
(* may be stale when it is used.  An operation whose storage task raises   *)
(* ends there: its locks are released, what it did stays.                  *)
(*                                                                         *)
(* The locks are sets of ids held by tasks, entered all at once when free; *)
(* that acquire_many and the global lock amount to this is what            *)
(* BucketLocks_proofs shows.  Of a summary only the row it rewrites is     *)
(* kept, of an LLM plan only the keys it keeps, drops or groups.           *)
(***************************************************************************)
EXTENDS BucketTree, Sequences

CONSTANTS Tasks,     \* the event loop's tasks
          Kinds,     \* operations the callers use
          Droppable, \* keys a compress plan may name among drop_keys
          MaxOps,    \* bound on the operations ever started
          Listing,   \* TRUE: callers use whatever list_buckets shows
          Abandons   \* TRUE: an await may raise (LLM failure, cancellation)

Meta == 0            \* the global lock; bucket ids are its betters

OpNames == {"set", "create", "compress", "split", "refresh",
            "add", "edit", "gray", "ungray", "delete", "move"}

ASSUME ServicesAssumption ==
    /\ Kinds \subseteq OpNames
    /\ Droppable \subseteq Keys
    /\ MaxOps \in Nat
    /\ Listing \in BOOLEAN /\ Abandons \in BOOLEAN

VARIABLES task,      \* what each task is doing and has read
          ops,       \* operations started so far
          asked,     \* bucket -> title set_bucket made it for (history)
          forgone    \* memories the callers or a plan gave up (history)

vars == <<treeVars, task, ops, asked, forgone>>

Idle == [op |-> "idle", pc |-> "done", held |-> {}, want |-> {},
         b |-> None,       \* the bucket worked on (a resolved, locked id)
         title |-> None,   \* set: the title
         key |-> None,     \* the record worked on
         goal |-> None,    \* move: the target handle; delete: the old parent
         keys |-> {},      \* keys still to carry
         rest |-> {},      \* split: keys to carry to the successor
         drop |-> {},      \* compress: keys the plan drops
         up |-> None,      \* parent of the bucket about to be made
         child |-> None,   \* the bucket made for a title or a group
         dst |-> None,     \* the successor
         into |-> None,    \* the bucket records are carried to
         old |-> Row(None, 1),                 \* a row read earlier
         was |-> [k \in Keys |-> NoRecord],    \* records read earlier
         sums |-> <<>>]    \* buckets whose summary is still to refresh

Init ==
    /\ TreeInit
    /\ task = [t \in Tasks |-> Idle]
    /\ ops = 0
    /\ asked = [b \in Buckets |-> None]
    /\ forgone = {}

----------------------------------------------------------------------------
(* Control. *)

At(t, pc) == task[t].pc = pc

Become(t, r) == task' = [task EXCEPT ![t] = r]

Step(t, pc) == Become(t, [task[t] EXCEPT !.pc = pc])

\* The operation returns or raises: its locks are released.
Quit(t) == Become(t, Idle)

\* Nothing but the task itself changes.
LocalStep == UNCHANGED <<treeVars, ops, asked, forgone>>
Unobserved == UNCHANGED <<ops, asked, forgone>>

GiveUp(t) == Quit(t) /\ LocalStep

----------------------------------------------------------------------------
(* Starting an operation and locking its buckets. *)

Creators == {"set", "create", "compress", "split"}

\* Bound: room for the bucket o makes, two for a split, and for those of the
\* operations in progress.
RoomToCreate(o) ==
    LET doing(S) == Cardinality({u \in Tasks : task[u].op \in S})
    IN  made + doing(Creators) + doing({"split"}) + (IF o = "split" THEN 2 ELSE 1)
            <= MaxBuckets

Starting(t, o) ==
    /\ task[t].op = "idle" /\ o \in Kinds /\ ops < MaxOps
    /\ o \in Creators => RoomToCreate(o)
    /\ ops' = ops + 1
    /\ UNCHANGED <<treeVars, asked, forgone>>

\* Callers have the ids of buckets finished or sealed, however long ago.  Those
\* who list the buckets also have the ids of buckets that a rebuild still fills.
InTheMaking == {b \in 1..made : \E u \in Tasks :
                   /\ task[u].into # None \/ task[u].pc = "node"
                   /\ b = task[u].dst \/ (task[u].op \in Creators /\ b = task[u].child)}

Handles == IF Listing THEN 1..made ELSE (1..made) \ InTheMaking

\* A call on a bucket handle.
BeginOnBucket(t) ==
    \E o \in {"set", "create", "compress", "split", "refresh"}, b \in Handles,
       s \in Titles \cup {None} :
        /\ Starting(t, o)
        /\ (o = "set") <=> (s # None)
        /\ Become(t, [Idle EXCEPT !.op = o, !.pc = "ask", !.b = b, !.title = s])

BeginAdd(t) ==
    \E b \in Handles, m \in Mems :
        /\ Starting(t, "add")
        /\ rec[m].bucket = None /\ \A u \in Tasks : task[u].key # m
        /\ Become(t, [Idle EXCEPT !.op = "add", !.pc = "ask", !.b = b, !.key = m])

\* A call on a key: get_record tells the bucket to lock.  delete_memory also
\* notes the bucket a node stands for and its parent.
BeginOnKey(t) ==
    \E o \in {"edit", "gray", "ungray", "delete", "move"}, k \in Keys,
       g \in Handles \cup {None} :
        /\ Starting(t, o)
        /\ rec[k].bucket # None
        /\ (o = "move") <=> (g # None)
        /\ Become(t, [Idle EXCEPT !.op = o, !.pc = "ask", !.b = rec[k].bucket,
                                  !.key = k, !.child = rec[k].child,
                                  !.goal = IF o = "delete" /\ rec[k].child # None
                                           THEN info[rec[k].child].parent ELSE g])

\* _bucket_write_lock resolves the id first and waits for the lock of what it
\* resolved to; the id is not looked at again once the lock is there.
Ask(t) ==
    /\ At(t, "ask")
    /\ \E b \in 1..made :
        /\ b = Resolve(task[t].b)
        /\ \E g \in {{}} \cup {{c} : c \in 1..made} :
            /\ g = IF task[t].op = "move" THEN {Resolve(task[t].goal)} ELSE {}
            /\ Become(t, [task[t] EXCEPT !.pc = "wait", !.b = b,
                             !.want = {b} \cup g \cup
                                 (IF task[t].op \in {"set", "create"} THEN {Meta}
                                  ELSE {})])
    /\ LocalStep

\* What an operation does first under its locks.  add_memory counts the memories
\* of its bucket as soon as it has the lock, long before it writes.
Begins(r) ==
    CASE r.op = "set" -> "look"
      [] r.op = "create" -> "aim"
      [] r.op \in {"compress", "split"} -> "plan"
      [] r.op = "refresh" -> "summary"
      [] r.op = "add" -> IF Snapshot(r.b) \cap Mems = {} THEN "first" ELSE "write"
      [] r.op = "move" -> "check"
      [] OTHER -> "reread"

\* Fault: the write lock is not waited for.
EnterUnlocked(t) ==
    /\ At(t, "wait")
    /\ Become(t, [task[t] EXCEPT !.held = @, !.want = {},
                                !.sums = <<task[t].b>>, !.pc = Begins(task[t])])
    /\ LocalStep

Enter(t) ==
    /\ At(t, "wait")
    /\ \A u \in Tasks \ {t} : task[u].held \cap task[t].want = {}
    /\ Become(t, [task[t] EXCEPT !.held = task[t].want, !.want = {},
                                !.sums = <<task[t].b>>, !.pc = Begins(task[t])])
    /\ LocalStep

----------------------------------------------------------------------------
(* set_bucket and create_bucket, under the parent's lock and the global lock. *)

\* set_bucket_with_id: is the child the title leads to still a child here?
Look(t) ==
    /\ At(t, "look")
    /\ \E p \in {task[t].b}, c \in {titleOf[task[t].b][task[t].title]} :
        \/ c = None /\ Step(t, "aim")
        \/ /\ c # None
           /\ \E r \in 1..made :
                /\ r = Resolve(c)
                /\ IF info[r].parent = p /\ r \in info[p].children
                   THEN IF r = c THEN Quit(t)
                        ELSE Become(t, [task[t] EXCEPT !.pc = "retitle", !.child = r])
                   ELSE Become(t, [task[t] EXCEPT !.pc = "untitle", !.child = c])
    /\ LocalStep

\* The title is led to the bucket its target redirects to (sealing does that too,
\* and first: no run gets here), or forgotten before a new child is made.
FixTitle(t) ==
    /\ \E p \in {task[t].b}, c \in {task[t].child} :
        IF At(t, "retitle")
        THEN /\ IF MaySetTitle(p, c) THEN SetTitle(p, task[t].title, c)
                ELSE UNCHANGED treeVars
             /\ Quit(t)
        ELSE At(t, "untitle") /\ RemoveTitleRefs(p, c) /\ Step(t, "aim")
    /\ Unobserved

\* create_child_bucket refuses a bucket at the maximal level.
Deepest(b) == info[b].level >= MaxDepth

ForChild(t) == task[t].op \in {"set", "create"} \/
               (task[t].op = "split" /\ task[t].child = None /\ ~Deepest(task[t].b))

\* The parent of the bucket about to be made: the parent is resolved again for
\* a child, the source's parent is looked up for a successor and for the
\* sibling a split makes at the maximal level.
Aim(t) ==
    /\ At(t, "aim")
    /\ \E p \in {None} \cup 1..made :
        /\ p = IF ForChild(t) THEN Resolve(task[t].b) ELSE info[task[t].b].parent
        /\ IF \/ ForChild(t) /\ Deepest(p)
              \/ task[t].op = "split" /\ task[t].child = None /\ p = None
           THEN Quit(t)
           ELSE Become(t, [task[t] EXCEPT !.pc = "make", !.up = p])
    /\ LocalStep

\* The new bucket is the child asked for, the split's group or the successor.
IsSuccessor(t) == task[t].op = "compress" \/ (task[t].op = "split" /\ task[t].child # None)

Make(t) ==
    /\ At(t, "make")
    /\ CreateBucket(task[t].up,
                    IF ForChild(t) THEN info[task[t].up].level + 1
                    ELSE info[task[t].b].level,
                    task[t].title)
    /\ IF IsSuccessor(t)
       THEN Become(t, [task[t] EXCEPT !.dst = made + 1, !.into = made + 1, !.pc =
                          IF task[t].op = "split" THEN "adopt" ELSE "carry"])
       ELSE Become(t, [task[t] EXCEPT !.child = made + 1, !.pc = "node"])
    /\ asked' = [asked EXCEPT ![made + 1] = task[t].title]
    /\ UNCHANGED <<ops, forgone>>

\* Write record r under key k and go on as q, or raise if its bucket is sealed.
Put(t, k, r, q) ==
    \/ Write(k, r) /\ Become(t, q) /\ Unobserved
    \/ ~MayWrite(r.bucket) /\ GiveUp(t)

\* Fault: the record that leads to the new child is written in the child.
NodeInside(t) ==
    /\ At(t, "node")
    /\ Put(t, task[t].child,
           [bucket |-> task[t].child, gray |-> FALSE, child |-> task[t].child],
           IF task[t].op = "split"
           THEN [task[t] EXCEPT !.pc = "fetch", !.into = task[t].child]
           ELSE Idle)

\* The node record of the new child, in the parent it was made under.
Node(t) ==
    /\ At(t, "node")
    /\ Put(t, task[t].child,
           [bucket |-> task[t].up, gray |-> FALSE, child |-> task[t].child],
           IF task[t].op = "split"
           THEN [task[t] EXCEPT !.pc = "fetch", !.into = task[t].child]
           ELSE Idle)

----------------------------------------------------------------------------
(* force_compress and split_bucket, under the lock of the source alone. *)

Captured(S) == [k \in Keys |-> IF k \in S THEN rec[k] ELSE NoRecord]

\* The snapshot and the plan made from it.
PlanCompress(t) ==
    /\ At(t, "plan") /\ task[t].op = "compress"
    /\ \E S \in {Snapshot(task[t].b)} :
        IF info[task[t].b].sealed \/ S = {} THEN Quit(t)
        ELSE \E d \in SUBSET (S \cap Droppable) :
                Become(t, [task[t] EXCEPT !.pc = "aim", !.was = Captured(S),
                                          !.keys = S \ d, !.drop = d])
    /\ LocalStep

\* Bound: one group per split.
PlanSplit(t) ==
    /\ At(t, "plan") /\ task[t].op = "split"
    /\ \E S \in {Snapshot(task[t].b)} :
        IF Cardinality(S) < 2 THEN Quit(t)
        ELSE \E g \in (SUBSET S) \ {{}} :
                Become(t, [task[t] EXCEPT !.pc = "aim", !.keys = g, !.rest = S \ g])
    /\ LocalStep

\* Move bucket c under p, or raise on a title conflict.
Rehang(t, c, p, preserve, pc) ==
    \/ Reparent(c, p, preserve) /\ Step(t, pc) /\ Unobserved
    \/ ~MayReparent(c, p) /\ GiveUp(t)

\* compress: rebuild the records the plan keeps from the snapshot.  A node's
\* bucket is the one its record names, not the one that redirects to.
Carry(t) ==
    /\ At(t, "carry")
    /\ IF task[t].keys = {}
       THEN \/ Step(t, "merge") /\ LocalStep
            \/ Step(t, "seal") /\ LocalStep
       ELSE \E k \in task[t].keys :
                Become(t, [task[t] EXCEPT
                    !.key = k, !.keys = Without(@, k),
                    !.pc = IF task[t].was[k].child # None THEN "rehang" ELSE "place"])
             /\ LocalStep

RehangCarried(t) ==
    /\ At(t, "rehang")
    /\ Rehang(t, task[t].was[task[t].key].child, task[t].dst, TRUE, "place")

Place(t) ==
    /\ At(t, "place")
    /\ Put(t, task[t].key,
           [task[t].was[task[t].key] EXCEPT !.bucket = task[t].dst, !.gray = FALSE],
           [task[t] EXCEPT !.pc = "carry"])

\* The plan's summary is written over the successor's row.
Merge(t) ==
    /\ At(t, "merge")
    /\ Become(t, [task[t] EXCEPT !.pc = "save", !.old = info[task[t].dst],
                                 !.sums = <<task[t].dst>>])
    /\ LocalStep

\* Fault: what the plan neither moves nor keeps by name is left behind.
AdoptForgetsRest(t) ==
    /\ At(t, "adopt")
    /\ Reparent(task[t].child, task[t].dst, TRUE)
    /\ Become(t, [task[t] EXCEPT !.pc = "fetch", !.keys = {task[t].child}])
    /\ Unobserved

\* split: the group's bucket goes under the successor.
Adopt(t) ==
    /\ At(t, "adopt")
    /\ \/ /\ Reparent(task[t].child, task[t].dst, TRUE)
          /\ Become(t, [task[t] EXCEPT !.pc = "fetch",
                                       !.keys = task[t].rest \cup {task[t].child}])
          /\ Unobserved
       \/ ~MayReparent(task[t].child, task[t].dst) /\ GiveUp(t)

\* split: each record is read again; one that went away in the meantime stays.
\* Without keys left, the group is done and the successor is next, or the
\* successor is done too.
Fetch(t) ==
    /\ At(t, "fetch")
    /\ IF task[t].keys = {}
       THEN IF task[t].into = task[t].dst THEN Step(t, "seal") ELSE Step(t, "aim")
       ELSE \E k \in task[t].keys :
             IF Live(k) /\ rec[k].bucket = task[t].b
             THEN Become(t, [task[t] EXCEPT
                    !.key = k, !.keys = Without(@, k), !.was = Captured({k}),
                    !.pc = IF rec[k].child # None THEN "rehome" ELSE "out"])
             ELSE Become(t, [task[t] EXCEPT !.keys = Without(@, k)])
    /\ LocalStep

\* The old title map is kept only when records go to the successor.
RehomeSplit(t) ==
    /\ At(t, "rehome") /\ task[t].op = "split"
    /\ Rehang(t, task[t].was[task[t].key].child, task[t].into,
              task[t].into = task[t].dst, "out")

\* The record is grayed where it is, then written where it goes.
Out(t) ==
    /\ At(t, "out")
    /\ Put(t, task[t].key, [task[t].was[task[t].key] EXCEPT !.gray = TRUE],
           [task[t] EXCEPT !.pc = "in"])

In(t) ==
    /\ At(t, "in")
    /\ Put(t, task[t].key, [task[t].was[task[t].key] EXCEPT !.bucket = task[t].into],
           IF task[t].op = "split" THEN [task[t] EXCEPT !.pc = "fetch"] ELSE Idle)

\* _seal_bucket_unlocked.  What the plan drops stays behind in the source.
SealSource(t) ==
    /\ At(t, "seal")
    /\ \/ /\ Seal(task[t].b, task[t].dst)
          /\ Step(t, "switch")
          /\ forgone' = forgone \cup task[t].drop
          /\ UNCHANGED <<ops, asked>>
       \/ ~MaySeal(task[t].b, task[t].dst) /\ GiveUp(t)

\* The root pointer follows; then summaries, without the locks of their buckets.
Switch(t) ==
    /\ At(t, "switch")
    /\ IF root = task[t].b THEN SetRoot(task[t].dst) ELSE UNCHANGED treeVars
    /\ Become(t, [task[t] EXCEPT !.pc = "summary", !.into = None, !.sums =
                     IF task[t].op = "split" THEN <<task[t].child, task[t].dst>>
                     ELSE <<task[t].dst>>])
    /\ Unobserved

----------------------------------------------------------------------------
(* _refresh_bucket_summary_unlocked of the buckets in sums. *)

AfterSummary(r) ==
    IF Len(r.sums) > 1 THEN [r EXCEPT !.pc = "summary", !.sums = Tail(@)]
    ELSE IF r.into # None THEN [r EXCEPT !.pc = "seal", !.sums = <<>>]
    ELSE Idle

\* A sealed bucket is left alone; a locked summary may be.
Summary(t) ==
    /\ At(t, "summary")
    /\ \/ Become(t, AfterSummary(task[t]))
       \/ /\ ~info[Head(task[t].sums)].sealed
          /\ Become(t, [task[t] EXCEPT !.pc = "save", !.old = info[Head(task[t].sums)]])
    /\ LocalStep

\* update_bucket_info after the LLM call, with the row read before it.
Save(t) ==
    /\ At(t, "save")
    /\ SaveInfo(Head(task[t].sums), task[t].old)
    /\ Step(t, "node record") /\ Unobserved

\* The bucket's node record gets the summary too, in the parent's successor if
\* the parent was sealed.
NodeRecord(t) ==
    /\ At(t, "node record")
    /\ \E k \in {Head(task[t].sums)} :
        IF task[t].old.parent = None \/ ~Live(k) THEN Become(t, AfterSummary(task[t]))
        ELSE Become(t, [task[t] EXCEPT !.pc = "tell", !.was = Captured({k}),
                                       !.goal = Resolve(rec[k].bucket)])
    /\ LocalStep

Tell(t) ==
    /\ At(t, "tell")
    /\ \E k \in {Head(task[t].sums)} :
        Put(t, k, [task[t].was[k] EXCEPT !.bucket = task[t].goal],
            AfterSummary([task[t] EXCEPT !.goal = None]))

----------------------------------------------------------------------------
(* add_memory, update_memory, set_gray, delete_memory and move_item. *)

\* What was the first memory of a bucket when they were counted makes its summary.
AddMemory(t) ==
    /\ At(t, "write") \/ At(t, "first")
    /\ Put(t, task[t].key, [bucket |-> task[t].b, gray |-> FALSE, child |-> None],
           IF At(t, "first") THEN [task[t] EXCEPT !.pc = "summary"] ELSE Idle)

\* What follows the write: a deletion lets go of the lock, then of the titles.
AfterRewrite(r) ==
    IF r.op = "delete" /\ r.goal # None
    THEN [r EXCEPT !.pc = "forget", !.held = {}] ELSE Idle

\* The record is read again under the lock, in whatever bucket it is in by now.
Reread(t) ==
    /\ At(t, "reread")
    /\ \E k \in {task[t].key} :
        IF \/ task[t].op = "edit" /\ k \notin Mems
           \/ task[t].op \in {"gray", "delete"} /\ rec[k].gray
           \/ task[t].op = "ungray" /\ ~rec[k].gray
        THEN Become(t, AfterRewrite(task[t]))
        ELSE Become(t, [task[t] EXCEPT !.pc = "rewrite", !.was = Captured({k})])
    /\ LocalStep

Rewrite(t) ==
    /\ At(t, "rewrite")
    /\ \E k \in {task[t].key}, g \in {task[t].op \in {"gray", "delete"}} :
        \/ /\ Write(k, [task[t].was[k] EXCEPT !.gray = g])
           /\ Become(t, AfterRewrite(task[t]))
           /\ forgone' = IF g THEN forgone \cup {k} ELSE Without(forgone, k)
           /\ UNCHANGED <<ops, asked>>
        \/ ~MayWrite(task[t].was[k].bucket) /\ GiveUp(t)

\* Fault: the titles of a deleted bucket stay.
ForgetNothing(t) ==
    /\ At(t, "forget")
    /\ UNCHANGED treeVars
    /\ Quit(t) /\ Unobserved

\* delete_memory: the titles leading to the deleted bucket, after the lock.
Forget(t) ==
    /\ At(t, "forget")
    /\ RemoveTitleRefs(task[t].goal, task[t].child)
    /\ Quit(t) /\ Unobserved

\* _move_item_unlocked: what is checked before anything moves.
Movable(k, c, to) ==
    /\ Live(k) /\ ~info[rec[k].bucket].sealed /\ ~info[to].sealed
    /\ rec[k].child # None =>
        /\ c # root /\ ~IsDescendant(c, to)
        /\ info[to].level + 1 + DepthSpan(c) <= MaxDepth

Check(t) ==
    /\ At(t, "check")
    /\ \E k \in {task[t].key}, to \in 1..made, c \in {None} \cup 1..made :
        /\ to = Resolve(task[t].goal)
        /\ c = IF rec[k].child = None THEN None ELSE Resolve(rec[k].child)
        /\ IF Movable(k, c, to) /\ (c # None \/ rec[k].bucket # to)
           THEN Become(t, [task[t] EXCEPT
                    !.pc = IF c # None THEN "rehome" ELSE "out", !.into = to,
                    !.was = [Captured({k}) EXCEPT ![k].child = c]])
           ELSE Quit(t)
    /\ LocalStep

RehomeMove(t) ==
    /\ At(t, "rehome") /\ task[t].op = "move"
    /\ \/ /\ Reparent(task[t].was[task[t].key].child, task[t].into, FALSE)
          /\ IF task[t].was[task[t].key].bucket = task[t].into THEN Quit(t)
             ELSE Step(t, "out")
          /\ Unobserved
       \/ ~MayReparent(task[t].was[task[t].key].child, task[t].into) /\ GiveUp(t)

----------------------------------------------------------------------------
\* An await of a locked operation raises.  A record grayed where it was and not
\* yet written where it goes is lost with the operation.
Abandon(t) ==
    /\ Abandons /\ task[t].held # {}
    /\ Quit(t)
    /\ forgone' = IF At(t, "in") THEN forgone \cup {task[t].key} ELSE forgone
    /\ UNCHANGED <<treeVars, ops, asked>>

\* Operations on bucket handles, among them the rebuilds, and on keys.
OnHandles(t) ==
    \/ BeginOnBucket(t) \/ BeginAdd(t) \/ Ask(t) \/ Enter(t)
    \/ Look(t) \/ FixTitle(t) \/ Aim(t) \/ Make(t) \/ Node(t)
    \/ PlanCompress(t) \/ PlanSplit(t) \/ Carry(t) \/ RehangCarried(t)
    \/ Place(t) \/ Merge(t) \/ Adopt(t) \/ Fetch(t) \/ RehomeSplit(t)
    \/ Out(t) \/ In(t) \/ SealSource(t) \/ Switch(t)
    \/ Summary(t) \/ Save(t) \/ NodeRecord(t) \/ Tell(t)
    \/ AddMemory(t) \/ Abandon(t)

OnKeys(t) ==
    BeginOnKey(t) \/ Reread(t) \/ Rewrite(t) \/ Forget(t) \/ Check(t) \/ RehomeMove(t)

Next == \E t \in Tasks : OnHandles(t) \/ OnKeys(t)

Spec == Init /\ [][Next]_vars

----------------------------------------------------------------------------
(* Properties. *)

\* The places an operation can be at.
Places == {"done", "ask", "wait", "look", "retitle", "untitle", "aim", "make", "node",
           "plan", "carry", "rehang", "place", "merge", "adopt", "fetch", "rehome",
           "out", "in", "seal", "switch", "summary", "save", "node record", "tell",
           "write", "first", "reread", "rewrite", "forget", "check"}

TaskRecord ==
    [op: OpNames \cup {"idle"}, pc: Places, held: SUBSET (0..MaxBuckets),
     want: SUBSET (0..MaxBuckets), b: 0..MaxBuckets,
     title: Titles \cup {None}, key: Keys \cup {None}, goal: 0..MaxBuckets,
     keys: SUBSET Keys, rest: SUBSET Keys, drop: SUBSET Keys,
     up: 0..MaxBuckets, child: 0..MaxBuckets, dst: 0..MaxBuckets,
     into: 0..MaxBuckets, old: BucketInfo, was: [Keys -> MemoryRecord],
     sums: Seq(Buckets)]

TaskTypeOK ==
    /\ task \in [Tasks -> TaskRecord]
    /\ ops \in 0..MaxOps
    /\ asked \in [Buckets -> Titles \cup {None}]
    /\ forgone \in SUBSET Keys

\* Every variable keeps to its domain; no bucket lies deeper than MaxDepth.
TypeOK == TreeTypeOK /\ TaskTypeOK

\* No operation is in progress.
Quiet == \A t \in Tasks : task[t].op = "idle"

\* A sealed bucket leads to a later one, so following redirects ends.
RedirectsForward ==
    \A b \in Buckets : info[b].sealed => Made(info[b].to) /\ info[b].to > b

\* A handle, however old, leads to a bucket that can be written.
HandlesLeadToWritable == \A b \in 1..made : ~info[Resolve(b)].sealed

\* When nothing is going on, every memory added and not given up is live and in
\* a bucket that does not redirect elsewhere: no rebuild leaves one behind in the
\* bucket it seals.  Whether a query also reaches that bucket is FoundFromRoot of
\* MCRebuild.
NoneStranded ==
    Quiet => \A m \in Mems :
        rec[m].bucket # None /\ m \notin forgone =>
            Live(m) /\ ~info[rec[m].bucket].sealed

\* When nothing is going on, the record that leads to a bucket and the tree
\* agree on the parent.
RecordsAgreeWithTree ==
    Quiet => \A k \in Buckets :
        Live(k) /\ k \notin forgone /\ ~info[rec[k].bucket].sealed =>
            \E c \in 1..made :
                /\ c = Resolve(rec[k].child)
                /\ info[c].parent = rec[k].bucket
                /\ c \in info[rec[k].bucket].children

\* Of the children made for one title, a parent has at most one live in C.
OneChildIn(C) ==
    \A j, k \in C :
        /\ j # k /\ asked[j] # None /\ asked[j] = asked[k] /\ Live(j) /\ Live(k)
        => rec[j].bucket # rec[k].bucket

\* set_bucket is a setdefault: a parent has at most one live child made for a
\* title.
OneChildPerTitle == OneChildIn(Buckets)

\* The same of the children nobody deleted.  A summary refresh that read a child's
\* record before a deletion grayed it writes it back live, next to the child made
\* for the title since.
OneKeptChildPerTitle == OneChildIn(Buckets \ forgone)

\* validate_dataset_layout of the JSON layout: a title leads to a direct child, or to a direct child
\* of the bucket its parent redirects to, which has it under the same title.
LayoutValid ==
    Quiet => \A p \in 1..made, s \in Titles : titleOf[p][s] # None =>
        \E c \in {titleOf[p][s]}, q \in {Resolve(p)} :
            \/ info[c].parent = p /\ c \in info[p].children
            \/ /\ q # p /\ titleOf[q][s] = c
               /\ info[c].parent = q /\ c \in info[q].children

\* When nothing is going on, a title leads to a bucket whose record is live: a
\* deleted bucket is not handed out again.
TitlesLeadToLive ==
    Quiet => \A p \in 1..made : \A s \in Titles :
        ~info[p].sealed /\ titleOf[p][s] # None =>
            \E k \in Buckets :
                Live(k) /\ Resolve(rec[k].child) = Resolve(titleOf[p][s])
============================================================================
