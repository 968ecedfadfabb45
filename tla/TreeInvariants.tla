--------------------------- MODULE TreeInvariants ---------------------------
(***************************************************************************)
(* What holds of the tree, its records and the tasks between any two steps *)
(* of the services and of an optimize: the inductive invariants that       *)
(* BucketServices_proofs proves, and the hypotheses of its theorems.       *)
(***************************************************************************)
EXTENDS MCTrees, MCOptimize

-----------------------------------------------------------------------------
(* The rows of the tree.                                                     *)

\* Bucket b redirects.
Leads(b) == info[b].sealed /\ Made(info[b].to) /\ info[b].to > b

\* Where a sealed bucket leads is a later one.
Forward(row, b, n) == row.sealed => b \in 1..n /\ row.to \in {None} \cup (b + 1)..n

Rows == \A b \in Buckets : Forward(info[b], b, made)

\* What every storage task does to the rows: it keeps them so, and a bucket keeps
\* its level.
TreeKept ==
    /\ TreeTypeOK' /\ Rows'
    /\ made' \in {made, made + 1}
    /\ \A b \in 1..made : info'[b].level = info[b].level

-----------------------------------------------------------------------------
(* What a task holds, as long as it may use it: read against the rows f of n *)
(* buckets.                                                                  *)

Compressing == {"carry", "rehang", "place", "merge"}
Splitting == {"adopt", "fetch"}
Summing == {"write", "first", "summary", "save", "node record", "tell"}
Carrying == {"fetch", "rehome", "out", "in"}
Succeeding == Compressing \cup {"adopt", "seal", "switch"}
Grouped == {"node", "fetch", "rehome", "out", "in", "adopt", "seal", "switch"} \cup Summing

KeyOps == {"edit", "gray", "ungray", "delete", "move"}

InPlace(r) ==
    /\ r.pc # "done" => r.op # "idle"
    /\ r.pc \in {"reread", "rewrite", "forget"} => r.op \in KeyOps
    /\ r.pc = "check" => r.op = "move"
    /\ r.pc \in {"write", "first"} => r.op = "add"
    /\ r.pc \in {"look", "retitle", "untitle"} => r.op = "set"
    /\ r.pc \in Compressing => r.op = "compress"
    /\ r.pc \in Splitting => r.op = "split"

\* The bucket worked on, and the successor, which is later.
Sources(r, n) ==
    /\ r.pc \notin {"ask", "done"} => r.b \in 1..n
    /\ \/ r.pc \in Succeeding
       \/ r.pc \in Carrying /\ r.op = "split" /\ r.into = r.dst
       \/ r.pc \in Summing /\ r.into # None
       => r.dst \in (r.b + 1)..n

\* The bucket about to be made is not too deep; the one made is there.
Children(r, n, f) ==
    /\ r.op = "split" => r.child \in 0..n /\ (r.pc \in Grouped => r.child # None)
    /\ r.op = "split" /\ (r.child = None \/ r.pc = "node") => r.dst = None
    /\ /\ r.pc = "make"
       /\ r.op \in {"set", "create"} \/ (r.op = "split" /\ r.child = None /\ f[r.b].level < MaxDepth)
       => r.up \in 1..n /\ f[r.up].level < MaxDepth

Records(r, n) ==
    /\ r.op = "set" => r.title \in Titles
    /\ r.op \in KeyOps \cup {"add"} => r.key \in Keys
    /\ r.pc \in Carrying \cup {"adopt"} => r.into \in 1..n
    /\ r.pc \in {"rehang", "place", "rehome", "out", "in"} => r.key \in Keys
    /\ r.pc \in {"rehang", "rehome"} => r.was[r.key].child \in Buckets

\* The row that will be written back still is one of that bucket.
Summaries(r, n, f) ==
    /\ r.pc \in {"ask", "wait", "write", "first"} => r.into = None
    /\ r.pc \in Summing => r.sums \in Seq(1..n) /\ r.sums # <<>>
    /\ r.pc = "save" => /\ r.old.level = f[Head(r.sums)].level
                        /\ Forward(r.old, Head(r.sums), n)

Sound(r, n, f) ==
    /\ InPlace(r) /\ Sources(r, n) /\ Children(r, n, f) /\ Records(r, n) /\ Summaries(r, n, f)

HInv ==
    /\ TypeOK /\ Rows
    /\ \A t \in Tasks : Sound(task[t], made, info)

-----------------------------------------------------------------------------
(* Where redirects lead.                                                     *)

\* A sealed row leads on; so does a row that will be written back.
Leading(row) == row.sealed => row.to # None

LInv ==
    /\ \A b \in Buckets : Leading(info[b])
    /\ \A t \in Tasks : task[t].pc = "save" => Leading(task[t].old)

-----------------------------------------------------------------------------
(* No memory is stranded: what rebuilds have in hand.                        *)

Undisturbed == ~Listing /\ Kinds \cap KeyOps = {}

\* The bucket a rebuild fills, if any.
Fill(r) == IF r.pc = "node" THEN r.child ELSE r.into
Filling(r) == r.op \in {"compress", "split"} /\ r.pc # "switch" /\ Fill(r) # None

\* What a task knows of its own rebuild.
Orderly(r) ==
    /\ r.op \notin KeyOps
    /\ r.pc = "ask" => r.b # None
    /\ r.pc = "wait" => r.b \in r.want
    /\ r.pc \notin {"ask", "wait", "done"} => r.b \in r.held
    /\ r.pc \in Carrying => r.op = "split"
    /\ r.op = "compress" => r.into \in {None, r.dst}
    /\ r.op = "split" => r.into \in {None, r.child, r.dst}
    /\ r.pc \in Compressing => r.into # None
    /\ r.pc \in Summing /\ r.into # None => r.op = "compress"
    /\ r.pc = "seal" => r.op \in {"compress", "split"} /\ r.into = r.dst
    /\ r.pc \in {"rehome", "out", "in"} => ~r.was[r.key].gray
    /\ r.pc = "save" => ~r.old.sealed
    /\ r.op = "split" /\ r.pc \in {"ask", "wait", "plan"} => r.child = None
    /\ r.op = "split" /\ r.child # None /\ r.pc \in {"aim", "make", "adopt"} => r.keys = {}

\* Locks are exclusive.
Exclusive == \A t, u \in Tasks : t # u => task[t].held \cap task[u].held = {}

\* A bucket being filled is open, nobody works on it and nothing leads to it.
Secluded(b) ==
    /\ b \in 1..made /\ ~info[b].sealed
    /\ \A u \in Tasks : task[u].b # b
    /\ \A c \in Buckets : Leads(c) => info[c].to # b

\* Memories a rebuild has yet to move, or drops.
Rebuilding(r) ==
    /\ r.op \in {"compress", "split"}
    /\ \/ r.pc \in {"aim", "make", "node", "adopt", "seal"} \cup Compressing \cup Carrying
       \/ r.pc \in Summing /\ r.into # None

Left(r) ==
    r.drop \cup (IF r.pc \in {"merge", "seal"} \cup Summing THEN {} ELSE r.keys)
           \cup (IF r.pc \in {"rehang", "place", "rehome", "out"} THEN {r.key} ELSE {})
           \cup (IF r.op = "split" /\ (r.dst = None \/ r.pc = "adopt") THEN r.rest ELSE {})

Inside(b) == {m \in Mems : Live(m) /\ rec[m].bucket = b}

OnTheWay(m) == \E t \in Tasks : task[t].pc = "in" /\ task[t].key = m

Tended(m) ==
    rec[m].bucket # None /\ m \notin forgone =>
        (Live(m) /\ ~info[rec[m].bucket].sealed) \/ OnTheWay(m)

Apart ==
    /\ \A t \in Tasks, b \in Buckets :
          Filling(task[t]) /\ b = Fill(task[t]) => Secluded(b)
    /\ \A t, u \in Tasks : t # u /\ Filling(task[t]) /\ Filling(task[u]) =>
          Fill(task[t]) # Fill(task[u])

SInv ==
    /\ \A t \in Tasks : Orderly(task[t]) /\ task[t].b \in 0..made
    /\ Exclusive /\ Apart
    /\ \A t \in Tasks, m \in Mems :
          Rebuilding(task[t]) /\ Live(m) /\ rec[m].bucket = task[t].b => m \in Left(task[t])
    /\ \A m \in Mems : Tended(m)

\* No bucket is sealed, no memory written.
Calm ==
    /\ TreeKept /\ made' = made /\ forgone \subseteq forgone'
    /\ \A c \in Buckets : info'[c].sealed => info[c].sealed /\ info'[c].to = info[c].to
    /\ \A m \in Mems : rec'[m] = rec[m]

-----------------------------------------------------------------------------
(* Titles and records where nothing is sealed.                               *)

OneCaller == \A t, u \in Tasks : t = u
NoRebuilds == Kinds \cap {"compress", "split"} = {}

\* Operations that may write a summary.
Summarizing == {"add", "refresh"}
RowsTheirOwn == OneCaller \/ Kinds \cap Summarizing = {}
InTurn == OneCaller /\ ~Abandons

\* c hangs under p in the rows f.
Hangs(c, p, f) == f[c].parent = p /\ c \in f[p].children

\* Where a task can be without rebuilds.
Plain(r) ==
    /\ r.op \in Kinds \cup {"idle"}
    /\ r.pc \notin {"plan", "adopt", "fetch", "seal", "switch", "retitle"} \cup Compressing
    /\ r.pc \in Summing => r.op \in Summarizing /\ r.into = None
    /\ r.pc \in {"aim", "make", "node"} => r.op \in {"set", "create"}
    /\ r.pc \in {"rehome", "out", "in"} => r.op = "move"

\* The row about to be written back is the one that is there, the bucket about
\* to be moved exists.
Fresh(r, n, f) ==
    /\ r.pc = "save" => r.old = f[Head(r.sums)]
    /\ r.pc = "rehome" => r.was[r.key].child \in 1..n

Titled == \A p \in Buckets, s \in Titles : titleOf[p][s] # None =>
             /\ p \in 1..made /\ titleOf[p][s] \in 1..made
             /\ Hangs(titleOf[p][s], p, info)

NoneSealed == \A b \in Buckets : ~info[b].sealed

\* What a task knows, with n buckets, rows f and records m.
Aware(r, n, f, m) ==
    /\ r.pc = "node" => r.child \in 1..n /\ r.up \in 1..n /\ Hangs(r.child, r.up, f)
    /\ r.op = "add" => r.key \in Mems
    /\ r.pc = "rewrite" => r.was[r.key] = m[r.key]
    /\ r.pc = "tell" => /\ r.was[Head(r.sums)] = m[Head(r.sums)]
                        /\ r.goal = m[Head(r.sums)].bucket
    /\ r.pc \in {"rehome", "out"} => /\ r.was[r.key].bucket = m[r.key].bucket
                                     /\ r.was[r.key].bucket \in Buckets
    /\ r.pc = "rehome" => r.key \in Buckets
    /\ r.pc \in {"rehome", "out", "in"} =>
          IF r.key \in Buckets THEN r.was[r.key].child = r.key /\ m[r.key].bucket # None
          ELSE r.was[r.key].child = None
    /\ r.pc \in {"out", "in"} /\ r.key \in Buckets => Hangs(r.key, r.into, f)

\* A bucket on its way to another parent.
Moving(k) == \E t \in Tasks : task[t].pc \in {"out", "in"} /\ task[t].key = k

Agreement ==
    /\ \A m \in Mems : rec[m].child = None
    /\ \A k \in Buckets : rec[k].bucket # None =>
          /\ k \in 1..made /\ rec[k].child = k /\ rec[k].bucket \in 1..made
          /\ Hangs(k, rec[k].bucket, info) \/ Moving(k)

AInv ==
    /\ \A t \in Tasks : Plain(task[t]) /\ Fresh(task[t], made, info)
    /\ NoneSealed /\ Titled
    /\ InTurn => Agreement /\ \A t \in Tasks : Aware(task[t], made, info, rec)

Tidy == HInv /\ AInv /\ NoRebuilds /\ RowsTheirOwn

-----------------------------------------------------------------------------
(* Titles while children are only created, looked up, refreshed and deleted. *)

\* What a task knows, with n buckets, rows f, records m, titles h, the titles a
\* that buckets were made for and the records g that were given up.  Who makes
\* a child for a title has its parent's lock since it found the title unused.
Making(r, n, f, m, h, a) ==
    r.op \in {"set", "create"} =>
        /\ r.pc \in {"ask", "wait", "look", "aim", "make", "node"}
        /\ r.op = "create" => r.title = None
        /\ r.pc = "wait" => r.b \in r.want
        /\ r.pc \in {"look", "aim", "make", "node"} => r.b \in r.held
        /\ r.pc \in {"make", "node"} => r.up = r.b
        /\ r.pc \in {"aim", "make"} /\ r.title # None => h[r.b][r.title] = None
        /\ r.pc = "node" =>
              /\ r.child \in 1..n /\ Hangs(r.child, r.b, f)
              /\ m[r.child].bucket = None /\ a[r.child] = r.title
              /\ r.title # None => h[r.b][r.title] = r.child

\* A refresh has the lock of its bucket, whose row nobody else changes.
Refreshing(r, f, m) ==
    r.op = "refresh" =>
        /\ r.pc \in {"ask", "wait", "summary", "save", "node record", "tell"}
        /\ r.pc = "wait" => r.b \in r.want
        /\ r.pc \in Summing => r.into = None /\ r.sums = <<r.b>> /\ r.b \in r.held
        /\ r.pc = "save" => r.old = f[r.b]
        /\ r.pc = "tell" => /\ r.goal # None /\ m[r.b].bucket = r.goal
                            /\ r.was[r.b].child = m[r.b].child /\ ~r.was[r.b].gray

\* A deletion has noted the parent of the bucket it deletes.
Deleting(r, m, g) ==
    r.op = "delete" =>
        /\ r.pc \in {"ask", "wait", "reread", "rewrite", "forget"}
        /\ r.key \in Buckets /\ r.child = r.key
        /\ r.goal # None /\ m[r.key].bucket = r.goal
        /\ r.pc = "rewrite" => /\ r.was[r.key].bucket = r.goal
                               /\ r.was[r.key].child = m[r.key].child
        /\ r.pc = "forget" => r.key \in g

Wise(r, n, f, m, h, a, g) ==
    /\ r.op \in TitleKinds \cup {"idle"}
    /\ Making(r, n, f, m, h, a) /\ Refreshing(r, f, m) /\ Deleting(r, m, g)

\* The record of a bucket is the one under its own key, and names its parent;
\* grayed ones were given up.
Filed == \A k \in Keys : rec[k].bucket # None =>
            /\ k \in 1..made /\ rec[k].child = k /\ rec[k].bucket \in 1..made
            /\ Hangs(k, rec[k].bucket, info)
            /\ rec[k].gray => k \in forgone

\* A title leads to the child made for it last, unless that was given up.
TitlesKept == \A k \in Buckets :
    asked[k] # None /\ rec[k].bucket # None /\ k \notin forgone
        => titleOf[rec[k].bucket][asked[k]] = k

\* Who leaves a title without a live record is there to put it right.
Minded(c) == Live(c) \/ \E u \in Tasks : task[u].pc \in {"node", "forget"} /\ task[u].child = c
AllMinded == \A p \in Buckets, s \in Titles : titleOf[p][s] # None => Minded(titleOf[p][s])

TInv ==
    /\ NoneSealed /\ Titled /\ Exclusive /\ Filed /\ TitlesKept
    /\ ~Abandons => AllMinded
    /\ \A t \in Tasks : Wise(task[t], made, info, rec, titleOf, asked, forgone)

\* Without refreshes, who was given up stays grayed.
Buried ==
    /\ \A t \in Tasks : task[t].op # "refresh"
    /\ \A k \in forgone : rec[k].bucket # None /\ rec[k].gray

-----------------------------------------------------------------------------
(* What an optimize relies on while it goes on.                              *)

Reading == {"idle", "collect", "expand", "plan", "validate"}
Shifting == {"successor", "group", "node", "next", "rehang", "write"}
Omitting == {"omit", "gray", "archive", "archived", "summary", "seal"}
Applying == Shifting \cup Omitting \cup {"switch"}

OptRecord ==
    [pc: Reading \cup Applying \cup {"done"}, b: Buckets \cup {None},
     was: [Keys -> MemoryRecord], direct: SUBSET Keys, under: [Keys -> SUBSET Keys],
     todo: SUBSET Keys, flat: SUBSET Keys, groups: {opt.groups}, into: {opt.into},
     dst: Buckets \cup {None}, key: Keys \cup {None}, cur: MemoryRecord, old: BucketInfo,
     end: {"none", "empty", "skipped", "rejected", "failed", "ok"}]

\* The record of a bucket is the one under its own key.
Stands(k) == IF k \in Buckets THEN k ELSE None
Keyed == \A k \in Keys : rec[k].bucket # None =>
            rec[k].child = Stands(k) /\ (k \in Buckets => k \in 1..made)

\* While the optimize reads, a child is newer than its parent.
Downwards == \A k \in Buckets : rec[k].bucket # None => rec[k].bucket < k

\* What a caller's task knows, with n buckets, records m and the optimize o.
Creating(r, n, m) ==
    r.op \in {"set", "create"} =>
        /\ r.pc \in {"ask", "wait", "look", "retitle", "untitle", "aim", "make", "node"}
        /\ r.pc = "node" => r.child \in 1..n /\ m[r.child].bucket = None /\ r.up < r.child
Graying(r, m, pc) ==
    r.op = "gray" =>
        /\ r.pc \in {"ask", "wait", "reread", "rewrite"}
        /\ m[r.key].bucket # None
        /\ r.pc = "rewrite" =>
              /\ r.was[r.key].bucket # None /\ r.was[r.key].child = Stands(r.key)
              /\ pc \in Reading /\ r.key \in Buckets => r.was[r.key].bucket < r.key
Calling(r, n, m, o) ==
    /\ r.op \in CreatesAndGrays \cup {"idle"}
    /\ Creating(r, n, m) /\ Graying(r, m, o.pc)
    /\ o.pc = "node" /\ r.pc = "node" => r.child # o.key
Siblings == \A t, u \in Tasks : t # u /\ task[t].pc = "node" /\ task[u].pc = "node" =>
                task[t].child # task[u].child
Callers == Siblings /\ \A t \in Tasks : Calling(task[t], made, rec, opt)

\* What was read of the target and of its children, and what was not: for all the
\* callers do meanwhile, a record stays where it was read or is given up.
Noted(k) ==
    /\ opt.was[k].child = Stands(k) /\ rec[k].bucket # None
    /\ k \in Buckets => k > opt.b
Attaches(p, k) ==
    /\ k \in O!Candidates /\ p \in O!Candidates /\ p \in Buckets
    /\ k \in forgone \/ opt.was[k].bucket = p
ReadSoFar ==
    /\ \A k \in O!Candidates : Noted(k)
    /\ opt.direct \subseteq O!Candidates
    /\ \A p \in Keys : \A k \in opt.under[p] : Attaches(p, k)
Unmoved == \A k \in O!Candidates : k \in forgone \/ (Live(k) /\ rec[k].bucket = opt.was[k].bucket)

\* A plan is about records that were read, and uses buckets it keeps.
Planned ==
    /\ opt.flat \subseteq O!Candidates
    /\ \A i \in DOMAIN opt.groups :
          /\ opt.groups[i].members \subseteq O!Candidates
          /\ opt.groups[i].at \in {None} \cup (opt.flat \cap Buckets)

\* A bucket that the optimize does not seal.
Haven(x) == x \in 1..made /\ x # opt.b /\ x \notin O!Omitted

ToMove == CASE opt.pc \in {"successor", "group", "node"} -> O!Explicit
            [] opt.pc = "next" -> opt.todo
            [] opt.pc \in {"rehang", "write"} -> opt.todo \cup {opt.key}
            [] OTHER -> {}

\* What the plan keeps is live, and in its place but for what is still to move.
Kept == \A k \in O!Retained : k \in forgone \/ Live(k)
Homed == \A k \in O!Retained \ ToMove : k \in forgone \/ Haven(rec[k].bucket)

Targets ==
    /\ opt.pc # "successor" =>
          /\ Haven(opt.dst) /\ opt.dst > opt.b /\ info[opt.dst].level < MaxDepth
    /\ \A i \in DOMAIN opt.into : Haven(opt.into[i])
    /\ opt.pc \in {"next", "rehang", "write"} => DOMAIN opt.groups \subseteq DOMAIN opt.into
    /\ opt.pc = "node" =>
          opt.key \in 1..made /\ opt.key \notin O!Candidates /\ rec[opt.key].bucket = None

\* The record at hand and the row that will be written back.
AtHand ==
    /\ opt.pc = "next" => opt.todo \subseteq O!Explicit
    /\ opt.pc \in {"rehang", "write"} =>
          /\ opt.todo \subseteq O!Explicit /\ opt.key \in O!Explicit
          /\ opt.cur.child = Stands(opt.key)
          /\ opt.pc = "rehang" => opt.key \in Buckets
    /\ opt.pc \in {"omit", "gray", "archive", "archived"} => opt.todo \subseteq O!Omitted
    /\ opt.pc \in {"gray", "archive", "archived"} =>
          /\ opt.key \in O!Omitted /\ opt.cur.child = Stands(opt.key) /\ opt.cur.bucket # None
          /\ opt.pc # "gray" => opt.key \in Buckets
    /\ opt.pc = "archived" => opt.old.to = None /\ opt.old.level = info[opt.key].level
    /\ opt.pc = "summary" =>
          opt.old.to = None /\ ~opt.old.sealed /\ opt.old.level = info[opt.dst].level

\* What is sealed by when.
Sealing ==
    /\ opt.pc \notin {"switch", "done"} => \A c \in Buckets : info[c].to = None
    /\ opt.pc \in Reading \cup Shifting => \A c \in Buckets : ~info[c].sealed
    /\ opt.pc \in Omitting => \A c \in Buckets : info[c].sealed => c \in O!Omitted
    /\ opt.pc = "switch" => \A c \in Buckets : info[c].sealed => c \in O!Omitted \cup {opt.b}

Target ==
    /\ opt.end = "none" <=> opt.pc # "done"
    /\ opt.pc = "idle" => O!Candidates = {} /\ \A k \in Keys : opt.under[k] = {}
    /\ opt.pc # "idle" => opt.b \in 1..made
    /\ opt.pc \notin {"idle", "done"} => info[opt.b].level < MaxDepth

OInv ==
    /\ opt \in OptRecord
    /\ Keyed /\ Callers /\ Sealing /\ Target /\ ReadSoFar /\ Planned
    /\ opt.pc \in Reading => Downwards /\ Unmoved /\ opt.into = <<>>
    /\ opt.pc = "expand" => opt.todo \subseteq opt.direct /\ opt.todo \subseteq Buckets
    /\ opt.pc \in Applying => Kept /\ Homed /\ Targets /\ AtHand
    /\ opt.pc = "done" => NeverInLimbo

\* An optimize has its fields, and no groups before it has a plan.
Fielded ==
    /\ opt \in [pc: {opt.pc}, b: {opt.b}, was: {opt.was}, direct: {opt.direct}, under: {opt.under},
                todo: {opt.todo}, flat: {opt.flat}, groups: {opt.groups}, into: {opt.into},
                dst: {opt.dst}, key: {opt.key}, cur: {opt.cur}, old: {opt.old}, end: {opt.end}]
    /\ opt.pc \in {"idle", "collect", "expand", "plan"} => opt.groups = <<>>

\* While its plan is sane, all goes as it should.
LimboInv == Fielded /\ (Sane => HInv /\ OInv)

-----------------------------------------------------------------------------
(* Steps, as the proofs tell them apart.                                     *)

\* Task t starts an operation.
Beginning(t) == BeginOnBucket(t) \/ BeginAdd(t) \/ BeginOnKey(t)

\* A step of task t after which it has no row to write back.
RowFree(t) == task'[t].pc # "save" /\ \E r : Become(t, r)

\* A task goes on with the rebuild it is at, or leaves it.
GoesOn(t, r) ==
    /\ Become(t, r) /\ Orderly(r)
    /\ r.b \in {task[t].b, None} /\ r.held \subseteq task[t].held
    /\ Filling(r) => Filling(task[t]) /\ Fill(r) = Fill(task[t])
    /\ Rebuilding(r) => /\ Rebuilding(task[t]) /\ r.b = task[t].b
                        /\ Left(task[t]) \cap Inside(task[t].b) \subseteq Left(r)

\* Locks a task may have.
Free(t, S) == \A u \in Tasks \ {t} : task[u].held \cap S = {}

\* Task t writes w, the record of bucket k, made or put back where it was, and
\* goes on as r.
Inscribing(t, r, k, w) ==
    /\ rec' = [rec EXCEPT ![k] = w] /\ UNCHANGED <<info, made, titleOf, asked>>
    /\ forgone \subseteq forgone'
    /\ k \in 1..made /\ w.child = k /\ w.bucket \in 1..made /\ Hangs(k, w.bucket, info)
    /\ rec[k].bucket # None => w.bucket = rec[k].bucket
    /\ w.gray => k \in forgone' /\ r.pc = "forget" /\ r.child = k
    /\ \A u \in Tasks \ {t} : task[u].pc = "node" => task[u].child # k
    /\ asked[k] # None /\ k \notin forgone' => titleOf[w.bucket][asked[k]] = k
    /\ task[t].pc \in {"node", "forget"} => task[t].child = k
    /\ Wise(r, made, info, rec', titleOf, asked, forgone')

\* The optimize keeps to what it read and planned.
SamePlan ==
    /\ opt'.b = opt.b /\ opt'.was = opt.was /\ opt'.direct = opt.direct
    /\ opt'.under = opt.under /\ opt'.flat = opt.flat /\ opt'.groups = opt.groups

\* A new bucket's record, and a record a caller gives up.
Entered(k) ==
    /\ k \in Buckets /\ k \in 1..made' /\ rec[k].bucket = None
    /\ rec'[k].bucket < k /\ rec'[k].child = k
    /\ opt.pc = "node" => k # opt.key
Given(k) ==
    /\ k \in forgone' /\ rec[k].bucket # None /\ rec'[k].bucket # None /\ rec'[k].child = Stands(k)
    /\ opt.pc \in Reading /\ k \in Buckets => rec'[k].bucket < k
Meanwhile ==
    /\ made' \in {made, made + 1} /\ \A b \in 1..made : info'[b].level = info[b].level
    /\ \A b \in Buckets : (info'[b].sealed => info[b].sealed) /\ info'[b].to \in {None, info[b].to}
    /\ forgone \subseteq forgone'
    /\ \A k \in Keys : rec'[k] = rec[k] \/ Entered(k) \/ Given(k)

=============================================================================
