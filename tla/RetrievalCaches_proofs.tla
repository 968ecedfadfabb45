----------------------- MODULE RetrievalCaches_proofs -----------------------
(* What the caches of retrieval serve is current, for any number of askers,  *)
(* writers and writes.                                                       *)
EXTENDS RetrievalCaches, SequenceTheorems, TLAPS

-----------------------------------------------------------------------------
(* The two queues, in which a task keeps its place from its storage task to  *)
(* its resumption.                                                           *)

In(s, x) == \E i \in 1..Len(s) : s[i] = x
Once(s) == \A i, j \in 1..Len(s) : s[i] = s[j] => i = j
Precedes(s, x, y) == \E i, j \in 1..Len(s) : i < j /\ s[i] = x /\ s[j] = y

Done(t) == In(ready, t)
Queued(t) == In(jobs, t)

\* The event loop resumes s before t.
Ahead(s, t) == (Done(s) /\ Queued(t)) \/ Precedes(ready, s, t) \/ Precedes(jobs, s, t)

\* A task is in the queues once; the one whose commit is not in the view yet
\* still has the storage thread.
Lines ==
    /\ jobs \in Seq(Tasks) /\ ready \in Seq(Tasks)
    /\ Once(jobs) /\ Once(ready)
    /\ \A t \in Tasks : ~(Done(t) /\ Queued(t))
    /\ publishing # None => jobs # <<>> /\ Head(jobs) = publishing

-----------------------------------------------------------------------------
(* The invariant. *)

Usages == [version : Nat, tokens : Nat]
Indexes == [version : Nat, rows : Nat, late : BOOLEAN]
AskerRec == [pc : AskerPCs, asked : Nat, left : Seq(Buckets), snap : [Buckets -> Nat],
             stack : Seq(Frames), clean : BOOLEAN, reply : {None} \cup SUBSET Seens,
             bucket : Buckets, version : Nat, tokens : Nat]
WriterRec == [pc : {"idle", "write", "append"}, bucket : Buckets]
WorkerRec == [pc : {"idle", "put"}, item : {None} \cup Effects]

Types ==
    /\ live \subseteq Buckets
    /\ rows \in [Buckets -> Nat] /\ events \in [Buckets -> Nat] /\ version \in [Buckets -> Nat]
    /\ contextVersion \in Nat /\ dirty \in BOOLEAN
    /\ answers \in Seq(Effects) /\ effects \in Seq(Effects)
    /\ context \in [Buckets -> {None} \cup Nat]
    /\ usage \in [Buckets -> {None} \cup Usages]
    /\ index \in [Buckets -> SUBSET Indexes]
    /\ publishing \in Writers \cup {None}
    /\ asker \in [Askers -> AskerRec] /\ writer \in [Writers -> WriterRec]
    /\ worker \in WorkerRec /\ (worker.pc = "put" => worker.item \in Effects)

\* Who waits for no storage task is in neither queue; a query that has come to a
\* bucket has a frame for it, and a second one only below the root's.
OnLoopOnly == {"idle", "ranking", "ranked", "llm", "merge"}
Afield == {"idle", "recall", "ranking", "count"}

Placed ==
    /\ \A q \in Askers :
         /\ asker[q].pc \in OnLoopOnly => ~Done(q) /\ ~Queued(q)
         /\ asker[q].stack = <<>> <=> asker[q].pc \in Afield
         /\ Len(asker[q].stack) <= 2
    /\ \A w \in Writers : writer[w].pc = "idle" => ~Done(w) /\ ~Queued(w)
    /\ worker.pc = "idle" => ~Done(Worker) /\ ~Queued(Worker)
    /\ publishing # None => writer[publishing].pc # "idle"

\* The writer's transaction is in the store, and the event loop has not resumed
\* the writer; it owes the caches the invalidation once that is the event's.
Committed(w) == publishing = w \/ Done(w)
Owes(w, b) == writer[w].pc = "append" /\ writer[w].bucket = b /\ Committed(w)

\* No bucket has events before it has records.
Founded ==
    /\ \A b \in Buckets : rows[b] = 0 => events[b] = 0
    /\ \A w \in Writers :
         writer[w].pc = "append" \/ (writer[w].pc = "write" /\ Committed(w)) => rows[writer[w].bucket] > 0

\* The store as it is now; v is the context version of the time it was read.
IsNow(S, v) ==
    v = contextVersion => \A s \in S : s.rows = rows[s.bucket] /\ s.events = events[s.bucket]
RowsNow(f) == f.context = contextVersion => f.rows = rows[f.bucket]
EventsNow(f) == f.context = contextVersion => f.events = events[f.bucket]

\* An answer, stored or on its way to the table.
Sound(a) == a.key.context <= contextVersion /\ IsNow(a.seen, a.key.context)
AnswersSound ==
    /\ \A i \in 1..Len(answers) : Sound(answers[i])
    /\ \A i \in 1..Len(effects) : Sound(effects[i])
    /\ worker.pc = "put" => Sound(worker.item)

\* What asker q has read for the bucket it is at, and for the one above.
FramesSound(q) ==
    LET a == asker[q] IN
    /\ \A i \in 1..Len(a.stack) :
          a.stack[i].context <= contextVersion /\ IsNow(a.stack[i].seen, a.stack[i].context)
    /\ Len(a.stack) = 2 =>
          /\ RowsNow(a.stack[1]) /\ EventsNow(a.stack[1])
          /\ a.pc # "meta" => a.stack[1].context <= a.stack[2].context

ReadingSound(q) ==
    LET a == asker[q]
        f == Top(q)
    IN
    /\ a.pc \in {"empty", "ranked", "context", "llm", "merge"} \/ (a.pc = "load" /\ Done(q)) => RowsNow(f)
    /\ a.pc \in {"llm", "merge"} \/ (a.pc = "context" /\ Done(q)) => EventsNow(f)
    /\ a.pc \in {"meta", "lookup", "lookup_degraded", "load", "empty"} => f.events = 0
    /\ a.pc = "empty" => f.rows = 0
    /\ a.pc = "meta" => f.seen = {}
    /\ a.pc \in {"lookup", "lookup_degraded"} /\ Done(q) /\ a.reply # None => IsNow(a.reply, f.context)

\* A query keeps its place behind the writers whose events its keys cover: it
\* finds no context they have not invalidated.
Follows(q) ==
    LET a == asker[q]
        f == Top(q)
    IN
    /\ a.pc \in {"lookup", "lookup_degraded", "load", "empty"} /\ f.context = contextVersion =>
          \A w \in Writers : Owes(w, f.bucket) => Ahead(w, q)
    /\ a.pc = "ranked" /\ f.context = contextVersion =>
          \A w \in Writers : ~Owes(w, f.bucket)
    /\ a.pc = "context" /\ Done(q) =>
          \/ f.events = events[f.bucket]
          \/ \E w \in Writers : Owes(w, f.bucket) /\ Ahead(q, w)

\* A count that is under way.
Republishing(b) == publishing # None /\ writer[publishing].bucket = b
Counting(q) ==
    LET a == asker[q] IN
    a.pc = "count" =>
        /\ a.version <= version[a.bucket]
        /\ Done(q) /\ a.version = version[a.bucket] /\ ~Republishing(a.bucket)
              => a.tokens = events[a.bucket]

AskerSound(q) == FramesSound(q) /\ ReadingSound(q) /\ Follows(q) /\ Counting(q)

ContextsFollow ==
    \A b \in Buckets :
        context[b] \in {None, events[b]} \/ \E w \in Writers : Owes(w, b)

UsageSound ==
    \A b \in Buckets :
        usage[b] # None =>
            /\ usage[b].version <= version[b]
            /\ usage[b].version = version[b] /\ ~Republishing(b) => usage[b].tokens = events[b]

Inv ==
    /\ Types /\ Lines /\ Placed /\ Founded
    /\ AnswersSound /\ ContextsFollow /\ UsageSound
    /\ \A q \in Askers : AskerSound(q)

\* A revision of b is under way, and the index may be of the records before it.
MayLag(b) ==
    \E w \in Writers :
        /\ writer[w].bucket = b
        /\ (writer[w].pc = "write" /\ Committed(w)) \/ (writer[w].pc = "append" /\ Queued(w))

\* n records of b were loaded by q: all of them, or all but that of a writer
\* the event loop resumes after q.
Loaded(q, b, n) ==
    \/ n = rows[b]
    \/ \E w \in Writers :
         writer[w].bucket = b /\ writer[w].pc = "write" /\ Committed(w) /\ Ahead(q, w)

\* With the root only to scan.
LoadsSound(q) ==
    /\ asker[q].pc = "recall" /\ Done(q) =>
          \A b \in Buckets : asker[q].snap[b] > 0 => Loaded(q, b, asker[q].snap[b])
    /\ asker[q].pc = "load" /\ Done(q) => Loaded(q, Top(q).bucket, Top(q).rows)

IndexSound ==
    /\ \A b \in Buckets : \A i \in index[b] :
          i.version <= version[b]
          /\ (i.version = version[b] => i.late \/ i.rows = rows[b] \/ MayLag(b))
    /\ \A q \in Askers : LoadsSound(q)

-----------------------------------------------------------------------------
(* How the queues move. *)

\* A queue without its first element.
LEMMA DropFirst ==
    ASSUME NEW S, NEW s \in Seq(S), s # <<>>, Once(s)
    PROVE  /\ Tail(s) \in Seq(S) /\ Once(Tail(s)) /\ In(s, Head(s))
           /\ \A x : In(Tail(s), x) <=> In(s, x) /\ x # Head(s)
           /\ \A x, y : Precedes(Tail(s), x, y) <=> Precedes(s, x, y) /\ x # Head(s)
           /\ \A x : ~Precedes(s, x, Head(s))
           /\ \A y : In(s, y) /\ y # Head(s) => Precedes(s, Head(s), y)
<1>1. /\ Len(s) \in Nat /\ Len(s) > 0 /\ Head(s) = s[1]
      /\ Tail(s) \in Seq(S) /\ Len(Tail(s)) = Len(s) - 1
      /\ \A i \in 1..Len(Tail(s)) : Tail(s)[i] = s[i + 1]
    OBVIOUS
<1> DEFINE h == Head(s)
           z == Tail(s)
<1> HIDE DEF h, z
<1>2. /\ Len(s) \in Nat /\ Len(s) > 0 /\ h = s[1]
      /\ z \in Seq(S) /\ Len(z) = Len(s) - 1
      /\ \A i \in 1..Len(z) : z[i] = s[i + 1]
    BY <1>1 DEF h, z
<1>3. Once(z) /\ In(s, h)
    BY <1>2 DEF Once, In
<1>4. ASSUME NEW x PROVE In(z, x) <=> In(s, x) /\ x # h
    <2>1. ASSUME NEW i \in 1..Len(z), z[i] = x PROVE In(s, x) /\ x # h
        <3>1. i + 1 \in 1..Len(s) /\ s[i + 1] = x /\ 1 \in 1..Len(s) /\ i + 1 # 1
            BY <1>2, <2>1
        <3> QED BY <3>1, <1>2 DEF In, Once
    <2>2. ASSUME NEW i \in 1..Len(s), s[i] = x, x # h PROVE In(z, x)
        <3>1. i - 1 \in 1..Len(z) /\ z[i - 1] = x
            BY <1>2, <2>2
        <3> QED BY <3>1 DEF In
    <2> QED BY <2>1, <2>2 DEF In
<1>5. ASSUME NEW x, NEW y PROVE Precedes(z, x, y) <=> Precedes(s, x, y) /\ x # h
    <2>1. ASSUME NEW i \in 1..Len(z), NEW j \in 1..Len(z), i < j, z[i] = x, z[j] = y
          PROVE  Precedes(s, x, y) /\ x # h
        <3>1. /\ i + 1 \in 1..Len(s) /\ j + 1 \in 1..Len(s) /\ i + 1 < j + 1
              /\ s[i + 1] = x /\ s[j + 1] = y /\ 1 \in 1..Len(s) /\ i + 1 # 1
            BY <1>2, <2>1
        <3> QED BY <3>1, <1>2 DEF Precedes, Once
    <2>2. ASSUME NEW i \in 1..Len(s), NEW j \in 1..Len(s), i < j, s[i] = x, s[j] = y, x # h
          PROVE  Precedes(z, x, y)
        <3>1. /\ i - 1 \in 1..Len(z) /\ j - 1 \in 1..Len(z) /\ i - 1 < j - 1
              /\ z[i - 1] = x /\ z[j - 1] = y
            BY <1>2, <2>2
        <3> QED BY <3>1 DEF Precedes
    <2> QED BY <2>1, <2>2 DEF Precedes
<1>6. ASSUME NEW x, Precedes(s, x, h) PROVE FALSE
    <2>1. PICK i, j \in 1..Len(s) : i < j /\ s[i] = x /\ s[j] = h
        BY <1>6 DEF Precedes
    <2>2. 1 \in 1..Len(s) /\ j # 1
        BY <2>1, <1>2
    <2> QED BY <2>1, <2>2, <1>2 DEF Once
<1>7. ASSUME NEW y, In(s, y), y # h PROVE Precedes(s, h, y)
    <2>1. PICK j \in 1..Len(s) : s[j] = y
        BY <1>7 DEF In
    <2>2. 1 \in 1..Len(s) /\ 1 < j
        BY <2>1, <1>2, <1>7
    <2> QED BY <2>1, <2>2, <1>2 DEF Precedes
<1> QED BY <1>2, <1>3, <1>4, <1>5, <1>6, <1>7 DEF h, z

\* A queue with another element at its end.
LEMMA AddLast ==
    ASSUME NEW S, NEW s \in Seq(S), Once(s), NEW t \in S, ~In(s, t)
    PROVE  /\ Append(s, t) \in Seq(S) /\ Once(Append(s, t))
           /\ \A x : In(Append(s, t), x) <=> In(s, x) \/ x = t
           /\ \A x, y : Precedes(Append(s, t), x, y) <=> Precedes(s, x, y) \/ (In(s, x) /\ y = t)
<1> DEFINE z == Append(s, t)
<1>1. /\ Len(s) \in Nat /\ z \in Seq(S) /\ Len(z) = Len(s) + 1
      /\ \A i \in 1..Len(s) : z[i] = s[i]
      /\ z[Len(s) + 1] = t
    OBVIOUS
<1> HIDE DEF z
<1>2. Once(z)
    BY <1>1 DEF Once, In
<1>3. ASSUME NEW x PROVE In(z, x) <=> In(s, x) \/ x = t
    BY <1>1 DEF In
<1>4. ASSUME NEW x, NEW y PROVE Precedes(z, x, y) <=> Precedes(s, x, y) \/ (In(s, x) /\ y = t)
    <2>1. ASSUME NEW i \in 1..Len(z), NEW j \in 1..Len(z), i < j, z[i] = x, z[j] = y
          PROVE  Precedes(s, x, y) \/ (In(s, x) /\ y = t)
        <3>1. i \in 1..Len(s) /\ s[i] = x
            BY <1>1, <2>1
        <3>2. CASE j = Len(s) + 1
            BY <1>1, <2>1, <3>1, <3>2 DEF In
        <3>3. CASE j # Len(s) + 1
            <4>1. j \in 1..Len(s) /\ s[j] = y
                BY <1>1, <2>1, <3>3
            <4> QED BY <2>1, <3>1, <4>1 DEF Precedes
        <3> QED BY <3>2, <3>3
    <2>2. ASSUME NEW i \in 1..Len(s), NEW j \in 1..Len(s), i < j, s[i] = x, s[j] = y
          PROVE  Precedes(z, x, y)
        <3>1. i \in 1..Len(z) /\ j \in 1..Len(z) /\ z[i] = x /\ z[j] = y
            BY <1>1, <2>2
        <3> QED BY <2>2, <3>1 DEF Precedes
    <2>3. ASSUME In(s, x), y = t PROVE Precedes(z, x, y)
        <3>1. PICK i \in 1..Len(s) : s[i] = x
            BY <2>3 DEF In
        <3>2. /\ i \in 1..Len(z) /\ Len(s) + 1 \in 1..Len(z) /\ i < Len(s) + 1
              /\ z[i] = x /\ z[Len(s) + 1] = y
            BY <3>1, <2>3, <1>1
        <3> QED BY <3>2 DEF Precedes
    <2> QED BY <2>1, <2>2, <2>3 DEF Precedes
<1> QED BY <1>1, <1>2, <1>3, <1>4 DEF z

LEMMA PrecedesIn == \A s, x, y : Precedes(s, x, y) => In(s, x) /\ In(s, y)
    BY DEF Precedes, In

\* What the other tasks see of the queues when t moves in them.
Elsewhere(t) ==
    \A r, s \in Tasks \ {t} :
        /\ Done(s)' <=> Done(s)
        /\ Queued(s)' <=> Queued(s)
        /\ Ahead(r, s)' <=> Ahead(r, s)

\* The storage thread has ended t's task.
LEMMA StorageEnds ==
    ASSUME Lines, NEW t \in Tasks, jobs # <<>>, Head(jobs) = t,
           jobs' = Tail(jobs), ready' = Append(ready, t), publishing' = None
    PROVE  /\ Lines'
           /\ Queued(t) /\ ~Done(t) /\ Done(t)' /\ ~Queued(t)'
           /\ Elsewhere(t)
           /\ \A r, s \in Tasks : Ahead(r, s)' <=> Ahead(r, s)
<1>1. /\ jobs' \in Seq(Tasks) /\ Once(jobs')
      /\ In(jobs, t)
      /\ \A x : In(jobs', x) <=> In(jobs, x) /\ x # t
      /\ \A x, y : Precedes(jobs', x, y) <=> Precedes(jobs, x, y) /\ x # t
      /\ \A x : ~Precedes(jobs, x, t)
      /\ \A y : In(jobs, y) /\ y # t => Precedes(jobs, t, y)
    BY DropFirst DEF Lines
<1>2. ~In(ready, t)
    BY <1>1 DEF Lines, Done, Queued
<1>3. /\ ready' \in Seq(Tasks) /\ Once(ready')
      /\ \A x : In(ready', x) <=> In(ready, x) \/ x = t
      /\ \A x, y : Precedes(ready', x, y) <=> Precedes(ready, x, y) \/ (In(ready, x) /\ y = t)
    BY <1>2, AddLast DEF Lines
<1>4. Lines'
    BY <1>1, <1>2, <1>3 DEF Lines, Done, Queued
<1>5. \A r, s \in Tasks : Ahead(r, s)' <=> Ahead(r, s)
    BY <1>1, <1>2, <1>3, PrecedesIn DEF Ahead, Done, Queued
<1> QED BY <1>1, <1>2, <1>3, <1>4, <1>5 DEF Elsewhere, Done, Queued

\* The event loop resumes t, which leaves the queues.
LEMMA LoopResumes ==
    ASSUME Lines, NEW t \in Tasks, OnLoop(t), jobs' = jobs, publishing' = publishing
    PROVE  /\ Lines'
           /\ Done(t) /\ ~Queued(t) /\ ~Done(t)' /\ ~Queued(t)'
           /\ Elsewhere(t)
           /\ \A s \in Tasks : ~Ahead(s, t)
<1>1. ready # <<>> /\ t = Head(ready) /\ ready' = Tail(ready)
    BY DEF OnLoop
<1>2. /\ ready' \in Seq(Tasks) /\ Once(ready') /\ In(ready, t)
      /\ \A x : In(ready', x) <=> In(ready, x) /\ x # t
      /\ \A x, y : Precedes(ready', x, y) <=> Precedes(ready, x, y) /\ x # t
      /\ \A x : ~Precedes(ready, x, t)
    BY <1>1, DropFirst DEF Lines
<1>3. ~In(jobs, t)
    BY <1>2 DEF Lines, Done, Queued
<1>4. Lines'
    BY <1>2, <1>3 DEF Lines, Done, Queued
<1>5. \A s \in Tasks : ~Ahead(s, t)
    BY <1>2, <1>3, PrecedesIn DEF Ahead, Done, Queued
<1> QED BY <1>2, <1>3, <1>4, <1>5 DEF Elsewhere, Done, Queued, Ahead

\* t, in neither queue, gives the storage thread a task.
LEMMA StorageGets ==
    ASSUME Lines, NEW t \in Tasks, ~Done(t), ~Queued(t),
           jobs' = Append(jobs, t), ready' = ready, publishing' = publishing
    PROVE  /\ Lines' /\ Queued(t)' /\ ~Done(t)'
           /\ Elsewhere(t)
           /\ \A s \in Tasks \ {t} : Done(s)' \/ Queued(s)' => Ahead(s, t)'
<1>1. /\ jobs' \in Seq(Tasks) /\ Once(jobs')
      /\ \A x : In(jobs', x) <=> In(jobs, x) \/ x = t
      /\ \A x, y : Precedes(jobs', x, y) <=> Precedes(jobs, x, y) \/ (In(jobs, x) /\ y = t)
    BY AddLast DEF Lines, Queued
<1>2. publishing # None => jobs' # <<>> /\ Head(jobs') = publishing
    BY DEF Lines
<1>3. Lines'
    BY <1>1, <1>2 DEF Lines, Done, Queued
<1> QED BY <1>1, <1>3 DEF Elsewhere, Done, Queued, Ahead

\* The event loop resumes t, which gives the storage thread another task.
LEMMA LoopAwaits ==
    ASSUME Lines, NEW t \in Tasks, OnLoop(t), jobs' = Append(jobs, t), publishing' = publishing
    PROVE  /\ Lines'
           /\ Done(t) /\ ~Queued(t) /\ ~Done(t)' /\ Queued(t)'
           /\ Elsewhere(t)
           /\ \A s \in Tasks : ~Ahead(s, t)
           /\ \A s \in Tasks \ {t} : Done(s)' \/ Queued(s)' => Ahead(s, t)'
<1>1. ready # <<>> /\ t = Head(ready) /\ ready' = Tail(ready)
    BY DEF OnLoop
<1>2. /\ ready' \in Seq(Tasks) /\ Once(ready') /\ In(ready, t)
      /\ \A x : In(ready', x) <=> In(ready, x) /\ x # t
      /\ \A x, y : Precedes(ready', x, y) <=> Precedes(ready, x, y) /\ x # t
      /\ \A x : ~Precedes(ready, x, t)
    BY <1>1, DropFirst DEF Lines
<1>3. ~In(jobs, t)
    BY <1>2 DEF Lines, Done, Queued
<1>4. /\ jobs' \in Seq(Tasks) /\ Once(jobs')
      /\ \A x : In(jobs', x) <=> In(jobs, x) \/ x = t
      /\ \A x, y : Precedes(jobs', x, y) <=> Precedes(jobs, x, y) \/ (In(jobs, x) /\ y = t)
    BY <1>3, AddLast DEF Lines
<1>5. publishing # None => jobs' # <<>> /\ Head(jobs') = publishing
    BY DEF Lines
<1>6. Lines'
    BY <1>2, <1>3, <1>4, <1>5 DEF Lines, Done, Queued
<1>7. \A s \in Tasks : ~Ahead(s, t)
    BY <1>2, <1>3, PrecedesIn DEF Ahead, Done, Queued
<1> QED BY <1>2, <1>3, <1>4, <1>6, <1>7 DEF Elsewhere, Done, Queued, Ahead

-----------------------------------------------------------------------------
(* What a step of one task leaves as it was for the others. *)

LEMMA Actors ==
    /\ \A q \in Askers : q \in Tasks /\ q \notin Writers /\ q # Worker /\ q # None
    /\ \A w \in Writers : w \in Tasks /\ w \notin Askers /\ w # Worker /\ w # None
    /\ Worker \in Tasks /\ Worker \notin Askers /\ Worker \notin Writers /\ Worker # None
    BY CachesAssumption DEF Tasks

\* The queues as they were.
LEMMA QueuesStay ==
    ASSUME Lines, UNCHANGED threads
    PROVE  Lines' /\ \A t \in Tasks : Elsewhere(t) /\ (Done(t)' <=> Done(t)) /\ (Queued(t)' <=> Queued(t))
    BY DEF threads, Lines, Elsewhere, Done, Queued, Ahead

\* A step of no writer that leaves the store alone.
Beside(t) ==
    /\ Elsewhere(t) /\ publishing' = publishing
    /\ UNCHANGED <<rows, events, version, contextVersion, writer>>

LEMMA WritersStay ==
    ASSUME Inv, NEW t \in Tasks \ Writers, Beside(t)
    PROVE  /\ \A w \in Writers : (Done(w)' <=> Done(w)) /\ (Queued(w)' <=> Queued(w))
           /\ \A w \in Writers : Committed(w)' <=> Committed(w)
           /\ \A w \in Writers : \A b : Owes(w, b)' <=> Owes(w, b)
           /\ \A b : Republishing(b)' <=> Republishing(b)
           /\ Founded'
<1>1. \A w \in Writers : (Done(w)' <=> Done(w)) /\ (Queued(w)' <=> Queued(w))
    BY Actors DEF Beside, Elsewhere
<1>2. \A w \in Writers : Committed(w)' <=> Committed(w)
    BY <1>1 DEF Committed, Beside
<1>3. \A w \in Writers : \A b : Owes(w, b)' <=> Owes(w, b)
    BY <1>2 DEF Owes, Beside
<1>4. \A b : Republishing(b)' <=> Republishing(b)
    BY DEF Republishing, Beside
<1>5. Founded'
    BY <1>2 DEF Inv, Founded, Beside
<1> QED BY <1>1, <1>2, <1>3, <1>4, <1>5

LEMMA OthersStay ==
    ASSUME Inv, NEW t \in Tasks \ Writers, Beside(t), NEW r \in Askers \ {t}, asker'[r] = asker[r]
    PROVE  AskerSound(r)'
<1>1. (Done(r)' <=> Done(r)) /\ \A w \in Writers : (Ahead(r, w)' <=> Ahead(r, w)) /\ (Ahead(w, r)' <=> Ahead(w, r))
    BY Actors DEF Beside, Elsewhere
<1>2. AskerSound(r)
    BY DEF Inv
<1>3. FramesSound(r)'
    BY <1>2 DEF AskerSound, FramesSound, IsNow, RowsNow, EventsNow, Beside
<1>4. Top(r)' = Top(r)
    BY DEF Top
<1>5. ReadingSound(r)'
    BY <1>1, <1>2, <1>4 DEF AskerSound, ReadingSound, IsNow, RowsNow, EventsNow, Beside
<1>6. Follows(r)'
    BY <1>1, <1>2, <1>4, WritersStay DEF AskerSound, Follows, Beside
<1>7. Counting(r)'
    BY <1>1, <1>2, WritersStay DEF AskerSound, Counting, Beside
<1> QED BY <1>3, <1>5, <1>6, <1>7 DEF AskerSound

\* Caches that the step leaves alone stay good.
LEMMA CachesStay ==
    ASSUME Inv, NEW t \in Tasks \ Writers, Beside(t)
    PROVE  /\ UNCHANGED <<answers, effects, worker>> => AnswersSound'
           /\ context' = context => ContextsFollow'
           /\ usage' = usage => UsageSound'
<1>1. UNCHANGED <<answers, effects, worker>> => AnswersSound'
    BY DEF Inv, AnswersSound, Sound, IsNow, Beside
<1>2. context' = context => ContextsFollow'
    BY WritersStay DEF Inv, ContextsFollow, Beside
<1>3. usage' = usage => UsageSound'
    BY WritersStay DEF Inv, UsageSound, Beside
<1> QED BY <1>1, <1>2, <1>3

\* A step of asker q, which goes on as a.
LEMMA AskerMoves ==
    ASSUME Inv, NEW q \in Askers, NEW a \in AskerRec, asker' = [asker EXCEPT ![q] = a],
           Lines', Beside(q), UNCHANGED <<live, dirty, worker>>,
           a.pc \in OnLoopOnly => ~Done(q)' /\ ~Queued(q)',
           a.stack = <<>> <=> a.pc \in Afield, Len(a.stack) <= 2,
           AskerSound(q)',
           answers' \in Seq(Effects), effects' \in Seq(Effects), AnswersSound',
           context' \in [Buckets -> {None} \cup Nat], ContextsFollow',
           usage' \in [Buckets -> {None} \cup Usages], UsageSound',
           index' \in [Buckets -> SUBSET Indexes]
    PROVE  Inv'
<1>1. asker' \in [Askers -> AskerRec] /\ asker'[q] = a /\ \A r \in Askers \ {q} : asker'[r] = asker[r]
    BY DEF Inv, Types
<1>2. Types'
    BY <1>1 DEF Inv, Types, Beside
<1>3. Placed'
    <2>1. \A r \in Tasks \ {q} : (Done(r)' <=> Done(r)) /\ (Queued(r)' <=> Queued(r))
        BY Actors DEF Beside, Elsewhere
    <2> QED BY <1>1, <2>1, Actors DEF Inv, Placed, Beside
<1>4. \A r \in Askers : AskerSound(r)'
    BY <1>1, OthersStay, Actors
<1>5. Founded'
    BY WritersStay, Actors
<1> QED BY <1>2, <1>3, <1>4, <1>5 DEF Inv

\* The same, when it leaves all that is shared but the queues alone.
LEMMA AskerGoesOn ==
    ASSUME Inv, NEW q \in Askers, NEW a \in AskerRec, asker' = [asker EXCEPT ![q] = a],
           Lines', Elsewhere(q), publishing' = publishing,
           UNCHANGED <<store, answers, context, usage, effects, writer, worker>>,
           index' \in [Buckets -> SUBSET Indexes],
           a.pc \in OnLoopOnly => ~Done(q)' /\ ~Queued(q)',
           a.stack = <<>> <=> a.pc \in Afield, Len(a.stack) <= 2,
           AskerSound(q)'
    PROVE  Inv'
<1>1. Beside(q) /\ UNCHANGED <<live, dirty, worker>>
    BY DEF Beside, store
<1>2. AnswersSound' /\ ContextsFollow' /\ UsageSound'
    BY <1>1, CachesStay, Actors
<1>3. /\ answers' \in Seq(Effects) /\ effects' \in Seq(Effects)
      /\ context' \in [Buckets -> {None} \cup Nat] /\ usage' \in [Buckets -> {None} \cup Usages]
    BY DEF Inv, Types
<1> QED BY <1>1, <1>2, <1>3, AskerMoves

-----------------------------------------------------------------------------
(* Steps of an asker. *)

\* A sequence without its last element.
LEMMA Fronts ==
    ASSUME NEW S, NEW s \in Seq(S), s # <<>>
    PROVE  /\ Len(s) \in Nat /\ Len(s) > 0
           /\ Front(s) \in Seq(S) /\ Len(Front(s)) = Len(s) - 1
           /\ \A i \in 1..(Len(s) - 1) : Front(s)[i] = s[i]
<1>1. Len(s) \in Nat /\ Len(s) > 0 /\ \A i \in 1..Len(s) : s[i] \in S
    OBVIOUS
<1>2. 1 \in 1..(Len(s) + 1) /\ Len(s) - 1 \in 0..Len(s)
    BY <1>1
<1>3. /\ SubSeq(s, 1, Len(s) - 1) \in Seq(S)
      /\ Len(SubSeq(s, 1, Len(s) - 1)) = IF 1 <= Len(s) - 1 THEN Len(s) - 1 - 1 + 1 ELSE 0
      /\ \A i \in 1..(Len(s) - 1 - 1 + 1) : SubSeq(s, 1, Len(s) - 1)[i] = s[1 + i - 1]
    BY <1>1, <1>2, SubSeqProperties
<1> DEFINE z == SubSeq(s, 1, Len(s) - 1)
<1>4. z \in Seq(S) /\ Len(z) = IF 1 <= Len(s) - 1 THEN Len(s) - 1 - 1 + 1 ELSE 0
    BY <1>3
<1>5. \A i \in 1..(Len(s) - 1 - 1 + 1) : z[i] = s[1 + i - 1]
    BY <1>3
<1> HIDE DEF z
<1>6. Len(z) = Len(s) - 1
    <2>1. \A n \in Nat : n > 0 => (IF 1 <= n - 1 THEN n - 1 - 1 + 1 ELSE 0) = n - 1
        OBVIOUS
    <2> QED BY <1>1, <1>4, <2>1
<1>7. \A i \in 1..(Len(s) - 1) : z[i] = s[i]
    BY <1>1, <1>5
<1> QED BY <1>1, <1>4, <1>6, <1>7 DEF Front, z

\* The stack with another frame in the place of its last.
LEMMA Replaced ==
    ASSUME NEW S, NEW s \in Seq(S), s # <<>>, NEW f \in S
    PROVE  /\ Append(Front(s), f) \in Seq(S) /\ Append(Front(s), f) # <<>>
           /\ Len(Append(Front(s), f)) = Len(s) /\ Len(s) \in Nat /\ Len(s) > 0
           /\ \A i \in 1..Len(s) : Append(Front(s), f)[i] = IF i = Len(s) THEN f ELSE s[i]
<1>1. /\ Len(s) \in Nat /\ Len(s) > 0
      /\ Front(s) \in Seq(S) /\ Len(Front(s)) = Len(s) - 1
      /\ \A i \in 1..(Len(s) - 1) : Front(s)[i] = s[i]
    BY Fronts
<1> DEFINE t == Front(s)
<1>2. t \in Seq(S) /\ Len(t) = Len(s) - 1 /\ \A i \in 1..(Len(s) - 1) : t[i] = s[i]
    BY <1>1
<1> HIDE DEF t
<1>3. /\ Append(t, f) \in Seq(S) /\ Append(t, f) # <<>> /\ Len(Append(t, f)) = Len(s)
      /\ \A i \in 1..(Len(s) - 1) : Append(t, f)[i] = t[i]
      /\ Append(t, f)[Len(s)] = f
    <2>1. /\ Append(t, f) \in Seq(S) /\ Len(Append(t, f)) = Len(t) + 1
          /\ \A i \in 1..Len(t) : Append(t, f)[i] = t[i]
          /\ Append(t, f)[Len(t) + 1] = f
        BY <1>2
    <2>2. Len(t) + 1 = Len(s) /\ Len(t) \in Nat
        BY <1>1, <1>2
    <2>3. Append(t, f) # <<>>
        BY <2>1, <2>2
    <2> QED BY <1>2, <2>1, <2>2, <2>3
<1>4. \A i \in 1..Len(s) : Append(t, f)[i] = IF i = Len(s) THEN f ELSE s[i]
    BY <1>1, <1>2, <1>3
<1> QED BY <1>1, <1>3, <1>4 DEF t

\* Asker q with its last frame f, at p.
At(q, p, f) == [asker[q] EXCEPT !.pc = p, !.clean = FALSE, !.stack = Append(Front(@), f)]

LEMMA AtFrame ==
    ASSUME Types, NEW q \in Askers, asker[q].stack # <<>>,
           NEW p \in AskerPCs, NEW f \in Frames, AskerAt(q, p, f)
    PROVE  /\ asker' = [asker EXCEPT ![q] = At(q, p, f)]
           /\ asker'[q] = At(q, p, f)
           /\ At(q, p, f) \in AskerRec
           /\ At(q, p, f).pc = p /\ Top(q)' = f
           /\ At(q, p, f).stack # <<>> /\ Len(At(q, p, f).stack) = Len(asker[q].stack)
           /\ Len(asker[q].stack) \in Nat /\ Len(asker[q].stack) > 0
           /\ \A i \in 1..Len(asker[q].stack) :
                 At(q, p, f).stack[i] = IF i = Len(asker[q].stack) THEN f ELSE asker[q].stack[i]
           /\ At(q, p, f).reply = asker[q].reply
           /\ At(q, p, f).left = asker[q].left /\ At(q, p, f).snap = asker[q].snap
           /\ Top(q) \in Frames /\ Top(q) = asker[q].stack[Len(asker[q].stack)]
<1> DEFINE a == asker[q]
           z == Append(Front(a.stack), f)
<1>1. a \in AskerRec /\ a.stack \in Seq(Frames)
    BY DEF Types, AskerRec
<1>2. /\ z \in Seq(Frames) /\ z # <<>> /\ Len(z) = Len(a.stack) /\ Len(a.stack) \in Nat /\ Len(a.stack) > 0
      /\ \A i \in 1..Len(a.stack) : z[i] = IF i = Len(a.stack) THEN f ELSE a.stack[i]
    BY <1>1, Replaced
<1>3. asker' = [asker EXCEPT ![q] = At(q, p, f)]
    BY DEF Types, AskerAt, At
<1>4. asker'[q] = At(q, p, f)
    BY <1>3 DEF Types
<1> HIDE DEF z
<1>5. At(q, p, f) = [a EXCEPT !.pc = p, !.clean = FALSE, !.stack = z]
    BY DEF At, z
<1>6. /\ At(q, p, f) \in AskerRec /\ At(q, p, f).pc = p /\ At(q, p, f).stack = z
      /\ At(q, p, f).reply = a.reply /\ At(q, p, f).left = a.left /\ At(q, p, f).snap = a.snap
    BY <1>1, <1>2, <1>5 DEF AskerRec
<1>7. Top(q)' = f
    BY <1>2, <1>4, <1>6 DEF Top, Last
<1>8. Top(q) \in Frames /\ Top(q) = a.stack[Len(a.stack)]
    BY <1>1, <1>2 DEF Top, Last
<1> QED BY <1>2, <1>3, <1>4, <1>6, <1>7, <1>8

\* A step of q at its bucket: what it has read before remains.
LEMMA FramesStay ==
    ASSUME Inv, NEW q \in Askers, asker[q].stack # <<>>,
           NEW p \in AskerPCs \ {"meta"}, NEW f \in Frames, AskerAt(q, p, f),
           UNCHANGED <<rows, events, contextVersion>>,
           f.seen = Top(q).seen,
           \/ asker[q].pc # "meta" /\ f.context = Top(q).context
           \/ f.seen = {} /\ f.context = contextVersion
    PROVE  FramesSound(q)'
<1> DEFINE a == asker[q]
           n == Len(a.stack)
<1>1. /\ asker'[q].stack # <<>> /\ Len(asker'[q].stack) = n /\ n \in Nat /\ n > 0
      /\ asker'[q].pc = p
      /\ \A i \in 1..n : asker'[q].stack[i] = IF i = n THEN f ELSE a.stack[i]
      /\ Top(q) = a.stack[n]
    BY AtFrame DEF Inv
<1>2. FramesSound(q) /\ contextVersion \in Nat
    BY DEF Inv, AskerSound, Types
<1>3. ASSUME NEW i \in 1..n
      PROVE  asker'[q].stack[i].context <= contextVersion /\ IsNow(asker'[q].stack[i].seen, asker'[q].stack[i].context)
    <2>1. CASE i = n /\ f.seen = {} /\ f.context = contextVersion
        BY <1>1, <1>2, <2>1 DEF IsNow
    <2>2. CASE i # n \/ f.context = Top(q).context
        BY <1>1, <1>2, <2>2 DEF FramesSound
    <2> QED BY <2>1, <2>2
<1>4. ASSUME n = 2
      PROVE  /\ RowsNow(asker'[q].stack[1]) /\ EventsNow(asker'[q].stack[1])
             /\ asker'[q].stack[1].context <= asker'[q].stack[2].context
    <2>1. 1 \in 1..n /\ 2 \in 1..n /\ 1 # n
        BY <1>4
    <2>2. asker'[q].stack[1] = a.stack[1] /\ asker'[q].stack[2] = f
        BY <1>1, <1>4, <2>1
    <2>3. RowsNow(a.stack[1]) /\ EventsNow(a.stack[1]) /\ a.stack[1].context <= contextVersion
        BY <1>2, <1>4, <2>1 DEF FramesSound
    <2>4. a.stack[1].context <= f.context
        BY <1>1, <1>2, <1>4, <2>3 DEF FramesSound
    <2> QED BY <2>2, <2>3, <2>4
<1>5. (\A i \in 1..Len(asker[q].stack) :
          asker[q].stack[i].context <= contextVersion /\ IsNow(asker[q].stack[i].seen, asker[q].stack[i].context))'
    BY <1>1, <1>3 DEF IsNow
<1> QED BY <1>1, <1>4, <1>5 DEF FramesSound, RowsNow, EventsNow

\* Its parts, of an asker at a bucket.
LEMMA TopIsFrame ==
    ASSUME Types, NEW q \in Askers, asker[q].stack # <<>>
    PROVE  /\ Top(q) \in Frames
           /\ Top(q).bucket \in Buckets /\ Top(q).version \in Nat /\ Top(q).context \in Nat
           /\ Top(q).rows \in Nat /\ Top(q).events \in Nat /\ Top(q).degraded \in BOOLEAN
           /\ Top(q).seen \subseteq Seens
<1>1. asker[q].stack \in Seq(Frames)
    BY DEF Types, AskerRec
<1>2. Top(q) \in Frames
    BY <1>1 DEF Top, Last
<1> QED BY <1>2 DEF Frames

\* An asker at no bucket, and without a count, has nothing to go wrong.
LEMMA AfieldSound ==
    ASSUME NEW q \in Askers, asker'[q].stack = <<>>, asker'[q].pc \in {"idle", "recall", "ranking"}
    PROVE  AskerSound(q)'
<1>1. Len(asker'[q].stack) = 0
    OBVIOUS
<1>2. FramesSound(q)'
    BY <1>1 DEF FramesSound
<1>3. ReadingSound(q)' /\ Follows(q)' /\ Counting(q)'
    BY DEF ReadingSound, Follows, Counting
<1> QED BY <1>2, <1>3 DEF AskerSound

LEMMA RootFirst == Scanned \in Seq(Buckets) /\ Frame(Root) \in Frames /\ Frame(Child) \in Frames
<1>1. <<Root, Child>> \in Seq(Buckets) /\ <<Root>> \in Seq(Buckets)
    BY DEF Buckets
<1>2. \A b \in Buckets : Frame(b) \in Frames
    BY DEF Frame, Frames
<1> QED BY <1>1, <1>2 DEF Scanned, Buckets

LEMMA Indexed ==
    ASSUME Types, NEW b \in Buckets, NEW n \in Nat, NEW late \in BOOLEAN, GetOrBuild(b, n, late)
    PROVE  index' \in [Buckets -> SUBSET Indexes]
<1>1. [version |-> version[b], rows |-> n, late |-> late] \in Indexes
    BY DEF Types, Indexes
<1> QED BY <1>1 DEF Types, GetOrBuild

LEMMA StartQueryKeeps ==
    ASSUME Inv, NEW q \in Askers, StartQuery(q)
    PROVE  Inv'
<1> DEFINE a == [asker[q] EXCEPT !.pc = "recall", !.left = Scanned, !.asked = @ + 1]
<1>1. asker' = [asker EXCEPT ![q] = a] /\ asker'[q] = a
    BY DEF StartQuery, Inv, Types
<1>2. asker[q] \in AskerRec /\ asker[q].stack = <<>> /\ ~Done(q) /\ ~Queued(q)
    BY DEF StartQuery, Inv, Types, Placed, OnLoopOnly, Afield
<1>3. a \in AskerRec /\ a.pc = "recall" /\ a.stack = <<>>
    <2>1. Scanned \in Seq(Buckets) /\ asker[q].asked + 1 \in Nat
        BY <1>2, RootFirst DEF AskerRec
    <2> QED BY <1>2, <2>1 DEF AskerRec, AskerPCs
<1>4. Lines' /\ Elsewhere(q) /\ publishing' = publishing
    BY <1>2, StorageGets, Actors DEF StartQuery, Starts, Submit, Inv
<1>5. AskerSound(q)'
    BY <1>1, <1>3, AfieldSound
<1> HIDE DEF a
<1>6. Len(a.stack) <= 2
    BY <1>3
<1>7. UNCHANGED <<store, answers, context, usage, effects, writer, worker>>
    BY DEF StartQuery, caches
<1>8. index' \in [Buckets -> SUBSET Indexes]
    BY DEF StartQuery, caches, Inv, Types
<1> QED BY <1>1, <1>3, <1>4, <1>5, <1>6, <1>7, <1>8, AskerGoesOn DEF OnLoopOnly, Afield

LEMMA LoadScannedKeeps ==
    ASSUME Inv, NEW q \in Askers, LoadScanned(q)
    PROVE  Inv'
<1> DEFINE s == [b \in Buckets |-> IF b \in ToSet(asker[q].left) THEN rows[b] ELSE 0]
           a == [asker[q] EXCEPT !.snap = s]
<1>1. asker' = [asker EXCEPT ![q] = a] /\ asker'[q] = a
    BY DEF LoadScanned, Inv, Types
<1>2. asker[q] \in AskerRec /\ asker[q].stack = <<>> /\ asker[q].pc = "recall"
    BY DEF LoadScanned, Inv, Types, Placed, Afield
<1>3. s \in [Buckets -> Nat]
    BY DEF Inv, Types
<1> HIDE DEF s
<1>4. a \in AskerRec /\ a.pc = "recall" /\ a.stack = <<>>
    BY <1>2, <1>3 DEF AskerRec, AskerPCs
<1>5. Lines' /\ Elsewhere(q) /\ publishing' = publishing
    BY StorageEnds, Actors DEF LoadScanned, AtStorage, Inv
<1>6. AskerSound(q)'
    BY <1>1, <1>4, AfieldSound
<1> HIDE DEF a
<1>7. Len(a.stack) <= 2
    BY <1>4
<1>8. UNCHANGED <<store, answers, context, usage, effects, writer, worker>>
    BY DEF LoadScanned, caches
<1>9. index' \in [Buckets -> SUBSET Indexes]
    BY DEF LoadScanned, caches, Inv, Types
<1> QED BY <1>1, <1>4, <1>5, <1>6, <1>7, <1>8, <1>9, AskerGoesOn DEF OnLoopOnly, Afield

LEMMA RankScannedKeeps ==
    ASSUME Inv, NEW q \in Askers, RankScanned(q)
    PROVE  Inv'
<1>1. PICK i \in Unranked(q) :
        /\ GetOrBuild(asker[q].left[i], asker[q].snap[asker[q].left[i]], asker[q].pc = "ranking")
        /\ asker' = [asker EXCEPT ![q].pc = "ranking", ![q].left = SubSeq(@, i + 1, Len(@))]
    BY DEF RankScanned
<1>2. asker[q] \in AskerRec /\ asker[q].stack = <<>> /\ asker[q].pc \in {"recall", "ranking"}
    BY DEF RankScanned, Inv, Types, Placed, Afield
<1> DEFINE rest == SubSeq(asker[q].left, i + 1, Len(asker[q].left))
           a == [asker[q] EXCEPT !.pc = "ranking", !.left = rest]
<1>3. asker' = [asker EXCEPT ![q] = a] /\ asker'[q] = a
    BY <1>1 DEF Inv, Types
<1>4. /\ asker[q].left \in Seq(Buckets) /\ i \in 1..Len(asker[q].left) /\ Len(asker[q].left) \in Nat
      /\ asker[q].left[i] \in Buckets /\ asker[q].snap[asker[q].left[i]] \in Nat
    <2>1. asker[q].left \in Seq(Buckets) /\ asker[q].snap \in [Buckets -> Nat]
        BY <1>2 DEF AskerRec
    <2>2. i \in 1..Len(asker[q].left) /\ Len(asker[q].left) \in Nat
        BY <2>1 DEF Unranked
    <2> QED BY <2>1, <2>2
<1>5. rest \in Seq(Buckets)
    BY <1>4, SubSeqProperties
<1> HIDE DEF rest
<1>6. a \in AskerRec /\ a.pc = "ranking" /\ a.stack = <<>>
    BY <1>2, <1>5 DEF AskerRec, AskerPCs
<1>7. index' \in [Buckets -> SUBSET Indexes]
    BY <1>1, <1>4, Indexed DEF Inv
<1>8. Lines' /\ Elsewhere(q) /\ publishing' = publishing /\ ~Done(q)' /\ ~Queued(q)'
    <2>1. CASE asker[q].pc = "recall" /\ Resumes(q)
        BY <2>1, LoopResumes, Actors DEF Resumes, Inv
    <2>2. CASE asker[q].pc = "ranking" /\ UNCHANGED threads
        <3>1. ~Done(q) /\ ~Queued(q)
            BY <2>2 DEF Inv, Placed, OnLoopOnly
        <3> QED BY <2>2, <3>1, QueuesStay, Actors DEF Inv, threads
    <2> QED BY <2>1, <2>2 DEF RankScanned
<1>9. AskerSound(q)'
    BY <1>3, <1>6, AfieldSound
<1> HIDE DEF a
<1>10. Len(a.stack) <= 2
    BY <1>6
<1>11. UNCHANGED <<store, answers, context, usage, effects, writer, worker>>
    BY DEF RankScanned
<1> QED BY <1>3, <1>6, <1>7, <1>8, <1>9, <1>10, <1>11, AskerGoesOn DEF Afield

LEMMA QueryRootKeeps ==
    ASSUME Inv, NEW q \in Askers, QueryRoot(q)
    PROVE  Inv'
<1> DEFINE a == [asker[q] EXCEPT !.pc = "meta", !.left = <<>>, !.snap = Idle.snap, !.stack = <<Frame(Root)>>]
<1>1. asker' = [asker EXCEPT ![q] = a] /\ asker'[q] = a
    BY DEF QueryRoot, Inv, Types
<1>2. asker[q] \in AskerRec
    BY DEF Inv, Types
<1>3. <<Frame(Root)>> \in Seq(Frames) /\ Len(<<Frame(Root)>>) = 1 /\ <<Frame(Root)>>[1] = Frame(Root)
    BY RootFirst
<1>4. Idle.snap \in [Buckets -> Nat] /\ <<>> \in Seq(Buckets)
    BY DEF Idle
<1>5. a \in AskerRec /\ a.pc = "meta" /\ a.stack = <<Frame(Root)>>
    BY <1>2, <1>3, <1>4 DEF AskerRec, AskerPCs
<1> HIDE DEF a
<1>6. Lines' /\ Elsewhere(q) /\ publishing' = publishing
    <2>1. CASE asker[q].pc = "recall" /\ Awaits(q)
        BY <2>1, LoopAwaits, Actors DEF Awaits, Submit, Inv
    <2>2. CASE asker[q].pc = "ranking" /\ Starts(q)
        <3>1. ~Done(q) /\ ~Queued(q)
            BY <2>2 DEF Inv, Placed, OnLoopOnly
        <3> QED BY <2>2, <3>1, StorageGets, Actors DEF Starts, Submit, Inv
    <2> QED BY <2>1, <2>2 DEF QueryRoot
<1>7. Top(q)' = Frame(Root)
    BY <1>1, <1>3, <1>5 DEF Top, Last
<1>8. AskerSound(q)'
    <2>1. Frame(Root).context = 0 /\ Frame(Root).seen = {} /\ Frame(Root).events = 0
        BY DEF Frame
    <2>2. contextVersion' \in Nat
        BY DEF QueryRoot, store, Inv, Types
    <2>3. \A i \in 1..Len(<<Frame(Root)>>) : i = 1
        BY <1>3
    <2>4. FramesSound(q)'
        BY <1>1, <1>3, <1>5, <2>1, <2>2, <2>3 DEF FramesSound, IsNow
    <2>5. ReadingSound(q)' /\ Follows(q)' /\ Counting(q)'
        BY <1>1, <1>5, <1>7, <2>1 DEF ReadingSound, Follows, Counting
    <2> QED BY <2>4, <2>5 DEF AskerSound
<1>9. a.stack # <<>> /\ Len(a.stack) <= 2
    BY <1>3, <1>5
<1>10. UNCHANGED <<store, answers, context, usage, effects, writer, worker>>
    BY DEF QueryRoot, caches
<1>11. index' \in [Buckets -> SUBSET Indexes]
    BY DEF QueryRoot, caches, Inv, Types
<1> QED BY <1>1, <1>5, <1>6, <1>8, <1>9, <1>10, <1>11, AskerGoesOn DEF OnLoopOnly, Afield

\* Asker q goes on to p in its bucket.
LEMMA AtBucketKeeps ==
    ASSUME Inv, NEW q \in Askers, asker[q].stack # <<>>,
           NEW p \in AskerPCs \ (Afield \cup {"meta"}), NEW f \in Frames, AskerAt(q, p, f),
           f.seen = Top(q).seen,
           \/ asker[q].pc # "meta" /\ f.context = Top(q).context
           \/ f.seen = {} /\ f.context = contextVersion,
           Lines', Elsewhere(q), publishing' = publishing,
           p \in OnLoopOnly => ~Done(q)' /\ ~Queued(q)',
           UNCHANGED <<store, answers, usage, effects, writer, worker>>,
           context' \in [Buckets -> {None} \cup Nat], ContextsFollow',
           index' \in [Buckets -> SUBSET Indexes],
           ReadingSound(q)', Follows(q)'
    PROVE  Inv'
<1>1. /\ asker' = [asker EXCEPT ![q] = At(q, p, f)] /\ asker'[q] = At(q, p, f)
      /\ At(q, p, f) \in AskerRec /\ At(q, p, f).pc = p
      /\ At(q, p, f).stack # <<>> /\ Len(At(q, p, f).stack) = Len(asker[q].stack)
    BY AtFrame DEF Inv
<1>2. FramesSound(q)'
    BY FramesStay DEF store
<1>3. Counting(q)'
    BY <1>1 DEF Counting, Afield
<1>4. AskerSound(q)'
    BY <1>2, <1>3 DEF AskerSound
<1>5. Beside(q) /\ UNCHANGED <<live, dirty, worker>>
    BY DEF Beside, store
<1>6. AnswersSound' /\ UsageSound'
    BY <1>5, CachesStay, Actors
<1>7. /\ answers' \in Seq(Effects) /\ effects' \in Seq(Effects)
      /\ usage' \in [Buckets -> {None} \cup Usages]
    BY DEF Inv, Types
<1>8. Len(At(q, p, f).stack) <= 2
    BY <1>1 DEF Inv, Placed
<1> QED BY <1>1, <1>4, <1>5, <1>6, <1>7, <1>8, AskerMoves

\* The same, when it leaves all that is shared but the queues alone.
LEMMA AtBucketGoesOn ==
    ASSUME Inv, NEW q \in Askers, asker[q].stack # <<>>,
           NEW p \in AskerPCs \ (Afield \cup {"meta"}), NEW f \in Frames, AskerAt(q, p, f),
           f.seen = Top(q).seen,
           \/ asker[q].pc # "meta" /\ f.context = Top(q).context
           \/ f.seen = {} /\ f.context = contextVersion,
           Lines', Elsewhere(q), publishing' = publishing,
           p \in OnLoopOnly => ~Done(q)' /\ ~Queued(q)',
           UNCHANGED <<store, answers, context, usage, effects, writer, worker>>,
           index' \in [Buckets -> SUBSET Indexes],
           ReadingSound(q)', Follows(q)'
    PROVE  Inv'
<1>1. Beside(q)
    BY DEF Beside, store
<1>2. ContextsFollow' /\ context' \in [Buckets -> {None} \cup Nat]
    BY <1>1, CachesStay, Actors DEF Inv, Types
<1> QED BY <1>2, AtBucketKeeps

\* A query that is at a bucket has a frame.
LEMMA AtBucket ==
    ASSUME Inv, NEW q \in Askers, asker[q].pc \notin Afield
    PROVE  /\ asker[q].stack # <<>> /\ asker[q] \in AskerRec
           /\ Top(q) \in Frames
           /\ Top(q).bucket \in Buckets /\ Top(q).version \in Nat /\ Top(q).context \in Nat
           /\ Top(q).rows \in Nat /\ Top(q).events \in Nat /\ Top(q).degraded \in BOOLEAN
           /\ Top(q).seen \subseteq Seens
           /\ Top(q).context <= contextVersion /\ IsNow(Top(q).seen, Top(q).context)
           /\ contextVersion \in Nat
<1>1. asker[q].stack # <<>> /\ asker[q] \in AskerRec /\ contextVersion \in Nat
    BY DEF Inv, Placed, Types
<1>2. /\ Top(q) \in Frames
      /\ Top(q).bucket \in Buckets /\ Top(q).version \in Nat /\ Top(q).context \in Nat
      /\ Top(q).rows \in Nat /\ Top(q).events \in Nat /\ Top(q).degraded \in BOOLEAN
      /\ Top(q).seen \subseteq Seens
    BY <1>1, TopIsFrame DEF Inv
<1>3. Len(asker[q].stack) \in 1..Len(asker[q].stack) /\ Top(q) = asker[q].stack[Len(asker[q].stack)]
    BY <1>1 DEF AskerRec, Top, Last
<1>4. Top(q).context <= contextVersion /\ IsNow(Top(q).seen, Top(q).context)
    BY <1>3 DEF Inv, AskerSound, FramesSound
<1> QED BY <1>1, <1>2, <1>4

LEMMA ReadMetaKeeps ==
    ASSUME Inv, NEW q \in Askers, ReadMeta(q)
    PROVE  Inv'
<1> DEFINE a == [asker[q] EXCEPT !.clean = ~dirty]
<1>1. asker' = [asker EXCEPT ![q] = a] /\ asker'[q] = a
    BY DEF ReadMeta, Inv, Types
<1>2. asker[q] \in AskerRec /\ asker[q].stack # <<>> /\ asker[q].pc = "meta"
    BY AtBucket DEF ReadMeta, Afield
<1>3. a \in AskerRec /\ a.pc = "meta" /\ a.stack = asker[q].stack
    BY <1>2 DEF AskerRec, Inv, Types
<1> HIDE DEF a
<1>4. Lines' /\ Elsewhere(q) /\ publishing' = publishing
    BY StorageEnds, Actors DEF ReadMeta, AtStorage, Inv
<1>5. UNCHANGED <<store, answers, context, usage, effects, writer, worker>>
    BY DEF ReadMeta, caches
<1>6. AskerSound(q) /\ Top(q)' = Top(q) /\ UNCHANGED <<rows, events, contextVersion>>
    BY <1>1, <1>3, <1>5 DEF Inv, Top, store
<1>7. FramesSound(q)'
    BY <1>1, <1>2, <1>3, <1>6 DEF AskerSound, FramesSound, IsNow, RowsNow, EventsNow
<1>8. ReadingSound(q)' /\ Follows(q)' /\ Counting(q)'
    BY <1>1, <1>2, <1>3, <1>6 DEF AskerSound, ReadingSound, Follows, Counting
<1>9. AskerSound(q)' /\ Len(a.stack) <= 2
    BY <1>3, <1>7, <1>8 DEF AskerSound, Inv, Placed
<1>10. index' \in [Buckets -> SUBSET Indexes]
    BY DEF ReadMeta, caches, Inv, Types
<1> QED BY <1>1, <1>2, <1>3, <1>4, <1>5, <1>9, <1>10, AskerGoesOn DEF OnLoopOnly, Afield

\* Whoever has committed is ahead of one who is last in the queues.
LEMMA LastInLine ==
    ASSUME Inv, NEW q \in Askers, Lines', \A s \in Tasks \ {q} : Done(s)' \/ Queued(s)' => Ahead(s, q)'
    PROVE  \A w \in Writers : Committed(w)' => Ahead(w, q)'
<1> SUFFICES ASSUME NEW w \in Writers, Committed(w)' PROVE Ahead(w, q)'
    OBVIOUS
<1>1. Done(w)' \/ publishing' = w
    BY DEF Committed
<1>2. publishing' = w => Queued(w)'
    BY DropFirst, Actors DEF Lines, Queued
<1> QED BY <1>1, <1>2, Actors

LEMMA ComputeKeysKeeps ==
    ASSUME Inv, NEW q \in Askers, ComputeKeys(q)
    PROVE  Inv'
<1> DEFINE f == [Top(q) EXCEPT !.version = version[Top(q).bucket], !.context = contextVersion]
           p == IF asker[q].clean THEN "lookup" ELSE "load"
<1>1. asker[q].pc = "meta" /\ AskerAt(q, p, f) /\ p \in {"lookup", "load"}
    BY DEF ComputeKeys
<1>2. asker[q].stack # <<>> /\ Top(q) \in Frames /\ Top(q).bucket \in Buckets
    BY <1>1, AtBucket DEF Afield
<1>3. Top(q).seen = {} /\ Top(q).events = 0
    BY <1>1 DEF Inv, AskerSound, ReadingSound
<1>4. /\ f \in Frames /\ f.bucket = Top(q).bucket /\ f.context = contextVersion
      /\ f.seen = {} /\ f.events = 0
    <2>1. version[Top(q).bucket] \in Nat /\ contextVersion \in Nat
        BY <1>2 DEF Inv, Types
    <2> QED BY <1>2, <1>3, <2>1 DEF Frames
<1>5. /\ Lines' /\ Elsewhere(q) /\ publishing' = publishing /\ ~Done(q)'
      /\ \A s \in Tasks \ {q} : Done(s)' \/ Queued(s)' => Ahead(s, q)'
    BY LoopAwaits, Actors DEF ComputeKeys, Awaits, Submit, Inv
<1> HIDE DEF f, p
<1>6. asker'[q].pc = p /\ Top(q)' = f
    BY <1>1, <1>2, <1>4, AtFrame DEF Inv, AskerPCs
<1>7. UNCHANGED <<store, answers, context, usage, effects, writer, worker>>
    BY DEF ComputeKeys, caches
<1>8. ReadingSound(q)'
    BY <1>1, <1>4, <1>5, <1>6 DEF ReadingSound
<1>9. Follows(q)'
    <2>1. \A w \in Writers : Committed(w)' => Ahead(w, q)'
        BY <1>5, LastInLine
    <2> QED BY <1>1, <1>6, <2>1 DEF Follows, Owes
<1>10. index' \in [Buckets -> SUBSET Indexes]
    BY DEF ComputeKeys, caches, Inv, Types
<1>11. p \in AskerPCs \ (Afield \cup {"meta"}) /\ p \notin OnLoopOnly
    BY <1>1 DEF AskerPCs, Afield, OnLoopOnly
<1> QED BY <1>1, <1>2, <1>3, <1>4, <1>5, <1>7, <1>8, <1>9, <1>10, <1>11, AtBucketGoesOn

\* The table after an answer was put in holds it and answers it held before.
LEMMA TableGrows ==
    ASSUME Types, NEW key \in Keys, NEW seen \in SUBSET Seens
    PROVE  /\ WithAnswer(key, seen) \in Seq(Effects)
           /\ \A i \in 1..Len(WithAnswer(key, seen)) :
                 \/ WithAnswer(key, seen)[i] = [key |-> key, seen |-> seen]
                 \/ \E j \in 1..Len(answers) : WithAnswer(key, seen)[i] = answers[j]
<1> DEFINE row == [key |-> key, seen |-> seen]
           old == {i \in DOMAIN answers : answers[i].key = key}
           at == CHOOSE i \in old : TRUE
           rest == IF old = {} THEN answers ELSE RemoveAt(answers, at)
           kept == Append(rest, row)
           From(s) == s \in Seq(Effects) /\ \A i \in 1..Len(s) : \E j \in 1..Len(answers) : s[i] = answers[j]
<1>1. answers \in Seq(Effects) /\ row \in Effects
    BY DEF Types, Effects
<1>2. From(rest)
    <2>1. CASE old = {}
        BY <1>1, <2>1
    <2>2. CASE old # {}
        <3>1. at \in 1..Len(answers) /\ Len(answers) \in Nat
            BY <1>1, <2>2
        <3> HIDE DEF at
        <3> DEFINE u == SubSeq(answers, 1, at - 1)
                   v == SubSeq(answers, at + 1, Len(answers))
        <3>2. \A i \in 1..Len(answers) : answers[i] \in Effects
            BY <1>1
        <3>3. /\ u \in Seq(Effects) /\ Len(u) = IF 1 <= at - 1 THEN at - 1 - 1 + 1 ELSE 0
              /\ \A i \in 1..(at - 1 - 1 + 1) : u[i] = answers[1 + i - 1]
            BY <3>1, <3>2, SubSeqProperties
        <3>4. /\ v \in Seq(Effects) /\ Len(v) = IF at + 1 <= Len(answers) THEN Len(answers) - (at + 1) + 1 ELSE 0
              /\ \A i \in 1..(Len(answers) - (at + 1) + 1) : v[i] = answers[at + 1 + i - 1]
            BY <3>1, <3>2, SubSeqProperties
        <3> HIDE DEF u, v
        <3>5. From(u)
            <4>1. ASSUME NEW i \in 1..Len(u) PROVE i \in 1..Len(answers) /\ u[i] = answers[i]
                BY <3>1, <3>3, <4>1
            <4> QED BY <3>3, <4>1
        <3>6. From(v)
            <4>1. ASSUME NEW i \in 1..Len(v) PROVE at + i \in 1..Len(answers) /\ v[i] = answers[at + i]
                BY <3>1, <3>4, <4>1
            <4> QED BY <3>4, <4>1
        <3>7. ASSUME NEW i \in 1..Len(u \o v) PROVE \E j \in 1..Len(answers) : (u \o v)[i] = answers[j]
            <4>1. Len(u) \in Nat /\ Len(v) \in Nat /\ Len(u \o v) = Len(u) + Len(v)
                BY <3>3, <3>4
            <4>2. CASE i \in 1..Len(u)
                <5>1. (u \o v)[i] = u[i]
                    BY <3>3, <3>4, <4>1, <4>2
                <5> QED BY <3>5, <4>2, <5>1
            <4>3. CASE i \notin 1..Len(u)
                <5>1. i - Len(u) \in 1..Len(v)
                    BY <4>1, <4>3
                <5>2. (u \o v)[i] = v[i - Len(u)]
                    BY <3>3, <3>4, <4>1, <4>3
                <5> QED BY <3>6, <5>1, <5>2
            <4> QED BY <4>2, <4>3
        <3>8. u \o v \in Seq(Effects)
            BY <3>3, <3>4
        <3>9. rest = u \o v
            BY <2>2 DEF RemoveAt, u, v
        <3> QED BY <3>7, <3>8, <3>9
    <2> QED BY <2>1, <2>2
<1> HIDE DEF rest, row
<1>3. /\ Len(rest) \in Nat /\ kept \in Seq(Effects) /\ Len(kept) = Len(rest) + 1
      /\ \A i \in 1..Len(rest) : kept[i] = rest[i]
      /\ kept[Len(rest) + 1] = row
    BY <1>1, <1>2
<1> HIDE DEF kept
<1>4. ASSUME NEW i \in 1..Len(kept) PROVE kept[i] = row \/ \E j \in 1..Len(answers) : kept[i] = answers[j]
    BY <1>2, <1>3, <1>4
<1>5. /\ kept # <<>> /\ Tail(kept) \in Seq(Effects) /\ Len(Tail(kept)) = Len(kept) - 1
      /\ \A i \in 1..(Len(kept) - 1) : Tail(kept)[i] = kept[i + 1] /\ i + 1 \in 1..Len(kept)
    BY <1>3
<1>6. WithAnswer(key, seen) \in {kept, Tail(kept)}
    BY DEF WithAnswer, kept, rest, row
<1> QED BY <1>3, <1>4, <1>5, <1>6 DEF row

LEMMA LookUpKeeps ==
    ASSUME Inv, NEW q \in Askers, LookUp(q)
    PROVE  Inv'
<1> DEFINE key == CacheKey(Top(q), asker[q].pc = "lookup_degraded")
           r == IF Cached(key) = {} THEN None ELSE (CHOOSE x \in Cached(key) : TRUE).seen
           a == [asker[q] EXCEPT !.reply = r]
<1>1. asker' = [asker EXCEPT ![q] = a] /\ asker'[q] = a /\ asker[q].pc \in {"lookup", "lookup_degraded"}
    BY DEF LookUp, Inv, Types
<1>2. /\ asker[q] \in AskerRec /\ asker[q].stack # <<>> /\ AskerSound(q) /\ Len(asker[q].stack) <= 2
      /\ key.context = Top(q).context
    BY <1>1, AtBucket DEF Afield, Inv, Placed, CacheKey
<1>3. r \in {None} \cup SUBSET Seens /\ (r # None => IsNow(r, Top(q).context))
    <2>1. CASE Cached(key) = {}
        BY <2>1
    <2>2. CASE Cached(key) # {}
        <3>1. PICK x \in Cached(key) : r = x.seen
            BY <2>2
        <3>2. PICK i \in 1..Len(answers) : answers[i] = x /\ x.key = key
            BY <3>1 DEF Cached, ToSet, Inv, Types
        <3>3. x \in Effects /\ Sound(x)
            <4>1. answers[i] \in Effects /\ Sound(answers[i])
                BY DEF Inv, AnswersSound, Types
            <4> QED BY <3>2, <4>1
        <3> QED BY <1>2, <3>1, <3>2, <3>3 DEF Effects, Sound
    <2> QED BY <2>1, <2>2
<1> HIDE DEF key, r
<1>4. /\ a \in AskerRec /\ a.pc = asker[q].pc /\ a.stack = asker[q].stack /\ a.reply = r
    BY <1>2, <1>3 DEF AskerRec
<1> HIDE DEF a
<1>5. Lines' /\ Elsewhere(q) /\ publishing' = publishing /\ \A x, y \in Tasks : Ahead(x, y)' <=> Ahead(x, y)
    BY StorageEnds, Actors DEF LookUp, AtStorage, Inv
<1>6. UNCHANGED <<store, answers, context, usage, effects, writer, worker>>
    BY DEF LookUp, caches
<1>7. Beside(q) /\ Top(q)' = Top(q) /\ UNCHANGED <<rows, events, contextVersion>>
    BY <1>1, <1>4, <1>5, <1>6 DEF Top, store, Beside
<1>8. FramesSound(q)'
    BY <1>1, <1>2, <1>4, <1>7 DEF AskerSound, FramesSound, IsNow, RowsNow, EventsNow
<1>9. ReadingSound(q)'
    BY <1>1, <1>2, <1>3, <1>4, <1>7 DEF AskerSound, ReadingSound, IsNow
<1>10. Follows(q)'
    BY <1>1, <1>2, <1>4, <1>5, <1>7, WritersStay, Actors DEF AskerSound, Follows
<1>11. Counting(q)'
    BY <1>1, <1>4 DEF Counting
<1>12. AskerSound(q)' /\ Len(a.stack) <= 2
    BY <1>2, <1>4, <1>8, <1>9, <1>10, <1>11 DEF AskerSound
<1>13. index' \in [Buckets -> SUBSET Indexes]
    BY DEF LookUp, caches, Inv, Types
<1> QED BY <1>1, <1>2, <1>4, <1>5, <1>6, <1>12, <1>13, AskerGoesOn DEF OnLoopOnly, Afield

LEMMA MissKeeps ==
    ASSUME Inv, NEW q \in Askers, Miss(q)
    PROVE  Inv'
<1> DEFINE f == Top(q)
           p == IF asker[q].pc = "lookup" THEN "lookup_degraded" ELSE "load"
<1>1. /\ asker[q].pc \in {"lookup", "lookup_degraded"} /\ AskerAt(q, p, f)
      /\ p \in {"lookup_degraded", "load"} /\ asker[q].reply = None
    BY DEF Miss
<1>2. asker[q].stack # <<>> /\ f \in Frames /\ f.events = 0
    BY <1>1, AtBucket DEF Afield, Inv, AskerSound, ReadingSound
<1>3. /\ Lines' /\ Elsewhere(q) /\ publishing' = publishing /\ ~Done(q)'
      /\ \A s \in Tasks \ {q} : Done(s)' \/ Queued(s)' => Ahead(s, q)'
    BY LoopAwaits, Actors DEF Miss, Awaits, Submit, Inv
<1> HIDE DEF f, p
<1>4. asker'[q].pc = p /\ Top(q)' = f
    BY <1>1, <1>2, AtFrame DEF Inv, AskerPCs
<1>5. UNCHANGED <<store, answers, context, usage, effects, writer, worker>>
    BY DEF Miss, caches
<1>6. ReadingSound(q)'
    BY <1>1, <1>2, <1>3, <1>4 DEF ReadingSound
<1>7. Follows(q)'
    <2>1. \A w \in Writers : Committed(w)' => Ahead(w, q)'
        BY <1>3, LastInLine
    <2> QED BY <1>1, <1>4, <2>1 DEF Follows, Owes
<1>8. index' \in [Buckets -> SUBSET Indexes]
    BY DEF Miss, caches, Inv, Types
<1>9. p \in AskerPCs \ (Afield \cup {"meta"}) /\ p \notin OnLoopOnly /\ asker[q].pc # "meta" /\ f = Top(q)
    BY <1>1 DEF AskerPCs, Afield, OnLoopOnly, f
<1> QED BY <1>1, <1>2, <1>3, <1>5, <1>6, <1>7, <1>8, <1>9, AtBucketGoesOn

LEMMA LoadRecordsKeeps ==
    ASSUME Inv, NEW q \in Askers, LoadRecords(q)
    PROVE  Inv'
<1> DEFINE f == [Top(q) EXCEPT !.rows = rows[Top(q).bucket]]
<1>1. asker[q].pc = "load" /\ AskerAt(q, "load", f)
    BY DEF LoadRecords
<1>2. asker[q].stack # <<>> /\ Top(q) \in Frames /\ Top(q).bucket \in Buckets /\ Top(q).events = 0
    BY <1>1, AtBucket DEF Afield, Inv, AskerSound, ReadingSound
<1>3. /\ f \in Frames /\ f.bucket = Top(q).bucket /\ f.context = Top(q).context
      /\ f.seen = Top(q).seen /\ f.events = 0 /\ f.rows = rows[f.bucket]
    <2>1. rows[Top(q).bucket] \in Nat
        BY <1>2 DEF Inv, Types
    <2> QED BY <1>2, <2>1 DEF Frames
<1>4. Lines' /\ Elsewhere(q) /\ publishing' = publishing /\ \A x, y \in Tasks : Ahead(x, y)' <=> Ahead(x, y)
    BY StorageEnds, Actors DEF LoadRecords, AtStorage, Inv
<1> HIDE DEF f
<1>5. asker'[q].pc = "load" /\ Top(q)' = f
    BY <1>1, <1>2, <1>3, AtFrame DEF Inv, AskerPCs
<1>6. UNCHANGED <<store, answers, context, usage, effects, writer, worker>>
    BY DEF LoadRecords, caches
<1>7. Beside(q) /\ UNCHANGED <<rows, events, contextVersion>>
    BY <1>4, <1>6 DEF store, Beside
<1>8. ReadingSound(q)'
    BY <1>3, <1>5, <1>7 DEF ReadingSound, RowsNow
<1>9. Follows(q)'
    BY <1>1, <1>3, <1>4, <1>5, <1>7, WritersStay, Actors DEF Inv, AskerSound, Follows
<1>10. index' \in [Buckets -> SUBSET Indexes]
    BY DEF LoadRecords, caches, Inv, Types
<1>11. "load" \in AskerPCs \ (Afield \cup {"meta"}) /\ "load" \notin OnLoopOnly
    BY DEF AskerPCs, Afield, OnLoopOnly
<1> QED BY <1>1, <1>2, <1>3, <1>4, <1>6, <1>8, <1>9, <1>10, <1>11, AtBucketGoesOn

LEMMA NoMemoryKeeps ==
    ASSUME Inv, NEW q \in Askers, NoMemory(q)
    PROVE  Inv'
<1> DEFINE f == Top(q)
<1>1. asker[q].pc = "load" /\ AskerAt(q, "empty", f) /\ f.rows = 0
    BY DEF NoMemory
<1>2. asker[q].stack # <<>> /\ f \in Frames /\ f.bucket \in Buckets /\ AskerSound(q)
    BY <1>1, AtBucket DEF Afield, Inv
<1>3. /\ Lines' /\ Elsewhere(q) /\ publishing' = publishing /\ Done(q)
      /\ \A s \in Tasks \ {q} : Done(s)' \/ Queued(s)' => Ahead(s, q)'
    BY LoopAwaits, Actors DEF NoMemory, Awaits, Submit, Inv
<1>4. RowsNow(f) /\ f.events = 0
    BY <1>1, <1>2, <1>3 DEF AskerSound, ReadingSound
<1> HIDE DEF f
<1>5. asker'[q].pc = "empty" /\ Top(q)' = f
    BY <1>1, <1>2, AtFrame DEF Inv, AskerPCs
<1>6. UNCHANGED <<store, answers, context, usage, effects, writer, worker>>
    BY DEF NoMemory, caches
<1>7. ReadingSound(q)'
    BY <1>1, <1>4, <1>5, <1>6 DEF ReadingSound, RowsNow, store
<1>8. Follows(q)'
    <2>1. \A w \in Writers : Committed(w)' => Ahead(w, q)'
        BY <1>3, LastInLine
    <2> QED BY <1>1, <1>5, <2>1 DEF Follows, Owes
<1>9. index' \in [Buckets -> SUBSET Indexes]
    BY DEF NoMemory, caches, Inv, Types
<1>10. "empty" \in AskerPCs \ (Afield \cup {"meta"}) /\ "empty" \notin OnLoopOnly /\ f = Top(q)
    BY DEF AskerPCs, Afield, OnLoopOnly, f
<1> QED BY <1>1, <1>2, <1>3, <1>6, <1>7, <1>8, <1>9, <1>10, AtBucketGoesOn

\* What a query has seen of its bucket is one of Seens.
LEMMA SeenIsSeens ==
    ASSUME NEW f \in Frames
    PROVE  Seen(f) \in SUBSET Seens
<1>1. f.bucket \in Buckets /\ f.rows \in Nat /\ f.events \in Nat /\ f.seen \subseteq Seens
    BY DEF Frames
<1> QED BY <1>1 DEF Seen, Seens

LEMMA SeenIsNow ==
    ASSUME NEW f \in Frames, IsNow(f.seen, f.context), RowsNow(f), EventsNow(f)
    PROVE  IsNow(Seen(f), f.context)
    BY DEF IsNow, RowsNow, EventsNow, Seen

\* What a query reads of a bucket without records is what there is.
LEMMA EmptyIsNow ==
    ASSUME Inv, NEW q \in Askers, asker[q].pc = "empty"
    PROVE  IsNow(Seen(Top(q)), Top(q).context) /\ Seen(Top(q)) \in SUBSET Seens
<1>1. /\ Top(q) \in Frames /\ Top(q).bucket \in Buckets /\ IsNow(Top(q).seen, Top(q).context)
      /\ RowsNow(Top(q)) /\ Top(q).rows = 0 /\ Top(q).events = 0
    BY AtBucket DEF Afield, Inv, AskerSound, ReadingSound
<1>2. EventsNow(Top(q))
    BY <1>1 DEF Inv, Founded, RowsNow, EventsNow
<1> QED BY <1>1, <1>2, SeenIsNow, SeenIsSeens

LEMMA KeyOfFrame ==
    ASSUME NEW f \in Frames, NEW d \in BOOLEAN
    PROVE  CacheKey(f, d) \in Keys /\ CacheKey(f, d).context = f.context
<1>1. f.bucket \in Buckets /\ f.version \in Nat /\ f.context \in Nat
    BY DEF Frames
<1> QED BY <1>1 DEF CacheKey, Keys

\* Putting in an answer made of what there is leaves the table as good as it was.
LEMMA TableStaysSound ==
    ASSUME Inv, NEW key \in Keys, NEW seen \in SUBSET Seens, key.context <= contextVersion, IsNow(seen, key.context),
           answers' = WithAnswer(key, seen), UNCHANGED <<rows, events, contextVersion>>
    PROVE  answers' \in Seq(Effects) /\ (\A i \in 1..Len(answers) : Sound(answers[i]))'
<1>1. /\ answers' \in Seq(Effects)
      /\ \A i \in 1..Len(answers') :
            answers'[i] = [key |-> key, seen |-> seen] \/ \E j \in 1..Len(answers) : answers'[i] = answers[j]
    BY TableGrows DEF Inv
<1>2. Sound([key |-> key, seen |-> seen])
    BY DEF Sound
<1>3. \A i \in 1..Len(answers') : Sound(answers'[i])
    BY <1>1, <1>2 DEF Inv, AnswersSound
<1> QED BY <1>1, <1>3 DEF Sound, IsNow

LEMMA StoreEmptyKeeps ==
    ASSUME Inv, NEW q \in Askers, StoreEmpty(q)
    PROVE  Inv'
<1> DEFINE a == asker[q]
           f == Top(q)
           key == CacheKey(f, FALSE)
           seen == Seen(f)
<1>1. /\ asker[q].pc = "empty" /\ asker' = asker /\ answers' = WithAnswer(key, seen)
      /\ UNCHANGED <<store, caches, effects, writer, worker>>
    BY DEF StoreEmpty, tasks
<1>2. /\ a \in AskerRec /\ f \in Frames /\ f.context <= contextVersion
      /\ a.stack # <<>> /\ Len(a.stack) <= 2 /\ AskerSound(q)
    BY <1>1, AtBucket DEF Afield, Inv, Placed
<1>3. key \in Keys /\ key.context = f.context
    BY <1>2, KeyOfFrame
<1>4. IsNow(seen, f.context) /\ seen \in SUBSET Seens
    BY <1>1, EmptyIsNow
<1>5. /\ Lines' /\ Elsewhere(q) /\ publishing' = publishing
      /\ \A x, y \in Tasks : Ahead(x, y)' <=> Ahead(x, y)
    BY StorageEnds, Actors DEF StoreEmpty, AtStorage, Inv
<1>6. Beside(q) /\ UNCHANGED <<rows, events, contextVersion>>
    BY <1>1, <1>5 DEF store, Beside
<1> HIDE DEF key, seen
<1>7. answers' \in Seq(Effects) /\ (\A i \in 1..Len(answers) : Sound(answers[i]))'
    BY <1>1, <1>2, <1>3, <1>4, <1>6, TableStaysSound
<1>8. AnswersSound'
    BY <1>1, <1>6, <1>7 DEF Inv, AnswersSound, Sound, IsNow
<1>9. ContextsFollow' /\ UsageSound'
    BY <1>1, <1>6, CachesStay, Actors DEF caches
<1>10. Top(q)' = Top(q)
    BY <1>1 DEF Top
<1>11. FramesSound(q)'
    BY <1>1, <1>2, <1>6 DEF AskerSound, FramesSound, IsNow, RowsNow, EventsNow
<1>12. ReadingSound(q)'
    BY <1>1, <1>2, <1>6, <1>10 DEF AskerSound, ReadingSound, IsNow, RowsNow
<1>13. Follows(q)'
    BY <1>1, <1>2, <1>5, <1>6, <1>10, WritersStay, Actors DEF AskerSound, Follows
<1>14. Counting(q)'
    BY <1>1 DEF Counting
<1>15. AskerSound(q)'
    BY <1>11, <1>12, <1>13, <1>14 DEF AskerSound
<1>16. asker' = [asker EXCEPT ![q] = a]
    BY <1>1 DEF Inv, Types
<1>17. /\ effects' \in Seq(Effects) /\ context' \in [Buckets -> {None} \cup Nat]
       /\ usage' \in [Buckets -> {None} \cup Usages] /\ index' \in [Buckets -> SUBSET Indexes]
       /\ UNCHANGED <<live, dirty, worker>>
    BY <1>1 DEF caches, store, Inv, Types
<1> QED BY <1>1, <1>2, <1>5, <1>6, <1>7, <1>8, <1>9, <1>15, <1>16, <1>17, AskerMoves DEF OnLoopOnly, Afield

LEMMA RankRecordsKeeps ==
    ASSUME Inv, NEW q \in Askers, RankRecords(q)
    PROVE  Inv'
<1> DEFINE f == Top(q)
<1>1. asker[q].pc = "load" /\ AskerAt(q, "ranked", f) /\ GetOrBuild(f.bucket, f.rows, FALSE)
    BY DEF RankRecords
<1>2. asker[q].stack # <<>> /\ f \in Frames /\ f.bucket \in Buckets /\ f.rows \in Nat /\ AskerSound(q)
    BY <1>1, AtBucket DEF Afield, Inv
<1>3. /\ Lines' /\ Elsewhere(q) /\ publishing' = publishing /\ Done(q)
      /\ \A s \in Tasks : ~Ahead(s, q)
      /\ ~Done(q)' /\ ~Queued(q)'
    BY LoopResumes, Actors DEF RankRecords, Resumes, Inv
<1>4. RowsNow(f)
    BY <1>1, <1>2, <1>3 DEF AskerSound, ReadingSound
<1>5. f.context = contextVersion => \A w \in Writers : ~Owes(w, f.bucket)
    BY <1>1, <1>2, <1>3, Actors DEF AskerSound, Follows
<1>6. index' \in [Buckets -> SUBSET Indexes]
    BY <1>1, <1>2, Indexed DEF Inv
<1>7. f = Top(q)
    OBVIOUS
<1> HIDE DEF f
<1>8. asker'[q].pc = "ranked" /\ Top(q)' = f
    BY <1>1, <1>2, AtFrame DEF Inv, AskerPCs
<1>9. UNCHANGED <<store, answers, context, usage, effects, writer, worker>>
    BY DEF RankRecords
<1>10. Beside(q) /\ UNCHANGED <<rows, contextVersion>>
    BY <1>3, <1>9 DEF store, Beside
<1>11. ReadingSound(q)'
    BY <1>4, <1>8, <1>10 DEF ReadingSound, RowsNow
<1>12. Follows(q)'
    <2>1. \A w \in Writers : \A b : Owes(w, b)' <=> Owes(w, b)
        BY <1>10, WritersStay, Actors
    <2> QED BY <1>5, <1>8, <1>10, <2>1 DEF Follows
<1>13. "ranked" \in AskerPCs \ (Afield \cup {"meta"})
    BY DEF AskerPCs, Afield
<1> QED BY <1>1, <1>2, <1>3, <1>6, <1>7, <1>9, <1>11, <1>12, <1>13, AtBucketGoesOn

LEMMA ReadContextKeeps ==
    ASSUME Inv, NEW q \in Askers, ReadContext(q)
    PROVE  Inv'
<1> DEFINE b == Top(q).bucket
           cached == context[b]
<1>1. asker[q].pc = "ranked" /\ UNCHANGED <<store, answers, context, usage, index, effects, writer, worker>>
    BY DEF ReadContext, caches
<1>2. /\ asker[q].stack # <<>> /\ Top(q) \in Frames /\ b \in Buckets /\ AskerSound(q)
      /\ ~Done(q) /\ ~Queued(q)
    BY <1>1, AtBucket DEF Afield, OnLoopOnly, Inv, Placed
<1>3. index' \in [Buckets -> SUBSET Indexes]
    BY <1>1 DEF Inv, Types
<1>4. RowsNow(Top(q)) /\ (Top(q).context = contextVersion => \A w \in Writers : ~Owes(w, b))
    BY <1>1, <1>2 DEF AskerSound, ReadingSound, Follows
<1>5. UNCHANGED <<rows, events, contextVersion>>
    BY <1>1 DEF store
<1>6. CASE /\ cached # None
           /\ AskerAt(q, "llm", [Top(q) EXCEPT !.events = cached])
           /\ UNCHANGED threads
    <2> DEFINE f == [Top(q) EXCEPT !.events = cached]
    <2>1. /\ f \in Frames /\ f.bucket = b /\ f.context = Top(q).context
          /\ f.seen = Top(q).seen /\ f.rows = Top(q).rows /\ f.events = cached
        <3>1. cached \in Nat
            BY <1>2, <1>6 DEF Inv, Types
        <3> QED BY <1>2, <3>1 DEF Frames
    <2>2. f.context = contextVersion => f.events = events[f.bucket]
        BY <1>2, <1>4, <1>6, <2>1 DEF Inv, ContextsFollow
    <2>3. Lines' /\ Elsewhere(q) /\ publishing' = publishing /\ ~Done(q)' /\ ~Queued(q)'
        BY <1>2, <1>6, QueuesStay, Actors DEF Inv, threads
    <2>4. AskerAt(q, "llm", f)
        BY <1>6
    <2> HIDE DEF f, b
    <2>5. asker'[q].pc = "llm" /\ Top(q)' = f
        BY <1>2, <2>1, <2>4, AtFrame DEF Inv, AskerPCs
    <2>6. ReadingSound(q)'
        BY <1>4, <1>5, <2>1, <2>2, <2>5 DEF ReadingSound, RowsNow, EventsNow, b
    <2>7. Follows(q)'
        BY <2>5 DEF Follows
    <2>8. "llm" \in AskerPCs \ (Afield \cup {"meta"})
        BY DEF AskerPCs, Afield
    <2>9. UNCHANGED <<store, answers, context, usage, effects, writer, worker>> /\ asker[q].pc # "meta"
        BY <1>1
    <2> HIDE DEF cached
    <2> QED BY <1>2, <1>3, <2>1, <2>3, <2>4, <2>6, <2>7, <2>8, <2>9, AtBucketGoesOn
<1>7. CASE /\ cached = None
           /\ AskerAt(q, "context", Top(q))
           /\ Starts(q)
    <2> DEFINE f == Top(q)
    <2>1. Lines' /\ Elsewhere(q) /\ publishing' = publishing /\ ~Done(q)'
        BY <1>2, <1>7, StorageGets, Actors DEF Inv, Starts, Submit
    <2>2. f = Top(q) /\ AskerAt(q, "context", f)
        BY <1>7
    <2> HIDE DEF f
    <2>3. asker'[q].pc = "context" /\ Top(q)' = f
        BY <1>2, <2>2, AtFrame DEF Inv, AskerPCs
    <2>4. ReadingSound(q)'
        BY <1>4, <1>5, <2>1, <2>2, <2>3 DEF ReadingSound, RowsNow
    <2>5. Follows(q)'
        BY <2>1, <2>3 DEF Follows
    <2>6. "context" \in AskerPCs \ (Afield \cup {"meta"}) /\ "context" \notin OnLoopOnly
        BY DEF AskerPCs, Afield, OnLoopOnly
    <2> QED BY <1>1, <1>2, <1>3, <2>1, <2>2, <2>4, <2>5, <2>6, AtBucketGoesOn
<1> QED BY <1>6, <1>7 DEF ReadContext

LEMMA LoadContextKeeps ==
    ASSUME Inv, NEW q \in Askers, LoadContext(q)
    PROVE  Inv'
<1> DEFINE f == [Top(q) EXCEPT !.events = events[Top(q).bucket]]
<1>1. asker[q].pc = "context" /\ AskerAt(q, "context", f)
    BY DEF LoadContext
<1>2. asker[q].stack # <<>> /\ Top(q) \in Frames /\ Top(q).bucket \in Buckets /\ RowsNow(Top(q))
    BY <1>1, AtBucket DEF Afield, Inv, AskerSound, ReadingSound
<1>3. /\ f \in Frames /\ f.bucket = Top(q).bucket /\ f.context = Top(q).context
      /\ f.seen = Top(q).seen /\ f.rows = Top(q).rows /\ f.events = events[f.bucket]
    <2>1. events[Top(q).bucket] \in Nat
        BY <1>2 DEF Inv, Types
    <2> QED BY <1>2, <2>1 DEF Frames
<1>4. Lines' /\ Elsewhere(q) /\ publishing' = publishing
    BY StorageEnds, Actors DEF LoadContext, AtStorage, Inv
<1> HIDE DEF f
<1>5. asker'[q].pc = "context" /\ Top(q)' = f
    BY <1>1, <1>2, <1>3, AtFrame DEF Inv, AskerPCs
<1>6. UNCHANGED <<store, answers, context, usage, effects, writer, worker>> /\ UNCHANGED <<rows, events, contextVersion>>
    BY DEF LoadContext, caches, store
<1>7. ReadingSound(q)'
    BY <1>2, <1>3, <1>5, <1>6 DEF ReadingSound, RowsNow, EventsNow
<1>8. Follows(q)'
    BY <1>3, <1>5, <1>6 DEF Follows
<1>9. index' \in [Buckets -> SUBSET Indexes]
    BY DEF LoadContext, caches, Inv, Types
<1>10. "context" \in AskerPCs \ (Afield \cup {"meta"}) /\ "context" \notin OnLoopOnly
    BY DEF AskerPCs, Afield, OnLoopOnly
<1> QED BY <1>1, <1>2, <1>3, <1>4, <1>6, <1>7, <1>8, <1>9, <1>10, AtBucketGoesOn

LEMMA FillContextKeeps ==
    ASSUME Inv, NEW q \in Askers, FillContext(q)
    PROVE  Inv'
<1> DEFINE f == Top(q)
<1>1. /\ asker[q].pc = "context" /\ AskerAt(q, "llm", f)
      /\ context' = [context EXCEPT ![f.bucket] = f.events]
    BY DEF FillContext
<1>2. /\ asker[q].stack # <<>> /\ f \in Frames /\ f.bucket \in Buckets /\ f.events \in Nat
      /\ AskerSound(q)
    BY <1>1, AtBucket DEF Afield, Inv
<1>3. /\ Lines' /\ Elsewhere(q) /\ publishing' = publishing /\ Done(q) /\ ~Done(q)' /\ ~Queued(q)'
    BY LoopResumes, Actors DEF FillContext, Resumes, Inv
<1>4. /\ RowsNow(f) /\ EventsNow(f)
      /\ f.events = events[f.bucket] \/ \E w \in Writers : Owes(w, f.bucket)
    BY <1>1, <1>2, <1>3 DEF AskerSound, ReadingSound, Follows
<1>5. UNCHANGED <<store, answers, usage, index, effects, writer, worker>>
    BY DEF FillContext
<1>6. Beside(q) /\ UNCHANGED <<rows, events, contextVersion>>
    BY <1>3, <1>5 DEF store, Beside
<1>7. f = Top(q)
    OBVIOUS
<1> HIDE DEF f
<1>8. ContextsFollow' /\ context' \in [Buckets -> {None} \cup Nat]
    <2>1. context' \in [Buckets -> {None} \cup Nat]
        BY <1>1, <1>2 DEF Inv, Types
    <2>2. \A w \in Writers : \A b : Owes(w, b)' <=> Owes(w, b)
        BY <1>6, WritersStay, Actors
    <2>3. \A b \in Buckets : context'[b] = IF b = f.bucket THEN f.events ELSE context[b]
        BY <1>1, <1>2 DEF Inv, Types
    <2> QED BY <1>4, <1>6, <2>1, <2>2, <2>3 DEF ContextsFollow, Inv
<1>9. asker'[q].pc = "llm" /\ Top(q)' = f
    BY <1>1, <1>2, AtFrame DEF Inv, AskerPCs
<1>10. ReadingSound(q)'
    BY <1>4, <1>6, <1>9 DEF ReadingSound, RowsNow, EventsNow
<1>11. Follows(q)'
    BY <1>9 DEF Follows
<1>12. index' \in [Buckets -> SUBSET Indexes]
    BY <1>5 DEF Inv, Types
<1>13. "llm" \in AskerPCs \ (Afield \cup {"meta"})
    BY DEF AskerPCs, Afield
<1> QED BY <1>1, <1>2, <1>3, <1>5, <1>7, <1>8, <1>10, <1>11, <1>12, <1>13, AtBucketKeeps

LEMMA DescendKeeps ==
    ASSUME Inv, NEW q \in Askers, Descend(q)
    PROVE  Inv'
<1>1. PICK d \in BOOLEAN :
        asker' = [asker EXCEPT ![q].pc = "meta", ![q].stack = <<[Top(q) EXCEPT !.degraded = d], Frame(Child)>>]
    BY DEF Descend
<1> DEFINE f == [Top(q) EXCEPT !.degraded = d]
           g == Frame(Child)
           z == <<f, g>>
           a == [asker[q] EXCEPT !.pc = "meta", !.stack = z]
<1>2. asker' = [asker EXCEPT ![q] = a] /\ asker'[q] = a /\ asker[q].pc = "llm"
    BY <1>1 DEF Descend, Inv, Types
<1>3. /\ asker[q] \in AskerRec /\ Top(q) \in Frames /\ AskerSound(q) /\ ~Done(q) /\ ~Queued(q)
      /\ Top(q).context <= contextVersion /\ IsNow(Top(q).seen, Top(q).context) /\ contextVersion \in Nat
    BY <1>2, AtBucket DEF Afield, OnLoopOnly, Inv, Placed
<1>4. RowsNow(Top(q)) /\ EventsNow(Top(q))
    BY <1>2, <1>3 DEF AskerSound, ReadingSound
<1>5. /\ f \in Frames /\ f.context = Top(q).context /\ f.seen = Top(q).seen
      /\ f.rows = Top(q).rows /\ f.events = Top(q).events /\ f.bucket = Top(q).bucket
    BY <1>3 DEF Frames
<1>6. g \in Frames /\ g.context = 0 /\ g.seen = {} /\ g.events = 0
    BY RootFirst DEF Frame
<1> HIDE DEF f, g
<1>7. /\ z \in Seq(Frames) /\ Len(z) = 2 /\ z[1] = f /\ z[2] = g /\ z # <<>>
      /\ \A i \in 1..Len(z) : i \in {1, 2}
    BY <1>5, <1>6
<1> HIDE DEF z
<1>8. a \in AskerRec /\ a.pc = "meta" /\ a.stack = z
    BY <1>3, <1>7 DEF AskerRec, AskerPCs
<1> HIDE DEF a
<1>9. Lines' /\ Elsewhere(q) /\ publishing' = publishing
    BY <1>3, StorageGets, Actors DEF Descend, Starts, Submit, Inv
<1>10. Top(q)' = g
    BY <1>2, <1>7, <1>8 DEF Top, Last
<1>11. UNCHANGED <<store, answers, context, usage, index, effects, writer, worker>>
    BY DEF Descend, caches
<1>12. UNCHANGED <<rows, events, contextVersion>>
    BY <1>11 DEF store
<1>13. FramesSound(q)'
    <2>1. f.context <= contextVersion /\ IsNow(f.seen, f.context) /\ RowsNow(f) /\ EventsNow(f)
        BY <1>3, <1>4, <1>5 DEF RowsNow, EventsNow
    <2>2. g.context <= contextVersion /\ IsNow(g.seen, g.context)
        BY <1>3, <1>6 DEF IsNow
    <2> QED BY <1>2, <1>7, <1>8, <1>12, <2>1, <2>2 DEF FramesSound, IsNow, RowsNow, EventsNow
<1>14. ReadingSound(q)' /\ Follows(q)' /\ Counting(q)'
    BY <1>2, <1>6, <1>8, <1>10 DEF ReadingSound, Follows, Counting
<1>15. AskerSound(q)'
    BY <1>13, <1>14 DEF AskerSound
<1>16. index' \in [Buckets -> SUBSET Indexes]
    BY <1>11 DEF Inv, Types
<1>17. /\ a.stack # <<>> /\ Len(a.stack) <= 2 /\ a.pc \notin OnLoopOnly /\ a.pc \notin Afield /\ a \in AskerRec
       /\ UNCHANGED <<store, answers, context, usage, effects, writer, worker>>
    <2>1. a.stack # <<>> /\ Len(a.stack) = 2
        BY <1>7, <1>8, Zenon
    <2>2. a.pc \notin OnLoopOnly /\ a.pc \notin Afield
        BY <1>8 DEF OnLoopOnly, Afield
    <2> QED BY <1>8, <1>11, <2>1, <2>2
<1> QED BY <1>2, <1>9, <1>15, <1>16, <1>17, AskerGoesOn

\* A query's answer for its bucket is complete.
LEMMA Returns ==
    ASSUME Inv, NEW q \in Askers, asker[q].pc \notin Afield \cup {"meta"},
           NEW seen \in SUBSET Seens, IsNow(seen, Top(q).context), Return(q, seen),
           UNCHANGED <<rows, events, contextVersion>>
    PROVE  /\ asker' = [asker EXCEPT ![q] = asker'[q]] /\ asker'[q] \in AskerRec
           /\ asker'[q].pc \in {"idle", "merge"}
           /\ asker'[q].stack = <<>> <=> asker'[q].pc \in Afield
           /\ Len(asker'[q].stack) <= 2
           /\ AskerSound(q)'
<1> DEFINE s == asker[q].stack
           rest == Front(s)
           f == Last(rest)
           g == [f EXCEPT !.seen = @ \cup seen]
           z == Append(Front(rest), g)
           a == [asker[q] EXCEPT !.pc = "merge", !.reply = None, !.stack = z]
           done == [Idle EXCEPT !.asked = @ + asker[q].asked]
<1>1. /\ s # <<>> /\ asker[q] \in AskerRec /\ s \in Seq(Frames) /\ Len(s) <= 2
      /\ Top(q).context <= contextVersion /\ Top(q).context \in Nat /\ contextVersion \in Nat /\ FramesSound(q)
    BY AtBucket DEF Inv, Placed, AskerSound, AskerRec
<1>2. /\ Len(s) \in Nat /\ Len(s) > 0
      /\ rest \in Seq(Frames) /\ Len(rest) = Len(s) - 1
      /\ \A i \in 1..(Len(s) - 1) : rest[i] = s[i]
    BY <1>1, Fronts
<1>3. asker' = [asker EXCEPT ![q] = IF rest = <<>> THEN done ELSE a]
    BY DEF Return, Inv, Types
<1>4. asker'[q] = (IF rest = <<>> THEN done ELSE a) /\ asker' = [asker EXCEPT ![q] = asker'[q]]
    BY <1>3 DEF Inv, Types
<1>5. CASE rest = <<>>
    <2>1. done \in AskerRec /\ done.pc = "idle" /\ done.stack = <<>>
        <3>1. 0 + asker[q].asked \in Nat
            BY <1>1 DEF AskerRec
        <3>2. [b \in Buckets |-> 0] \in [Buckets -> Nat] /\ <<>> \in Seq(Buckets) /\ <<>> \in Seq(Frames)
            OBVIOUS
        <3>3. Root \in Buckets
            BY DEF Buckets
        <3> QED BY <3>1, <3>2, <3>3 DEF Idle, AskerRec, AskerPCs
    <2> HIDE DEF done
    <2>2. asker'[q].stack = <<>> /\ asker'[q].pc = "idle" /\ asker'[q] \in AskerRec
        BY <1>4, <1>5, <2>1
    <2>3. AskerSound(q)'
        BY <2>2, AfieldSound
    <2>4. Len(asker'[q].stack) <= 2
        BY <2>2
    <2> QED BY <1>4, <2>2, <2>3, <2>4 DEF Afield
<1>6. CASE rest # <<>>
    <2>1. Len(s) = 2 /\ Len(rest) = 1 /\ rest[1] = s[1] /\ f = s[1]
        <3>1. \A u \in Seq(Frames) : u # <<>> => Len(u) \in Nat /\ Len(u) > 0
            OBVIOUS
        <3>2. Len(s) = 2 /\ Len(rest) = 1
            <4> HIDE DEF rest
            <4>1. Len(rest) > 0
                BY <1>2, <1>6, <3>1
            <4>2. Len(s) \in Nat /\ Len(s) <= 2 /\ Len(rest) = Len(s) - 1
                BY <1>1, <1>2
            <4>3. \A m \in Nat : m <= 2 /\ m - 1 > 0 => m = 2
                OBVIOUS
            <4>4. Len(s) = 2
                BY <4>1, <4>2, <4>3
            <4> QED BY <4>2, <4>4
        <3>3. 1 \in 1..(Len(s) - 1)
            BY <3>2
        <3> QED BY <1>2, <3>2, <3>3 DEF Last
    <2>2. f \in Frames
        BY <1>1, <2>1
    <2>3. /\ f.context <= Top(q).context /\ f.context \in Nat
          /\ RowsNow(f) /\ EventsNow(f) /\ IsNow(f.seen, f.context)
        <3>1. 1 \in 1..Len(s) /\ Top(q) = s[2]
            BY <2>1 DEF Top, Last
        <3> QED BY <1>1, <2>1, <2>2, <3>1 DEF FramesSound, Frames
    <2>4. /\ g \in Frames /\ g.bucket = f.bucket /\ g.context = f.context /\ g.rows = f.rows
          /\ g.events = f.events /\ g.seen = f.seen \cup seen
        BY <2>2 DEF Frames
    <2> HIDE DEF f, g
    <2>5. z \in Seq(Frames) /\ z # <<>> /\ Len(z) = 1 /\ z[1] = g
        BY <1>2, <1>6, <2>1, <2>4, Replaced
    <2> HIDE DEF z
    <2>6. a \in AskerRec /\ a.pc = "merge" /\ a.stack = z
        BY <1>1, <2>5 DEF AskerRec, AskerPCs
    <2> HIDE DEF a
    <2>7. asker'[q] = a
        BY <1>4, <1>6
    <2>8. Top(q)' = g
        BY <2>5, <2>6, <2>7 DEF Top, Last
    <2>9. IsNow(g.seen, g.context) /\ RowsNow(g) /\ EventsNow(g) /\ g.context <= contextVersion
        BY <1>1, <2>3, <2>4 DEF IsNow, RowsNow, EventsNow
    <2>10. \A i \in 1..Len(z) : z[i] = g
        BY <2>5
    <2>11. FramesSound(q)'
        BY <2>5, <2>6, <2>7, <2>9, <2>10 DEF FramesSound, IsNow
    <2>12. ReadingSound(q)' /\ Follows(q)' /\ Counting(q)'
        BY <2>6, <2>7, <2>8, <2>9 DEF ReadingSound, Follows, Counting, RowsNow, EventsNow
    <2>13. AskerSound(q)'
        BY <2>11, <2>12 DEF AskerSound
    <2>14. Len(asker'[q].stack) <= 2 /\ asker'[q].stack # <<>>
        BY <2>5, <2>6, <2>7
    <2> QED BY <1>4, <2>6, <2>7, <2>13, <2>14 DEF Afield
<1> QED BY <1>5, <1>6

LEMMA HitKeeps ==
    ASSUME Inv, NEW q \in Askers, Hit(q)
    PROVE  Inv'
<1> DEFINE seen == asker[q].reply
<1>1. asker[q].pc \in {"lookup", "lookup_degraded"} /\ seen # None /\ Return(q, seen)
    BY DEF Hit
<1>2. /\ Lines' /\ Elsewhere(q) /\ publishing' = publishing /\ Done(q) /\ ~Done(q)' /\ ~Queued(q)'
    BY LoopResumes, Actors DEF Hit, Resumes, Inv
<1>3. seen \in SUBSET Seens /\ IsNow(seen, Top(q).context)
    BY <1>1, <1>2 DEF Inv, AskerSound, ReadingSound, Types, AskerRec
<1>4. UNCHANGED <<store, answers, context, usage, index, effects, writer, worker>>
    BY DEF Hit, caches
<1>5. UNCHANGED <<rows, events, contextVersion>>
    BY <1>4 DEF store
<1> HIDE DEF seen
<1>6. /\ asker' = [asker EXCEPT ![q] = asker'[q]] /\ asker'[q] \in AskerRec
      /\ asker'[q].stack = <<>> <=> asker'[q].pc \in Afield
      /\ Len(asker'[q].stack) <= 2
      /\ AskerSound(q)'
    BY <1>1, <1>3, <1>5, Returns DEF Afield
<1>7. index' \in [Buckets -> SUBSET Indexes]
    BY <1>4 DEF Inv, Types
<1> DEFINE a == asker'[q]
<1>8. /\ a \in AskerRec /\ asker' = [asker EXCEPT ![q] = a]
      /\ a.stack = <<>> <=> a.pc \in Afield
      /\ Len(a.stack) <= 2
    BY <1>6
<1> HIDE DEF a
<1>9. UNCHANGED <<store, answers, context, usage, effects, writer, worker>>
    BY <1>4
<1> QED BY <1>2, <1>6, <1>7, <1>8, <1>9, AskerGoesOn

LEMMA AnswerEmptyKeeps ==
    ASSUME Inv, NEW q \in Askers, AnswerEmpty(q)
    PROVE  Inv'
<1> DEFINE seen == Seen(Top(q))
<1>1. asker[q].pc = "empty" /\ Return(q, seen)
    BY DEF AnswerEmpty
<1>2. /\ Lines' /\ Elsewhere(q) /\ publishing' = publishing /\ ~Done(q)' /\ ~Queued(q)'
    BY LoopResumes, Actors DEF AnswerEmpty, Resumes, Inv
<1>3. seen \in SUBSET Seens /\ IsNow(seen, Top(q).context)
    BY <1>1, EmptyIsNow
<1>4. UNCHANGED <<store, answers, context, usage, index, effects, writer, worker>>
    BY DEF AnswerEmpty, caches
<1>5. UNCHANGED <<rows, events, contextVersion>>
    BY <1>4 DEF store
<1> HIDE DEF seen
<1>6. /\ asker' = [asker EXCEPT ![q] = asker'[q]] /\ asker'[q] \in AskerRec
      /\ asker'[q].stack = <<>> <=> asker'[q].pc \in Afield
      /\ Len(asker'[q].stack) <= 2
      /\ AskerSound(q)'
    BY <1>1, <1>3, <1>5, Returns DEF Afield
<1>7. index' \in [Buckets -> SUBSET Indexes]
    BY <1>4 DEF Inv, Types
<1> DEFINE a == asker'[q]
<1>8. /\ a \in AskerRec /\ asker' = [asker EXCEPT ![q] = a]
      /\ a.stack = <<>> <=> a.pc \in Afield
      /\ Len(a.stack) <= 2
    BY <1>6
<1> HIDE DEF a
<1>9. UNCHANGED <<store, answers, context, usage, effects, writer, worker>>
    BY <1>4
<1> QED BY <1>2, <1>6, <1>7, <1>8, <1>9, AskerGoesOn

LEMMA AnswerKeeps ==
    ASSUME Inv, NEW q \in Askers, Answer(q)
    PROVE  Inv'
<1> DEFINE f == Top(q)
           seen == Seen(f)
<1>1. PICK d \in BOOLEAN :
        effects' = IF Len(effects) = QueueCap THEN effects
                   ELSE Append(effects, [key |-> CacheKey(f, d), seen |-> seen])
    <2>1. f.degraded \in BOOLEAN
        BY AtBucket DEF Answer, Afield
    <2> QED BY <2>1 DEF Answer
<1>2. /\ asker[q].pc \in {"llm", "merge"} /\ Return(q, seen)
      /\ UNCHANGED <<store, answers, context, usage, index, jobs, ready, publishing, writer, worker>>
    BY DEF Answer, caches, threads
<1>3. /\ f \in Frames /\ f.context <= contextVersion /\ IsNow(f.seen, f.context)
      /\ RowsNow(f) /\ EventsNow(f) /\ ~Done(q) /\ ~Queued(q)
    BY <1>2, AtBucket DEF Afield, OnLoopOnly, Inv, AskerSound, ReadingSound, Placed
<1>4. seen \in SUBSET Seens /\ IsNow(seen, f.context)
    BY <1>3, SeenIsSeens, SeenIsNow
<1> DEFINE e == [key |-> CacheKey(f, d), seen |-> seen]
<1>5. e \in Effects /\ Sound(e)
    <2>1. CacheKey(f, d) \in Keys /\ CacheKey(f, d).context = f.context
        BY <1>3, KeyOfFrame
    <2> QED BY <1>3, <1>4, <2>1 DEF Effects, Sound
<1>6. effects' \in {effects, Append(effects, e)}
    BY <1>1
<1> HIDE DEF e
<1>7. /\ effects' \in Seq(Effects)
      /\ \A i \in 1..Len(effects') : effects'[i] = e \/ (i \in 1..Len(effects) /\ effects'[i] = effects[i])
    <2>1. effects \in Seq(Effects)
        BY DEF Inv, Types
    <2>2. CASE effects' = effects
        BY <2>1, <2>2
    <2>3. CASE effects' = Append(effects, e)
        BY <1>5, <2>1, <2>3
    <2> QED BY <1>6, <2>2, <2>3
<1>8. UNCHANGED <<rows, events, contextVersion>>
    BY <1>2 DEF store
<1>9. \A i \in 1..Len(effects') : Sound(effects'[i])
    BY <1>5, <1>7 DEF Inv, AnswersSound
<1>10. AnswersSound'
    BY <1>2, <1>8, <1>9 DEF Inv, AnswersSound, Sound, IsNow
<1> HIDE DEF seen
<1>11. /\ asker' = [asker EXCEPT ![q] = asker'[q]] /\ asker'[q] \in AskerRec
       /\ asker'[q].stack = <<>> <=> asker'[q].pc \in Afield
       /\ Len(asker'[q].stack) <= 2
       /\ AskerSound(q)'
    BY <1>2, <1>4, <1>8, Returns DEF Afield
<1>12. Lines' /\ Elsewhere(q) /\ publishing' = publishing /\ ~Done(q)' /\ ~Queued(q)'
    BY <1>2, <1>3, QueuesStay, Actors DEF Inv, threads
<1>13. Beside(q) /\ UNCHANGED <<live, dirty, worker>>
    BY <1>2, <1>12 DEF Beside, store
<1>14. ContextsFollow' /\ UsageSound'
    BY <1>2, <1>13, CachesStay, Actors
<1>15. /\ answers' \in Seq(Effects) /\ context' \in [Buckets -> {None} \cup Nat]
       /\ usage' \in [Buckets -> {None} \cup Usages] /\ index' \in [Buckets -> SUBSET Indexes]
    BY <1>2 DEF Inv, Types
<1> DEFINE a == asker'[q]
<1>16. /\ a \in AskerRec /\ asker' = [asker EXCEPT ![q] = a]
       /\ a.stack = <<>> <=> a.pc \in Afield
       /\ Len(a.stack) <= 2
    BY <1>11
<1> HIDE DEF a
<1> QED BY <1>7, <1>10, <1>11, <1>12, <1>13, <1>14, <1>15, <1>16, AskerMoves

LEMMA AskUsageKeeps ==
    ASSUME Inv, NEW q \in Askers, NEW b \in Buckets, AskUsage(q, b)
    PROVE  Inv'
<1>1. /\ asker[q].pc = "idle" /\ asker[q] \in AskerRec /\ asker[q].stack = <<>> /\ ~Done(q) /\ ~Queued(q)
      /\ version[b] \in Nat /\ asker[q].asked + 1 \in Nat
    <2>1. asker[q].pc = "idle" /\ asker[q] \in AskerRec
        BY DEF AskUsage, Inv, Types
    <2>2. asker[q].stack = <<>> /\ ~Done(q) /\ ~Queued(q) /\ version[b] \in Nat
        BY <2>1 DEF Inv, Types, Placed, Afield, OnLoopOnly
    <2> QED BY <2>1, <2>2 DEF AskerRec
<1>2. UNCHANGED <<store, answers, context, usage, index, effects, writer, worker>>
    BY DEF AskUsage, caches
<1>3. index' \in [Buckets -> SUBSET Indexes]
    BY <1>2 DEF Inv, Types
<1>4. UNCHANGED <<store, answers, context, usage, effects, writer, worker>>
    BY <1>2
<1>5. CASE asker' = [asker EXCEPT ![q].asked = @ + 1] /\ UNCHANGED threads
    <2> DEFINE a == [asker[q] EXCEPT !.asked = @ + 1]
    <2>1. asker' = [asker EXCEPT ![q] = a] /\ asker'[q] = a
        BY <1>5 DEF Inv, Types
    <2>2. a \in AskerRec /\ a.pc = "idle" /\ a.stack = <<>>
        BY <1>1 DEF AskerRec
    <2> HIDE DEF a
    <2>3. AskerSound(q)' /\ Len(a.stack) <= 2
        BY <2>1, <2>2, AfieldSound
    <2>4. Lines' /\ Elsewhere(q) /\ publishing' = publishing /\ ~Done(q)' /\ ~Queued(q)'
        BY <1>1, <1>5, QueuesStay, Actors DEF Inv, threads
    <2> QED BY <1>3, <1>4, <2>1, <2>2, <2>3, <2>4, AskerGoesOn DEF Afield
<1>6. CASE /\ asker' = [asker EXCEPT ![q].pc = "count", ![q].asked = @ + 1,
                                     ![q].bucket = b, ![q].version = version[b]]
           /\ Starts(q)
    <2> DEFINE a == [asker[q] EXCEPT !.pc = "count", !.asked = @ + 1, !.bucket = b, !.version = version[b]]
    <2>1. asker' = [asker EXCEPT ![q] = a] /\ asker'[q] = a
        BY <1>6 DEF Inv, Types
    <2>2. a \in AskerRec /\ a.pc = "count" /\ a.stack = <<>> /\ a.bucket = b /\ a.version = version[b]
        BY <1>1 DEF AskerRec, AskerPCs
    <2> HIDE DEF a
    <2>3. Lines' /\ Elsewhere(q) /\ publishing' = publishing /\ ~Done(q)'
        BY <1>1, <1>6, StorageGets, Actors DEF Inv, Starts, Submit
    <2>4. version' = version
        BY <1>4 DEF store
    <2>5. Len(a.stack) = 0
        BY <2>2
    <2>6. FramesSound(q)'
        BY <2>1, <2>5 DEF FramesSound
    <2>7. ReadingSound(q)' /\ Follows(q)'
        BY <2>1, <2>2 DEF ReadingSound, Follows
    <2>8. Counting(q)'
        BY <1>1, <2>1, <2>2, <2>3, <2>4 DEF Counting
    <2>9. AskerSound(q)' /\ Len(a.stack) <= 2
        BY <2>5, <2>6, <2>7, <2>8 DEF AskerSound
    <2> QED BY <1>3, <1>4, <2>1, <2>2, <2>3, <2>9, AskerGoesOn DEF Afield, OnLoopOnly
<1> QED BY <1>5, <1>6 DEF AskUsage

LEMMA CountTokensKeeps ==
    ASSUME Inv, NEW q \in Askers, CountTokens(q)
    PROVE  Inv'
<1> DEFINE a == [asker[q] EXCEPT !.tokens = events[asker[q].bucket]]
<1>1. asker' = [asker EXCEPT ![q] = a] /\ asker'[q] = a /\ asker[q].pc = "count"
    BY DEF CountTokens, Inv, Types
<1>2. /\ asker[q] \in AskerRec /\ asker[q].stack = <<>> /\ events[asker[q].bucket] \in Nat /\ Counting(q)
    <2>1. asker[q] \in AskerRec /\ asker[q].stack = <<>> /\ Counting(q)
        BY <1>1 DEF Inv, Types, Placed, Afield, AskerSound
    <2> QED BY <2>1 DEF AskerRec, Inv, Types
<1>3. /\ a \in AskerRec /\ a.pc = "count" /\ a.stack = <<>> /\ a.bucket = asker[q].bucket
      /\ a.version = asker[q].version /\ a.tokens = events[asker[q].bucket]
    BY <1>1, <1>2 DEF AskerRec
<1> HIDE DEF a
<1>4. Lines' /\ Elsewhere(q) /\ publishing' = publishing
    BY StorageEnds, Actors DEF CountTokens, AtStorage, Inv
<1>5. UNCHANGED <<store, answers, context, usage, effects, writer, worker>>
    BY DEF CountTokens, caches
<1>6. UNCHANGED <<version, events>>
    BY <1>5 DEF store
<1>7. Len(a.stack) = 0
    BY <1>3
<1>8. FramesSound(q)'
    BY <1>1, <1>7 DEF FramesSound
<1>9. ReadingSound(q)' /\ Follows(q)'
    BY <1>1, <1>3 DEF ReadingSound, Follows
<1>10. Counting(q)'
    BY <1>1, <1>2, <1>3, <1>6 DEF Counting
<1>11. AskerSound(q)' /\ Len(a.stack) <= 2
    BY <1>7, <1>8, <1>9, <1>10 DEF AskerSound
<1>12. index' \in [Buckets -> SUBSET Indexes]
    BY DEF CountTokens, caches, Inv, Types
<1> QED BY <1>1, <1>3, <1>4, <1>5, <1>11, <1>12, AskerGoesOn DEF Afield, OnLoopOnly

LEMMA StoreUsageKeeps ==
    ASSUME Inv, NEW q \in Askers, StoreUsage(q)
    PROVE  Inv'
<1> DEFINE a == [Idle EXCEPT !.asked = asker[q].asked]
           b == asker[q].bucket
           u == [version |-> asker[q].version, tokens |-> asker[q].tokens]
<1>1. /\ asker' = [asker EXCEPT ![q] = a] /\ asker'[q] = a /\ asker[q].pc = "count"
      /\ usage' = [usage EXCEPT ![b] = u]
    BY DEF StoreUsage, Inv, Types
<1>2. asker[q] \in AskerRec /\ Counting(q)
    BY DEF Inv, Types, AskerSound
<1>3. a \in AskerRec /\ a.pc = "idle" /\ a.stack = <<>>
    <2>1. asker[q].asked \in Nat
        BY <1>2 DEF AskerRec
    <2>2. [x \in Buckets |-> 0] \in [Buckets -> Nat] /\ <<>> \in Seq(Buckets) /\ <<>> \in Seq(Frames)
        OBVIOUS
    <2>3. Root \in Buckets
        BY DEF Buckets
    <2> QED BY <2>1, <2>2, <2>3 DEF Idle, AskerRec, AskerPCs
<1> HIDE DEF a
<1>4. AskerSound(q)' /\ Len(a.stack) <= 2
    BY <1>1, <1>3, AfieldSound
<1>5. /\ Lines' /\ Elsewhere(q) /\ publishing' = publishing /\ Done(q) /\ ~Done(q)' /\ ~Queued(q)'
    BY LoopResumes, Actors DEF StoreUsage, Resumes, Inv
<1>6. UNCHANGED <<store, answers, context, index, effects, writer, worker>>
    BY DEF StoreUsage
<1>7. Beside(q) /\ UNCHANGED <<live, dirty, worker>>
    BY <1>5, <1>6 DEF Beside, store
<1>8. /\ b \in Buckets /\ u \in Usages /\ u.version <= version[b]
      /\ u.version = version[b] /\ ~Republishing(b) => u.tokens = events[b]
    BY <1>1, <1>2, <1>5 DEF AskerRec, Usages, Counting
<1> HIDE DEF u, b
<1>9. usage' \in [Buckets -> {None} \cup Usages] /\ \A c \in Buckets : usage'[c] = IF c = b THEN u ELSE usage[c]
    BY <1>1, <1>8 DEF Inv, Types
<1>10. UsageSound'
    <2>1. \A c : Republishing(c)' <=> Republishing(c)
        BY <1>7, WritersStay, Actors
    <2>2. UNCHANGED <<version, events>>
        BY <1>6 DEF store
    <2> QED BY <1>8, <1>9, <2>1, <2>2 DEF UsageSound, Inv
<1>11. AnswersSound' /\ ContextsFollow'
    BY <1>6, <1>7, CachesStay, Actors
<1>12. /\ answers' \in Seq(Effects) /\ effects' \in Seq(Effects)
       /\ context' \in [Buckets -> {None} \cup Nat] /\ index' \in [Buckets -> SUBSET Indexes]
    BY <1>6 DEF Inv, Types
<1> QED BY <1>1, <1>3, <1>4, <1>5, <1>7, <1>9, <1>10, <1>11, <1>12, AskerMoves DEF Afield

-----------------------------------------------------------------------------
(* Steps of the worker and of the cleanup. *)

LEMMA WorkerMoves ==
    ASSUME Inv, Lines', Beside(Worker), UNCHANGED <<live, dirty, asker>>,
           worker' \in WorkerRec, worker'.pc = "put" => worker'.item \in Effects,
           worker'.pc = "idle" => ~Done(Worker)' /\ ~Queued(Worker)',
           answers' \in Seq(Effects), effects' \in Seq(Effects), AnswersSound',
           context' \in [Buckets -> {None} \cup Nat], ContextsFollow',
           usage' \in [Buckets -> {None} \cup Usages], UsageSound',
           index' \in [Buckets -> SUBSET Indexes]
    PROVE  Inv'
<1>1. Types'
    BY DEF Inv, Types, Beside
<1>2. Placed'
    <2>1. \A r \in Tasks \ {Worker} : (Done(r)' <=> Done(r)) /\ (Queued(r)' <=> Queued(r))
        BY Actors DEF Beside, Elsewhere
    <2> QED BY <2>1, Actors DEF Inv, Placed, Beside
<1>3. \A r \in Askers : AskerSound(r)'
    BY OthersStay, Actors
<1>4. Founded'
    BY WritersStay, Actors
<1> QED BY <1>1, <1>2, <1>3, <1>4 DEF Inv

LEMMA TakeEffectKeeps ==
    ASSUME Inv, TakeEffect
    PROVE  Inv'
<1>1. /\ worker.pc = "idle" /\ effects # <<>> /\ effects' = Tail(effects)
      /\ worker' = [pc |-> "put", item |-> Head(effects)]
      /\ UNCHANGED <<store, answers, context, usage, index, asker, writer>>
    BY DEF TakeEffect, caches
<1>2. /\ effects \in Seq(Effects) /\ Head(effects) = effects[1] /\ 1 \in 1..Len(effects)
      /\ effects' \in Seq(Effects) /\ effects[1] \in Effects
      /\ \A i \in 1..Len(effects') : effects'[i] = effects[i + 1] /\ i + 1 \in 1..Len(effects)
    BY <1>1 DEF Inv, Types
<1>3. worker' \in WorkerRec /\ worker'.pc = "put" /\ worker'.item = effects[1]
    BY <1>1, <1>2 DEF WorkerRec
<1>4. Lines' /\ Elsewhere(Worker) /\ publishing' = publishing
    <2>1. ~Done(Worker) /\ ~Queued(Worker)
        BY <1>1 DEF Inv, Placed
    <2> QED BY <2>1, StorageGets, Actors DEF TakeEffect, Starts, Submit, Inv
<1>5. Beside(Worker) /\ UNCHANGED <<live, dirty, rows, events, contextVersion>>
    BY <1>1, <1>4 DEF Beside, store
<1>6. ContextsFollow' /\ UsageSound'
    BY <1>1, <1>5, CachesStay, Actors
<1>7. AnswersSound'
    <2>1. \A i \in 1..Len(answers) : Sound(answers[i])
        BY DEF Inv, AnswersSound
    <2>2. \A i \in 1..Len(effects') : Sound(effects'[i])
        BY <1>2 DEF Inv, AnswersSound
    <2>3. Sound(worker'.item)
        BY <1>2, <1>3 DEF Inv, AnswersSound
    <2> QED BY <1>1, <1>5, <2>1, <2>2, <2>3 DEF AnswersSound, Sound, IsNow
<1>8. /\ answers' \in Seq(Effects) /\ context' \in [Buckets -> {None} \cup Nat]
      /\ usage' \in [Buckets -> {None} \cup Usages] /\ index' \in [Buckets -> SUBSET Indexes]
    BY <1>1 DEF Inv, Types
<1> QED BY <1>1, <1>2, <1>3, <1>4, <1>5, <1>6, <1>7, <1>8, WorkerMoves

LEMMA StoreAnswerKeeps ==
    ASSUME Inv, StoreAnswer
    PROVE  Inv'
<1> DEFINE key == worker.item.key
           seen == worker.item.seen
<1>1. /\ worker.pc = "put" /\ answers' = WithAnswer(key, seen)
      /\ UNCHANGED <<store, context, usage, index, effects, asker, writer, worker>>
    BY DEF StoreAnswer, caches, tasks
<1>2. /\ key \in Keys /\ seen \in SUBSET Seens /\ key.context <= contextVersion /\ IsNow(seen, key.context)
    BY <1>1 DEF Inv, Types, Effects, AnswersSound, Sound
<1>3. Lines' /\ Elsewhere(Worker) /\ publishing' = publishing
    BY StorageEnds, Actors DEF StoreAnswer, AtStorage, Inv
<1>4. Beside(Worker) /\ UNCHANGED <<live, dirty, rows, events, contextVersion>>
    BY <1>1, <1>3 DEF Beside, store
<1> HIDE DEF key, seen
<1>5. answers' \in Seq(Effects) /\ (\A i \in 1..Len(answers) : Sound(answers[i]))'
    BY <1>1, <1>2, <1>4, TableStaysSound
<1>6. AnswersSound'
    BY <1>1, <1>4, <1>5 DEF Inv, AnswersSound, Sound, IsNow
<1>7. ContextsFollow' /\ UsageSound'
    BY <1>1, <1>4, CachesStay, Actors
<1>8. /\ effects' \in Seq(Effects) /\ context' \in [Buckets -> {None} \cup Nat]
      /\ usage' \in [Buckets -> {None} \cup Usages] /\ index' \in [Buckets -> SUBSET Indexes]
      /\ worker' \in WorkerRec /\ (worker'.pc = "put" => worker'.item \in Effects)
      /\ worker'.pc # "idle"
    BY <1>1 DEF Inv, Types
<1> QED BY <1>1, <1>3, <1>4, <1>5, <1>6, <1>7, <1>8, WorkerMoves

LEMMA EffectDoneKeeps ==
    ASSUME Inv, EffectDone
    PROVE  Inv'
<1>1. /\ worker' = [pc |-> "idle", item |-> None]
      /\ UNCHANGED <<store, answers, context, usage, index, effects, asker, writer>>
    BY DEF EffectDone, caches
<1>2. worker' \in WorkerRec /\ worker'.pc = "idle"
    BY <1>1 DEF WorkerRec
<1>3. Lines' /\ Elsewhere(Worker) /\ publishing' = publishing /\ ~Done(Worker)' /\ ~Queued(Worker)'
    BY LoopResumes, Actors DEF EffectDone, Resumes, Inv
<1>4. Beside(Worker) /\ UNCHANGED <<live, dirty, rows, events, contextVersion>>
    BY <1>1, <1>3 DEF Beside, store
<1>5. ContextsFollow' /\ UsageSound'
    BY <1>1, <1>4, CachesStay, Actors
<1>6. AnswersSound'
    BY <1>1, <1>2, <1>4 DEF Inv, AnswersSound, Sound, IsNow
<1>7. /\ answers' \in Seq(Effects) /\ effects' \in Seq(Effects) /\ context' \in [Buckets -> {None} \cup Nat]
      /\ usage' \in [Buckets -> {None} \cup Usages] /\ index' \in [Buckets -> SUBSET Indexes]
    BY <1>1 DEF Inv, Types
<1> QED BY <1>1, <1>2, <1>3, <1>4, <1>5, <1>6, <1>7, WorkerMoves

LEMMA CleanupKeeps ==
    ASSUME Inv, NEW b \in Buckets, Cleanup(b)
    PROVE  Inv'
<1>1. /\ context' \in [Buckets -> {None} \cup Nat] /\ \A c \in Buckets : context'[c] \in {None, context[c]}
      /\ usage' \in [Buckets -> {None} \cup Usages] /\ \A c \in Buckets : usage'[c] \in {None, usage[c]}
      /\ index' \in [Buckets -> SUBSET Indexes]
    <2>1. PICK cache \in Evictable :
            /\ context' = [context EXCEPT ![b] = IF cache = "context" THEN None ELSE @]
            /\ usage' = [usage EXCEPT ![b] = IF cache = "usage" THEN None ELSE @]
            /\ index' = [index EXCEPT ![b] = IF cache = "index" THEN {} ELSE @]
        BY DEF Cleanup
    <2>2. /\ context \in [Buckets -> {None} \cup Nat] /\ usage \in [Buckets -> {None} \cup Usages]
          /\ index \in [Buckets -> SUBSET Indexes]
        BY DEF Inv, Types
    <2>3. context' \in [Buckets -> {None} \cup Nat] /\ \A c \in Buckets : context'[c] \in {None, context[c]}
        BY <2>1, <2>2
    <2>4. usage' \in [Buckets -> {None} \cup Usages] /\ \A c \in Buckets : usage'[c] \in {None, usage[c]}
        BY <2>1, <2>2
    <2>5. index' \in [Buckets -> SUBSET Indexes]
        BY <2>1, <2>2
    <2> QED BY <2>3, <2>4, <2>5
<1>2. UNCHANGED <<store, answers, threads, effects, asker, writer, worker>>
    BY DEF Cleanup, tasks
<1>3. Lines' /\ Elsewhere(Worker) /\ (Done(Worker)' <=> Done(Worker)) /\ (Queued(Worker)' <=> Queued(Worker))
    BY <1>2, QueuesStay, Actors DEF Inv
<1>4. Beside(Worker) /\ UNCHANGED <<live, dirty, rows, events, version, contextVersion>>
    BY <1>2, <1>3 DEF Beside, store, threads
<1>5. AnswersSound'
    BY <1>2, <1>4, CachesStay, Actors
<1>6. ContextsFollow'
    BY <1>1, <1>4, WritersStay, Actors DEF Inv, ContextsFollow
<1>7. UsageSound'
    BY <1>1, <1>4, WritersStay, Actors DEF Inv, UsageSound
<1>8. /\ answers' \in Seq(Effects) /\ effects' \in Seq(Effects)
      /\ worker' \in WorkerRec /\ (worker'.pc = "put" => worker'.item \in Effects)
      /\ worker'.pc = "idle" => ~Done(Worker)' /\ ~Queued(Worker)'
    BY <1>2, <1>3 DEF Inv, Types, Placed
<1> QED BY <1>1, <1>2, <1>3, <1>4, <1>5, <1>6, <1>7, <1>8, WorkerMoves

-----------------------------------------------------------------------------
(* Steps of a writer. *)

\* Whose commit waits for its publication still has the storage thread.
LEMMA Publishing ==
    ASSUME Inv, NEW w \in Writers, publishing = w
    PROVE  Queued(w) /\ ~Done(w) /\ jobs # <<>> /\ Head(jobs) = w /\ writer[w].pc \in {"write", "append"}
<1>1. jobs # <<>> /\ Head(jobs) = w
    BY Actors DEF Inv, Lines
<1>2. Queued(w) /\ ~Done(w)
    BY <1>1, DropFirst, Actors DEF Inv, Lines, Queued
<1>3. writer[w].pc \in {"write", "append"}
    BY Actors DEF Inv, Types, Placed, WriterRec
<1> QED BY <1>1, <1>2, <1>3

\* A step of writer w between two storage tasks, or after the last: it has
\* dropped what it owed to the caches.
LEMMA WriterMoves ==
    ASSUME Inv, NEW w \in Writers, NEW wr \in WriterRec, writer' = [writer EXCEPT ![w] = wr],
           Lines', Elsewhere(w), publishing' = publishing, publishing # w,
           ~Done(w)', wr.pc = "idle" => ~Queued(w)', wr.pc = "append" => rows[wr.bucket] > 0,
           UNCHANGED <<store, answers, effects, asker, worker>>,
           \A q \in Askers : \A b : Owes(w, b) => ~Ahead(q, w),
           context' \in [Buckets -> {None} \cup Nat],
           \A b \in Buckets : context'[b] = None \/ (context'[b] = context[b] /\ ~Owes(w, b)),
           usage' \in [Buckets -> {None} \cup Usages],
           \A b \in Buckets : usage'[b] \in {None, usage[b]},
           index' \in [Buckets -> SUBSET Indexes]
    PROVE  Inv'
<1>1. UNCHANGED <<live, rows, events, version, contextVersion, dirty>>
    BY DEF store
<1>2. writer' \in [Writers -> WriterRec] /\ writer'[w] = wr /\ \A v \in Writers \ {w} : writer'[v] = writer[v]
    BY DEF Inv, Types
<1>3. /\ \A r \in Tasks \ {w} : (Done(r)' <=> Done(r)) /\ (Queued(r)' <=> Queued(r))
      /\ \A r, s \in Tasks \ {w} : Ahead(r, s)' <=> Ahead(r, s)
    BY DEF Elsewhere
<1>4. Types'
    BY <1>1, <1>2 DEF Inv, Types
<1>5. Placed'
    <2>1. \A q \in Askers : (Done(q)' <=> Done(q)) /\ (Queued(q)' <=> Queued(q))
        BY <1>3, Actors
    <2>2. \A v \in Writers : writer'[v].pc = "idle" => ~Done(v)' /\ ~Queued(v)'
        BY <1>2, <1>3, Actors DEF Inv, Placed
    <2>3. worker'.pc = "idle" => ~Done(Worker)' /\ ~Queued(Worker)'
        BY <1>3, Actors DEF Inv, Placed
    <2>4. publishing' # None => writer'[publishing'].pc # "idle"
        BY <1>2 DEF Inv, Placed, Types
    <2> QED BY <2>1, <2>2, <2>3, <2>4 DEF Inv, Placed
<1>6. ~Committed(w)' /\ \A v \in Writers \ {w} : Committed(v)' <=> Committed(v)
    BY <1>3, Actors DEF Committed
<1>7. \A b : ~Owes(w, b)' /\ \A v \in Writers \ {w} : Owes(v, b)' <=> Owes(v, b)
    BY <1>2, <1>6 DEF Owes
<1>8. \A b : Republishing(b)' <=> Republishing(b)
    BY <1>2 DEF Republishing, Inv, Types
<1>9. Founded'
    BY <1>1, <1>2, <1>6 DEF Inv, Founded
<1>10. AnswersSound'
    BY <1>1 DEF Inv, AnswersSound, Sound, IsNow
<1>11. ContextsFollow'
    BY <1>1, <1>7 DEF Inv, ContextsFollow
<1>12. UsageSound'
    BY <1>1, <1>8 DEF Inv, UsageSound
<1>13. ASSUME NEW q \in Askers PROVE AskerSound(q)'
    <2>1. AskerSound(q) /\ (Done(q)' <=> Done(q)) /\ Top(q)' = Top(q)
        BY <1>3, Actors DEF Inv, Top
    <2>2. \A v \in Writers \ {w} : (Ahead(v, q)' <=> Ahead(v, q)) /\ (Ahead(q, v)' <=> Ahead(q, v))
        BY <1>3, Actors
    <2>3. FramesSound(q)'
        BY <1>1, <2>1 DEF AskerSound, FramesSound, IsNow, RowsNow, EventsNow
    <2>4. ReadingSound(q)'
        BY <1>1, <2>1 DEF AskerSound, ReadingSound, IsNow, RowsNow, EventsNow
    <2>5. Follows(q)'
        <3>1. asker'[q].pc \in {"lookup", "lookup_degraded", "load", "empty"} /\ Top(q)'.context = contextVersion' =>
                  \A v \in Writers : Owes(v, Top(q).bucket)' => Ahead(v, q)'
            BY <1>1, <1>7, <2>1, <2>2 DEF AskerSound, Follows
        <3>2. asker'[q].pc = "ranked" /\ Top(q)'.context = contextVersion' => \A v \in Writers : ~Owes(v, Top(q).bucket)'
            BY <1>1, <1>7, <2>1 DEF AskerSound, Follows
        <3>3. asker'[q].pc = "context" /\ Done(q)' =>
                  \/ Top(q)'.events = events'[Top(q)'.bucket]
                  \/ \E v \in Writers : Owes(v, Top(q).bucket)' /\ Ahead(q, v)'
            BY <1>1, <1>7, <2>1, <2>2 DEF AskerSound, Follows
        <3> QED BY <2>1, <3>1, <3>2, <3>3 DEF Follows, Owes
    <2>6. Counting(q)'
        BY <1>1, <1>8, <2>1 DEF AskerSound, Counting
    <2> QED BY <2>3, <2>4, <2>5, <2>6 DEF AskerSound
<1> QED BY <1>4, <1>5, <1>9, <1>10, <1>11, <1>12, <1>13 DEF Inv

LEMMA StartRevisionKeeps ==
    ASSUME Inv, NEW w \in Writers, NEW b \in Buckets, StartRevision(w, b)
    PROVE  Inv'
<1> DEFINE wr == [pc |-> "write", bucket |-> b]
<1>1. /\ writer[w].pc = "idle" /\ writer' = [writer EXCEPT ![w] = wr]
      /\ UNCHANGED <<store, answers, context, usage, index, effects, asker, worker>>
    BY DEF StartRevision, caches
<1>2. wr \in WriterRec /\ wr.pc = "write"
    BY DEF WriterRec
<1> HIDE DEF wr
<1>3. ~Done(w) /\ ~Queued(w) /\ publishing # w /\ \A c : ~Owes(w, c)
    BY <1>1, Actors DEF Inv, Placed, Owes
<1>4. Lines' /\ Elsewhere(w) /\ publishing' = publishing /\ ~Done(w)'
    BY <1>3, StorageGets, Actors DEF StartRevision, Starts, Submit, Inv
<1>5. /\ context' \in [Buckets -> {None} \cup Nat]
      /\ usage' \in [Buckets -> {None} \cup Usages] /\ index' \in [Buckets -> SUBSET Indexes]
    BY <1>1 DEF Inv, Types
<1>6. \A c \in Buckets : context'[c] = context[c] /\ usage'[c] = usage[c]
    BY <1>1
<1> QED BY <1>1, <1>2, <1>3, <1>4, <1>5, <1>6, WriterMoves

LEMMA AppendEventKeeps ==
    ASSUME Inv, NEW w \in Writers, AppendEvent(w)
    PROVE  Inv'
<1> DEFINE wr == [writer[w] EXCEPT !.pc = "append"]
<1>1. /\ writer[w].pc = "write" /\ writer' = [writer EXCEPT ![w] = wr]
      /\ UNCHANGED <<store, answers, context, usage, index, effects, asker, worker>>
    BY DEF AppendEvent, WriterAt, caches, Inv, Types
<1>2. writer[w] \in WriterRec
    BY DEF Inv, Types
<1>3. wr \in WriterRec /\ wr.pc = "append" /\ wr.bucket = writer[w].bucket
    BY <1>2 DEF WriterRec
<1> HIDE DEF wr
<1>4. /\ Lines' /\ Elsewhere(w) /\ publishing' = publishing /\ Done(w) /\ ~Queued(w) /\ ~Done(w)'
      /\ \A q \in Askers : ~Ahead(q, w)
    BY LoopAwaits, Actors DEF AppendEvent, Awaits, Submit, Inv
<1>5. publishing # w /\ rows[wr.bucket] > 0 /\ \A c : ~Owes(w, c)
    BY <1>1, <1>3, <1>4, Publishing DEF Inv, Founded, Committed, Owes
<1>6. /\ context' \in [Buckets -> {None} \cup Nat]
      /\ usage' \in [Buckets -> {None} \cup Usages] /\ index' \in [Buckets -> SUBSET Indexes]
    BY <1>1 DEF Inv, Types
<1>7. \A c \in Buckets : context'[c] = context[c] /\ usage'[c] = usage[c]
    BY <1>1
<1> QED BY <1>1, <1>3, <1>4, <1>5, <1>6, <1>7, WriterMoves

LEMMA InvalidateKeeps ==
    ASSUME Inv, NEW w \in Writers, Invalidate(w)
    PROVE  Inv'
<1> DEFINE wr == [writer[w] EXCEPT !.pc = "idle"]
           b == writer[w].bucket
<1>1. /\ writer[w].pc = "append" /\ writer' = [writer EXCEPT ![w] = wr]
      /\ context' = [context EXCEPT ![b] = None]
      /\ usage' = [usage EXCEPT ![b] = None]
      /\ index' = [index EXCEPT ![b] = {i \in @ : i.version = version[b]}]
      /\ UNCHANGED <<store, answers, effects, asker, worker>>
    BY DEF Invalidate, WriterAt, Inv, Types
<1>2. writer[w] \in WriterRec
    BY DEF Inv, Types
<1>3. wr \in WriterRec /\ wr.pc = "idle"
    BY <1>2 DEF WriterRec
<1> HIDE DEF wr
<1>4. /\ Lines' /\ Elsewhere(w) /\ publishing' = publishing /\ Done(w) /\ ~Queued(w) /\ ~Done(w)' /\ ~Queued(w)'
      /\ \A q \in Askers : ~Ahead(q, w)
    BY LoopResumes, Actors DEF Invalidate, Resumes, Inv
<1>5. publishing # w
    BY <1>4, Publishing
<1>6. \A c \in Buckets : c # b => ~Owes(w, c)
    BY DEF Owes
<1>7. b \in Buckets
    BY <1>2 DEF WriterRec
<1> HIDE DEF b
<1>8. /\ context' \in [Buckets -> {None} \cup Nat]
      /\ \A c \in Buckets : context'[c] = IF c = b THEN None ELSE context[c]
    BY <1>1 DEF Inv, Types
<1>9. /\ usage' \in [Buckets -> {None} \cup Usages]
      /\ \A c \in Buckets : usage'[c] = IF c = b THEN None ELSE usage[c]
    BY <1>1 DEF Inv, Types
<1>10. index' \in [Buckets -> SUBSET Indexes]
    BY <1>1, <1>7 DEF Inv, Types
<1> QED BY <1>1, <1>3, <1>4, <1>5, <1>6, <1>8, <1>9, <1>10, WriterMoves

\* Writer w commits in bucket b: everything read before is of an older context
\* version, and the cached context of b is owed an invalidation once the event
\* is in.
LEMMA CommitKeeps ==
    ASSUME Inv, NEW w \in Writers, writer[w].pc \in {"write", "append"}, Commits(w),
           NEW b \in Buckets, writer[w].bucket = b,
           rows' \in [Buckets -> Nat], events' \in [Buckets -> Nat], rows'[b] > 0,
           \A c \in Buckets : c # b => rows'[c] = rows[c] /\ events'[c] = events[c],
           writer[w].pc = "write" => events'[b] = events[b],
           contextVersion' = contextVersion + 1, dirty' = TRUE,
           UNCHANGED <<live, version, answers, context, usage, index, effects, asker, writer, worker>>
    PROVE  Inv'
<1>1. publishing = None /\ publishing' = w /\ jobs # <<>> /\ Head(jobs) = w /\ UNCHANGED <<jobs, ready>>
    BY DEF Commits
<1>2. /\ \A t \in Tasks : (Done(t)' <=> Done(t)) /\ (Queued(t)' <=> Queued(t))
      /\ \A s, t \in Tasks : Ahead(s, t)' <=> Ahead(s, t)
      /\ Queued(w) /\ contextVersion \in Nat
    BY <1>1, DropFirst, Actors DEF Done, Queued, Ahead, Inv, Lines, Types
<1>3. Lines'
    BY <1>1 DEF Inv, Lines, Done, Queued
<1>4. Types'
    BY <1>1, <1>2 DEF Inv, Types
<1>5. Placed'
    BY <1>1, <1>2, Actors DEF Inv, Placed
<1>6. Committed(w)' /\ ~Done(w) /\ \A v \in Writers \ {w} : Committed(v)' <=> Committed(v)
    BY <1>1, <1>2, Actors DEF Committed, Inv, Lines
<1>7. \A v \in Writers : \A c : Owes(v, c) => Owes(v, c)'
    BY <1>1, <1>2, <1>6 DEF Owes, Committed
<1>8. writer[w].pc = "append" => Owes(w, b)'
    BY <1>6 DEF Owes
<1>9. \A c \in Buckets : ~Republishing(c) /\ (Republishing(c)' <=> c = b)
    BY <1>1, Actors DEF Republishing
<1>10. Founded'
    <2>1. \A c \in Buckets : rows'[c] = 0 => events'[c] = 0
        BY DEF Inv, Founded
    <2>2. \A v \in Writers \ {w} :
             writer[v].pc = "append" \/ (writer[v].pc = "write" /\ Committed(v)) => rows'[writer[v].bucket] > 0
        BY DEF Inv, Founded, Types, WriterRec
    <2> QED BY <1>6, <2>1, <2>2 DEF Founded
<1>11. \A c \in Buckets : events'[c] = events[c] \/ (c = b /\ writer[w].pc = "append")
    OBVIOUS
<1>12. \A n \in Nat : n <= contextVersion => n <= contextVersion' /\ n # contextVersion'
    BY <1>2
<1>13. AnswersSound'
    <2>1. \A x \in Effects : Sound(x) => x.key.context <= contextVersion' /\ x.key.context # contextVersion'
        BY <1>12 DEF Sound, Effects, Keys
    <2>2. /\ \A i \in 1..Len(answers) : answers[i] \in Effects /\ Sound(answers[i])
          /\ \A i \in 1..Len(effects) : effects[i] \in Effects /\ Sound(effects[i])
          /\ worker.pc = "put" => worker.item \in Effects /\ Sound(worker.item)
        BY DEF Inv, Types, AnswersSound
    <2> QED BY <2>1, <2>2 DEF AnswersSound, Sound, IsNow
<1>14. ContextsFollow'
    BY <1>7, <1>8, <1>11 DEF Inv, ContextsFollow
<1>15. UsageSound'
    BY <1>9 DEF Inv, UsageSound
<1>16. ASSUME NEW q \in Askers PROVE AskerSound(q)'
    <2>1. AskerSound(q) /\ (Done(q)' <=> Done(q)) /\ Top(q)' = Top(q) /\ asker[q] \in AskerRec
        BY <1>2, Actors DEF Inv, Top, Types
    <2>2. \A i \in 1..Len(asker[q].stack) :
             asker[q].stack[i].context <= contextVersion' /\ asker[q].stack[i].context # contextVersion'
        <3>1. \A i \in 1..Len(asker[q].stack) : asker[q].stack[i].context \in Nat
            <4>1. asker[q].stack \in Seq(Frames)
                BY <2>1 DEF AskerRec
            <4>2. \A i \in 1..Len(asker[q].stack) : asker[q].stack[i] \in Frames
                BY <4>1
            <4> QED BY <4>2 DEF Frames
        <3> QED BY <1>12, <2>1, <3>1 DEF AskerSound, FramesSound
    <2>3. Len(asker[q].stack) = 2 => 1 \in 1..Len(asker[q].stack)
        OBVIOUS
    <2>4. FramesSound(q)'
        BY <2>1, <2>2, <2>3 DEF AskerSound, FramesSound, IsNow, RowsNow, EventsNow
    <2>5. asker[q].pc \notin Afield => Top(q).context # contextVersion' /\ Top(q).bucket \in Buckets
        BY <1>12, AtBucket
    <2>6. ReadingSound(q)'
        BY <2>1, <2>5 DEF AskerSound, ReadingSound, IsNow, RowsNow, EventsNow, Afield
    <2>7. asker[q].pc = "context" /\ Done(q) =>
            \/ Top(q).events = events'[Top(q).bucket]
            \/ \E v \in Writers : Owes(v, Top(q).bucket)' /\ Ahead(q, v)
        <3>1. SUFFICES ASSUME asker[q].pc = "context", Done(q), Top(q).events # events'[Top(q).bucket]
                       PROVE  \E v \in Writers : Owes(v, Top(q).bucket)' /\ Ahead(q, v)
            OBVIOUS
        <3>2. Top(q).bucket \in Buckets
            BY <2>5, <3>1 DEF Afield
        <3>3. CASE Top(q).bucket = b /\ writer[w].pc = "append"
            <4>1. Owes(w, Top(q).bucket)'
                BY <1>8, <2>1, <3>3 DEF Owes
            <4>2. Ahead(q, w)
                BY <1>2, <3>1 DEF Ahead
            <4> QED BY <4>1, <4>2
        <3>4. CASE events'[Top(q).bucket] = events[Top(q).bucket]
            BY <1>7, <2>1, <3>1, <3>4 DEF AskerSound, Follows
        <3> QED BY <1>11, <3>2, <3>3, <3>4
    <2>8. Follows(q)'
        <3>1. \A v \in Writers : Ahead(q, v)' <=> Ahead(q, v)
            BY <1>2, Actors
        <3>2. /\ asker'[q].pc \in {"lookup", "lookup_degraded", "load", "empty"} => Top(q)'.context # contextVersion'
              /\ asker'[q].pc = "ranked" => Top(q)'.context # contextVersion'
            BY <2>1, <2>5 DEF Afield
        <3>3. asker'[q].pc = "context" /\ Done(q)' =>
                \/ Top(q)'.events = events'[Top(q)'.bucket]
                \/ \E v \in Writers : Owes(v, Top(q).bucket)' /\ Ahead(q, v)'
            BY <2>1, <2>7, <3>1
        <3> QED BY <2>1, <3>2, <3>3 DEF Follows, Owes
    <2>9. Counting(q)'
        <3>1. asker[q].bucket \in Buckets
            BY <2>1 DEF AskerRec
        <3> QED BY <1>9, <2>1, <3>1 DEF AskerSound, Counting
    <2> QED BY <2>4, <2>6, <2>8, <2>9 DEF AskerSound
<1> QED BY <1>3, <1>4, <1>5, <1>10, <1>13, <1>14, <1>15, <1>16 DEF Inv

LEMMA CommitRevisionKeeps ==
    ASSUME Inv, NEW w \in Writers, CommitRevision(w)
    PROVE  Inv'
<1> DEFINE b == writer[w].bucket
<1>1. /\ writer[w].pc = "write" /\ Commits(w) /\ rows' = [rows EXCEPT ![b] = @ + 1]
      /\ contextVersion' = contextVersion + 1 /\ dirty' = TRUE
      /\ UNCHANGED <<live, events, version, answers, context, usage, index, effects, asker, writer, worker>>
    BY DEF CommitRevision, caches, tasks
<1>2. b \in Buckets
    BY DEF Inv, Types, WriterRec
<1>3. b = writer[w].bucket
    OBVIOUS
<1> HIDE DEF b
<1>4. /\ rows' \in [Buckets -> Nat] /\ rows'[b] > 0 /\ \A c \in Buckets : c # b => rows'[c] = rows[c]
      /\ events' \in [Buckets -> Nat] /\ events' = events
    BY <1>1, <1>2 DEF Inv, Types
<1> QED BY <1>1, <1>2, <1>3, <1>4, CommitKeeps

LEMMA CommitEventKeeps ==
    ASSUME Inv, NEW w \in Writers, CommitEvent(w)
    PROVE  Inv'
<1> DEFINE b == writer[w].bucket
<1>1. /\ writer[w].pc = "append" /\ Commits(w) /\ events' = [events EXCEPT ![b] = @ + 1]
      /\ contextVersion' = contextVersion + 1 /\ dirty' = TRUE
      /\ UNCHANGED <<live, rows, version, answers, context, usage, index, effects, asker, writer, worker>>
    BY DEF CommitEvent, caches, tasks
<1>2. b \in Buckets
    BY DEF Inv, Types, WriterRec
<1>3. b = writer[w].bucket
    OBVIOUS
<1> HIDE DEF b
<1>4. rows' \in [Buckets -> Nat] /\ rows' = rows /\ rows[b] > 0
    BY <1>1, <1>3 DEF Inv, Types, Founded
<1>5. events' \in [Buckets -> Nat] /\ \A c \in Buckets : c # b => events'[c] = events[c]
    BY <1>1, <1>2 DEF Inv, Types
<1> QED BY <1>1, <1>2, <1>3, <1>4, <1>5, CommitKeeps

LEMMA PublishKeeps ==
    ASSUME Inv, NEW w \in Writers, Publish(w)
    PROVE  Inv'
<1> DEFINE b == writer[w].bucket
<1>1. /\ publishing = w /\ publishing' = None /\ version' = [version EXCEPT ![b] = @ + 1]
      /\ jobs' = Tail(jobs) /\ ready' = Append(ready, w)
      /\ UNCHANGED <<live, rows, events, contextVersion, dirty, answers, context, usage, index, effects,
                     asker, writer, worker>>
    BY DEF Publish, caches, tasks
<1>2. b \in Buckets
    BY DEF Inv, Types, WriterRec
<1>3. b = writer[w].bucket
    OBVIOUS
<1> HIDE DEF b
<1>4. jobs # <<>> /\ Head(jobs) = w /\ writer[w].pc # "idle"
    BY <1>1, Publishing
<1>5. /\ Lines' /\ Done(w)' /\ ~Queued(w)'
      /\ \A t \in Tasks \ {w} : (Done(t)' <=> Done(t)) /\ (Queued(t)' <=> Queued(t))
      /\ \A s, t \in Tasks : Ahead(s, t)' <=> Ahead(s, t)
    BY <1>1, <1>4, StorageEnds, Actors DEF Elsewhere, Inv
<1>6. /\ version' \in [Buckets -> Nat] /\ version'[b] = version[b] + 1
      /\ \A c \in Buckets : c # b => version'[c] = version[c]
    BY <1>1, <1>2 DEF Inv, Types
<1>7. Types'
    BY <1>1, <1>6 DEF Inv, Types
<1>8. Placed'
    BY <1>1, <1>4, <1>5, Actors DEF Inv, Placed
<1>9. \A v \in Writers : Committed(v)' <=> Committed(v)
    BY <1>1, <1>5, Actors DEF Committed
<1>10. \A v \in Writers : \A c : Owes(v, c)' <=> Owes(v, c)
    BY <1>1, <1>9 DEF Owes
<1>11. \A c \in Buckets : Republishing(c) => c = b
    BY <1>1, <1>3 DEF Republishing
<1>12. Founded'
    BY <1>1, <1>9 DEF Inv, Founded
<1>13. AnswersSound'
    BY <1>1 DEF Inv, AnswersSound, Sound, IsNow
<1>14. ContextsFollow'
    BY <1>1, <1>10 DEF Inv, ContextsFollow
<1>15. \A c \in Buckets : \A n \in Nat : n <= version[c] =>
          n <= version'[c] /\ (n = version'[c] => c # b /\ n = version[c])
    BY <1>6 DEF Inv, Types
<1>16. UsageSound'
    <2>1. \A c \in Buckets : usage[c] # None => usage[c].version \in Nat
        BY DEF Inv, Types, Usages
    <2> QED BY <1>1, <1>11, <1>15, <2>1 DEF Inv, UsageSound
<1>17. ASSUME NEW q \in Askers PROVE AskerSound(q)'
    <2>1. AskerSound(q) /\ (Done(q)' <=> Done(q)) /\ Top(q)' = Top(q) /\ asker[q] \in AskerRec
        BY <1>1, <1>5, Actors DEF Inv, Top, Types
    <2>2. FramesSound(q)'
        BY <1>1, <2>1 DEF AskerSound, FramesSound, IsNow, RowsNow, EventsNow
    <2>3. ReadingSound(q)'
        BY <1>1, <2>1 DEF AskerSound, ReadingSound, IsNow, RowsNow, EventsNow
    <2>4. Follows(q)'
        BY <1>1, <1>5, <1>10, <2>1, Actors DEF AskerSound, Follows
    <2>5. Counting(q)'
        <3>1. asker[q].bucket \in Buckets /\ asker[q].version \in Nat
            BY <2>1 DEF AskerRec
        <3> QED BY <1>1, <1>11, <1>15, <2>1, <3>1 DEF AskerSound, Counting
    <2> QED BY <2>2, <2>3, <2>4, <2>5 DEF AskerSound
<1> QED BY <1>5, <1>7, <1>8, <1>12, <1>13, <1>14, <1>16, <1>17 DEF Inv

-----------------------------------------------------------------------------
(* The invariant. *)

LEMMA InitInv == Init => Inv
<1> SUFFICES ASSUME Init PROVE Inv
    OBVIOUS
<1>1. PICK used \in BOOLEAN :
        /\ live = IF used THEN Buckets ELSE {Root}
        /\ rows = [b \in Buckets |-> IF used THEN 1 ELSE 0]
        /\ events = rows /\ dirty = used
    BY DEF Init
<1>2. /\ version = [b \in Buckets |-> 0] /\ contextVersion = 0 /\ answers = <<>> /\ effects = <<>>
      /\ context = [b \in Buckets |-> None] /\ usage = [b \in Buckets |-> None] /\ index = [b \in Buckets |-> {}]
      /\ jobs = <<>> /\ ready = <<>> /\ publishing = None
      /\ asker = [q \in Askers |-> Idle]
      /\ writer = [w \in Writers |-> [pc |-> "idle", bucket |-> Root]]
      /\ worker = [pc |-> "idle", item |-> None]
    BY DEF Init
<1>3. Len(jobs) = 0 /\ Len(ready) = 0 /\ Len(answers) = 0 /\ Len(effects) = 0
    BY <1>2
<1>4. \A t : ~Done(t) /\ ~Queued(t)
    BY <1>3 DEF Done, Queued, In
<1>5. Lines
    BY <1>2, <1>3, <1>4 DEF Lines, Once
<1>6. Idle \in AskerRec /\ Idle.pc = "idle" /\ Idle.stack = <<>>
    <2>1. [b \in Buckets |-> 0] \in [Buckets -> Nat] /\ <<>> \in Seq(Buckets) /\ <<>> \in Seq(Frames)
        OBVIOUS
    <2>2. Root \in Buckets
        BY DEF Buckets
    <2> QED BY <2>1, <2>2 DEF Idle, AskerRec, AskerPCs
<1>7. \A q \in Askers : asker[q] = Idle
    BY <1>2
<1>8. asker \in [Askers -> AskerRec]
    BY <1>2, <1>6
<1>9. Types
    <2>1. live \subseteq Buckets /\ rows \in [Buckets -> Nat] /\ events \in [Buckets -> Nat] /\ dirty \in BOOLEAN
        BY <1>1 DEF Buckets
    <2>2. writer \in [Writers -> WriterRec] /\ worker \in WorkerRec /\ worker.pc = "idle"
        BY <1>2 DEF WriterRec, WorkerRec, Buckets
    <2>3. answers \in Seq(Effects) /\ effects \in Seq(Effects)
        BY <1>2
    <2> QED BY <1>2, <1>8, <2>1, <2>2, <2>3 DEF Types
<1>10. Placed
    <2>1. Len(Idle.stack) <= 2
        BY <1>6
    <2> QED BY <1>2, <1>4, <1>6, <1>7, <2>1 DEF Placed, Afield
<1>11. Founded
    BY <1>1, <1>2 DEF Founded
<1>12. AnswersSound /\ ContextsFollow /\ UsageSound
    BY <1>2, <1>3 DEF AnswersSound, ContextsFollow, UsageSound
<1>13. ASSUME NEW q \in Askers PROVE AskerSound(q)
    <2>1. Len(asker[q].stack) = 0 /\ asker[q].pc = "idle"
        BY <1>6, <1>7
    <2> QED BY <2>1 DEF AskerSound, FramesSound, ReadingSound, Follows, Counting
<1> QED BY <1>5, <1>9, <1>10, <1>11, <1>12, <1>13 DEF Inv

LEMMA StutterKeeps ==
    ASSUME Inv, UNCHANGED vars
    PROVE  Inv'
<1>1. UNCHANGED <<live, rows, events, version, contextVersion, dirty, answers, context, usage, index,
                  jobs, ready, publishing, effects, asker, writer, worker>>
    BY DEF vars, store, caches, threads, tasks
<1>2. /\ \A t : (Done(t)' <=> Done(t)) /\ (Queued(t)' <=> Queued(t))
      /\ \A s, t : Ahead(s, t)' <=> Ahead(s, t)
    BY <1>1 DEF Done, Queued, Ahead
<1>3. Lines' /\ Elsewhere(Worker)
    BY <1>1, <1>2 DEF Inv, Lines, Elsewhere
<1>4. Beside(Worker)
    BY <1>1, <1>3 DEF Beside
<1>5. AnswersSound' /\ ContextsFollow' /\ UsageSound'
    BY <1>1, <1>4, CachesStay, Actors
<1>6. /\ answers' \in Seq(Effects) /\ effects' \in Seq(Effects) /\ context' \in [Buckets -> {None} \cup Nat]
      /\ usage' \in [Buckets -> {None} \cup Usages] /\ index' \in [Buckets -> SUBSET Indexes]
      /\ worker' \in WorkerRec /\ (worker'.pc = "put" => worker'.item \in Effects)
    BY <1>1 DEF Inv, Types
<1>7. worker'.pc = "idle" => ~Done(Worker)' /\ ~Queued(Worker)'
    BY <1>1, <1>2 DEF Inv, Placed
<1> QED BY <1>1, <1>3, <1>4, <1>5, <1>6, <1>7, WorkerMoves

LEMMA StepInv == Inv /\ [Next]_vars => Inv'
<1> SUFFICES ASSUME Inv, [Next]_vars PROVE Inv'
    OBVIOUS
<1>1. ASSUME NEW w \in Writers, Writes(w) PROVE Inv'
    BY <1>1, StartRevisionKeeps, CommitRevisionKeeps, CommitEventKeeps, PublishKeeps, AppendEventKeeps, InvalidateKeeps
       DEF Writes
<1>2. ASSUME NEW q \in Askers, StartQuery(q) \/ Recalls(q) PROVE Inv'
    BY <1>2, StartQueryKeeps, LoadScannedKeeps, RankScannedKeeps, QueryRootKeeps DEF Recalls
<1>3. ASSUME NEW q \in Askers, Queries(q) PROVE Inv'
    BY <1>3, ReadMetaKeeps, ComputeKeysKeeps, LookUpKeeps, HitKeeps, MissKeeps, LoadRecordsKeeps, NoMemoryKeeps,
       StoreEmptyKeeps, AnswerEmptyKeeps, RankRecordsKeeps, ReadContextKeeps, LoadContextKeeps, FillContextKeeps,
       DescendKeeps, AnswerKeeps DEF Queries
<1>4. ASSUME NEW q \in Askers, Counts(q) \/ \E b \in Buckets : AskUsage(q, b) PROVE Inv'
    BY <1>4, CountTokensKeeps, StoreUsageKeeps, AskUsageKeeps DEF Counts
<1>5. ASSUME Works PROVE Inv'
    BY <1>5, TakeEffectKeeps, StoreAnswerKeeps, EffectDoneKeeps DEF Works
<1>6. ASSUME NEW b \in Buckets, Cleanup(b) PROVE Inv'
    BY <1>6, CleanupKeeps
<1> QED BY <1>1, <1>2, <1>3, <1>4, <1>5, <1>6, StutterKeeps DEF Next

LEMMA InvImplies == Inv => AnswersCurrent /\ ContextCurrent /\ UsageCurrent
<1> SUFFICES ASSUME Inv PROVE AnswersCurrent /\ ContextCurrent /\ UsageCurrent
    OBVIOUS
<1>1. AnswersCurrent
    <2>1. ASSUME NEW a \in ToSet(answers), a.key.context = contextVersion
          PROVE  \A s \in a.seen : s.rows = rows[s.bucket] /\ s.events = events[s.bucket]
        <3>1. PICK i \in 1..Len(answers) : a = answers[i]
            BY <2>1 DEF ToSet, Inv, Types
        <3> QED BY <2>1, <3>1 DEF Inv, AnswersSound, Sound, IsNow
    <2> QED BY <2>1 DEF AnswersCurrent
<1>2. ContextCurrent
    BY DEF Inv, ContextsFollow, Owes, ContextCurrent
<1>3. UsageCurrent
    BY DEF Inv, UsageSound, Usable, Republishing, UsageCurrent
<1> QED BY <1>1, <1>2, <1>3

\* For every number of askers and writers, every depth of the recall and every
\* size of the queue and the table: an answer that would be looked up was made
\* from what is in the store (set_query_cache, _append_context_event).
THEOREM AnswersFresh == Spec => []AnswersCurrent
<1> QED BY InitInv, StepInv, InvImplies, PTL DEF Spec

-----------------------------------------------------------------------------
(* The indexes. *)

\* How the queues move under asker q.
LEMMA QueueMoves ==
    ASSUME Inv, NEW q \in Askers
    PROVE  /\ AtStorage(q) => Elsewhere(q) /\ publishing' = publishing /\ Done(q)'
           /\ Resumes(q) => Elsewhere(q) /\ publishing' = publishing /\ Done(q) /\ ~Done(q)'
           /\ Awaits(q) => Elsewhere(q) /\ publishing' = publishing /\ Done(q) /\ ~Done(q)'
           /\ Starts(q) /\ asker[q].pc \in OnLoopOnly => Elsewhere(q) /\ publishing' = publishing /\ ~Done(q)'
           /\ UNCHANGED threads => Elsewhere(q) /\ publishing' = publishing
<1>1. Lines /\ q \in Tasks
    BY Actors DEF Inv
<1>2. AtStorage(q) => Elsewhere(q) /\ publishing' = publishing /\ Done(q)'
    BY <1>1, StorageEnds DEF AtStorage
<1>3. Resumes(q) => Elsewhere(q) /\ publishing' = publishing /\ Done(q) /\ ~Done(q)'
    BY <1>1, LoopResumes DEF Resumes
<1>4. Awaits(q) => Elsewhere(q) /\ publishing' = publishing /\ Done(q) /\ ~Done(q)'
    BY <1>1, LoopAwaits DEF Awaits, Submit
<1>5. Starts(q) /\ asker[q].pc \in OnLoopOnly => Elsewhere(q) /\ publishing' = publishing /\ ~Done(q)'
    <2>1. asker[q].pc \in OnLoopOnly => ~Done(q) /\ ~Queued(q)
        BY DEF Inv, Placed
    <2> QED BY <1>1, <2>1, StorageGets DEF Starts, Submit
<1>6. UNCHANGED threads => Elsewhere(q) /\ publishing' = publishing
    BY <1>1, QueuesStay DEF threads
<1> QED BY <1>2, <1>3, <1>4, <1>5, <1>6

\* A step of no writer, which adds to an index what it may.
LEMMA IndexesStay ==
    ASSUME Inv, IndexSound, NEW t \in Tasks \ Writers, Beside(t),
           \A r \in Askers \ {t} : asker'[r] = asker[r],
           t \in Askers => LoadsSound(t)',
           \A b \in Buckets : \A i \in index'[b] :
              i \in index[b] \/ (i.version = version[b] /\ (i.late \/ i.rows = rows[b] \/ MayLag(b)))
    PROVE  IndexSound'
<1>1. \A w \in Writers : (Queued(w)' <=> Queued(w)) /\ (Committed(w)' <=> Committed(w))
    BY WritersStay
<1>2. /\ writer' = writer /\ UNCHANGED <<rows, version>>
      /\ \A r, s \in Tasks \ {t} : (Done(s)' <=> Done(s)) /\ (Ahead(r, s)' <=> Ahead(r, s))
    BY DEF Beside, Elsewhere
<1>3. \A b : MayLag(b)' <=> MayLag(b)
    BY <1>1, <1>2 DEF MayLag
<1>4. version \in [Buckets -> Nat]
    BY DEF Inv, Types
<1>5. ASSUME NEW b \in Buckets, NEW i \in index'[b]
      PROVE  i.version <= version'[b] /\ (i.version = version'[b] => i.late \/ i.rows = rows'[b] \/ MayLag(b)')
    BY <1>2, <1>3, <1>4, <1>5 DEF IndexSound
<1>6. ASSUME NEW r \in Askers \ {t} PROVE LoadsSound(r)'
    <2>1. LoadsSound(r) /\ (Done(r)' <=> Done(r)) /\ Top(r)' = Top(r) /\ asker'[r] = asker[r]
        BY <1>2, Actors DEF IndexSound, Top
    <2>2. \A w \in Writers : Ahead(r, w)' <=> Ahead(r, w)
        BY <1>2, Actors
    <2>3. \A b, n : Loaded(r, b, n) => (n = rows'[b] \/ \E w \in Writers :
                writer'[w].bucket = b /\ writer'[w].pc = "write" /\ Committed(w)' /\ Ahead(r, w)')
        BY <1>1, <1>2, <2>2 DEF Loaded
    <2>4. (asker[r].pc = "recall" /\ Done(r) =>
              \A b \in Buckets : asker[r].snap[b] > 0 => Loaded(r, b, asker[r].snap[b]))'
        BY <2>1, <2>3 DEF LoadsSound, Loaded
    <2>5. (asker[r].pc = "load" /\ Done(r) => Loaded(r, Top(r).bucket, Top(r).rows))'
        <3>1. asker[r].pc = "load" /\ Done(r) => Loaded(r, Top(r).bucket, Top(r).rows)
            BY <2>1 DEF LoadsSound
        <3>2. asker[r].pc = "load" /\ Done(r) =>
                 \/ Top(r).rows = rows'[Top(r).bucket]
                 \/ \E w \in Writers : writer'[w].bucket = Top(r).bucket /\ writer'[w].pc = "write"
                                      /\ Committed(w)' /\ Ahead(r, w)'
            BY <2>3, <3>1
        <3> QED BY <2>1, <3>2 DEF Loaded
    <2> QED BY <2>1, <2>4, <2>5 DEF LoadsSound
<1>7. \A q \in Askers : LoadsSound(q)'
    BY <1>6
<1> QED BY <1>5, <1>7 DEF IndexSound, MayLag

\* A step of asker q that leaves the indexes alone, and loads no records.
LEMMA ElsewhereLoaded ==
    ASSUME Inv, IndexSound, NEW q \in Askers, NEW a, asker' = [asker EXCEPT ![q] = a],
           Elsewhere(q), publishing' = publishing, UNCHANGED <<store, index, writer>>,
           a.pc \notin {"recall", "ranking", "load"} \/ (a.pc = "load" /\ ~Done(q)')
    PROVE  IndexSound'
<1>1. asker'[q] = a /\ \A r \in Askers \ {q} : asker'[r] = asker[r]
    BY DEF Inv, Types
<1>2. Beside(q)
    BY DEF Beside, store
<1>3. LoadsSound(q)'
    BY <1>1 DEF LoadsSound
<1> QED BY <1>1, <1>2, <1>3, IndexesStay, Actors

LEMMA AtPlace ==
    ASSUME Inv, NEW q \in Askers, NEW p, NEW f, AskerAt(q, p, f)
    PROVE  asker' = [asker EXCEPT ![q] = At(q, p, f)] /\ At(q, p, f).pc = p
<1>1. asker' = [asker EXCEPT ![q] = At(q, p, f)]
    BY DEF Inv, Types, AskerAt, At
<1>2. asker[q] \in AskerRec
    BY DEF Inv, Types
<1> QED BY <1>1, <1>2 DEF At, AskerRec

LEMMA ReturnPlace ==
    ASSUME Inv, NEW q \in Askers, NEW seen, Return(q, seen)
    PROVE  \E a : asker' = [asker EXCEPT ![q] = a] /\ a.pc \in {"idle", "merge"}
<1> DEFINE rest == Front(asker[q].stack)
           back == Append(Front(rest), [Last(rest) EXCEPT !.seen = @ \cup seen])
           n == asker[q].asked
<1>1. asker[q] \in AskerRec
    BY DEF Inv, Types
<1>2. CASE rest = <<>>
    <2>1. asker' = [asker EXCEPT ![q] = [Idle EXCEPT !.asked = @ + n]]
        BY <1>2 DEF Return
    <2> HIDE DEF n
    <2>2. [Idle EXCEPT !.asked = @ + n].pc = "idle"
        BY DEF Idle
    <2> QED BY <2>1, <2>2
<1>3. CASE rest # <<>>
    <2>1. asker' = [asker EXCEPT ![q] = [asker[q] EXCEPT !.pc = "merge", !.reply = None, !.stack = back]]
        BY <1>3 DEF Return
    <2> HIDE DEF back
    <2>2. [asker[q] EXCEPT !.pc = "merge", !.reply = None, !.stack = back].pc = "merge"
        BY <1>1 DEF AskerRec
    <2> QED BY <2>1, <2>2
<1> QED BY <1>2, <1>3

\* The steps in which a query neither loads records nor ranks them.
LEMMA RootIndex ==
    ASSUME Inv, IndexSound, NEW q \in Askers, QueryRoot(q) \/ ReadMeta(q)
    PROVE  IndexSound'
<1>1. asker[q] \in AskerRec
    BY DEF Inv, Types
<1>2. CASE QueryRoot(q)
    <2> DEFINE a == [asker[q] EXCEPT !.pc = "meta", !.left = <<>>, !.snap = Idle.snap, !.stack = <<Frame(Root)>>]
    <2>1. asker' = [asker EXCEPT ![q] = a] /\ a.pc = "meta" /\ UNCHANGED <<store, index, writer>>
        BY <1>1, <1>2 DEF QueryRoot, Inv, Types, caches, AskerRec
    <2>2. Elsewhere(q) /\ publishing' = publishing
        BY <1>2, QueueMoves DEF QueryRoot, OnLoopOnly
    <2> HIDE DEF a
    <2> QED BY <2>1, <2>2, ElsewhereLoaded
<1>3. CASE ReadMeta(q)
    <2> DEFINE a == [asker[q] EXCEPT !.clean = ~dirty]
    <2>1. asker' = [asker EXCEPT ![q] = a] /\ a.pc = "meta" /\ UNCHANGED <<store, index, writer>>
        BY <1>1, <1>3 DEF ReadMeta, Inv, Types, caches, AskerRec
    <2>2. Elsewhere(q) /\ publishing' = publishing
        BY <1>3, QueueMoves DEF ReadMeta
    <2> HIDE DEF a
    <2> QED BY <2>1, <2>2, ElsewhereLoaded
<1> QED BY <1>2, <1>3

LEMMA KeysIndex ==
    ASSUME Inv, IndexSound, NEW q \in Askers, ComputeKeys(q) \/ LookUp(q) \/ Hit(q) \/ Miss(q)
    PROVE  IndexSound'
<1>1. CASE ComputeKeys(q)
    <2>1. PICK p, f : p \in {"lookup", "load"} /\ AskerAt(q, p, f)
        BY <1>1 DEF ComputeKeys
    <2>2. Elsewhere(q) /\ publishing' = publishing /\ ~Done(q)' /\ UNCHANGED <<store, index, writer>>
        BY <1>1, QueueMoves DEF ComputeKeys, caches
    <2> QED BY <2>1, <2>2, AtPlace, ElsewhereLoaded
<1>2. CASE LookUp(q)
    <2>1. PICK r : asker' = [asker EXCEPT ![q].reply = r]
        BY <1>2 DEF LookUp
    <2>2. asker[q] \in AskerRec /\ asker[q].pc \in {"lookup", "lookup_degraded"} /\ UNCHANGED <<store, index, writer>>
        BY <1>2 DEF LookUp, Inv, Types, caches
    <2> DEFINE a == [asker[q] EXCEPT !.reply = r]
    <2>3. asker' = [asker EXCEPT ![q] = a] /\ a.pc = asker[q].pc
        BY <2>1, <2>2 DEF Inv, Types, AskerRec
    <2>4. Elsewhere(q) /\ publishing' = publishing
        BY <1>2, QueueMoves DEF LookUp
    <2> HIDE DEF a
    <2> QED BY <2>2, <2>3, <2>4, ElsewhereLoaded
<1>3. CASE Hit(q)
    <2>1. Elsewhere(q) /\ publishing' = publishing /\ UNCHANGED <<store, index, writer>>
        BY <1>3, QueueMoves DEF Hit, caches
    <2> QED BY <1>3, <2>1, ReturnPlace, ElsewhereLoaded DEF Hit
<1>4. CASE Miss(q)
    <2>1. PICK p, f : p \in {"lookup_degraded", "load"} /\ AskerAt(q, p, f)
        BY <1>4 DEF Miss
    <2>2. Elsewhere(q) /\ publishing' = publishing /\ ~Done(q)' /\ UNCHANGED <<store, index, writer>>
        BY <1>4, QueueMoves DEF Miss, caches
    <2> QED BY <2>1, <2>2, AtPlace, ElsewhereLoaded
<1> QED BY <1>1, <1>2, <1>3, <1>4

LEMMA EmptyIndex ==
    ASSUME Inv, IndexSound, NEW q \in Askers, NoMemory(q) \/ StoreEmpty(q) \/ AnswerEmpty(q)
    PROVE  IndexSound'
<1>1. CASE NoMemory(q)
    <2>1. Elsewhere(q) /\ publishing' = publishing /\ UNCHANGED <<store, index, writer>> /\ AskerAt(q, "empty", Top(q))
        BY <1>1, QueueMoves DEF NoMemory, caches
    <2> QED BY <2>1, AtPlace, ElsewhereLoaded
<1>2. CASE StoreEmpty(q)
    <2>1. Elsewhere(q) /\ publishing' = publishing /\ UNCHANGED <<store, index, writer>>
        BY <1>2, QueueMoves DEF StoreEmpty, caches, tasks
    <2>2. asker' = [asker EXCEPT ![q] = asker[q]] /\ asker[q].pc = "empty"
        BY <1>2 DEF StoreEmpty, tasks, Inv, Types
    <2> DEFINE a == asker[q]
    <2>3. asker' = [asker EXCEPT ![q] = a] /\ a.pc = "empty"
        BY <2>2
    <2> HIDE DEF a
    <2> QED BY <2>1, <2>3, ElsewhereLoaded
<1>3. CASE AnswerEmpty(q)
    <2>1. Elsewhere(q) /\ publishing' = publishing /\ UNCHANGED <<store, index, writer>>
        BY <1>3, QueueMoves DEF AnswerEmpty, caches
    <2> QED BY <1>3, <2>1, ReturnPlace, ElsewhereLoaded DEF AnswerEmpty
<1> QED BY <1>1, <1>2, <1>3

LEMMA ContextIndex ==
    ASSUME Inv, IndexSound, NEW q \in Askers, ReadContext(q) \/ LoadContext(q) \/ FillContext(q)
    PROVE  IndexSound'
<1>1. CASE ReadContext(q)
    <2>1. PICK p, f : p \in {"llm", "context"} /\ AskerAt(q, p, f)
        BY <1>1 DEF ReadContext
    <2>2. Elsewhere(q) /\ publishing' = publishing /\ UNCHANGED <<store, index, writer>>
        BY <1>1, QueueMoves DEF ReadContext, caches, OnLoopOnly
    <2> QED BY <2>1, <2>2, AtPlace, ElsewhereLoaded
<1>2. CASE LoadContext(q)
    <2>1. PICK f : AskerAt(q, "context", f)
        BY <1>2 DEF LoadContext
    <2>2. Elsewhere(q) /\ publishing' = publishing /\ UNCHANGED <<store, index, writer>>
        BY <1>2, QueueMoves DEF LoadContext, caches
    <2> QED BY <2>1, <2>2, AtPlace, ElsewhereLoaded
<1>3. CASE FillContext(q)
    <2>1. Elsewhere(q) /\ publishing' = publishing /\ UNCHANGED <<store, index, writer>> /\ AskerAt(q, "llm", Top(q))
        BY <1>3, QueueMoves DEF FillContext
    <2> QED BY <2>1, AtPlace, ElsewhereLoaded
<1> QED BY <1>1, <1>2, <1>3

LEMMA AnswerIndex ==
    ASSUME Inv, IndexSound, NEW q \in Askers, Descend(q) \/ Answer(q)
    PROVE  IndexSound'
<1>1. CASE Descend(q)
    <2>1. PICK s : asker' = [asker EXCEPT ![q].pc = "meta", ![q].stack = s]
        BY <1>1 DEF Descend
    <2>2. asker[q] \in AskerRec /\ UNCHANGED <<store, index, writer>>
        BY <1>1 DEF Descend, caches, Inv, Types
    <2> DEFINE a == [asker[q] EXCEPT !.pc = "meta", !.stack = s]
    <2>3. asker' = [asker EXCEPT ![q] = a] /\ a.pc = "meta"
        BY <2>1, <2>2 DEF Inv, Types, AskerRec
    <2>4. Elsewhere(q) /\ publishing' = publishing
        BY <1>1, QueueMoves DEF Descend, OnLoopOnly
    <2> HIDE DEF a
    <2> QED BY <2>2, <2>3, <2>4, ElsewhereLoaded
<1>2. CASE Answer(q)
    <2>1. Elsewhere(q) /\ publishing' = publishing /\ UNCHANGED <<store, index, writer>>
        BY <1>2, QueueMoves DEF Answer, caches
    <2> QED BY <1>2, <2>1, ReturnPlace, ElsewhereLoaded DEF Answer
<1> QED BY <1>1, <1>2

LEMMA CountsIndex ==
    ASSUME Inv, IndexSound, NEW q \in Askers, Counts(q) \/ \E b \in Buckets : AskUsage(q, b)
    PROVE  IndexSound'
<1>1. asker[q] \in AskerRec
    BY DEF Inv, Types
<1>2. CASE CountTokens(q)
    <2> DEFINE a == [asker[q] EXCEPT !.tokens = events[asker[q].bucket]]
    <2>1. asker' = [asker EXCEPT ![q] = a] /\ a.pc = "count" /\ UNCHANGED <<store, index, writer>>
        BY <1>1, <1>2 DEF CountTokens, Inv, Types, caches, AskerRec
    <2>2. Elsewhere(q) /\ publishing' = publishing
        BY <1>2, QueueMoves DEF CountTokens
    <2> HIDE DEF a
    <2> QED BY <2>1, <2>2, ElsewhereLoaded
<1>3. CASE StoreUsage(q)
    <2> DEFINE a == [Idle EXCEPT !.asked = asker[q].asked]
    <2>1. asker' = [asker EXCEPT ![q] = a] /\ a.pc = "idle" /\ UNCHANGED <<store, index, writer>>
        BY <1>3 DEF StoreUsage, Idle
    <2>2. Elsewhere(q) /\ publishing' = publishing
        BY <1>3, QueueMoves DEF StoreUsage
    <2> HIDE DEF a
    <2> QED BY <2>1, <2>2, ElsewhereLoaded
<1>4. ASSUME NEW b \in Buckets, AskUsage(q, b) PROVE IndexSound'
    <2>1. asker[q].pc = "idle" /\ UNCHANGED <<store, index, writer>>
        BY <1>4 DEF AskUsage, caches
    <2>2. Elsewhere(q) /\ publishing' = publishing
        BY <1>4, QueueMoves DEF AskUsage, OnLoopOnly
    <2>3. CASE asker' = [asker EXCEPT ![q].asked = @ + 1]
        <3> DEFINE a == [asker[q] EXCEPT !.asked = @ + 1]
        <3>1. asker' = [asker EXCEPT ![q] = a] /\ a.pc = "idle"
            BY <1>1, <2>1, <2>3 DEF Inv, Types, AskerRec
        <3> HIDE DEF a
        <3> QED BY <2>1, <2>2, <3>1, ElsewhereLoaded
    <2>4. CASE asker' = [asker EXCEPT ![q].pc = "count", ![q].asked = @ + 1,
                                      ![q].bucket = b, ![q].version = version[b]]
        <3> DEFINE a == [asker[q] EXCEPT !.pc = "count", !.asked = @ + 1, !.bucket = b, !.version = version[b]]
        <3>1. asker' = [asker EXCEPT ![q] = a] /\ a.pc = "count"
            BY <1>1, <2>4 DEF Inv, Types, AskerRec
        <3> HIDE DEF a
        <3> QED BY <2>1, <2>2, <3>1, ElsewhereLoaded
    <2> QED BY <1>4, <2>3, <2>4 DEF AskUsage
<1> QED BY <1>2, <1>3, <1>4 DEF Counts

LEMMA ScanIndex ==
    ASSUME Inv, IndexSound, NEW q \in Askers, StartQuery(q) \/ LoadScanned(q)
    PROVE  IndexSound'
<1>1. /\ asker[q] \in AskerRec /\ \A r \in Askers \ {q} : asker'[r] = asker[r]
      /\ UNCHANGED <<store, index, writer>>
    BY DEF Inv, Types, StartQuery, LoadScanned, caches
<1>2. CASE StartQuery(q)
    <2>1. Elsewhere(q) /\ publishing' = publishing /\ ~Done(q)'
        BY <1>2, QueueMoves DEF StartQuery, OnLoopOnly
    <2>2. asker'[q].pc = "recall"
        BY <1>1, <1>2 DEF StartQuery, Inv, Types, AskerRec
    <2>3. LoadsSound(q)'
        BY <2>1, <2>2 DEF LoadsSound
    <2>4. Beside(q)
        BY <1>1, <2>1 DEF Beside, store
    <2> QED BY <1>1, <2>3, <2>4, IndexesStay, Actors
<1>3. CASE LoadScanned(q)
    <2> DEFINE s == [b \in Buckets |-> IF b \in ToSet(asker[q].left) THEN rows[b] ELSE 0]
    <2>1. \A b \in Buckets : s[b] > 0 => s[b] = rows[b]
        OBVIOUS
    <2>2. asker' = [asker EXCEPT ![q].snap = s] /\ asker[q].pc = "recall"
        BY <1>3 DEF LoadScanned
    <2> HIDE DEF s
    <2>3. asker'[q].pc = "recall" /\ asker'[q].snap = s
        BY <1>1, <2>2 DEF Inv, Types, AskerRec
    <2>4. Elsewhere(q) /\ publishing' = publishing
        BY <1>3, QueueMoves DEF LoadScanned
    <2>5. Beside(q) /\ rows' = rows
        BY <1>1, <2>4 DEF Beside, store
    <2>6. \A b \in Buckets : asker'[q].snap[b] > 0 => asker'[q].snap[b] = rows'[b]
        BY <2>1, <2>3, <2>5
    <2>7. LoadsSound(q)'
        BY <2>3, <2>6 DEF LoadsSound, Loaded
    <2> QED BY <1>1, <2>5, <2>7, IndexesStay, Actors
<1> QED BY <1>2, <1>3

\* An index built over n records of b: late, or when they were just loaded.
LEMMA Built ==
    ASSUME Inv, NEW q \in Askers, NEW b \in Buckets, NEW n, NEW late \in BOOLEAN,
           late \/ Loaded(q, b, n), GetOrBuild(b, n, late)
    PROVE  \A c \in Buckets : \A i \in index'[c] :
              i \in index[c] \/ (i.version = version[c] /\ (i.late \/ i.rows = rows[c] \/ MayLag(c)))
<1>1. late \/ n = rows[b] \/ MayLag(b)
    BY DEF Loaded, MayLag
<1> DEFINE new == [version |-> version[b], rows |-> n, late |-> late]
<1>2. \A c \in Buckets : index'[c] = index[c] \/ (c = b /\ index'[c] = index[c] \cup {new})
    BY DEF GetOrBuild, Inv, Types
<1>3. new.version = version[b] /\ new.rows = n /\ (new.late <=> late)
    OBVIOUS
<1> HIDE DEF new
<1> QED BY <1>1, <1>2, <1>3

LEMMA RankScannedIndex ==
    ASSUME Inv, IndexSound, NEW q \in Askers, RankScanned(q)
    PROVE  IndexSound'
<1>1. PICK i \in Unranked(q) :
        /\ GetOrBuild(asker[q].left[i], asker[q].snap[asker[q].left[i]], asker[q].pc = "ranking")
        /\ asker' = [asker EXCEPT ![q].pc = "ranking", ![q].left = SubSeq(@, i + 1, Len(@))]
    BY DEF RankScanned
<1> DEFINE b == asker[q].left[i]
           late == asker[q].pc = "ranking"
<1>2. asker[q] \in AskerRec /\ LoadsSound(q) /\ i \in DOMAIN asker[q].left /\ asker[q].snap[b] > 0
    BY DEF Inv, Types, IndexSound, Unranked
<1>3. b \in Buckets /\ late \in BOOLEAN
    BY <1>2 DEF AskerRec
<1>4. Elsewhere(q) /\ publishing' = publishing /\ (late \/ (asker[q].pc = "recall" /\ Done(q)))
    BY QueueMoves DEF RankScanned
<1>5. late \/ Loaded(q, b, asker[q].snap[b])
    BY <1>2, <1>3, <1>4 DEF LoadsSound
<1>6. GetOrBuild(b, asker[q].snap[b], late)
    BY <1>1
<1>7. asker'[q].pc = "ranking" /\ \A r \in Askers \ {q} : asker'[r] = asker[r]
    BY <1>1, <1>2 DEF Inv, Types, AskerRec
<1>8. LoadsSound(q)'
    BY <1>7 DEF LoadsSound
<1>9. Beside(q)
    BY <1>4 DEF RankScanned, Beside, store
<1> HIDE DEF b, late
<1>10. \A c \in Buckets : \A x \in index'[c] :
         x \in index[c] \/ (x.version = version[c] /\ (x.late \/ x.rows = rows[c] \/ MayLag(c)))
    BY <1>3, <1>5, <1>6, Built
<1> QED BY <1>7, <1>8, <1>9, <1>10, IndexesStay, Actors

LEMMA LoadRecordsIndex ==
    ASSUME Inv, IndexSound, NEW q \in Askers, LoadRecords(q)
    PROVE  IndexSound'
<1> DEFINE f == [Top(q) EXCEPT !.rows = rows[Top(q).bucket]]
<1>1. AskerAt(q, "load", f) /\ asker[q].pc = "load" /\ UNCHANGED <<store, index, writer>>
    BY DEF LoadRecords, caches
<1>2. asker[q].stack # <<>> /\ Top(q) \in Frames /\ Top(q).bucket \in Buckets
    BY <1>1, AtBucket DEF Afield
<1>3. f \in Frames /\ f.bucket = Top(q).bucket /\ f.rows = rows[Top(q).bucket]
    BY <1>2 DEF Frames, Inv, Types
<1> HIDE DEF f
<1>4. Top(q)' = f /\ asker'[q].pc = "load" /\ \A r \in Askers \ {q} : asker'[r] = asker[r]
    BY <1>1, <1>2, <1>3, AtFrame DEF Inv, Types, AskerPCs
<1>5. Elsewhere(q) /\ publishing' = publishing
    BY QueueMoves DEF LoadRecords
<1>6. Beside(q) /\ rows' = rows
    BY <1>1, <1>5 DEF Beside, store
<1>7. Loaded(q, Top(q).bucket, Top(q).rows)'
    BY <1>3, <1>4, <1>6 DEF Loaded
<1>8. LoadsSound(q)'
    BY <1>4, <1>7 DEF LoadsSound
<1> QED BY <1>1, <1>4, <1>6, <1>8, IndexesStay, Actors

LEMMA RankRecordsIndex ==
    ASSUME Inv, IndexSound, NEW q \in Askers, RankRecords(q)
    PROVE  IndexSound'
<1>1. asker[q].pc = "load" /\ GetOrBuild(Top(q).bucket, Top(q).rows, FALSE) /\ AskerAt(q, "ranked", Top(q))
    BY DEF RankRecords
<1>2. Elsewhere(q) /\ publishing' = publishing /\ Done(q)
    BY QueueMoves DEF RankRecords
<1>3. Top(q).bucket \in Buckets
    BY <1>1, AtBucket DEF Afield
<1>4. Loaded(q, Top(q).bucket, Top(q).rows)
    BY <1>1, <1>2 DEF IndexSound, LoadsSound
<1>5. \A c \in Buckets : \A i \in index'[c] :
         i \in index[c] \/ (i.version = version[c] /\ (i.late \/ i.rows = rows[c] \/ MayLag(c)))
    BY <1>1, <1>3, <1>4, Built
<1>6. asker'[q].pc = "ranked" /\ \A r \in Askers \ {q} : asker'[r] = asker[r]
    BY <1>1, AtPlace DEF Inv, Types
<1>7. LoadsSound(q)'
    BY <1>6 DEF LoadsSound
<1>8. Beside(q)
    BY <1>2 DEF RankRecords, Beside, store
<1> QED BY <1>5, <1>6, <1>7, <1>8, IndexesStay, Actors

\* The worker, the cleanup, and no step at all.
LEMMA WorkerIndex ==
    ASSUME Inv, IndexSound, Works \/ (\E b \in Buckets : Cleanup(b)) \/ UNCHANGED vars
    PROVE  IndexSound'
<1>1. UNCHANGED <<store, writer, asker>>
    BY DEF Works, TakeEffect, StoreAnswer, EffectDone, Cleanup, vars, tasks
<1>2. \A b \in Buckets : index'[b] \subseteq index[b]
    BY DEF Works, TakeEffect, StoreAnswer, EffectDone, Cleanup, vars, caches, Inv, Types
<1>3. Elsewhere(Worker) /\ publishing' = publishing
    <2>1. CASE TakeEffect
        <3>1. ~Done(Worker) /\ ~Queued(Worker)
            BY <2>1 DEF TakeEffect, Inv, Placed
        <3> QED BY <2>1, <3>1, StorageGets, Actors DEF TakeEffect, Starts, Submit, Inv
    <2>2. CASE StoreAnswer
        BY <2>2, StorageEnds, Actors DEF StoreAnswer, AtStorage, Inv
    <2>3. CASE EffectDone
        BY <2>3, LoopResumes, Actors DEF EffectDone, Resumes, Inv
    <2>4. CASE UNCHANGED threads
        BY <2>4, QueuesStay, Actors DEF Inv, threads
    <2> QED BY <2>1, <2>2, <2>3, <2>4 DEF Works, Cleanup, vars
<1>4. Beside(Worker)
    BY <1>1, <1>3 DEF Beside, store
<1>5. \A r \in Askers \ {Worker} : asker'[r] = asker[r]
    BY <1>1
<1>6. \A b \in Buckets : \A i \in index'[b] : i \in index[b]
    BY <1>2
<1> QED BY <1>4, <1>5, <1>6, IndexesStay, Actors

\* A step of a writer.
LEMMA WriterIndex ==
    ASSUME Inv, IndexSound, asker' = asker, \A q \in Askers : Done(q)' <=> Done(q),
           \A q \in Askers : \A b \in Buckets : \A n : Done(q) /\ Loaded(q, b, n) => Loaded(q, b, n)',
           \A b \in Buckets : index'[b] \subseteq index[b],
           \A b \in Buckets :
              \/ version'[b] = version[b] + 1
              \/ /\ version'[b] = version[b]
                 /\ rows'[b] = rows[b] \/ MayLag(b)'
                 /\ MayLag(b) => MayLag(b)'
    PROVE  IndexSound'
<1>1. ASSUME NEW b \in Buckets, NEW i \in index'[b]
      PROVE  i.version <= version'[b] /\ (i.version = version'[b] => i.late \/ i.rows = rows'[b] \/ MayLag(b)')
    <2>1. /\ i.version \in Nat /\ version[b] \in Nat
          /\ i.version <= version[b] /\ (i.version = version[b] => i.late \/ i.rows = rows[b] \/ MayLag(b))
        BY <1>1 DEF IndexSound, Inv, Types, Indexes
    <2> QED BY <2>1
<1>2. ASSUME NEW q \in Askers PROVE LoadsSound(q)'
    <2>1. LoadsSound(q) /\ Top(q)' = Top(q)
        BY DEF IndexSound, Top
    <2>3. (asker[q].pc = "recall" /\ Done(q) =>
              \A b \in Buckets : asker[q].snap[b] > 0 => Loaded(q, b, asker[q].snap[b]))'
        <3>1. asker[q].pc = "recall" /\ Done(q) =>
                 \A b \in Buckets : asker[q].snap[b] > 0 => Loaded(q, b, asker[q].snap[b])
            BY <2>1 DEF LoadsSound
        <3>2. asker[q].pc = "recall" /\ Done(q) =>
                 \A b \in Buckets : asker[q].snap[b] > 0 =>
                    \/ asker[q].snap[b] = rows'[b]
                    \/ \E w \in Writers : writer'[w].bucket = b /\ writer'[w].pc = "write"
                                         /\ Committed(w)' /\ Ahead(q, w)'
            BY <3>1 DEF Loaded
        <3> QED BY <3>2 DEF Loaded
    <2>4. (asker[q].pc = "load" /\ Done(q) => Loaded(q, Top(q).bucket, Top(q).rows))'
        <3>1. asker[q].pc = "load" /\ Done(q) => Loaded(q, Top(q).bucket, Top(q).rows) /\ Top(q).bucket \in Buckets
            BY <2>1, AtBucket DEF LoadsSound, Afield
        <3>2. asker[q].pc = "load" /\ Done(q) =>
                 \/ Top(q).rows = rows'[Top(q).bucket]
                 \/ \E w \in Writers : writer'[w].bucket = Top(q).bucket /\ writer'[w].pc = "write"
                                      /\ Committed(w)' /\ Ahead(q, w)'
            BY <3>1 DEF Loaded
        <3> QED BY <2>1, <3>2 DEF Loaded
    <2> QED BY <2>1, <2>3, <2>4 DEF LoadsSound
<1> QED BY <1>1, <1>2 DEF IndexSound

LEMMA CommitIndex ==
    ASSUME Inv, IndexSound, NEW w \in Writers, CommitRevision(w) \/ CommitEvent(w)
    PROVE  IndexSound'
<1>1. /\ Commits(w) /\ UNCHANGED <<version, index, asker, writer>>
      /\ rows' = rows \/ (writer[w].pc = "write" /\ rows' = [rows EXCEPT ![writer[w].bucket] = @ + 1])
    BY DEF CommitRevision, CommitEvent, caches, tasks
<1>2. publishing = None /\ publishing' = w /\ jobs # <<>> /\ Head(jobs) = w /\ UNCHANGED <<jobs, ready>>
    BY <1>1 DEF Commits
<1>3. /\ \A t \in Tasks : (Done(t)' <=> Done(t)) /\ (Queued(t)' <=> Queued(t))
      /\ \A s, t \in Tasks : Ahead(s, t)' <=> Ahead(s, t)
      /\ Queued(w)
    BY <1>2, DropFirst, Actors DEF Done, Queued, Ahead, Inv, Lines
<1>4. Committed(w)' /\ \A v \in Writers : Committed(v) => Committed(v)'
    BY <1>2, <1>3, Actors DEF Committed
<1>5. \A b \in Buckets : MayLag(b) => MayLag(b)'
    BY <1>1, <1>3, <1>4, Actors DEF MayLag
<1>6. \A b \in Buckets : rows'[b] = rows[b] \/ (b = writer[w].bucket /\ writer[w].pc = "write")
    BY <1>1 DEF Inv, Types
<1>7. \A b \in Buckets : rows'[b] = rows[b] \/ MayLag(b)'
    BY <1>1, <1>4, <1>6 DEF MayLag
<1>8. ASSUME NEW q \in Askers, NEW b \in Buckets, NEW n, Done(q), Loaded(q, b, n) PROVE Loaded(q, b, n)'
    <2>1. Ahead(q, w)' /\ \A v \in Writers : Ahead(q, v)' <=> Ahead(q, v)
        BY <1>3, <1>8, Actors DEF Ahead
    <2>2. CASE b = writer[w].bucket /\ writer[w].pc = "write"
        BY <1>1, <1>4, <2>1, <2>2 DEF Loaded
    <2>3. CASE rows'[b] = rows[b]
        BY <1>1, <1>4, <1>8, <2>1, <2>3 DEF Loaded
    <2> QED BY <1>6, <2>2, <2>3
<1> QED BY <1>1, <1>3, <1>5, <1>7, <1>8, WriterIndex, Actors

LEMMA PublishIndex ==
    ASSUME Inv, IndexSound, NEW w \in Writers, Publish(w)
    PROVE  IndexSound'
<1> DEFINE b == writer[w].bucket
<1>1. /\ publishing = w /\ publishing' = None /\ version' = [version EXCEPT ![b] = @ + 1]
      /\ jobs' = Tail(jobs) /\ ready' = Append(ready, w)
      /\ UNCHANGED <<rows, index, asker, writer>>
    BY DEF Publish, caches, tasks
<1>2. b \in Buckets
    BY DEF Inv, Types, WriterRec
<1>3. b = writer[w].bucket
    OBVIOUS
<1> HIDE DEF b
<1>4. jobs # <<>> /\ Head(jobs) = w
    BY <1>1, Publishing
<1>5. /\ Done(w)'
      /\ \A t \in Tasks \ {w} : (Done(t)' <=> Done(t)) /\ (Queued(t)' <=> Queued(t))
      /\ \A s, t \in Tasks : Ahead(s, t)' <=> Ahead(s, t)
    BY <1>1, <1>4, StorageEnds, Actors DEF Elsewhere, Inv
<1>6. \A v \in Writers : Committed(v)' <=> Committed(v)
    BY <1>1, <1>5, Actors DEF Committed
<1>7. \A c \in Buckets : c # b /\ MayLag(c) => MayLag(c)'
    BY <1>1, <1>3, <1>5, <1>6, Actors DEF MayLag
<1>8. \A c \in Buckets : version'[c] = IF c = b THEN version[c] + 1 ELSE version[c]
    BY <1>1, <1>2 DEF Inv, Types
<1>9. ASSUME NEW q \in Askers, NEW c \in Buckets, NEW n, Loaded(q, c, n) PROVE Loaded(q, c, n)'
    BY <1>1, <1>5, <1>6, <1>9, Actors DEF Loaded
<1> QED BY <1>1, <1>5, <1>7, <1>8, <1>9, WriterIndex, Actors

\* Between its storage tasks a writer is behind nobody.
LEMMA BetweenIndex ==
    ASSUME Inv, IndexSound, NEW w \in Writers,
           AppendEvent(w) \/ Invalidate(w) \/ \E b \in Buckets : StartRevision(w, b)
    PROVE  IndexSound'
<1>1. UNCHANGED <<store, asker>> /\ UNCHANGED <<rows, version>>
    BY DEF AppendEvent, Invalidate, StartRevision, store
<1>2. \A v \in Writers \ {w} : writer'[v] = writer[v]
    BY DEF AppendEvent, Invalidate, StartRevision, WriterAt, Inv, Types
<1>3. writer \in [Writers -> WriterRec] /\ writer[w] \in WriterRec
    BY DEF Inv, Types
<1>4. CASE AppendEvent(w)
    <2>1. writer[w].pc = "write" /\ writer'[w].pc = "append" /\ writer'[w].bucket = writer[w].bucket /\ index' = index
        BY <1>3, <1>4 DEF AppendEvent, WriterAt, caches, WriterRec
    <2>2. /\ Elsewhere(w) /\ publishing' = publishing /\ Queued(w)'
          /\ \A q \in Askers : ~Ahead(q, w)
        BY <1>4, LoopAwaits, Actors DEF AppendEvent, Awaits, Submit, Inv
    <2>3. \A v \in Writers \ {w} : (Committed(v)' <=> Committed(v)) /\ (Queued(v)' <=> Queued(v))
        BY <2>2, Actors DEF Committed, Elsewhere
    <2>4. \A b \in Buckets : MayLag(b) => MayLag(b)'
        BY <1>2, <2>1, <2>2, <2>3 DEF MayLag
    <2>5. ASSUME NEW q \in Askers, NEW b \in Buckets, NEW n, Loaded(q, b, n) PROVE Loaded(q, b, n)'
        <3>1. \A v \in Writers \ {w} : Ahead(q, v)' <=> Ahead(q, v)
            BY <2>2, Actors DEF Elsewhere
        <3> QED BY <1>1, <1>2, <2>2, <2>3, <2>5, <3>1 DEF Loaded
    <2>6. \A q \in Askers : Done(q)' <=> Done(q)
        BY <2>2, Actors DEF Elsewhere
    <2> QED BY <1>1, <2>1, <2>4, <2>5, <2>6, WriterIndex
<1>5. CASE Invalidate(w)
    <2>1. writer[w].pc = "append" /\ \A b \in Buckets : index'[b] \subseteq index[b]
        BY <1>5 DEF Invalidate, Inv, Types
    <2>2. Elsewhere(w) /\ publishing' = publishing /\ ~Queued(w)
        BY <1>5, LoopResumes, Actors DEF Invalidate, Resumes, Inv
    <2>3. \A v \in Writers \ {w} : (Committed(v)' <=> Committed(v)) /\ (Queued(v)' <=> Queued(v))
        BY <2>2, Actors DEF Committed, Elsewhere
    <2>4. \A b \in Buckets : MayLag(b) => MayLag(b)'
        BY <1>2, <2>1, <2>2, <2>3 DEF MayLag
    <2>5. ASSUME NEW q \in Askers, NEW b \in Buckets, NEW n, Loaded(q, b, n) PROVE Loaded(q, b, n)'
        <3>1. \A v \in Writers \ {w} : Ahead(q, v)' <=> Ahead(q, v)
            BY <2>2, Actors DEF Elsewhere
        <3> QED BY <1>1, <1>2, <2>1, <2>3, <2>5, <3>1 DEF Loaded
    <2>6. \A q \in Askers : Done(q)' <=> Done(q)
        BY <2>2, Actors DEF Elsewhere
    <2> QED BY <1>1, <2>1, <2>4, <2>5, <2>6, WriterIndex
<1>6. ASSUME NEW b \in Buckets, StartRevision(w, b) PROVE IndexSound'
    <2>1. writer[w].pc = "idle" /\ index' = index
        BY <1>6 DEF StartRevision, caches
    <2>2. Elsewhere(w) /\ publishing' = publishing
        <3>1. ~Done(w) /\ ~Queued(w)
            BY <2>1 DEF Inv, Placed
        <3> QED BY <1>6, <3>1, StorageGets, Actors DEF StartRevision, Starts, Submit, Inv
    <2>3. \A v \in Writers \ {w} : (Committed(v)' <=> Committed(v)) /\ (Queued(v)' <=> Queued(v))
        BY <2>2, Actors DEF Committed, Elsewhere
    <2>4. \A c \in Buckets : MayLag(c) => MayLag(c)'
        BY <1>2, <2>1, <2>3 DEF MayLag
    <2>5. ASSUME NEW q \in Askers, NEW c \in Buckets, NEW n, Loaded(q, c, n) PROVE Loaded(q, c, n)'
        <3>1. \A v \in Writers \ {w} : Ahead(q, v)' <=> Ahead(q, v)
            BY <2>2, Actors DEF Elsewhere
        <3> QED BY <1>1, <1>2, <2>1, <2>3, <2>5, <3>1 DEF Loaded
    <2>6. \A q \in Askers : Done(q)' <=> Done(q)
        BY <2>2, Actors DEF Elsewhere
    <2> QED BY <1>1, <2>1, <2>4, <2>5, <2>6, WriterIndex
<1> QED BY <1>4, <1>5, <1>6

LEMMA InitIndex == Init => IndexSound
<1> SUFFICES ASSUME Init PROVE IndexSound
    OBVIOUS
<1>1. index = [b \in Buckets |-> {}] /\ asker = [q \in Askers |-> Idle]
    BY DEF Init
<1>2. \A q \in Askers : asker[q].pc = "idle"
    BY <1>1 DEF Idle
<1> QED BY <1>1, <1>2 DEF IndexSound, LoadsSound

LEMMA StepIndex == Inv /\ IndexSound /\ [Next]_vars => IndexSound'
<1> SUFFICES ASSUME Inv, IndexSound, [Next]_vars PROVE IndexSound'
    OBVIOUS
<1>1. ASSUME NEW w \in Writers, Writes(w) PROVE IndexSound'
    BY <1>1, CommitIndex, PublishIndex, BetweenIndex DEF Writes
<1>2. ASSUME NEW q \in Askers, StartQuery(q) \/ Recalls(q) PROVE IndexSound'
    BY <1>2, ScanIndex, RankScannedIndex, RootIndex DEF Recalls
<1>3. ASSUME NEW q \in Askers, Queries(q) PROVE IndexSound'
    BY <1>3, RootIndex, KeysIndex, EmptyIndex, LoadRecordsIndex, RankRecordsIndex, ContextIndex, AnswerIndex DEF Queries
<1>4. ASSUME NEW q \in Askers, Counts(q) \/ \E b \in Buckets : AskUsage(q, b) PROVE IndexSound'
    BY <1>4, CountsIndex
<1> QED BY <1>1, <1>2, <1>3, <1>4, WorkerIndex DEF Next

LEMMA IndexImplies == IndexSound => IndexCurrent
    BY DEF IndexSound, MayLag, IndexCurrent

\* At every depth of the recall, a cached context and a token count are never
\* older than what they are kept under, and neither is an index, save one that a
\* recall built over records it had loaded before it ranked another bucket
\* (BM25IndexCache, bucket_context, get_context_usage).
THEOREM CachesFresh == Spec => []CachesCurrent
<1>1. Init => Inv /\ IndexSound
    BY InitInv, InitIndex
<1>2. Inv /\ IndexSound /\ [Next]_vars => (Inv /\ IndexSound)'
    BY StepInv, StepIndex
<1>3. Inv /\ IndexSound => CachesCurrent
    BY InvImplies, IndexImplies DEF CachesCurrent
<1> QED BY <1>1, <1>2, <1>3, PTL DEF Spec
=============================================================================
