--------------------------- MODULE RetrievalCaches ---------------------------
(***************************************************************************)
(* What a query reads, and the four caches between it and the store: the   *)
(* bucket context and its token count (MemoryManager), the lexical index   *)
(* of a bucket (BM25IndexCache) and the table of earlier answers (the      *)
(* query_cache table of the SQLite index).                                 *)
(*                                                                         *)
(* Everything that touches the store runs on one storage thread, in the    *)
(* order it was submitted; the rest of a call runs on the event loop, in   *)
(* the order its storage task ended (run_in_executor and call_soon keep    *)
(* the order).  Between the commit of a write and the publication of its   *)
(* in-memory view the event loop may run.  Nothing locks queries out while *)
(* a bucket is written; two writers of one bucket exclude each other       *)
(* (module BucketLocks).                                                   *)
(*                                                                         *)
(* Contents are counted: rows[b] is the number of record revisions written *)
(* in b, events[b] the number of events in its context, so "the answer was *)
(* computed from these records" is a number to compare.  There is one      *)
(* query text; the answer of a language model or a CPU task comes at any   *)
(* time, and a degraded answer is one made without the model.              *)
(***************************************************************************)
EXTENDS Naturals, Sequences, SequencesExt

CONSTANTS Root, Child,   \* the buckets: the root and its only child
          Askers,        \* tasks that query or ask for the size of a context
          Writers,       \* tasks that revise records
          Worker,        \* the side-effect worker
          None,          \* no entry, no task
          RecallDepth,   \* global_recall_depth_limit
          QueueCap,      \* maxsize of the side-effect queue
          TableCap,      \* answers kept in the query_cache table
          Evictable,     \* which caches the cleanup may find idle or too big
          MaxWrites,     \* bound on revisions
          MaxAsks        \* bound on the calls of one asker

Buckets == {Root, Child}
Tasks == Askers \cup Writers \cup {Worker}

ASSUME CachesAssumption ==
    /\ Root # Child /\ None \notin Tasks \cup Buckets
    /\ Askers \cap Writers = {} /\ Worker \notin Askers \cup Writers
    /\ RecallDepth \in Nat \ {0} /\ QueueCap \in Nat \ {0} /\ TableCap \in Nat \ {0}
    /\ Evictable \subseteq {"context", "usage", "index"}
    /\ MaxWrites \in Nat /\ MaxAsks \in Nat

VARIABLES
  live,           \* the buckets of the store
  rows, events,   \* per bucket: revisions written, events in context.json
  version,        \* per bucket: bucket_version, as the view shows it
  contextVersion, \* context_version, as the database shows it
  dirty,          \* the dirty flag
  answers,        \* the query_cache table, in the order of created_seq
  context,        \* per bucket: events in the cached context, or None
  usage,          \* per bucket: the cached token count, or None
  index,          \* per bucket: the cached lexical indexes
  jobs,           \* tasks whose storage task waits, in order
  ready,          \* tasks whose storage task has ended, in order
  publishing,     \* the writer whose commit is not in the view yet, or None
  effects,        \* the side-effect queue: answers to store
  asker, writer, worker \* what each task is at

store == <<live, rows, events, version, contextVersion, dirty>>
caches == <<context, usage, index>>
threads == <<jobs, ready, publishing>>
tasks == <<asker, writer, worker>>
vars == <<store, answers, caches, threads, effects, tasks>>

Idle == [pc |-> "idle", asked |-> 0, left |-> <<>>, snap |-> [b \in Buckets |-> 0],
         stack |-> <<>>, clean |-> FALSE, reply |-> None,
         bucket |-> Root, version |-> 0, tokens |-> 0]

\* A new store has a root without records and is clean; a store in use has a
\* child bucket and is dirty.
Init ==
    \E used \in BOOLEAN :
        /\ live = IF used THEN Buckets ELSE {Root}
        /\ rows = [b \in Buckets |-> IF used THEN 1 ELSE 0]
        /\ events = rows
        /\ version = [b \in Buckets |-> 0]
        /\ contextVersion = 0
        /\ dirty = used
        /\ answers = <<>>
        /\ context = [b \in Buckets |-> None]
        /\ usage = [b \in Buckets |-> None]
        /\ index = [b \in Buckets |-> {}]
        /\ jobs = <<>> /\ ready = <<>> /\ publishing = None
        /\ effects = <<>>
        /\ asker = [q \in Askers |-> Idle]
        /\ writer = [w \in Writers |-> [pc |-> "idle", bucket |-> Root]]
        /\ worker = [pc |-> "idle", item |-> None]

-----------------------------------------------------------------------------
(* The two threads *)

Submit(t) == jobs' = Append(jobs, t)

\* t's storage task runs and ends
AtStorage(t) ==
    /\ publishing = None /\ jobs # <<>> /\ Head(jobs) = t
    /\ jobs' = Tail(jobs) /\ ready' = Append(ready, t)
    /\ UNCHANGED publishing

\* t's storage task commits; Publish ends it
Commits(t) ==
    /\ publishing = None /\ jobs # <<>> /\ Head(jobs) = t
    /\ publishing' = t
    /\ UNCHANGED <<jobs, ready>>

\* the event loop resumes t after its storage task
OnLoop(t) == ready # <<>> /\ Head(ready) = t /\ ready' = Tail(ready)

Resumes(t) == OnLoop(t) /\ UNCHANGED <<jobs, publishing>>
Awaits(t) == OnLoop(t) /\ Submit(t) /\ UNCHANGED publishing
Starts(t) == Submit(t) /\ UNCHANGED <<ready, publishing>>

-----------------------------------------------------------------------------
(* A writer: one revision of a record, then its event, under the lock of   *)
(* the bucket.                                                             *)

\* The writer goes on to pc p.
WriterAt(w, p) == writer' = [writer EXCEPT ![w].pc = p]

StartRevision(w, b) ==
    /\ writer[w].pc = "idle" /\ b \in live /\ contextVersion < 2 * MaxWrites
    /\ \A v \in Writers : writer[v].pc # "idle" => writer[v].bucket # b
    /\ writer' = [writer EXCEPT ![w] = [pc |-> "write", bucket |-> b]]
    /\ Starts(w)
    /\ UNCHANGED <<store, answers, caches, effects, asker, worker>>

\* The latest revision, the dirty flag and the counters, in one transaction.
CommitRevision(w) ==
    /\ writer[w].pc = "write" /\ Commits(w)
    /\ rows' = [rows EXCEPT ![writer[w].bucket] = @ + 1]
    /\ contextVersion' = contextVersion + 1
    /\ dirty' = TRUE
    /\ UNCHANGED <<live, events, version, answers, caches, effects, tasks>>

\* The context file with the event, then the counters again.
CommitEvent(w) ==
    /\ writer[w].pc = "append" /\ Commits(w)
    /\ events' = [events EXCEPT ![writer[w].bucket] = @ + 1]
    /\ contextVersion' = contextVersion + 1
    /\ dirty' = TRUE
    /\ UNCHANGED <<live, rows, version, answers, caches, effects, tasks>>

\* Fault: the append of an event publishes no new version of its bucket.
PublishUnmarked(w) ==
    /\ publishing = w
    /\ publishing' = None
    /\ version' = [version EXCEPT ![writer[w].bucket] = IF writer[w].pc = "write" THEN @ + 1 ELSE @]
    /\ jobs' = Tail(jobs) /\ ready' = Append(ready, w)
    /\ UNCHANGED <<live, rows, events, contextVersion, dirty, answers, caches, effects, tasks>>

\* The view shows the bucket's new version, and the storage task ends.
Publish(w) ==
    /\ publishing = w
    /\ publishing' = None
    /\ version' = [version EXCEPT ![writer[w].bucket] = @ + 1]
    /\ jobs' = Tail(jobs) /\ ready' = Append(ready, w)
    /\ UNCHANGED <<live, rows, events, contextVersion, dirty, answers, caches, effects, tasks>>

AppendEvent(w) ==
    /\ writer[w].pc = "write" /\ Awaits(w) /\ WriterAt(w, "append")
    /\ UNCHANGED <<store, answers, caches, effects, asker, worker>>
\* Fault: the cached context is kept when an event is appended to it.
InvalidateNotContext(w) ==
    LET b == writer[w].bucket IN
    /\ writer[w].pc = "append" /\ Resumes(w) /\ WriterAt(w, "idle")
    /\ usage' = [usage EXCEPT ![b] = None]
    /\ index' = [index EXCEPT ![b] = {i \in @ : i.version = version[b]}]
    /\ UNCHANGED <<store, answers, context, effects, asker, worker>>

Invalidate(w) ==
    LET b == writer[w].bucket IN
    /\ writer[w].pc = "append" /\ Resumes(w) /\ WriterAt(w, "idle")
    /\ context' = [context EXCEPT ![b] = None]
    /\ usage' = [usage EXCEPT ![b] = None]
    /\ index' = [index EXCEPT ![b] = {i \in @ : i.version = version[b]}]
    /\ UNCHANGED <<store, answers, effects, asker, worker>>

-----------------------------------------------------------------------------
(* A query: global recall over the scanned buckets, then the root and, if  *)
(* its answer leads there, the child.  A frame is a bucket being queried,  *)
(* with the versions of its cache keys and what was read for its answer.   *)

Frame(b) == [bucket |-> b, version |-> 0, context |-> 0, rows |-> 0, events |-> 0,
             degraded |-> FALSE, seen |-> {}]
Top(q) == Last(asker[q].stack)
CacheKey(f, degraded) ==
    [bucket |-> f.bucket, version |-> f.version, context |-> f.context, degraded |-> degraded]
Seen(f) == f.seen \cup {[bucket |-> f.bucket, rows |-> f.rows, events |-> f.events]}
Cached(key) == {a \in ToSet(answers) : a.key = key}

\* The table with an answer put in: the newest row, in place of the one of its key.
WithAnswer(key, seen) ==
    LET old == {i \in DOMAIN answers : answers[i].key = key}
        rest == IF old = {} THEN answers ELSE RemoveAt(answers, CHOOSE i \in old : TRUE)
        kept == Append(rest, [key |-> key, seen |-> seen])
    IN  IF Len(kept) > TableCap THEN Tail(kept) ELSE kept

\* q goes on to pc p, in the bucket f.
AskerAt(q, p, f) ==
    asker' = [asker EXCEPT ![q].pc = p, ![q].clean = FALSE, ![q].stack = Append(Front(@), f)]

\* q's bucket is answered from what is in seen: the query ends, or goes on in
\* the bucket it came from.
Return(q, seen) ==
    LET rest == Front(asker[q].stack) IN
    asker' = [asker EXCEPT ![q] =
        IF rest = <<>> THEN [Idle EXCEPT !.asked = @ + asker[q].asked]
        ELSE [@ EXCEPT !.pc = "merge", !.reply = None,
                       !.stack = Append(Front(rest), [Last(rest) EXCEPT !.seen = @ \cup seen])]]

\* The index of this version if there is one, else one over the n records given.
\* late, which the code does not keep, marks an index whose records a recall
\* had loaded before it ranked another bucket.
GetOrBuild(b, n, late) ==
    index' = IF \E i \in index[b] : i.version = version[b] THEN index
             ELSE [index EXCEPT ![b] = @ \cup {[version |-> version[b], rows |-> n, late |-> late]}]

Scanned == IF RecallDepth > 1 /\ Child \in live THEN <<Root, Child>> ELSE <<Root>>

StartQuery(q) ==
    /\ asker[q].pc = "idle" /\ asker[q].asked < MaxAsks
    /\ asker' = [asker EXCEPT ![q].pc = "recall", ![q].left = Scanned, ![q].asked = @ + 1]
    /\ Starts(q)
    /\ UNCHANGED <<store, answers, caches, effects, writer, worker>>

LoadScanned(q) ==
    /\ asker[q].pc = "recall" /\ AtStorage(q)
    /\ asker' = [asker EXCEPT ![q].snap =
                    [b \in Buckets |-> IF b \in ToSet(asker[q].left) THEN rows[b] ELSE 0]]
    /\ UNCHANGED <<store, answers, caches, effects, writer, worker>>

\* The buckets that are still to rank, by place; one without records is passed over.
Unranked(q) == {i \in DOMAIN asker[q].left : asker[q].snap[asker[q].left[i]] > 0}

\* q comes out of the load, or of a CPU task.
RankScanned(q) ==
    /\ \/ asker[q].pc = "recall" /\ Resumes(q)
       \/ asker[q].pc = "ranking" /\ UNCHANGED threads
    /\ \E i \in Unranked(q) :
         LET a == asker[q]
             b == a.left[i]
         IN  /\ \A j \in Unranked(q) : i <= j
             /\ GetOrBuild(b, a.snap[b], a.pc = "ranking")
             /\ asker' = [asker EXCEPT ![q].pc = "ranking",
                                       ![q].left = SubSeq(@, i + 1, Len(@))]
    /\ UNCHANGED <<store, answers, context, usage, effects, writer, worker>>

\* Every bucket is ranked, or the time budget is spent.
QueryRoot(q) ==
    /\ \/ asker[q].pc = "recall" /\ Awaits(q)
       \/ asker[q].pc = "ranking" /\ Starts(q)
    /\ asker' = [asker EXCEPT ![q] = [@ EXCEPT !.pc = "meta", !.left = <<>>, !.snap = Idle.snap,
                                               !.stack = <<Frame(Root)>>]]
    /\ UNCHANGED <<store, answers, caches, effects, writer, worker>>

ReadMeta(q) ==
    /\ asker[q].pc = "meta" /\ AtStorage(q)
    /\ asker' = [asker EXCEPT ![q].clean = ~dirty]
    /\ UNCHANGED <<store, answers, caches, effects, writer, worker>>

\* The cache keys; the table is asked only while the store is clean.
ComputeKeys(q) ==
    /\ asker[q].pc = "meta" /\ Awaits(q)
    /\ AskerAt(q, IF asker[q].clean THEN "lookup" ELSE "load",
               [Top(q) EXCEPT !.version = version[Top(q).bucket], !.context = contextVersion])
    /\ UNCHANGED <<store, answers, caches, effects, writer, worker>>

\* The normal key first, then the key of a degraded answer.
LookUp(q) ==
    LET key == CacheKey(Top(q), asker[q].pc = "lookup_degraded") IN
    /\ asker[q].pc \in {"lookup", "lookup_degraded"} /\ AtStorage(q)
    /\ asker' = [asker EXCEPT ![q].reply = IF Cached(key) = {} THEN None
                                              ELSE (CHOOSE a \in Cached(key) : TRUE).seen]
    /\ UNCHANGED <<store, answers, caches, effects, writer, worker>>

Hit(q) ==
    /\ asker[q].pc \in {"lookup", "lookup_degraded"} /\ Resumes(q)
    /\ asker[q].reply # None
    /\ Return(q, asker[q].reply)
    /\ UNCHANGED <<store, answers, caches, effects, writer, worker>>
\* Fault: without an answer the keys are looked up again.
MissAgain(q) ==
    /\ asker[q].pc \in {"lookup", "lookup_degraded"} /\ Awaits(q)
    /\ asker[q].reply = None
    /\ AskerAt(q, IF asker[q].pc = "lookup" THEN "lookup_degraded" ELSE "lookup", Top(q))
    /\ UNCHANGED <<store, answers, caches, effects, writer, worker>>

Miss(q) ==
    /\ asker[q].pc \in {"lookup", "lookup_degraded"} /\ Awaits(q)
    /\ asker[q].reply = None
    /\ AskerAt(q, IF asker[q].pc = "lookup" THEN "lookup_degraded" ELSE "load", Top(q))
    /\ UNCHANGED <<store, answers, caches, effects, writer, worker>>

LoadRecords(q) ==
    /\ asker[q].pc = "load" /\ AtStorage(q)
    /\ AskerAt(q, "load", [Top(q) EXCEPT !.rows = rows[Top(q).bucket]])
    /\ UNCHANGED <<store, answers, caches, effects, writer, worker>>

\* A bucket without records is answered, and the answer stored, at once.
NoMemory(q) ==
    /\ asker[q].pc = "load" /\ Awaits(q)
    /\ Top(q).rows = 0
    /\ AskerAt(q, "empty", Top(q))
    /\ UNCHANGED <<store, answers, caches, effects, writer, worker>>

StoreEmpty(q) ==
    /\ asker[q].pc = "empty" /\ AtStorage(q)
    /\ answers' = WithAnswer(CacheKey(Top(q), FALSE), Seen(Top(q)))
    /\ UNCHANGED <<store, caches, effects, tasks>>

AnswerEmpty(q) ==
    /\ asker[q].pc = "empty" /\ Resumes(q)
    /\ Return(q, Seen(Top(q)))
    /\ UNCHANGED <<store, answers, caches, effects, writer, worker>>

RankRecords(q) ==
    /\ asker[q].pc = "load" /\ Resumes(q)
    /\ Top(q).rows > 0
    /\ GetOrBuild(Top(q).bucket, Top(q).rows, FALSE)
    /\ AskerAt(q, "ranked", Top(q))
    /\ UNCHANGED <<store, answers, context, usage, effects, writer, worker>>

\* The records are ranked: the cached context is taken, or the context loaded.
ReadContext(q) ==
    LET cached == context[Top(q).bucket] IN
    /\ asker[q].pc = "ranked"
    /\ \/ /\ cached # None
          /\ AskerAt(q, "llm", [Top(q) EXCEPT !.events = cached])
          /\ UNCHANGED threads
       \/ /\ cached = None
          /\ AskerAt(q, "context", Top(q))
          /\ Starts(q)
    /\ UNCHANGED <<store, answers, caches, effects, writer, worker>>

LoadContext(q) ==
    /\ asker[q].pc = "context" /\ AtStorage(q)
    /\ AskerAt(q, "context", [Top(q) EXCEPT !.events = events[Top(q).bucket]])
    /\ UNCHANGED <<store, answers, caches, effects, writer, worker>>

FillContext(q) ==
    /\ asker[q].pc = "context" /\ Resumes(q)
    /\ context' = [context EXCEPT ![Top(q).bucket] = Top(q).events]
    /\ AskerAt(q, "llm", Top(q))
    /\ UNCHANGED <<store, answers, usage, index, effects, writer, worker>>

\* The model, or the local fallback, has answered: a match is the child bucket.
Descend(q) ==
    /\ asker[q].pc = "llm" /\ Top(q).bucket = Root /\ Child \in live
    /\ \E degraded \in BOOLEAN :
         asker' = [asker EXCEPT ![q].pc = "meta",
                     ![q].stack = <<[Top(q) EXCEPT !.degraded = degraded], Frame(Child)>>]
    /\ Starts(q)
    /\ UNCHANGED <<store, answers, caches, effects, writer, worker>>

\* Fault: an answer is stored under the versions of the time it is complete.
AnswerLateKey(q) ==
    LET late == [Top(q) EXCEPT !.version = version[Top(q).bucket], !.context = contextVersion] IN
    /\ asker[q].pc \in {"llm", "merge"}
    /\ \E degraded \in IF asker[q].pc = "llm" THEN BOOLEAN ELSE {Top(q).degraded} :
         effects' = IF Len(effects) = QueueCap THEN effects
                    ELSE Append(effects, [key |-> CacheKey(late, degraded), seen |-> Seen(Top(q))])
    /\ Return(q, Seen(Top(q)))
    /\ UNCHANGED <<store, answers, caches, threads, writer, worker>>

\* The bucket's answer is complete; storing it is left to the worker, unless
\* the queue is full.
Answer(q) ==
    /\ asker[q].pc \in {"llm", "merge"}
    /\ \E degraded \in IF asker[q].pc = "llm" THEN BOOLEAN ELSE {Top(q).degraded} :
         effects' = IF Len(effects) = QueueCap THEN effects
                    ELSE Append(effects, [key |-> CacheKey(Top(q), degraded), seen |-> Seen(Top(q))])
    /\ Return(q, Seen(Top(q)))
    /\ UNCHANGED <<store, answers, caches, threads, writer, worker>>

-----------------------------------------------------------------------------
(* The size of a bucket's context, and the worker *)

Usable(b) == usage[b] # None /\ usage[b].version = version[b]

AskUsage(q, b) ==
    /\ asker[q].pc = "idle" /\ asker[q].asked < MaxAsks /\ b \in live
    /\ \/ /\ Usable(b)
          /\ asker' = [asker EXCEPT ![q].asked = @ + 1]
          /\ UNCHANGED threads
       \/ /\ ~Usable(b)
          /\ asker' = [asker EXCEPT ![q].pc = "count", ![q].asked = @ + 1,
                                    ![q].bucket = b, ![q].version = version[b]]
          /\ Starts(q)
    /\ UNCHANGED <<store, answers, caches, effects, writer, worker>>

CountTokens(q) ==
    /\ asker[q].pc = "count" /\ AtStorage(q)
    /\ asker' = [asker EXCEPT ![q].tokens = events[asker[q].bucket]]
    /\ UNCHANGED <<store, answers, caches, effects, writer, worker>>
\* Fault: the count is stored under the version of the time it is stored.
StoreUsageLate(q) ==
    /\ asker[q].pc = "count" /\ Resumes(q)
    /\ usage' = [usage EXCEPT ![asker[q].bucket] =
                    [version |-> version[asker[q].bucket], tokens |-> asker[q].tokens]]
    /\ asker' = [asker EXCEPT ![q] = [Idle EXCEPT !.asked = asker[q].asked]]
    /\ UNCHANGED <<store, answers, context, index, effects, writer, worker>>

StoreUsage(q) ==
    /\ asker[q].pc = "count" /\ Resumes(q)
    /\ usage' = [usage EXCEPT ![asker[q].bucket] =
                    [version |-> asker[q].version, tokens |-> asker[q].tokens]]
    /\ asker' = [asker EXCEPT ![q] = [Idle EXCEPT !.asked = asker[q].asked]]
    /\ UNCHANGED <<store, answers, context, index, effects, writer, worker>>

TakeEffect ==
    /\ worker.pc = "idle" /\ effects # <<>>
    /\ worker' = [pc |-> "put", item |-> Head(effects)]
    /\ effects' = Tail(effects)
    /\ Starts(Worker)
    /\ UNCHANGED <<store, answers, caches, asker, writer>>

StoreAnswer ==
    /\ worker.pc = "put" /\ AtStorage(Worker)
    /\ answers' = WithAnswer(worker.item.key, worker.item.seen)
    /\ UNCHANGED <<store, caches, effects, tasks>>

EffectDone ==
    /\ worker.pc = "put" /\ Resumes(Worker)
    /\ worker' = [pc |-> "idle", item |-> None]
    /\ UNCHANGED <<store, answers, caches, effects, asker, writer>>

\* An entry that is idle, or the least recently used under pressure, is dropped.
Cleanup(b) ==
    /\ \E cache \in Evictable :
         /\ context' = [context EXCEPT ![b] = IF cache = "context" THEN None ELSE @]
         /\ usage' = [usage EXCEPT ![b] = IF cache = "usage" THEN None ELSE @]
         /\ index' = [index EXCEPT ![b] = IF cache = "index" THEN {} ELSE @]
    /\ UNCHANGED <<store, answers, threads, effects, tasks>>

-----------------------------------------------------------------------------
Writes(w) ==
    \/ \E b \in Buckets : StartRevision(w, b)
    \/ CommitRevision(w) \/ CommitEvent(w) \/ Publish(w)
    \/ AppendEvent(w) \/ Invalidate(w)

Recalls(q) == LoadScanned(q) \/ RankScanned(q) \/ QueryRoot(q)

Queries(q) ==
    \/ ReadMeta(q) \/ ComputeKeys(q) \/ LookUp(q) \/ Hit(q) \/ Miss(q)
    \/ LoadRecords(q) \/ NoMemory(q) \/ StoreEmpty(q) \/ AnswerEmpty(q) \/ RankRecords(q)
    \/ ReadContext(q) \/ LoadContext(q) \/ FillContext(q)
    \/ Descend(q) \/ Answer(q)

Counts(q) == CountTokens(q) \/ StoreUsage(q)

Works == TakeEffect \/ StoreAnswer \/ EffectDone

Next ==
    \/ \E w \in Writers : Writes(w)
    \/ \E q \in Askers : StartQuery(q) \/ Recalls(q) \/ Queries(q)
    \/ \E q \in Askers : Counts(q) \/ \E b \in Buckets : AskUsage(q, b)
    \/ Works
    \/ \E b \in Buckets : Cleanup(b)

Spec == Init /\ [][Next]_vars

\* The storage thread and the event loop take the next task while there is
\* one, a CPU task ends, and a model call ends or times out.  Nobody has to
\* ask, to write or to clean up.
Fairness ==
    /\ \A w \in Writers :
         WF_vars(CommitRevision(w) \/ CommitEvent(w) \/ Publish(w) \/ AppendEvent(w) \/ Invalidate(w))
    /\ \A q \in Askers : WF_vars(Recalls(q) \/ Queries(q) \/ Counts(q))
    /\ WF_vars(Works)

FairSpec == Spec /\ Fairness

-----------------------------------------------------------------------------
Seens == [bucket : Buckets, rows : Nat, events : Nat]
Keys == [bucket : Buckets, version : Nat, context : Nat, degraded : BOOLEAN]
Effects == [key : Keys, seen : SUBSET Seens]
Frames == [bucket : Buckets, version : Nat, context : Nat, rows : Nat, events : Nat,
           degraded : BOOLEAN, seen : SUBSET Seens]
AskerPCs == {"idle", "recall", "ranking", "meta", "lookup", "lookup_degraded", "load", "empty",
             "ranked", "context", "llm", "merge", "count"}

\* Every task that waits for storage, and no other, is in one of the two queues
\* once; a query is at most one frame per bucket deep.
TypeOK ==
    /\ live \in {{Root}, Buckets}
    /\ rows \in [Buckets -> Nat] /\ events \in [Buckets -> Nat] /\ version \in [Buckets -> Nat]
    /\ contextVersion \in Nat /\ dirty \in BOOLEAN
    /\ Len(answers) <= TableCap /\ ToSet(answers) \subseteq Effects
    /\ \A i, j \in DOMAIN answers : answers[i].key = answers[j].key => i = j
    /\ \A b \in Buckets :
         /\ context[b] = None \/ context[b] \in Nat
         /\ usage[b] = None \/ usage[b] \in [version : Nat, tokens : Nat]
         /\ index[b] \subseteq [version : Nat, rows : Nat, late : BOOLEAN]
    /\ Len(effects) <= QueueCap /\ ToSet(effects) \subseteq Effects
    /\ publishing \in Writers \cup {None}
    /\ IsInjective(jobs \o ready)
    /\ ToSet(jobs \o ready) =
         {w \in Writers : writer[w].pc # "idle"}
         \cup {q \in Askers : asker[q].pc \notin {"idle", "ranking", "ranked", "llm", "merge"}}
         \cup (IF worker.pc = "put" THEN {Worker} ELSE {})
    /\ \A q \in Askers :
         /\ asker[q].pc \in AskerPCs
         /\ ToSet(asker[q].stack) \subseteq Frames /\ Len(asker[q].stack) <= 2
         /\ asker[q].stack = <<>> <=> asker[q].pc \in {"idle", "recall", "ranking", "count"}

\* An answer in the table that a query would look up now was made from the
\* records and the contexts that are there now, whatever was written while it
\* was made and however late it was stored: the keys are read first, and no
\* cached context is older than the keys (compute_cache_key, set_query_cache,
\* _append_context_event).
AnswersCurrent ==
    \A a \in ToSet(answers) :
        a.key.version = version[a.key.bucket] /\ a.key.context = contextVersion =>
            \A s \in a.seen : s.rows = rows[s.bucket] /\ s.events = events[s.bucket]

\* A cached context lacks an event only until the writer of that event has
\* invalidated it: no fill that raced with the write can outlive that
\* (bucket_context, invalidate_bucket_context_cache).
ContextCurrent ==
    \A b \in Buckets :
        context[b] \in {None, events[b]}
        \/ \E w \in Writers : writer[w].pc = "append" /\ writer[w].bucket = b

\* A token count that would be served is the count of the present context,
\* except while the view is about to change (get_context_usage).
UsageCurrent ==
    \A b \in Buckets :
        Usable(b) /\ (publishing # None => writer[publishing].bucket # b)
            => usage[b].tokens = events[b]

\* With no write under way in a bucket, the index that would be used for it
\* indexes its present records, unless it is one that a recall built over
\* records it had loaded before it ranked another bucket, and under the version
\* of the time it came to this one (BM25IndexCache, _rank_query_bucket,
\* _build_global_recall_boosts).
IndexCurrent ==
    \A b \in Buckets :
        (\A w \in Writers : writer[w].pc = "idle" \/ writer[w].bucket # b) =>
            \A i \in index[b] : i.version = version[b] => i.late \/ i.rows = rows[b]

\* The same of every index, which does not hold of a recall deeper than the
\* root.
EveryIndexCurrent ==
    \A b \in Buckets :
        (\A w \in Writers : writer[w].pc = "idle" \/ writer[w].bucket # b) =>
            \A i \in index[b] : i.version = version[b] => i.rows = rows[b]

\* None of the three caches serves what is older than what it is kept under,
\* at any depth of the recall; of the indexes, those a recall did not build
\* late.
CachesCurrent == ContextCurrent /\ UsageCurrent /\ IndexCurrent

\* Every call of an asker returns (query_bucket_recursive).
CallsReturn == \A q \in Askers : asker[q].pc # "idle" ~> asker[q].pc = "idle"
=============================================================================
