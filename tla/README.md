# Verification of CoMe context memory

TLA+ models, TLC configurations and TLAPS proofs for the asyncio memory engine under
`src/context_memory/`. Paths below are relative to the repository; `memory/` stands for
`src/context_memory/memory/` and `services/` for `src/context_memory/memory/services/`.

## 1. Inventory

One process runs one event loop. Everything that touches a file or SQLite is a *storage task*: a
synchronous function run on a single-threaded executor (`memory/engine_runtime.py`
`run_storage_task`), so a storage task is atomic with respect to every other one, and interleavings
happen exactly at the `await`s of the services. A service reads bucket topology directly from the
resident view, between two awaits, without a task.

| component | state | operations | interacts with |
|---|---|---|---|
| Lock manager (`engine_runtime.py` `BucketLockManager`, `_global_meta_lock`) | one `asyncio.Lock` per bucket id, one global lock | `acquire_many`, release | every writing service |
| Bucket tree (`storage.py`, `services/bucket_topology_service.py`) | per bucket: parent, level, children, sealed, sealed_to, archived; per parent: title -> child map; root, active | create, set (setdefault), reparent, seal, redirect chain, switch root/active | records (bucket nodes), alias maps, locks |
| Records (`services/record_service.py`, `record_primitives_service.py`, `storage.py` `write_memory_record`) | per key: latest revision, bucket, gray, kind, child bucket; revision files; context.json; events | add, update, set_gray, delete, move, write revision, append event | tree, locks, context cache, index |
| Rebuilds (`compression_service.py`, `bucket_split_service.py`, `optimize_service.py`) | a successor bucket under construction | force_compress, split_bucket, optimize | LLM plan, tree, records |
| Governance, forgetting (`governance_service.py`, `forgetting_service.py`) | thresholds, penalties per key | auto manage, apply forgetting | rebuilds, records |
| Ingest (`ingest_service.py`) | batch: queue, workers, pause/drain/rebuild events, generation, results, committed keys | add_memory, split ingest, add file/dir | LLM, compress, job journal |
| Job journal and resume (`split_ingest_job_service.py`) | journal per batch: status, done keys | resume_pending_jobs, auto resume | ingest, global lock |
| Index repository (`index_repository.py`) | SQLite rows, resident view | commit_record_revision, save_tree_snapshot, import | storage |
| Context cache (`engine_runtime.py` `bucket_context`, `memory_manager.py`, `rerank.py`) | cached context per bucket, BM25 per bucket version, byte budget | load, set, invalidate, evict | append event |
| Query (`query_service.py`, `memory_read_service.py`, `rerank.py`) | side-effect queue, worker, query cache, visited set | run_query, recursive descent, enqueue side effects | tree, LLM, cache |
| Advance query (`advance_query_service.py`) | request payload, chunk plan | single_shot, best_effort | LLM, alias |
| Alias maps (`aliasing.py`, `alias_service.py`) | per bucket alias tables, session depth, dirty flags, frozen flags | get_or_create, flush, freeze, resolve through successor | seal, query, ingest |
| Storage GC (`maintenance_service.py`) | retention periods | gc_storage, cleanup_expired, export, memory gc | everything persisted |
| Migration (`migration_service.py`, `migrations/`) | schema version, journal, lock file, workspace, backup | status, migrate, steps v1..v4, switch with rollback | storage |
| Time ids (`time_id.py`) | last_ms, sequence, state file | next_id, load, save with retries | the ids of chat messages and tasks (keys, revisions and buckets have `uuid4` names, `storage.py` 237-249) |
| File cache (`file_cache.py`), AutoMapping (`utils.py`) | content addressed files, metadata.json | add, get, renew, expire | images, LLM |
| LLM connector and pipeline (`LLM_connect.py`, `llm_pipeline.py`, `LLM_usage.py`) | usage counters, retries | ask, ingest, clean, plans | network |
| Interfaces (`engine.py`, `bucket_handle.py`, `rpc_server.py`, `cli.py`, `factory.py`) | singleton registry, auto resume task | pass-through | all services |

## 2. What is hard here

One event loop runs many tasks. Between two `await`s a service is alone; across an `await` anything may
have changed. The hazards, each at its line, are in `PROJECT.json`. They come down to these:

* **Locks.** Buckets are locked by id in ascending order, the global meta lock comes inside a bucket
  lock everywhere but in the resumption of jobs. Cancellation can reach a task half-way into a group.
* **Stale ids and rows.** A service resolves a bucket, waits for its lock, and finds a sealed bucket; it
  reads a row or a record, asks the LLM for seconds, and writes it back.
* **Rebuilds.** `force_compress` and `split_bucket` fill a successor bucket record by record, then
  turn the source into a redirect. Handles, titles, node records and the tree must all follow.
* **Batches.** Split ingest pauses, drains and restarts its workers around a rebuild, and journals its
  progress so that a restart can go on.
* **Upgrades.** A schema upgrade replaces the live dataset file by file.
* **Caches.** Queries take no lock: while a bucket is written they read records, context, versions and
  caches at different moments, and an answer is stored long after it was computed.
* **Crashes.** A revision file exists before the index row that makes it visible, an alias is told away before its map is
  next saved, an id is given out although its state file could not be replaced.
* **Things that take no lock.** `optimize`, the storage GC, recalls and advance queries run beside writers that believe to
  be alone.
* **Shared mutable clients.** One `Chat` takes turns by an `asyncio.Event`; one pipeline keeps the usage and the diagnosis
  of its last call in two fields that every operation reads after an await.
* **What comes back from a model.** Plans, ranges and keys are normalised before use; what is missing is replaced by a
  local result that must not lose or change a memory.

### What makes each component correct

| component | properties |
|---|---|
| Lock manager | mutual exclusion; one acquisition order; no circular wait; nothing stays locked; every operation ends |
| Bucket tree and records | `set_bucket` is a setdefault, among children nobody deleted; tree, node records and titles agree; redirects go forward and end in a writable bucket |
| Rebuilds | no memory is left behind in a sealed bucket; a query from the root comes to every memory; a failed rebuild leaves every handle usable |
| Split ingest, job journal | a completed job is stored in full; the journal never runs ahead of the store; a crash costs at most one chunk twice; the batch returns; a restart ends the job |
| Migration | the old data survive; an upgrade is all or nothing; the lock excludes |
| Context cache | a cached context, token count or lexical index is never older than the version it is kept under |
| Query | an answer is stored only under the versions it was computed from; every query returns; a full side-effect queue costs the effect, not the query |
| Record store | what `get_record` answers is a map from keys to latest revisions, whatever crashes; an active row points at a complete file |
| Storage GC | a key is forgotten only when gray and unreferenced; evidence is lost only in the ways the code means |
| Time ids | ids never repeat, whatever the clock does |
| Alias maps | an alias told to a model means the same id for ever; who holds its bucket decodes what it encoded; nobody meets a frozen map |
| Advance query | every memory of the subtree goes into the answer; no request exceeds the threshold; the query ends |
| Optimize | what the plan keeps stays live, within reach of the root or, until the switch, of the successor |
| Chat | a taken turn is given back, unless closing the client failed; an answer follows its question; no request goes on unattended; every ask returns |
| LLM pipeline | usage is counted once; an operation reads its own diagnosis; no text, record or live memory is lost to a bad reply |

## 3. Modules and the code they stand for

`PROJECT.json` "map" gives, definition by definition, the lines. In short:

* **`BucketLocks.tla`** - `BucketLockManager.acquire_many`, `asyncio.Lock`, the global lock. State: owner
  and FIFO queue of each lock; per task the operation, the blocks it is inside, and what it has
  of the group it is acquiring. Actions: `Start`, `EnterBlock`, `AcquireFree`, `Suspend`, `Resume`, `Finish`,
  `LeaveManage` (a resume leaves one job's bucket), `Cancel`. `MayEnter` is the table of which
  operation locks what, inside what. `MCBucketLocks.tla` gives it constants.
* **`BucketTree.tla`** - the storage tasks on bucket rows, title maps, root and latest records:
  `CreateBucket`, `Reparent`, `Seal`, `SaveInfo`, `SetTitle`, `RemoveTitleRefs`, `Write`, `SetRoot`. Each is one
  atomic action, as on the storage executor, with the checks before its `raise`s as guard
  (`MayReparent`, `MaySeal`, `MaySetTitle`, `MayWrite`). Of a record: bucket, gray, child bucket.
* **`BucketServices.tla`** composes the tree with the services that use it, one action per stretch of
  code between two awaits: `Begin*`, `Ask`, `Enter` (resolve, then lock); `Look`, `FixTitle`, `Aim`, `Make`,
  `Node` (create and set_bucket); `PlanCompress`, `PlanSplit`, `Carry`, `Place`, `Adopt`, `Fetch`, `Out`, `In`,
  `SealSource`, `Switch` (rebuilds); `Summary`, `Save`, `NodeRecord`, `Tell` (summary refresh); `Begins` (an add counts the
  memories of its bucket right after the lock), `AddMemory`,
  `Reread`, `Rewrite`, `Forget`, `Check`, `RehomeMove` (records); `Abandon` (an await raises). What a
  task read is kept in its task record, so that it can be stale. Locks are here sets entered at once;
  that `acquire_many` amounts to that is what `BucketLocks` and its proofs are for.
  `MCBucketServices.tla` gives it constants, `MCTrees.tla` three repertoires of operations, `MCRebuild.tla` a history of what a later
  rebuild does not mend.
* **`SplitIngest.tla`** - one batch of `_ingest_split_chunks`: workers (`Take`, `Ingested`, `Overflow`), the
  coordinator (`Poll`, `Drained`, `Rebuild`, `SaveRebuilt`), the commit (`Commit`, `Note`, `Conclude`), the
  resumption (`Resume*`), `BatchRaises`, `ResumeRaises`, `Crash`. Chunks are numbers; the queue is a set.
* **`Migration.tla`** - `_migrate_if_needed` with `clone_live_dataset`,
  `replace_live_dataset_from_workspace` and `_restore_live_dataset_from_snapshot`. The dataset is a sequence of
  items in switching order, of which only "whole under the old schema", "whole under the new one" or "bad" is
  kept. `DeleteItem`/`PlaceItem` and `RestoreDelete`/`RestoreItem` are the halves of switching and
  restoring an item; `Raise`, `SwitchFails`, `RecordFails` are exceptions, `Crash` the death of the process.
* **`RetrievalCaches.tla`** - the storage thread (`jobs`), the event loop (`ready`, the tasks whose storage task has
  ended) and, between the two, a commit whose in-memory view is not published yet (`publishing`). Writers revise a
  record and append its event (`StartRevision` ... `Invalidate`). A query is `StartQuery`, the global recall
  (`LoadScanned`, `RankScanned`, `QueryRoot`), and per bucket `ReadMeta`, `ComputeKeys`, `LookUp`, `Hit`/`Miss`,
  `LoadRecords`, `RankRecords`, `ReadContext`/`LoadContext`/`FillContext`, `Descend` into the child, `Answer`; the worker's
  `TakeEffect`, `StoreAnswer`, `EffectDone` put answers into the table. `AskUsage`, `CountTokens`, `StoreUsage` are
  `get_context_usage`, `Cleanup` is eviction. Records and events are counted, so what an answer was made from can be
  compared with what is there. There is one query text, with `use_cache`; ranking, boosts, gray records, other side effects
  and exceptions are left out; the recall's time budget may run out after any bucket. Of an index it is remembered (`late`) that a recall built
  it for a bucket to which it came after ranking another one, with records it had loaded before.
* **`RecordMap.tla`** is the abstract specification of the record store: a key has a latest revision, which only a newer one
  replaces (`Revise`), and may be forgotten when it is gray and no active record is related to it (`Forget`). There is no crash in it.
* **`RecordStore.tla`** - revision files, evidence files, rows and the published index of a key. The storage tasks are cut
  where a crash may fall: `copy_evidence` is `CopyFile`, `CopyEvict`, `CopyKeep`; `write_memory_record` is `WriteFile`, `WriteRow`,
  `WritePublish`; a compression that leaves a key behind is `Drop`, `PurgeRow`; `gc_storage` is `GcRevisions`, `GcKeyFiles`,
  `GcKeyEvidence`, `GcEvidence`, `GcCommit`, `GcPublish`. `task` is what the storage thread is in the middle of, `op` where
  the operation on a key awaits the pipeline. `ImplementsMap` is the refinement: `RecordMap` with `latest` what `get_record` answers.
* **`TimeIds.tla`** - `next_id` (`NextId`, `Return`), the state file and its failed saves, `Crash`, `Start`, `Configure`; `Tick` sets
  the clock to any time. An id is `ms * Width + seq`. `MCStore.tla` puts `Migration`, `RecordStore` and `TimeIds` in one run.
* **`AliasTable.tla`** - the operators of one alias map: a sequence of ids, a version, a frozen flag. **`AliasMaps.tla`** - callers of four
  kinds over the maps of a chain of buckets: `Start` (open a session), `Queue`, `RunCandidates`, `RunEncode`, `Commit`, `EndSession`,
  `Answer`, `RunDecode`, `DecodeRefused`, `Seal`, `RunSeal`, `Freeze`, `RunFreeze`, `Crash` (`MapsInit`, `MapsNext`, `MapsSpec`). `tasks` is the
  storage thread's queue.
* **`AdvanceQuery.tla`** - one query over a subtree: `CountWhole`, `BoxMemories`, `BoxChild` (descent), `Pack` (first fit into chunks),
  `PrepareChunk`, `AskChunk`, `ChunkReplies`, `ChunksDone`, `Reduce` (aggregation), `AskFinal`, `FinalReplies` and the failures of each;
  `Rebuild` seals the target under it. The snapshot is a tree: bucket 1 is the target, and every other has an earlier parent
  (`AdvanceConstants`). A text is its size, what it covers, the ids and the aliases in it. `MCAdvance.tla`
  puts it and `AliasMaps` in one run.
* **`Chat.tla`** - `Ask` in its three modes, the worker (`WorkerGet`, `WorkerWait`, `WorkerSend`, `WorkerDone`), the turn (`TakeTurn`),
  the request (`PostStart`, `PostEnd`, `PostRaises`, `PostStopped`, `PostFail`, `PostTimeout`), what the ask makes of it (`AskTold`,
  `AskPosted`, `AskTimeout`, `RetryReturned`), the closing of the HTTP client before the turn is given back (`CloseEnds`, `CloseFails`; an
  ask that closes nothing goes on at once), the cancellation of a caller while he waits (`AskCancelled`, `WaitCancelled`), `stop_one`, `stop_all`
  and `close`. A retry is a task of its own; `lost` remembers that an ask ended with the turn.
* **`LlmPipeline.tla`** - the calls of one operation after another on a pipeline that all share: `Precheck`, `FirstAsk`,
  `AskReturns`, `AskAgain`, `Normalise`, `OutOfTries`, `GiveUp`; then, some awaits later, what the service reads of the call:
  `RecordUsage`, `RecordDiag`, `Check`. **`ToolResults.tla`** - what each tool returns, as functions of request and reply: `TextChunk`,
  `NormalizeClean`, `NormalizeIngest`, `BucketSplit`, `Compress`, `QueryTool`, `Optimize`, and the local results in their place.
  `MCPipeline.tla` puts both in one run. Clean, ingest, query and compress may be restored or retried; a compress that fails while an ingest retries after an
  overflow is swallowed, as in the code. The clamp of chunk sizes to at least 100 characters is left out: the sizes of the run are small on purpose.
* **`Optimize.tla`** - `BeginOptimize`, `Collect`/`Expand` (candidates of the target and its children), `Plan` (every plan over them, with any bucket
  as that of a group),
  `Validate`, `UseGroup`/`MakeGroup`/`GroupNode`, `Assign`, `Fetch`, `Rehang` and `Rebuild` (one record goes to its place),
  `Omit`, `GrayOut`, `Archive`, `Archived`, `Summarise`, `SealTarget`, `SwitchRoot`, `Raise`. `MCOptimize.tla` runs it beside
  `BucketServices` on one tree; its `PlantedSpec` is the same from any tree in which nothing is sealed, for the proofs.
* **`*_proofs.tla`** - the theorems, section 6. The inductive invariants of the tree, its services and `Optimize` are in **`TreeInvariants.tla`**;
  the other proof modules begin with theirs.

Operators whose comment begins with "Fault:" are wrong versions of the definition that follows them;
they are not part of any specification. Each property of a passing run is known to fail when one of
them takes the definition's place ("mutants" in `PROJECT.json`).

## 4. Runs

| run | question | bounds | why they are enough |
|---|---|---|---|
| `Locks` | exclusion, order, no circular wait, operations end | 3 tasks, 2 buckets, the global lock, 1 job per resume; one repertoire of writers, movers, creators and one of resumes with cancellation | two movers and a creator can meet on one pair; a resume waits for a writer and is waited for |
| `Trees` | setdefault, deletion and titles; tree, records and titles agree | 2 tasks racing for 1 title, without or with summary refreshes, or 1 task that does everything; 6 buckets, depth 3, 5 operations | two callers race while the child is deleted or refreshed; a subtree can be moved under another and hit the depth limit |
| `TreeRebuild` | rebuilds strand nothing, what a query from the root reaches, redirects, handles | 2 tasks, 5 buckets, 4 operations, any await may raise | writers wait for a lock while its bucket is sealed; a rebuild is abandoned half-way |
| `Optimize` | what an optimize keeps is live, and within reach of the root or the successor | 2 memories in a tree of 3 buckets, 1 group, 1 operation beside it, a failure anywhere | target and child each hold a memory; the plan may keep, move, group, drop or archive each |
| `SplitIngest` | batch and resumption, safety and liveness | 2 chunks, 2 workers, 1 crash, 1 exception | one worker overflows while the other is in flight, before and after the rebuild |
| `Store` | upgrade; record store against its map; ids | upgrade: 5 items, 4 runs, 2 crashes, 2 failures; records: 2 keys, 2 revisions, 2 evidence files of which 1 is kept, 1 crash; ids: 2 per millisecond, 3 milliseconds, ids up to 7 | one item of each kind on either side of the schema file; one key relates to the other while it is collected, and its second evidence file evicts the first; a millisecond overflows into the next ones |
| `Caches` | caches and answers against one writer, every call returns | root and child, 1 asker with 2 calls, 1 revision, a one-entry answer table and queue, a recall over both buckets, contexts may be evicted | every read of a query lies before, between or after the writer's two commits and its invalidation; a second call meets what the first left |
| `AdvanceQuery` | nothing dropped, requests fit, the query ends; aliases stick and decode | query: 4 buckets on 3 levels, 3 memories of 1 or 2 tokens, threshold 3, replies of 1 or 3, 2 reductions; maps: 2 callers, 2 ids, 2 buckets, 3 operations, 1 crash | a subtree that fits, one that needs chunks, a reply that is larger than a chunk; a rebuild between encoding and decoding |
| `Chat` | turns, answers, stops, timeouts, every ask returns | 2 asks of any mode and a stop, or 3 asks of which one queues, has its caller cancelled or closes the client | an ask that sends for itself meets the worker and another one at the event |
| `Pipeline` | usage and diagnosis of a shared pipeline; what tools return | 2 operations at a time of 3 clients, one of them a worker with its own pipeline, 2 attempts; texts of 3 lines, chunks of 3 characters | two operations overlap at each await; lines shorter, equal to and longer than a chunk |

Where a run holds two or three questions, the first state chooses one (`mix`) and the others stand still; the properties of each are
checked as if alone.

Two more runs each check one statement of the documentation that the code breaks (section 8): `LocksResumeDeadlock`,
`OptimizeUndone`. Nine more configurations, each with one property and a counterexample, are kept beside them and may be run by hand:
`IndexStale.cfg` (module `RetrievalCaches`), `EditStranded.cfg`, `TitleResurrected.cfg`, `TwoForOneTitle.cfg` (`MCBucketServices`),
`SubtreeUnreached.cfg` (`MCRebuild`), `OptimizeHalfway.cfg` (`MCOptimize`; with `AnyPlanKeepsLeaves` in place of its property it has another), `AdvanceAliases.cfg` (`MCAdvanceQuery`),
`UsageRecounted.cfg` (`MCLlmPipeline`), `ChatTurnLost.cfg` (`MCChat`). `CHECK_DEADLOCK FALSE` stands where the bounds on operations,
crashes or runs make the system stop. No run spends its time on a type invariant: those of
`BucketLocks`, `BucketServices`, `SplitIngest`, `Migration` and `TimeIds` are proved for all constants (section 6), and all of them (`TypeOK`,
`StoreTypeOK`, `IdsTypeOK`, `OptimizeTypeOK`, `MapsTypeOK`, ...) may be added to a configuration.

What they leave out on purpose: `Trees` runs without rebuilds, `TreeRebuild` without deletions, edits and moves, because the code
breaks the properties when these are mixed (section 8); with moves a title may even have two children, so `TitlesUntilMoved`
speaks of the repertoires without them. Where summaries are refreshed it is about the children nobody deleted: a refresh that read the node
record of a child before its deletion writes it back, so that the child is live again, beside the one a later `set_bucket` makes
(`TwoForOneTitle`). Without refreshes a title has one live child whatever was deleted.
`NoneStranded` says that a memory is live and in a bucket that is not sealed, which a query may yet fail to reach. `FoundFromRoot` is
about the query: it goes down the live node records from the root and comes to every memory, unless one of four things has happened that no later
rebuild mends (`spoilt`): a summary wrote a row over a newer one, or a node record over a newer one, the record of a new bucket went into a bucket its maker had
not locked, or an operation was cut off with a bucket made and no record of it, or with a rebuild not yet switched to. That a summary alone is enough is `SubtreeUnreached`. `TreeRebuild` has the steps of
operations on handles only (`OnHandles`); its splits make one group. `Optimize` has
no writer that refreshes the summary of the optimized bucket (that is `OptimizeUndone`), and its properties are about plans that put no
group into a bucket that goes away (`Sane`; of other plans `AnyPlanKeepsLeaves` does not hold). After a failure half-way they say that what was moved is
under the successor and nowhere else; no query finds it there (`OptimizeHalfway`). `OldDataSurvives` is about at most one
failed operation, `UpgradeIsAtomic` about upgrades without a crash, `IdsIncrease` about generators that start from what was saved
last. `HoldersDecodeOwn` is about times without an optimize, `CountedUnlessShared` and `DiagnosesOwn` about operations that had
their pipeline to themselves. `TurnHasHolder` and `AsksReturn` are about turns that were not lost by a client that failed to close
(`ChatTurnLost`), which cannot happen when the client is kept. `IndexCurrent` leaves out the indexes a recall built `late`; those of every query and of the first bucket of a recall it covers.
`EveryIndexCurrent` covers all and is violated (`IndexStale`). Under `Caches` the answer table is read only while the store has never been written (section 8), and checked always.

## 5. Fairness

* `BucketLocks!FairSpec`: weak fairness of each task's `Advance`. The event loop runs every ready task,
  and an operation's own awaits (LLM calls with timeouts, storage tasks) end. Nothing is assumed about
  new operations or cancellation. `asyncio.Lock` is FIFO, so weak fairness is enough.
* `SplitIngest!FairSpec`: weak fairness of each chunk's `Take` and of its ingestion, of the coordinator, of
  the resume's steps and of the automatic resume after a restart (`_trigger_auto_resume_pending_jobs`).
  Nothing is assumed about crashes, exceptions or resumes callers ask for.
* `RetrievalCaches!FairSpec`: weak fairness of each writer once it has begun, of each asker once it has asked, and of
  the worker. The two threads take what is queued in order, CPU tasks end, model calls end or time out. Nothing is
  assumed about new calls, new writes or eviction.

* `Chat!Fairness`: weak fairness of everything the event loop does once something is ready or a time is up (worker, turns,
  requests, endings, the closing of a client, which ends or fails, the timeout of an ask). `PostTimeout` is not part of it: a request may end before its own timeout,
  and one that does not answer at all is ended by the ask's. Nothing is assumed about new asks, stops or close.
* `AdvanceQuery`: weak fairness of the query's own steps: model calls end or time out, storage tasks end. Nothing about the rebuild.
* `LlmPipeline!Fairness`: weak fairness of the steps of each client that is in an operation. Nothing about new operations.

## 6. Proofs

All proofs are checked by TLAPS for every value of the constants, under the assumptions named in the
modules.

* `BucketLocks_proofs`. `IInv` strengthens the types with: a lock's owner has it among its blocks or
  its half-acquired group, a lock that somebody has acquired is owned by him, and a task is
  in at most the queue it waits on. From it: `TypeCorrect`, `MutuallyExclusive` (whatever the operations and
  cancellations), and, for operations other than resumes, `Upwards` (locks are acquired in one
  order by every task but a resume, whoever else is running) and `DeadlockFree` (no set of tasks waits on itself; by taking the task of the set that waits for
  the greatest lock). `Groups` says that a task with part of a group in hand is a mover
  with buckets: whatever else is cancelled, between its nested acquisitions too, has all it acquired in blocks that are unwound. From it `OnlyInvolved`, under
  cancellation anywhere for all operations but moves, and for moves without cancellation (a cancelled one leaves a bucket locked, section 8), and
  `GlobalInvolved`: the global lock never stays behind anything, cancelled moves included. `DeadlockFree` has the same hypothesis as `OnlyInvolved`.
* `RecordStore_proofs`. `LatestReadable` says nothing of what is between two steps of a task. `IInv` adds it: a revision's number is drawn once
  (`FilesApart`); the index lags behind the rows only between the commit and the publication of one task (`IndexFollows`); in a write the
  file is there before the row and both are newer than the index (`WriteAhead`); what a collection has in hand is gray and no
  active record's target, and its files go before its rows (`CollectSafely`). From it `LatestAlwaysReadable` and `StoreIsMap`, the
  refinement of `RecordMap`: only `WritePublish`, `GcKeyFiles` and a `Restart` that falls between a row and its publication show, the
  last as the revision that was about to be published. For any keys, revisions, evidence files and crashes. `EInv` follows the
  evidence: the files the latest row of a key names, and those an operation holds, are there or were lost for a reason the property
  allows, and a history is never longer than the files kept. From it `EvidenceSafe`. The ids (`TimeIds`) end the module: `IdsIncrease`
  speaks of the moment before an id is given out; what makes it inductive is `NotBehind`, which also says that between two calls
  no id given out is greater than the state's. `FollowingGrows` is the arithmetic: the state after is a state, and its id is greater,
  in each of the three cases of `Following`. From it `IdsAlwaysIncrease`, for any width, without a bound on ids.
  The upgrade (`Migration`) stands in the same module. `OldDataSurvives` alone is not inductive: nothing in it says that the backup may be
  overwritten. `UpgradeInv` follows the upgrade: until the switch, the live dataset is the old one, or the new one
  beside a complete backup, or an earlier run that died left a rollback copy, which nobody removes because run
  directories are never reused; in the switch the run's own rollback copy stands in, and the items
  before `at` say how far the dataset has come to being wholly new, or wholly restored. From it `OldDataSafe`,
  for any sequence of items and any number of runs and crashes, with at most one failed operation; the types are `UpgradeTypes`.
  `Tidy` says what lies about at each point of an upgrade that no crash interrupts; from both, `Atomic`.
* `Chat_proofs`. `IInv` adds who sends for whom: only the worker sends for a queued ask, an ask that sends for itself stays until its
  request has ended, and a queued ask that has returned has its event set, so that what the worker sends for it ends at once. From it
  `TurnNeverLost` (a taken turn has somebody who will give it back, or an ask has ended with it because its client did not close, which
  with `KeepAlive` never happens) and `NobodyOrphaned`, for any number of asks, cancellations, retries, stops and timeouts. `CInv` adds the conversation: nothing is in
  it twice, an answer stands right after its question, a task whose end nobody has been told of is not in it, and what has been said to
  a caller, or is waiting to be, is. From it `Agreement`.
* `SplitIngest_proofs`. `IInv`: every set of "done" chunks that may be journalled (the journal's, the
  coordinator's, the resume's and that of the job it loaded) is stored, the commit begins only when no chunk is in
  flight and ends only when all are ingested or the batch gave up, and a resume completes only
  when no chunk is open. From it `NothingLost` (`JournalBehindStore`) and `NothingMissing`
  (`CompletedMeansStored`), for any number of chunks, workers, crashes, exceptions and overlapping resumes. `RInv` counts: while nothing
  raises and nothing overlaps, each chunk in the store that the journal does not know, and each one ingested again, has cost a crash
  of its own. From it `CrashesCostLittle`.
* `BucketServices_proofs`, with the invariants of `TreeInvariants`. `HInv` is the types, the rows (a sealed bucket redirects to a later one) and, per operation, what it may do
  next with the bucket it has in hand. From it `TypesHold`, `Redirects` and `Writable`: `Resolve` is a recursive function, and that
  it ends at a bucket that is not sealed is shown by taking the least number at which it would not. `SInv` follows the memories: an operation has the locks of
  the buckets it changes, which nobody else has; buckets being filled are apart from all others; and every memory of a bucket being rebuilt
  is placed, still to be placed, or given up. From it `Stranded`, under `Undisturbed`: no edits, grays, deletes or moves, which strand
  memories (`EditStranded`, section 8), and no caller who finds a bucket in a listing while its rebuild is still making it. That caller
  is `Listing`, which the run does without as well: he compresses a bucket that another compression still fills, and when both raise after their seals a memory is left
  in a sealed bucket. `AInv` follows titles and the records of buckets where nothing is rebuilt, so that nothing is sealed and a handle
  leads to itself: a row about to be written back is the one that is there (`Fresh`), a record and the tree name the same parent unless
  the bucket is on its way (`Agreement`), and a task knows what it will write (`Aware`). From it `Titling` and `Agreeing`, under
  `RowsTheirOwn` and `InTurn`: one caller at a time, as in the part of the run `Trees` that moves things; for titles also any callers of
  whom none writes summaries. Neither holds without: TLC shows a refresh that read a child's row before its LLM call write the
  old parent back after another caller moved the child (the move locks both parents and not the child), and an operation cut off after
  `reparent_bucket` leaves the record behind. `TInv` is about any callers who only create, look up, refresh and delete: a title leads to the last
  child made for it until that is given up (`TitlesKept`); who makes a child for a title found the title free and has had the lock of the parent
  since, so that nobody else makes one (`Making`); a refresh writes the row back as it is, because its bucket's lock is its own, and the
  record in its place, if maybe over a deletion (`Refreshing`); and a grayed child was given up, its deleter being the one who
  still has to forget its titles (`Minded`). From it `TitlesSingle` (one live child per title, abandoned operations included, where no summary
  is refreshed) and `TitlesLive` (of the children nobody deleted, refreshes included), without abandoned ones: a `delete_memory` cut off before its last step, or a `create_bucket` before its record, leaves a title that leads nowhere.
  `OInv` follows one optimize beside its callers. While it reads, a record stays in the bucket it was read in unless its caller gives it up
  (`Unmoved`), because callers who set, create and gray write records only where they are (`Callers`). The plan is about what was read, and
  a group of a sane plan that is not new takes the bucket of a node that stays at the top (`Planned`). While the plan is applied, what it
  keeps is live (`Kept`) and, but for what is still to move (`ToMove`), in a bucket that is neither the target nor among the omitted
  (`Homed`, `Haven`); those are the only ones it seals, the omitted first and the target at the very end (`Sealing`). That nothing kept lies below a
  bucket that is dropped rests on the same fact: what a node brings along was read in the node's own bucket (`Attaches`), and the
  children of a bucket are newer than it (`Downwards`), so that the target is never among its own candidates. All of it is claimed while the plan is sane (`LimboInv`), and a plan once made
  stays (`PlanSticks`). From it
  `NoLimbo`, for any tree that was only planted (`PlantedInit`: nothing sealed yet, so it is the first optimize; `NoLimboGrown` is the
  tree of the run), any depth, sane plan, number of groups, place of failure, and any number of callers who set, create and gray, abandoned anywhere.
  Callers who edit, add, move or rebuild are outside: an edit, for one, puts a record back into the bucket it read it in, which the optimize may be about to seal.
* `LlmPipeline_proofs`. `IInv`: whoever has its pipeline to itself finds there what its own call left, at each point from the first ask to
  the last look (`Finds`), and two who are there at a time know that they share it. From it `AnswersRecorded` and `OwnDiagnosis`, for any
  clients, workers, tools and attempts; that a local result is marked is claimed of every tool but the `Silent` ones, `bucket_split` and `text_chunk`.
* `RetrievalCaches_proofs`. The argument is the order of the two queues, in which a task keeps its place from its storage task to its
  resumption (`Ahead`). A query reads its keys first and then waits for storage behind every writer whose event those keys cover, so it
  finds no context such a writer has still to invalidate (`Follows`); a context loaded by a query that the loop resumes before the writer
  is invalidated after (`ContextsFollow`); whatever else was read before a commit is of an older context version. `Inv` has one such
  conjunct per read. From it `AnswersFresh`, for any askers, writers, sizes and depth of recall. For the lexical indexes `IndexSound` says
  of which writer an index lags while it may, and what the askers who are about to build one have loaded (`LoadsSound`): only a recall that comes to
  a bucket after ranking another has records of a time before it reads the version, and what it builds is `late`. From it `CachesFresh`, which
  leaves those out, for any depth of recall.

* `AdvanceQuery_proofs`, the alias maps. A map only grows, so that what was told stays in it (`ToldKept`); its file has the ids the memory has,
  so that a crash takes none back (`SameIds`). For `AnswersDecode` more is needed: a caller has at most one task in the storage thread's queue
  and waits for it (`TasksFit`); only a bucket that leads on is frozen, and no text waits to be encoded by a map that will be frozen by
  then (`ThawedAhead`); every open session is that of an operation that holds its bucket (`Sessions`), no two hold the same one (`Apart`), and
  until an optimize meddles its bucket leads nowhere before it seals it itself, so that it works on one map (`Owned`). `MapsInv` is all of
  these. From it `AliasesSettled` and `AnswersMeant`, for any ids, callers, kinds of operation, chains of buckets and crashes. New aliases follow the
  old ones in the order of their ids: that a finite set of numbers has an ascending sequence (`Ascending`) is shown first.
* `AdvanceQuery_proofs`, the query. `QueryInv` says of each bucket being worked on that what is in its boxes, with what its children still to do
  will bring, is all it has to cover (`FrameFits`); that each below another waits for the child that one works on (`Waits`); that the chunks
  out for the innermost cover what it covers, whatever of them failed (`InChunks`); and that a chunk not yet answered fits or is one reply
  (`ChunkSmall`). What first-fit packing and merging keep is shown for any boxes; what a rendered subtree covers, by the least bucket where it
  would not be so. From it `AnswersComplete` and `RequestsBounded`, for any tree, sizes, threshold, parallelism and replies.

Only model-checked: `LeavesKept` of `Optimize` (that what is in place is also within reach of the root needs the whole way down to the target,
by induction over its depth, beside callers who add to it), `ResultsLoseNothing` of `ToolResults` (what recursive definitions compute for every input is induction over
data, which this prover cannot do), and every liveness property (liveness under fairness is out of its reach too).

## 7. Plan

1. done: locks, tree and services, split ingest and resumption, migration, caches and queries; the record store with crashes and GC, shown
   to implement a map; time ids; alias maps and advance queries; `optimize` beside writers; the chat client, the shared pipeline and what
   its tools return.
2. next: governance and forgetting in `BucketServices` (`_apply_forgetting` grays records without a lock, before `_auto_manage_bucket` takes
   it); `cleanup_expired` in `RecordStore`; splits with several groups; several batches and jobs at once.
3. proofs next: `LeavesKept`.

Not modelled: prompt wording, token counting and parsing of LLM answers (a plan is any choice of keys), the network and server-sent events,
scores and ranking (floating point over wall-clock ages), Markdown, the file cache of images, the RPC and CLI wrappers, layout of
the files, export and import of a store.

## 8. Where the code and its documentation disagree

Shown by a run:

* `LocksResumeDeadlock`: `resume_pending_jobs` takes a bucket lock under the global lock, `set_bucket` and
  `create_bucket` the global lock under a bucket lock; they can wait for each other for ever. README_en.md:152
  says interrupted tasks are resumed.
* `OptimizeUndone`: an add that holds the target's lock refreshes its summary and saves the row it read before its LLM call, unsealed and
  without redirect, after an optimize has sealed the target: what was moved can no longer be reached (`services/optimize_service.py` 75).
  docs/project_introduction_en.md:146 counts optimize among the writes that line 151 says are serialized.

Shown by the configurations of section 4 that are not runs of `PROJECT.json`:

* `TitleResurrected`: a titled bucket that was compressed and then deleted is handed out again by `set_bucket`
  (`services/record_service.py` 224), against docs/python_api_guide_en.md:282.
* `EditStranded`: `update_memory` (and gray, delete) locks the bucket read before it waited and then writes to whatever
  bucket the record is in, which a rebuild may be about to seal; against docs/project_introduction_en.md:151.
* `TwoForOneTitle`: a summary refresh reads a child's node record, the child is deleted, the refresh writes the record back, live
  (`services/bucket_summary_service.py` 97-113); the title is free by then, and `set_bucket` makes a second live child for it, although it is
  described as "setdefault" (`services/bucket_topology_service.py` 203).
* `SubtreeUnreached`: the first memory of a child refreshes the child's summary while a rebuild of the parent moves the child's node record to the
  successor; the refresh writes it back where it was, which the rebuild then seals: no query from the root reaches the child or its memory
  (`services/bucket_summary_service.py` 60, 114).
* `OptimizeHalfway`: an optimize that raises half-way leaves the records it has moved live in a successor to which nothing leads
  (`services/optimize_service.py` 232); the target stays in use without them.
* `AnyPlanKeepsLeaves` (under `OptimizeHalfway.cfg`): a `group_bucket_id` may name the target itself or the bucket of a node the plan drops (`memory/llm_pipeline.py` 968,
  `services/optimize_service.py` 149); what is grouped there goes away with the bucket when it is sealed. The schema in
  prompts/optimize_schema.md has no such field.
* `ChatTurnLost`: `post_nowait` closes the HTTP client before it gives the turn back (`LLM_connect.py` 2347-2352). If that raises, or its caller is cancelled
  there, nobody gives the turn back and every later ask waits until its time is up. The pipelines here ask with `queue=True`, whose worker does
  not close the client, so this concerns callers of `Chat` itself.
* `IndexStale`: global recall loads the records of all scanned buckets, then reads each bucket's version as it comes to
  it, after the CPU tasks of the buckets before (`services/query_service.py` 1071-1095). A write meanwhile makes it
  index old records under the new version, and every query of the bucket uses that index until the next write;
  against docs/project_introduction_en.md:9.
* `AdvanceAliases`: when a rebuild seals the target of an advance query while it runs, `bucket.resolve_alias` (docs/python_api_guide_en.md:253)
  looks the answer's aliases up in the successor's map, where they mean nothing or another memory (`services/alias_service.py` 83).
* `UsageRecounted`: with `enable_cleaning` off, an add records the usage of the previous call once more (`memory/llm_pipeline.py` 84,
  `services/ingest_service.py` 186).

Seen while modelling, not shown by a run:

* A start that is refused because of the lock of a dead run removes that lock, although its error asks for manual
  confirmation (`services/migration_service.py` 66, 172); the next start overwrites the pre-upgrade backup with
  what the dead run left.
* `dirty` is set by every write and nothing calls `clear_dirty` (`storage.py` 1813), so no query reads the answer table
  once anything was written, and every query fills it; docs/jsonrpc_methods_en.md:267 calls `use_cache` "Enable query cache".
* The lexical index is kept by bucket and version (`rerank.py` 92), without `include_gray`: one built from the records without
  gray ones serves a query that asks for them, and the other way round.
* Recall boosts are computed before the cache keys (`services/query_service.py` 202): after a write in between an answer
  ranked with old boosts is stored under the new keys.
* `acquire_many` acquires before its `try`: a task cancelled while it waits for the second lock of a group never
  releases the first (`engine_runtime.py` 44; docs/project_introduction_en.md:152 says only involved buckets are
  locked). `OnlyInvolved` is therefore proved for moves without cancellation and for everything else with it, and `Locks` cancels only
  operations that take one lock at a time.
* Two `set_bucket` calls of one title on a bucket that is sealed while they wait can make two children
  (`services/bucket_topology_service.py` 57).
* Rebuilding a parent moves a child that was itself rebuilt by the id its record names, the sealed one
  (`services/record_primitives_service.py` 136); the child's titles are then not inherited.
* A summary refresh writes back a row read before its LLM call and can unseal a bucket sealed meanwhile
  (`services/bucket_summary_service.py` 90). `update_bucket_info` has no check against that.
* Over several levels of rebuilds, historical title maps can violate what `validate_dataset_layout` demands of the JSON
  layout (`storage.py` 1174).
* A split lists its new bucket before it is filled and does not lock it (`services/bucket_split_service.py` 200-205):
  a compress of it meanwhile seals it under the split.
* Split ingest asks for a rebuild again when a worker in flight overflows after the rebuild began; the
  second request ends the batch as if the rebuilt bucket were full (`services/ingest_service.py` 516-522).
* An exception in a resume saves the job as it was loaded, without its progress, and pauses it, even if it had been
  completed (`services/split_ingest_job_service.py` 199). A caller may also resume the job of a batch that is running;
  both then write its chunks.
* Upgrade: files are removed with `rmtree(ignore_errors=True)` and `unlink(missing_ok=True)`; the model takes them to be gone afterwards. A crash between switching the SQLite index and `schema_version.json` leaves a store that refuses to open
  (`storage.py` 106); a crash between `schema_version.json` and `bucket_mapping.json` leaves one that is served as
  upgraded; if restoring a failed switch fails too, the rollback copy is removed with the run directory.
* Records: a GC between `copy_evidence` and `write_memory_record` deletes the new record's evidence; refused updates push the live
  record's evidence out of the last `evidence_versions`; `cleanup_expired` (`services/maintenance_service.py` 249) grays a record whose expiry
  was renewed between listing and graying; a crash in the GC leaves gray rows whose files are gone; keys a compression
  leaves behind keep active rows in the sealed bucket, are never collected and protect what they are related to.
* Chat: an event wakes all who wait for the turn, so requests can overlap; `stop_all` fails with "dictionary changed size" after the
  first waiting task (`LLM_connect.py`); `close` during a request does not end the worker; the partial text of a failed request is
  returned as an answer; the question of a timed-out queued ask stays in the conversation; a stop of a chat's first ask is
  sent again by the rule for first retries; the task of a caller cancelled while it waits for the turn stays registered.
* Aliases: the answer of an operation that holds its bucket is refused when an unlocked caller has allocated in the map meanwhile; after
  an optimize, or two rebuilds, the version check can pass on the successor's map with other ids; a query encodes candidates with the
  successor's map but decodes with that of the bucket it started at (`services/query_service.py` 478, 605).
* Advance query: a child's final request that fails twice fails the query, although docs/python_api_guide_en.md:248 says a placeholder is kept;
  after the last reduction the query fails without looking whether its text fits by now; a single reply larger than the threshold is sent as it is.
* Pipeline: concurrent operations on the shared pipeline read each other's usage and diagnosis; answers whose aliases are refused, and
  attempts that raise, are not counted; the local results of `bucket_split` and `text_chunk` may lack the degraded mark (`memory/llm_pipeline.py` 312, 395, 1217-1232); a
  compress whose summary is replaced by a local one counts as the model's answer; a compress that fails while an ingest retries after an overflow is
  passed over in silence (`services/ingest_service.py` 110); a preset that cannot be parsed raises, which is not modelled.
* Optimize: a memory added to the target, or to a child that is archived, while the plan is made stays in the sealed bucket; a failure
  half-way leaves moved records in the successor (above); a second optimize overwrites `sealed_to`.
* Time ids: configuring another state file, or drawing ids before the first configuration, may repeat ids within a millisecond.
* A split fills several groups without locking them; a file cache entry may expire between `is_file` and the update of its metadata.
* Other races, not yet reached by a run: add or refresh against move; delete against move leaves a title; a compress
  of a parent against one of its child; a split at the depth limit; a move cancelled between its two
  writes, which leaves a record gray where it was and nowhere else (`services/record_service.py` 273).
