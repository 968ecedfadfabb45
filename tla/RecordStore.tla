----------------------------- MODULE RecordStore -----------------------------
(***************************************************************************)
(* Memory records on disk: one JSON file per revision, evidence files, and *)
(* the SQLite rows that say which revision of a key is the latest and      *)
(* which evidence it keeps.  Every change runs as a task of the one        *)
(* storage thread, so tasks never overlap; the operations that queue them  *)
(* do, and await the pipeline between two tasks.  A crash may fall between *)
(* any two steps of a task.                                                *)
(*                                                                         *)
(* The bucket lock lets one operation at a time write a key (BucketLocks); *)
(* recalls, clean-up and the storage GC do not take it.                    *)
(***************************************************************************)
EXTENDS Naturals, Sequences, SequencesExt, FiniteSets

CONSTANTS Keys,
          NoKey,                   \* no key
          EvidenceVersions,        \* evidence files kept per key
          MaxRev, MaxEvi,          \* bounds: identifiers of revisions and evidence
          MaxRestarts              \* bound: crashes

ASSUME RecordStoreAssumption ==
    /\ NoKey \notin Keys
    /\ EvidenceVersions \in Nat \ {0}
    /\ MaxRev \in Nat /\ MaxEvi \in Nat /\ MaxRestarts \in Nat

VARIABLES
  files,     \* revision files on disk
  evidence,  \* evidence files on disk
  rows,      \* the records table
  view,      \* the published index: the latest revision of each key, 0: none
  op,        \* the operation under way on each key
  task,      \* what the storage thread is in the middle of
  revs, evis,     \* identifiers drawn so far
  restarts,
  lost,      \* history: evidence removed while somebody still names it
  dropped    \* keys a compression left behind in a sealed bucket

store == <<files, evidence, rows>>
drawn == <<revs, evis>>
ghosts == <<restarts, lost, dropped>>
storeVars == <<store, view, op, task, drawn, ghosts>>

NoEvi == 0
File == [key: Keys, rev: 1..MaxRev, gray: BOOLEAN, evi: 0..MaxEvi,
         target: Keys \cup {NoKey}]
Evidence == [key: Keys, evi: 1..MaxEvi]
NoRow == [rev |-> 0, gray |-> FALSE, latest |-> NoEvi, history |-> <<>>]
Idle == [pc |-> "idle", evi |-> NoEvi, gray |-> FALSE, target |-> NoKey]
NoTask == [do |-> "none", key |-> NoKey, doomed |-> {}]

Row == [rev: 0..MaxRev, gray: BOOLEAN, latest: 0..MaxEvi,
        history: UNION {[1..n -> 1..MaxEvi] : n \in 0..EvidenceVersions}]
Op == [pc: {"idle", "copy", "clean", "write"}, evi: 0..MaxEvi,
       gray: BOOLEAN, target: Keys \cup {NoKey}]
Task == [do: {"none", "evict", "keep", "commit", "publish", "purge", "sweep",
              "unrow", "unlink", "forget", "unpublish"},
         key: Keys \cup {NoKey}, doomed: SUBSET Keys]

\* Every variable keeps to its domain.
StoreTypeOK ==
    /\ files \subseteq File /\ evidence \subseteq Evidence
    /\ rows \in [Keys -> Row] /\ view \in [Keys -> 0..MaxRev]
    /\ op \in [Keys -> Op] /\ task \in Task
    /\ revs \in 0..MaxRev /\ evis \in 0..MaxEvi
    /\ restarts \in 0..MaxRestarts
    /\ lost \subseteq Evidence /\ dropped \subseteq Keys

StoreInit ==
    /\ files = {} /\ evidence = {}
    /\ rows = [k \in Keys |-> NoRow] /\ view = [k \in Keys |-> 0]
    /\ op = [k \in Keys |-> Idle] /\ task = NoTask
    /\ revs = 0 /\ evis = 0
    /\ restarts = 0 /\ lost = {} /\ dropped = {}

----------------------------------------------------------------------------
(* Reading. *)

\* get_record: the file the published index points at, if it is there.
Found(k) == {f \in files : f.key = k /\ f.rev = view[k]}
Has(k) == Found(k) # {}
Get(k) == CHOOSE f \in Found(k) : TRUE

Published(table) == [k \in Keys |-> table[k].rev]

Free == task = NoTask
Run(do, k) == task' = [NoTask EXCEPT !.do = do, !.key = k]
Doing(do, k) == task.do = do /\ task.key = k
Step(k, pc) == op' = [op EXCEPT ![k].pc = pc]
Ends(k) == op' = [op EXCEPT ![k] = Idle]

----------------------------------------------------------------------------
(* add_memory, update_memory and set_gray on a key. *)

\* Without an evidence file an update keeps the record's reference, an add has
\* none.  Bounds: the identifiers left.
Begin(k) ==
    /\ op[k].pc = "idle" /\ k \notin dropped /\ revs < MaxRev
    /\ \/ Step(k, "copy")
       \/ op' = [op EXCEPT ![k] = [Idle EXCEPT !.pc = "clean"]]
       \/ Has(k) /\ op' = [op EXCEPT ![k] =
                             [Idle EXCEPT !.pc = "clean", !.evi = Get(k).evi]]
    /\ UNCHANGED <<store, view, task, drawn, ghosts>>

\* copy_evidence: the copy, then the row's oldest references, then the row.  A new
\* key has no row yet and nothing to update.
CopyFile(k) ==
    /\ Free /\ op[k].pc = "copy" /\ evis < MaxEvi
    /\ evis' = evis + 1
    /\ evidence' = evidence \cup {[key |-> k, evi |-> evis']}
    /\ op' = [op EXCEPT ![k].evi = evis']
    /\ Run("evict", k)
    /\ UNCHANGED <<files, rows, view, revs, ghosts>>

History(k) == Append(rows[k].history, op[k].evi)
Kept(s) == SubSeq(s, IF Len(s) > EvidenceVersions
                     THEN Len(s) - EvidenceVersions + 1 ELSE 1, Len(s))
Evicted(k) == {[key |-> k, evi |-> e] :
                  e \in ToSet(SubSeq(History(k), 1,
                                     Len(History(k)) - Len(Kept(History(k)))))}

CopyEvict(k) ==
    /\ Doing("evict", k)
    /\ evidence' = evidence \ Evicted(k)
    /\ lost' = lost \cup Evicted(k)
    /\ Run("keep", k)
    /\ UNCHANGED <<files, rows, view, op, drawn, restarts, dropped>>

CopyKeep(k) ==
    /\ Doing("keep", k)
    /\ rows' = IF rows[k].rev = 0 THEN rows
               ELSE [rows EXCEPT ![k].history = Kept(History(k)),
                                 ![k].latest = op[k].evi]
    /\ Step(k, "clean")
    /\ task' = NoTask
    /\ UNCHANGED <<files, evidence, view, drawn, ghosts>>

\* The pipeline cleans, may refuse, relates the record to others and may call it
\* gray.
Refuse(k) ==
    /\ op[k].pc = "clean"
    /\ Ends(k)
    /\ UNCHANGED <<store, view, task, drawn, ghosts>>

Accept(k, target, gray) ==
    /\ op[k].pc = "clean"
    /\ op' = [op EXCEPT ![k].pc = "write", ![k].target = target, ![k].gray = gray]
    /\ UNCHANGED <<store, view, task, drawn, ghosts>>

SetGray(k) ==
    /\ op[k].pc = "idle" /\ k \notin dropped /\ revs < MaxRev
    /\ Has(k)
    /\ op' = [op EXCEPT ![k] = [pc |-> "write", evi |-> Get(k).evi,
                                gray |-> ~Get(k).gray, target |-> Get(k).target]]
    /\ UNCHANGED <<store, view, task, drawn, ghosts>>

\* write_memory_record: the complete file under its name, then the row and the
\* counters in one transaction, then the index.
WriteFile(k) ==
    /\ Free /\ op[k].pc = "write" /\ revs < MaxRev
    /\ revs' = revs + 1
    /\ files' = files \cup {[key |-> k, rev |-> revs', gray |-> op[k].gray,
                             evi |-> op[k].evi, target |-> op[k].target]}
    /\ Run("commit", k)
    /\ UNCHANGED <<evidence, rows, view, op, evis, ghosts>>

\* Fault: a written record's reference is not added to the history.
NamedUnlisted(k) == rows[k].history

Named(k) == IF op[k].evi = NoEvi \/ op[k].evi \in ToSet(rows[k].history)
            THEN rows[k].history ELSE History(k)

WriteRow(k) ==
    /\ Doing("commit", k)
    /\ rows' = [rows EXCEPT ![k] = [rev |-> revs, gray |-> op[k].gray,
                                    latest |-> op[k].evi,
                                    history |-> Kept(Named(k))]]
    /\ Run("publish", k)
    /\ UNCHANGED <<files, evidence, view, op, drawn, ghosts>>

WritePublish(k) ==
    /\ Doing("publish", k)
    /\ view' = [view EXCEPT ![k] = rows[k].rev]
    /\ Ends(k)
    /\ task' = NoTask
    /\ UNCHANGED <<store, drawn, ghosts>>

----------------------------------------------------------------------------
(* The drop of a compression. *)

OfKey(k) == {e \in evidence : e.key = k}

\* A compression leaves an active record of the bucket it seals behind, and purges
\* its evidence: the directory, then the row.
Drop(k) ==
    /\ Free /\ op[k].pc = "idle" /\ k \notin dropped
    /\ Has(k) /\ ~Get(k).gray
    /\ dropped' = dropped \cup {k}
    /\ lost' = lost \cup OfKey(k)
    /\ evidence' = evidence \ OfKey(k)
    /\ Run("purge", k)
    /\ UNCHANGED <<files, rows, view, op, drawn, restarts>>

Purged(k) == [rows EXCEPT ![k].history = <<>>, ![k].latest = NoEvi]

PurgeRow(k) ==
    /\ Doing("purge", k)
    /\ rows' = Purged(k)
    /\ task' = NoTask
    /\ UNCHANGED <<files, evidence, view, op, drawn, ghosts>>

----------------------------------------------------------------------------
(* The storage GC, one task of many steps. *)

Active(k) == Has(k) /\ ~Get(k).gray
ActiveTargets == {Get(k).target : k \in {j \in Keys : Active(j)}}
Held == {[key |-> k, evi |-> op[k].evi] : k \in {j \in Keys : op[j].pc # "idle"}}

\* Fault: the keys active records relate to are collected as well.
CollectableTargets ==
    {k \in Keys : rows[k].rev # 0 /\ rows[k].gray}

Collectable ==
    {k \in Keys : rows[k].rev # 0 /\ rows[k].gray /\ k \notin ActiveTargets}

\* Fault: superseded means older than the newest file, not than the row.
StaleByFile ==
    {f \in files : /\ rows[f.key].rev # 0
                   /\ \E g \in files : g.key = f.key /\ g.rev > f.rev}

Stale == {f \in files : rows[f.key].rev # 0 /\ f.rev # rows[f.key].rev}

\* What has passed its retention goes, any part of what may: superseded revisions,
\* where an unlink may fail, and the keys the rest of the task works off.
GcRevisions ==
    /\ Free
    /\ \E old \in SUBSET Stale : files' = files \ old
    /\ \E doomed \in SUBSET Collectable :
          task' = [do |-> "sweep", key |-> NoKey, doomed |-> doomed]
    /\ UNCHANGED <<evidence, rows, view, op, drawn, ghosts>>

Pending == {k \in task.doomed : \E f \in files : f.key = k}

GcKeyFiles(k) ==
    /\ task.do = "sweep" /\ k \in Pending
    /\ files' = {f \in files : f.key # k}
    /\ task' = [task EXCEPT !.do = "unrow", !.key = k]
    /\ UNCHANGED <<evidence, rows, view, op, drawn, ghosts>>

GcKeyEvidence(k) ==
    /\ Doing("unrow", k)
    /\ evidence' = evidence \ OfKey(k)
    /\ lost' = lost \cup (OfKey(k) \cap Held)
    /\ rows' = Purged(k)
    /\ task' = [task EXCEPT !.do = "sweep", !.key = NoKey]
    /\ UNCHANGED <<files, view, op, drawn, restarts, dropped>>

Referenced ==
    UNION {{[key |-> k, evi |-> e] : e \in {rows[k].latest} \cup ToSet(rows[k].history)}
           : k \in Keys \ task.doomed}

GcEvidence ==
    /\ task.do = "sweep" /\ Pending = {}
    /\ evidence' = evidence \cap Referenced
    /\ lost' = lost \cup ((evidence \cap Held) \ Referenced)
    /\ task' = [task EXCEPT !.do = "forget"]
    /\ UNCHANGED <<files, rows, view, op, drawn, restarts, dropped>>

\* commit_maintenance_snapshots: the rows of the collected keys, then the index.
GcCommit ==
    /\ task.do = "forget"
    /\ rows' = [k \in Keys |-> IF k \in task.doomed THEN NoRow ELSE rows[k]]
    /\ task' = [task EXCEPT !.do = "unpublish"]
    /\ UNCHANGED <<files, evidence, view, op, drawn, ghosts>>

GcPublish ==
    /\ task.do = "unpublish"
    /\ view' = [k \in Keys |-> IF k \in task.doomed THEN 0 ELSE view[k]]
    /\ task' = NoTask
    /\ UNCHANGED <<store, op, drawn, ghosts>>

----------------------------------------------------------------------------
(* A crash, and the start that builds the index from the rows. *)

Restart ==
    /\ restarts < MaxRestarts
    /\ restarts' = restarts + 1
    /\ op' = [k \in Keys |-> Idle] /\ task' = NoTask
    /\ view' = Published(rows)
    /\ UNCHANGED <<store, drawn, lost, dropped>>

KeyStep(k) ==
    \/ Begin(k) \/ CopyFile(k) \/ CopyEvict(k) \/ CopyKeep(k)
    \/ Refuse(k) \/ \E t \in (Keys \ {k}) \cup {NoKey}, g \in BOOLEAN : Accept(k, t, g)
    \/ SetGray(k) \/ WriteFile(k) \/ WriteRow(k) \/ WritePublish(k)
    \/ Drop(k) \/ PurgeRow(k)
    \/ GcKeyFiles(k) \/ GcKeyEvidence(k)

StoreNext ==
    \/ \E k \in Keys : KeyStep(k)
    \/ GcRevisions \/ GcEvidence \/ GcCommit \/ GcPublish
    \/ Restart

StoreSpec == StoreInit /\ [][StoreNext]_storeVars

----------------------------------------------------------------------------
(* What is promised. *)

LatestFiles(k) == {f \in files : f.key = k /\ f.rev = rows[k].rev}

\* Whatever crashes when: the row of an active record points at a complete file
\* that says so itself, and between tasks the index says what the rows say.  Only a
\* gray key may be left with a row and no file, by a crash inside the GC.
LatestReadable ==
    /\ \A k \in Keys :
          rows[k].rev # 0 =>
             /\ \A f \in LatestFiles(k) : f.gray = rows[k].gray
             /\ \/ LatestFiles(k) # {}
                \/ rows[k].gray /\ (restarts > 0 \/ ~Free)
    /\ Free => view = Published(rows)

\* The evidence an active record names is there, unless EvidenceVersions newer
\* copies pushed it out, a compression dropped the record, or the GC ran while an
\* operation on the key held a reference no row had yet.  In particular no crash
\* and no GC between operations loses it.
EvidenceLossExplained ==
    \A k \in Keys :
       Active(k) /\ Get(k).evi # NoEvi =>
          [key |-> k, evi |-> Get(k).evi] \in evidence \cup lost

\* What get_record answers implements the map from keys to latest revisions.
Latest ==
    [k \in Keys |-> IF Has(k)
                    THEN [rev |-> Get(k).rev, gray |-> Get(k).gray,
                          target |-> Get(k).target]
                    ELSE [rev |-> 0, gray |-> FALSE, target |-> NoKey]]

Map == INSTANCE RecordMap WITH latest <- Latest
ImplementsMap == Map!Spec
=============================================================================
