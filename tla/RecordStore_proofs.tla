-------------------------- MODULE RecordStore_proofs --------------------------
(* The record store reads what it wrote, and is the map RecordMap, for any   *)
(* number of keys, revisions, evidence files and crashes.  After it, the     *)
(* ids of its records: they increase, for every width of the sequence and    *)
(* without a bound on the clock or on the number of ids.  At the end, the    *)
(* upgrade of a whole store: it never loses the old data.                    *)
EXTENDS RecordStore, TimeIds, Migration, TLAPS, SequenceTheorems

\* Domains: those of StoreTypeOK, but for evidence, of which nothing is needed.
Rows == [rev: 0..MaxRev, gray: BOOLEAN, latest: 0..MaxEvi, history: Seq(0..MaxEvi)]

Types ==
    /\ files \subseteq File
    /\ rows \in [Keys -> Rows] /\ view \in [Keys -> 0..MaxRev]
    /\ op \in [Keys -> Op] /\ task \in Task
    /\ revs \in 0..MaxRev /\ evis \in 0..MaxEvi /\ restarts \in Nat

\* A revision has one file, and the identifiers drawn bound them all.
FilesApart ==
    /\ \A f \in files : f.rev <= revs
    /\ \A f, g \in files : f.rev = g.rev => f = g

\* LatestReadable without its word on Free: a row may be without its file where
\* the GC is at work on the key, or has been when a crash fell.
RowsFiled ==
    \A k \in Keys :
       /\ rows[k].rev <= revs
       /\ rows[k].rev # 0 =>
             /\ \A f \in LatestFiles(k) : f.gray = rows[k].gray
             /\ \/ LatestFiles(k) # {}
                \/ rows[k].gray /\ (restarts > 0 \/ k \in task.doomed)

\* The index lags behind the rows only between the commit and the publication
\* of one task.
IndexFollows ==
    \A k \in Keys : \/ view[k] = rows[k].rev
                    \/ task.do = "publish" /\ task.key = k
                    \/ task.do = "unpublish" /\ k \in task.doomed

Collects == task.do \in {"sweep", "unrow", "forget", "unpublish"}

\* A write in the middle: the file is there before the row, and both are newer
\* than what the index says.
WriteAhead ==
    /\ ~Collects => task.doomed = {}
    /\ task.do \in {"commit", "publish"} => task.key \in Keys /\ op[task.key].pc = "write"
    /\ task.do = "commit" =>
          /\ \E f \in files : f.key = task.key /\ f.rev = revs /\ f.gray = op[task.key].gray
          /\ revs # 0 /\ \A k \in Keys : rows[k].rev < revs
    /\ task.do = "publish" =>
          /\ \E f \in files : f.key = task.key /\ f.rev = revs
          /\ rows[task.key].rev = revs /\ view[task.key] < revs

\* A collection in the middle: what is collected is gray and nobody's target,
\* and its files go before its rows.
CollectSafely ==
    /\ task.do \in {"sweep", "unrow", "forget"} =>
          \A k \in task.doomed : rows[k].gray /\ rows[k].rev # 0
    /\ task.do \in {"sweep", "unrow"} => task.doomed \cap ActiveTargets = {}
    /\ task.do \in {"forget", "unpublish"} => \A f \in files : f.key \notin task.doomed
    /\ task.do = "unpublish" => \A k \in task.doomed : rows[k].rev = 0

IInv == Types /\ FilesApart /\ RowsFiled /\ IndexFollows /\ WriteAhead /\ CollectSafely

----------------------------------------------------------------------------
(* Operators. *)

\* What is kept of a history is a history.
LEMMA KeptIsHistory ==
    ASSUME NEW S, NEW s \in Seq(S), EvidenceVersions \in Nat \ {0}
    PROVE  Kept(s) \in Seq(S)
<1>1. CASE Len(s) > EvidenceVersions
    BY <1>1 DEF Kept
<1>2. CASE ~(Len(s) > EvidenceVersions)
    BY <1>2 DEF Kept
<1> QED BY <1>1, <1>2

\* A history grows by what is appended.
LEMMA AppendHistory ==
    ASSUME NEW S, NEW s \in Seq(S), NEW e \in S
    PROVE  Append(s, e) \in Seq(S)
OBVIOUS

\* Who reads the same files of every key reads the same map.
LEMMA SameFound ==
    ASSUME \A k \in Keys : Found(k)' = Found(k)
    PROVE  Latest' = Latest /\ ActiveTargets' = ActiveTargets
<1>1. \A k \in Keys : Has(k)' = Has(k) /\ Get(k)' = Get(k)
    BY DEF Has, Get
<1>2. Latest' = Latest
    BY <1>1 DEF Latest
<1>3. \A k \in Keys : Active(k)' = Active(k)
    BY <1>1 DEF Active
<1> QED BY <1>1, <1>2, <1>3 DEF ActiveTargets

\* What get_record answers is a revision or nothing.
LEMMA LatestIsMap ==
    ASSUME Types'
    PROVE  Latest' \in [Keys -> Map!Revision \cup {Map!None}]
<1>1. ASSUME NEW k \in Keys, Has(k)' PROVE Get(k)' \in File
    BY <1>1 DEF Has, Get, Found, Types
<1> QED BY <1>1 DEF Latest, File, Map!Revision, Map!None

----------------------------------------------------------------------------
(* Types. *)

\* Every step keeps the domains.
LEMMA TypesStep == Types /\ [StoreNext]_storeVars => Types'
<1> SUFFICES ASSUME Types, [StoreNext]_storeVars PROVE Types'
    OBVIOUS
<1> USE RecordStoreAssumption DEF RecordStoreAssumption
<1>1. ASSUME NEW k \in Keys, KeyStep(k) PROVE Types'
    <2>0. op[k] \in Op /\ rows[k] \in Rows
        BY DEF Types
    <2>1. CASE Begin(k)
        <3>1. Has(k) => Get(k) \in File
            BY DEF Has, Get, Found, Types
        <3>0. Idle \in Op
            BY DEF Idle, Op, NoEvi
        <3>2. [Idle EXCEPT !.pc = "clean"] \in Op /\ [op[k] EXCEPT !.pc = "copy"] \in Op
            BY <2>0, <3>0 DEF Op
        <3>3. Has(k) => [Idle EXCEPT !.pc = "clean", !.evi = Get(k).evi] \in Op
            BY <3>0, <3>1 DEF Op, File
        <3>4. op' \in [Keys -> Op]
            <4>1. CASE Step(k, "copy")
                BY <3>2, <4>1 DEF Step, Types
            <4>2. CASE op' = [op EXCEPT ![k] = [Idle EXCEPT !.pc = "clean"]]
                BY <3>2, <4>2 DEF Types
            <4>3. CASE Has(k) /\ op' = [op EXCEPT ![k] =
                             [Idle EXCEPT !.pc = "clean", !.evi = Get(k).evi]]
                BY <3>3, <4>3 DEF Types
            <4> QED BY <2>1, <4>1, <4>2, <4>3 DEF Begin
        <3> QED BY <2>1, <3>4 DEF Begin, Types, store, drawn, ghosts
    <2>2. CASE CopyFile(k)
        <3>1. evis + 1 \in 0..MaxEvi /\ evis' = evis + 1
            BY <2>2 DEF CopyFile, Types
        <3>2. [op[k] EXCEPT !.evi = evis'] \in Op
            BY <2>0, <3>1 DEF Op
        <3>3. op' \in [Keys -> Op]
            BY <2>2, <3>2 DEF CopyFile, Types
        <3>4. task' \in Task
            BY <2>2 DEF CopyFile, Run, NoTask, Task
        <3> QED BY <2>2, <3>1, <3>3, <3>4 DEF CopyFile, Types, ghosts
    <2>3. CASE CopyEvict(k)
        BY <2>3 DEF CopyEvict, Types, Run, NoTask, Task, drawn
    <2>4. CASE CopyKeep(k)
        <3>1. History(k) \in Seq(0..MaxEvi)
            BY <2>0, AppendHistory DEF History, Rows, Op
        <3>2. Kept(History(k)) \in Seq(0..MaxEvi)
            BY <3>1, KeptIsHistory
        <3>3. [rows[k] EXCEPT !.history = Kept(History(k)), !.latest = op[k].evi] \in Rows
            BY <2>0, <3>2 DEF Rows, Op
        <3>4. rows' \in [Keys -> Rows]
            BY <2>4, <3>3 DEF CopyKeep, Types
        <3> QED BY <2>0, <2>4, <3>4 DEF CopyKeep, Step, Types, NoTask, Task, Op, drawn, ghosts
    <2>5. CASE Refuse(k) \/ \E t \in (Keys \ {k}) \cup {NoKey}, g \in BOOLEAN : Accept(k, t, g)
        <3>1. Idle \in Op
            BY DEF Idle, Op, NoEvi
        <3>2. ASSUME NEW t \in Keys \cup {NoKey}, NEW g \in BOOLEAN
              PROVE  [op[k] EXCEPT !.pc = "write", !.target = t, !.gray = g] \in Op
            BY <2>0 DEF Op
        <3>3. CASE Refuse(k)
            BY <3>1, <3>3 DEF Refuse, Ends, Types, store, drawn, ghosts
        <3>4. ASSUME NEW t \in Keys \cup {NoKey}, NEW g \in BOOLEAN, Accept(k, t, g)
              PROVE  Types'
            <4>1. op' = [op EXCEPT ![k] = [op[k] EXCEPT !.pc = "write", !.target = t, !.gray = g]]
                BY <3>4 DEF Accept, Types
            <4>2. op' \in [Keys -> Op]
                BY <3>2, <4>1 DEF Types
            <4> QED BY <3>4, <4>2 DEF Accept, Types, store, drawn, ghosts
        <3> QED BY <2>5, <3>3, <3>4
    <2>6. CASE SetGray(k)
        <3>1. Get(k) \in File
            BY <2>6 DEF SetGray, Has, Get, Found, Types
        <3>2. [pc |-> "write", evi |-> Get(k).evi, gray |-> ~Get(k).gray,
               target |-> Get(k).target] \in Op
            BY <3>1 DEF File, Op
        <3> QED BY <2>6, <3>2 DEF SetGray, Types, store, drawn, ghosts
    <2>7. CASE WriteFile(k)
        <3>1. revs + 1 \in 1..MaxRev /\ revs' = revs + 1
            BY <2>7 DEF WriteFile, Types
        <3>2. [key |-> k, rev |-> revs', gray |-> op[k].gray,
               evi |-> op[k].evi, target |-> op[k].target] \in File
            BY <2>0, <3>1 DEF Op, File
        <3>3. task' \in Task
            BY <2>7 DEF WriteFile, Run, NoTask, Task
        <3>4. files' \subseteq File
            BY <2>7, <3>2 DEF WriteFile, Types
        <3> QED BY <2>7, <3>1, <3>3, <3>4 DEF WriteFile, Types, ghosts
    <2>8. CASE WriteRow(k)
        <3>0. rows[k].history \in Seq(0..MaxEvi) /\ op[k].evi \in 0..MaxEvi
            BY <2>0 DEF Rows, Op
        <3>1. Named(k) \in Seq(0..MaxEvi)
            BY <3>0, Zenon, AppendHistory DEF Named, History
        <3>2. Kept(Named(k)) \in Seq(0..MaxEvi)
            BY <3>1, KeptIsHistory
        <3>3. [rev |-> revs, gray |-> op[k].gray, latest |-> op[k].evi,
               history |-> Kept(Named(k))] \in Rows
            BY <2>0, <3>2 DEF Rows, Op, Types
        <3> QED BY <2>8, <3>3 DEF WriteRow, Types, Run, NoTask, Task, drawn, ghosts
    <2>9. CASE WritePublish(k)
        <3>1. Idle \in Op /\ rows[k].rev \in 0..MaxRev
            BY <2>0 DEF Idle, Op, NoEvi, Rows
        <3> QED BY <2>9, <3>1 DEF WritePublish, Ends, Types, NoTask, Task, store, drawn, ghosts
    <2>10. CASE Drop(k)
        BY <2>10 DEF Drop, Types, Run, NoTask, Task, drawn
    <2>11. CASE PurgeRow(k) \/ GcKeyEvidence(k)
        <3>0. NoEvi \in 0..MaxEvi /\ <<>> \in Seq(0..MaxEvi)
            BY DEF NoEvi
        <3>1. [rows[k] EXCEPT !.history = <<>>, !.latest = NoEvi] \in Rows
            BY <2>0, <3>0 DEF Rows
        <3>2. Purged(k) \in [Keys -> Rows]
            BY <3>1 DEF Purged, Types
        <3>3. CASE PurgeRow(k)
            BY <3>2, <3>3 DEF PurgeRow, Types, NoTask, Task, drawn, ghosts
        <3>4. CASE GcKeyEvidence(k)
            BY <3>2, <3>4 DEF GcKeyEvidence, Types, Task, drawn
        <3> QED BY <2>11, <3>3, <3>4
    <2>12. CASE GcKeyFiles(k)
        BY <2>12 DEF GcKeyFiles, Types, Task, drawn, ghosts
    <2> QED BY <1>1, <2>1, <2>2, <2>3, <2>4, <2>5, <2>6, <2>7, <2>8, <2>9, <2>10, <2>11, <2>12
            DEF KeyStep
<1>2. CASE GcRevisions
    <2>1. Collectable \subseteq Keys
        BY DEF Collectable
    <2> QED BY <1>2, <2>1 DEF GcRevisions, Types, Task, drawn, ghosts
<1>3. CASE GcEvidence
    BY <1>3 DEF GcEvidence, Types, Task, drawn
<1>4. CASE GcCommit
    <2>1. NoRow \in Rows
        BY DEF NoRow, Rows, NoEvi
    <2> QED BY <1>4, <2>1 DEF GcCommit, Types, Task, drawn, ghosts
<1>5. CASE GcPublish
    BY <1>5 DEF GcPublish, Types, NoTask, Task, store, drawn, ghosts
<1>6. CASE Restart
    <2>1. Idle \in Op /\ NoTask \in Task
        BY DEF Idle, Op, NoEvi, NoTask, Task
    <2>2. Published(rows) \in [Keys -> 0..MaxRev]
        BY DEF Published, Types, Rows
    <2> QED BY <1>6, <2>1, <2>2 DEF Restart, Types, store, drawn
<1>7. CASE UNCHANGED storeVars
    BY <1>7 DEF storeVars, store, drawn, ghosts, Types
<1> QED BY <1>1, <1>2, <1>3, <1>4, <1>5, <1>6, <1>7 DEF StoreNext

----------------------------------------------------------------------------
(* The invariant.                                                            *)

\* What of the rows everything else is about.
SameRows == \A k \in Keys : rows'[k].rev = rows[k].rev /\ rows'[k].gray = rows[k].gray

\* What a published index and the files it names say is the same in two
\* states with the same files, rows and index.
LEMMA Undisturbed ==
    ASSUME files' = files, SameRows
    PROVE  \A k \in Keys : LatestFiles(k)' = LatestFiles(k)
BY DEF SameRows, LatestFiles

\* Steps that only think: the files, the index and what counts of the rows
\* stay, and the thread is between tasks or in one that does not collect.
LEMMA QuietKeeps ==
    ASSUME IInv, Types', files' = files, view' = view, SameRows,
           revs' = revs, restarts' = restarts,
           ~Collects, task.do \notin {"commit", "publish"},
           task'.do \notin {"commit", "publish"}, ~Collects', task'.doomed = {}
    PROVE  IInv'
<1>1. FilesApart'
    BY DEF IInv, FilesApart
<1>2. RowsFiled'
    BY Undisturbed DEF IInv, RowsFiled, SameRows, WriteAhead
<1>3. IndexFollows'
    BY DEF IInv, IndexFollows, SameRows, Collects
<1>4. WriteAhead'
    BY DEF IInv, WriteAhead, Collects
<1>5. CollectSafely'
    BY DEF CollectSafely, Collects
<1> QED BY <1>1, <1>2, <1>3, <1>4, <1>5 DEF IInv

\* Steps of an operation beside whatever task is running.
LEMMA BesideKeeps ==
    ASSUME IInv, Types', files' = files, rows' = rows, view' = view,
           revs' = revs, restarts' = restarts, task' = task,
           NEW k \in Keys, \A j \in Keys \ {k} : op'[j] = op[j],
           op[k].pc # "write"
    PROVE  IInv'
<1>0. \A j \in Keys : LatestFiles(j)' = LatestFiles(j) /\ Found(j)' = Found(j)
    BY DEF LatestFiles, Found
<1>1. FilesApart'
    BY DEF IInv, FilesApart
<1>2. RowsFiled'
    BY <1>0 DEF IInv, RowsFiled
<1>3. IndexFollows'
    BY DEF IInv, IndexFollows
<1>4. WriteAhead'
    BY DEF IInv, WriteAhead, Collects
<1>5. CollectSafely'
    BY <1>0, SameFound DEF IInv, CollectSafely
<1> QED BY <1>1, <1>2, <1>3, <1>4, <1>5 DEF IInv

\* The steps of an operation on a key, and of the tasks of copies and purges.
LEMMA OperationKeeps ==
    ASSUME IInv, Types', NEW k \in Keys,
           \/ Begin(k) \/ Refuse(k) \/ SetGray(k)
           \/ \E t \in (Keys \ {k}) \cup {NoKey}, g \in BOOLEAN : Accept(k, t, g)
           \/ CopyFile(k) \/ CopyEvict(k) \/ CopyKeep(k) \/ Drop(k) \/ PurgeRow(k)
    PROVE  IInv'
<1> USE DEF Types
<1>0. Types
    BY DEF IInv
<1>1. CASE \/ Begin(k) \/ Refuse(k) \/ SetGray(k)
           \/ \E t \in (Keys \ {k}) \cup {NoKey}, g \in BOOLEAN : Accept(k, t, g)
    <2>1. op[k].pc # "write"
        BY <1>1 DEF Begin, Refuse, SetGray, Accept
    <2>2. \A j \in Keys \ {k} : op'[j] = op[j]
        BY <1>0, <1>1 DEF Begin, Refuse, SetGray, Accept, Step, Ends
    <2>3. /\ files' = files /\ rows' = rows /\ view' = view
          /\ revs' = revs /\ restarts' = restarts /\ task' = task
        BY <1>1 DEF Begin, Refuse, SetGray, Accept, store, drawn, ghosts
    <2> QED BY <2>1, <2>2, <2>3, BesideKeeps
<1>2. CASE CopyFile(k) \/ CopyEvict(k) \/ Drop(k)
    <2>1. task.do \in {"none", "evict"} /\ task'.do \in {"evict", "keep", "purge"}
        <3>1. CASE CopyFile(k)
            BY <3>1 DEF CopyFile, Free, Run, NoTask
        <3>2. CASE CopyEvict(k)
            BY <3>2 DEF CopyEvict, Doing, Run, NoTask
        <3>3. CASE Drop(k)
            BY <3>3 DEF Drop, Free, Run, NoTask
        <3> QED BY <1>2, <3>1, <3>2, <3>3
    <2>2. task'.doomed = {}
        BY <1>2 DEF CopyFile, CopyEvict, Drop, Run, NoTask
    <2>3. /\ files' = files /\ rows' = rows /\ view' = view
          /\ revs' = revs /\ restarts' = restarts
        BY <1>2 DEF CopyFile, CopyEvict, Drop, drawn, ghosts
    <2> QED BY <2>1, <2>2, <2>3, QuietKeeps DEF Collects, SameRows
<1>3. CASE CopyKeep(k) \/ PurgeRow(k)
    <2>1. task.do \in {"keep", "purge"} /\ task'.do = "none" /\ task'.doomed = {}
        BY <1>3 DEF CopyKeep, PurgeRow, Doing, NoTask
    <2>2. /\ files' = files /\ view' = view /\ revs' = revs /\ restarts' = restarts
        BY <1>3 DEF CopyKeep, PurgeRow, drawn, ghosts
    <2>3. SameRows
        <3>1. rows[k] \in Rows
            BY <1>0
        <3>2. \A j \in Keys \ {k} : rows'[j] = rows[j]
            BY <1>0, <1>3 DEF CopyKeep, PurgeRow, Purged
        <3>3. CASE CopyKeep(k)
            <4>1. \/ rows'[k] = rows[k]
                  \/ rows'[k] = [rows[k] EXCEPT !.history = Kept(History(k)), !.latest = op[k].evi]
                BY <1>0, <3>3 DEF CopyKeep
            <4> QED BY <3>1, <3>2, <4>1 DEF Rows, SameRows
        <3>4. CASE PurgeRow(k)
            <4>1. rows'[k] = [rows[k] EXCEPT !.history = <<>>, !.latest = NoEvi]
                BY <1>0, <3>4 DEF PurgeRow, Purged
            <4> QED BY <3>1, <3>2, <4>1 DEF Rows, SameRows
        <3> QED BY <1>3, <3>3, <3>4
    <2> QED BY <2>1, <2>2, <2>3, QuietKeeps DEF Collects
<1> QED BY <1>1, <1>2, <1>3

\* A write: the file, the row, the index.
LEMMA WriteKeeps ==
    ASSUME IInv, Types', NEW k \in Keys,
           WriteFile(k) \/ WriteRow(k) \/ WritePublish(k)
    PROVE  IInv'
<1>0. Types /\ revs \in Nat /\ \A j \in Keys : rows[j].rev \in Nat
    BY DEF IInv, Types, Rows
<1>1. CASE WriteFile(k)
    <2> DEFINE f == [key |-> k, rev |-> revs', gray |-> op[k].gray,
                     evi |-> op[k].evi, target |-> op[k].target]
    <2>1. /\ revs' = revs + 1 /\ files' = files \cup {f} /\ f.key = k /\ f.rev = revs + 1
          /\ f.gray = op[k].gray
          /\ rows' = rows /\ view' = view /\ op' = op /\ restarts' = restarts
        BY <1>1 DEF WriteFile, ghosts
    <2>2. task.do = "none" /\ task.doomed = {} /\ task'.do = "commit" /\ task'.key = k /\ task'.doomed = {}
        BY <1>1 DEF WriteFile, Free, Run, NoTask
    <2> HIDE DEF f
    <2>3. FilesApart'
        <3>1. \A g \in files : g.rev \in Nat
            BY <1>0 DEF Types, File
        <3> QED BY <1>0, <2>1, <3>1 DEF IInv, FilesApart
    <2>4. \A j \in Keys : LatestFiles(j)' = LatestFiles(j)
        BY <1>0, <2>1 DEF LatestFiles, IInv, RowsFiled
    <2>5. RowsFiled'
        BY <1>0, <2>1, <2>2, <2>4 DEF IInv, RowsFiled
    <2>6. IndexFollows'
        BY <2>1, <2>2 DEF IInv, IndexFollows
    <2>7. WriteAhead'
        <3>1. op[k].pc = "write"
            BY <1>1 DEF WriteFile
        <3>2. \A j \in Keys : rows'[j].rev < revs'
            BY <1>0, <2>1 DEF IInv, RowsFiled
        <3> QED BY <1>0, <2>1, <2>2, <3>1, <3>2 DEF WriteAhead, Collects
    <2>8. CollectSafely'
        BY <2>2 DEF CollectSafely
    <2> QED BY <2>3, <2>5, <2>6, <2>7, <2>8 DEF IInv
<1>2. CASE WriteRow(k)
    <2>1. /\ files' = files /\ view' = view /\ op' = op /\ revs' = revs /\ restarts' = restarts
          /\ rows'[k].rev = revs /\ rows'[k].gray = op[k].gray
          /\ \A j \in Keys \ {k} : rows'[j] = rows[j]
        BY <1>0, <1>2 DEF WriteRow, drawn, ghosts, Types
    <2>2. /\ task.do = "commit" /\ task.key = k /\ task.doomed = {}
          /\ task'.do = "publish" /\ task'.key = k /\ task'.doomed = {}
        <3>1. task.do = "commit" /\ task.key = k
            BY <1>2 DEF WriteRow, Doing
        <3>2. task.doomed = {}
            BY <3>1 DEF IInv, WriteAhead, Collects
        <3> QED BY <1>2, <3>1, <3>2 DEF WriteRow, Run, NoTask
    <2>3. FilesApart'
        BY <2>1 DEF IInv, FilesApart
    <2>4. PICK f \in files : f.key = k /\ f.rev = revs /\ f.gray = op[k].gray
        BY <2>2 DEF IInv, WriteAhead
    <2>5. LatestFiles(k)' = {f}
        BY <2>1, <2>4 DEF LatestFiles, IInv, FilesApart
    <2>6. \A j \in Keys \ {k} : LatestFiles(j)' = LatestFiles(j)
        BY <2>1 DEF LatestFiles
    <2>7. RowsFiled'
        BY <1>0, <2>1, <2>2, <2>4, <2>5, <2>6 DEF IInv, RowsFiled
    <2>8. IndexFollows'
        BY <2>1, <2>2 DEF IInv, IndexFollows
    <2>9. WriteAhead'
        <3>1. view[k] < revs
            BY <2>2 DEF IInv, IndexFollows, WriteAhead
        <3> QED BY <2>1, <2>2, <2>4, <3>1 DEF IInv, WriteAhead, Collects
    <2>10. CollectSafely'
        BY <2>2 DEF CollectSafely
    <2> QED BY <2>3, <2>7, <2>8, <2>9, <2>10 DEF IInv
<1>3. CASE WritePublish(k)
    <2>1. /\ files' = files /\ rows' = rows /\ revs' = revs /\ restarts' = restarts
          /\ view'[k] = rows[k].rev /\ \A j \in Keys \ {k} : view'[j] = view[j]
        BY <1>0, <1>3 DEF WritePublish, store, drawn, ghosts, Types
    <2>2. task.do = "publish" /\ task.key = k /\ task'.do = "none" /\ task'.doomed = {} /\ task.doomed = {}
        <3>1. task.do = "publish" /\ task.key = k
            BY <1>3 DEF WritePublish, Doing
        <3>2. task.doomed = {}
            BY <3>1 DEF IInv, WriteAhead, Collects
        <3> QED BY <1>3, <3>1, <3>2 DEF WritePublish, NoTask
    <2>3. FilesApart'
        BY <2>1 DEF IInv, FilesApart
    <2>4. RowsFiled'
        BY <2>1, <2>2 DEF IInv, RowsFiled, LatestFiles
    <2>5. IndexFollows'
        BY <2>1, <2>2 DEF IInv, IndexFollows
    <2>6. WriteAhead' /\ CollectSafely'
        BY <2>2 DEF WriteAhead, CollectSafely
    <2> QED BY <2>3, <2>4, <2>5, <2>6 DEF IInv
<1> QED BY <1>1, <1>2, <1>3

\* The storage GC.
LEMMA CollectKeeps ==
    ASSUME IInv, Types',
           \/ GcRevisions \/ GcEvidence \/ GcCommit \/ GcPublish
           \/ \E k \in Keys : GcKeyFiles(k) \/ GcKeyEvidence(k)
    PROVE  IInv'
<1>0. Types
    BY DEF IInv
<1>1. CASE GcRevisions
    <2>1. /\ rows' = rows /\ view' = view /\ op' = op /\ revs' = revs /\ restarts' = restarts
          /\ files' \subseteq files /\ files \ Stale \subseteq files'
          /\ task.do = "none" /\ task'.do = "sweep" /\ task.doomed = {}
          /\ task'.doomed \subseteq Collectable
        BY <1>1 DEF GcRevisions, Free, NoTask, drawn, ghosts
    <2>2. \A k \in Keys : view[k] = rows[k].rev
        BY <2>1 DEF IInv, IndexFollows
    <2>3. \A k \in Keys : rows[k].rev # 0 => LatestFiles(k)' = LatestFiles(k)
        BY <2>1 DEF LatestFiles, Stale
    <2>4. \A k \in Keys : Found(k)' = Found(k)
        BY <1>0, <2>1, <2>2 DEF Found, Stale, Types, File
    <2>5. FilesApart'
        BY <2>1 DEF IInv, FilesApart
    <2>6. RowsFiled'
        BY <2>1, <2>3 DEF IInv, RowsFiled
    <2>7. IndexFollows' /\ WriteAhead'
        BY <2>1, <2>2 DEF IndexFollows, WriteAhead, Collects
    <2>8. CollectSafely'
        BY <2>1, <2>4, SameFound DEF CollectSafely, Collectable
    <2> QED BY <2>5, <2>6, <2>7, <2>8 DEF IInv
<1>2. ASSUME NEW k \in Keys, GcKeyFiles(k) PROVE IInv'
    <2>1. /\ rows' = rows /\ view' = view /\ op' = op /\ revs' = revs /\ restarts' = restarts
          /\ files' = {f \in files : f.key # k} /\ k \in task.doomed
          /\ task.do = "sweep" /\ task'.do = "unrow" /\ task'.doomed = task.doomed
        BY <1>0, <1>2 DEF GcKeyFiles, Pending, drawn, ghosts, Types, Task
    <2>2. \A j \in Keys \ {k} : LatestFiles(j)' = LatestFiles(j) /\ Found(j)' = Found(j)
        BY <2>1 DEF LatestFiles, Found
    <2>3. LatestFiles(k)' = {} /\ Found(k)' = {}
        BY <2>1 DEF LatestFiles, Found
    <2>4. FilesApart'
        BY <2>1 DEF IInv, FilesApart
    <2>5. RowsFiled'
        BY <2>1, <2>2, <2>3 DEF IInv, RowsFiled, CollectSafely
    <2>6. IndexFollows' /\ WriteAhead'
        BY <2>1 DEF IInv, IndexFollows, WriteAhead, Collects
    <2>7. ActiveTargets' \subseteq ActiveTargets
        <3>1. ~Active(k)'
            BY <2>3 DEF Active, Has
        <3>2. \A j \in Keys \ {k} : Active(j)' = Active(j) /\ Get(j)' = Get(j)
            BY <2>2 DEF Active, Has, Get
        <3> QED BY <3>1, <3>2 DEF ActiveTargets
    <2>8. CollectSafely'
        BY <2>1, <2>7 DEF IInv, CollectSafely
    <2> QED BY <2>4, <2>5, <2>6, <2>8 DEF IInv
<1>3. ASSUME NEW k \in Keys, GcKeyEvidence(k) PROVE IInv'
    <2>1. /\ files' = files /\ view' = view /\ op' = op /\ revs' = revs /\ restarts' = restarts
          /\ task.do = "unrow" /\ task'.do = "sweep" /\ task'.doomed = task.doomed
        BY <1>0, <1>3 DEF GcKeyEvidence, Doing, drawn, Types, Task
    <2>2. SameRows
        <3>1. rows[k] \in Rows
            BY <1>0 DEF Types
        <3>2. \A j \in Keys \ {k} : rows'[j] = rows[j]
            BY <1>0, <1>3 DEF GcKeyEvidence, Purged, Types
        <3>3. rows'[k] = [rows[k] EXCEPT !.history = <<>>, !.latest = NoEvi]
            BY <1>0, <1>3 DEF GcKeyEvidence, Purged, Types
        <3>4. rows'[k].rev = rows[k].rev /\ rows'[k].gray = rows[k].gray
            BY <3>1, <3>3 DEF Rows
        <3> QED BY <3>2, <3>4 DEF SameRows
    <2>3. FilesApart'
        BY <2>1 DEF IInv, FilesApart
    <2>4. RowsFiled'
        BY <2>1, <2>2, Undisturbed DEF IInv, RowsFiled, SameRows
    <2>5. IndexFollows' /\ WriteAhead'
        BY <2>1, <2>2 DEF IInv, IndexFollows, WriteAhead, Collects, SameRows
    <2>6. \A j \in Keys : Found(j)' = Found(j)
        BY <2>1 DEF Found
    <2>7. task.doomed \subseteq Keys
        BY <1>0 DEF Types, Task
    <2>8. CollectSafely'
        BY <2>1, <2>2, <2>6, <2>7, SameFound DEF IInv, CollectSafely, SameRows
    <2> QED BY <2>3, <2>4, <2>5, <2>8 DEF IInv
<1>4. CASE GcEvidence
    <2>1. /\ files' = files /\ rows' = rows /\ view' = view /\ op' = op /\ revs' = revs
          /\ restarts' = restarts /\ Pending = {}
          /\ task.do = "sweep" /\ task'.do = "forget" /\ task'.doomed = task.doomed
        BY <1>0, <1>4 DEF GcEvidence, drawn, Types, Task
    <2>2. FilesApart'
        BY <2>1 DEF IInv, FilesApart
    <2>3. RowsFiled'
        BY <2>1 DEF IInv, RowsFiled, LatestFiles
    <2>4. IndexFollows' /\ WriteAhead'
        BY <2>1 DEF IInv, IndexFollows, WriteAhead, Collects
    <2>5. CollectSafely'
        BY <2>1 DEF IInv, CollectSafely, Pending
    <2> QED BY <2>2, <2>3, <2>4, <2>5 DEF IInv
<1>5. CASE GcCommit
    <2>1. /\ files' = files /\ view' = view /\ op' = op /\ revs' = revs /\ restarts' = restarts
          /\ task.do = "forget" /\ task'.do = "unpublish" /\ task'.doomed = task.doomed
          /\ \A k \in Keys \ task.doomed : rows'[k] = rows[k]
          /\ \A k \in Keys \cap task.doomed : rows'[k].rev = 0
        BY <1>0, <1>5 DEF GcCommit, NoRow, drawn, ghosts, Types, Task
    <2>2. FilesApart'
        BY <2>1 DEF IInv, FilesApart
    <2>3. \A k \in Keys \ task.doomed : LatestFiles(k)' = LatestFiles(k)
        BY <2>1 DEF LatestFiles
    <2>4. RowsFiled'
        BY <1>0, <2>1, <2>3 DEF IInv, RowsFiled, Types
    <2>5. IndexFollows' /\ WriteAhead'
        BY <2>1 DEF IInv, IndexFollows, WriteAhead, Collects
    <2>6. CollectSafely'
        BY <1>0, <2>1 DEF IInv, CollectSafely, Types, Task
    <2> QED BY <2>2, <2>4, <2>5, <2>6 DEF IInv
<1>6. CASE GcPublish
    <2>1. /\ files' = files /\ rows' = rows /\ op' = op /\ revs' = revs /\ restarts' = restarts
          /\ task.do = "unpublish" /\ task'.do = "none" /\ task'.doomed = {}
          /\ \A k \in Keys \ task.doomed : view'[k] = view[k]
          /\ \A k \in Keys \cap task.doomed : view'[k] = 0
        BY <1>0, <1>6 DEF GcPublish, NoTask, store, drawn, ghosts, Types
    <2>2. \A k \in Keys \cap task.doomed : rows[k].rev = 0
        BY <2>1 DEF IInv, CollectSafely
    <2>3. FilesApart'
        BY <2>1 DEF IInv, FilesApart
    <2>4. RowsFiled'
        BY <2>1, <2>2 DEF IInv, RowsFiled, LatestFiles
    <2>5. IndexFollows'
        BY <2>1, <2>2 DEF IInv, IndexFollows
    <2>6. WriteAhead' /\ CollectSafely'
        BY <2>1 DEF WriteAhead, CollectSafely
    <2> QED BY <2>3, <2>4, <2>5, <2>6 DEF IInv
<1> QED BY <1>1, <1>2, <1>3, <1>4, <1>5, <1>6

\* The empty store is consistent.
LEMMA InitIInv == StoreInit => IInv
<1> SUFFICES ASSUME StoreInit PROVE IInv
    OBVIOUS
<1> USE RecordStoreAssumption DEF RecordStoreAssumption, StoreInit
<1>1. NoRow \in Rows /\ NoRow.rev = 0
    BY DEF NoRow, Rows, NoEvi
<1>2. Idle \in Op /\ NoTask \in Task
    BY DEF Idle, Op, NoEvi, NoTask, Task
<1>3. Types
    BY <1>1, <1>2 DEF Types
<1>4. task.do = "none" /\ task.doomed = {}
    BY DEF NoTask
<1>5. \A k \in Keys : rows[k].rev = 0 /\ view[k] = 0
    BY <1>1
<1>6. FilesApart /\ RowsFiled /\ IndexFollows
    BY <1>5 DEF FilesApart, RowsFiled, IndexFollows
<1>7. WriteAhead /\ CollectSafely
    BY <1>4 DEF WriteAhead, CollectSafely
<1> QED BY <1>3, <1>6, <1>7 DEF IInv

\* Every step keeps the invariant.
LEMMA StepIInv == IInv /\ [StoreNext]_storeVars => IInv'
<1> SUFFICES ASSUME IInv, [StoreNext]_storeVars PROVE IInv'
    OBVIOUS
<1>0. Types /\ Types'
    BY TypesStep DEF IInv
<1>1. ASSUME NEW k \in Keys, KeyStep(k) PROVE IInv'
    BY <1>0, <1>1, OperationKeeps, WriteKeeps, CollectKeeps DEF KeyStep
<1>2. CASE GcRevisions \/ GcEvidence \/ GcCommit \/ GcPublish
    BY <1>0, <1>2, CollectKeeps
<1>3. CASE Restart
    <2>1. /\ files' = files /\ rows' = rows /\ revs' = revs /\ restarts' > 0
          /\ task'.do = "none" /\ task'.doomed = {}
          /\ \A k \in Keys : view'[k] = rows[k].rev
        BY <1>0, <1>3 DEF Restart, NoTask, Published, store, drawn, Types
    <2>2. FilesApart'
        BY <2>1 DEF IInv, FilesApart
    <2>3. RowsFiled'
        BY <2>1 DEF IInv, RowsFiled, LatestFiles
    <2>4. IndexFollows' /\ WriteAhead' /\ CollectSafely'
        BY <2>1 DEF IndexFollows, WriteAhead, CollectSafely
    <2> QED BY <1>0, <2>2, <2>3, <2>4 DEF IInv
<1>4. CASE UNCHANGED storeVars
    <2>1. /\ files' = files /\ rows' = rows /\ view' = view /\ op' = op /\ task' = task
          /\ revs' = revs /\ restarts' = restarts
        BY <1>4 DEF storeVars, store, drawn, ghosts
    <2>2. \A k \in Keys : Found(k)' = Found(k)
        BY <2>1 DEF Found
    <2>3. FilesApart' /\ RowsFiled' /\ IndexFollows' /\ WriteAhead'
        BY <2>1 DEF IInv, FilesApart, RowsFiled, LatestFiles, IndexFollows, WriteAhead, Collects
    <2>4. CollectSafely'
        BY <2>1, <2>2, SameFound DEF IInv, CollectSafely
    <2> QED BY <1>0, <2>3, <2>4 DEF IInv
<1> QED BY <1>1, <1>2, <1>3, <1>4 DEF StoreNext

\* The invariant holds of every behaviour.
LEMMA Invariance == StoreSpec => []IInv
BY InitIInv, StepIInv, PTL DEF StoreSpec

\* Whatever crashes when, the row of an active record points at a complete file
\* that agrees with it, and between tasks the index says what the rows say
\* (write_memory_record, gc_storage, commit_maintenance_snapshots).
THEOREM LatestAlwaysReadable == StoreSpec => []LatestReadable
<1>1. IInv => LatestReadable
    <2> SUFFICES ASSUME IInv PROVE LatestReadable
        OBVIOUS
    <2>1. Free => task.do = "none" /\ task.doomed = {}
        BY DEF Free, NoTask
    <2>2. ASSUME NEW k \in Keys, rows[k].rev # 0
          PROVE  /\ \A f \in LatestFiles(k) : f.gray = rows[k].gray
                 /\ LatestFiles(k) # {} \/ (rows[k].gray /\ (restarts > 0 \/ ~Free))
        <3>1. /\ \A f \in LatestFiles(k) : f.gray = rows[k].gray
              /\ LatestFiles(k) # {} \/ (rows[k].gray /\ (restarts > 0 \/ k \in task.doomed))
            BY <2>2 DEF IInv, RowsFiled
        <3>2. k \in task.doomed => ~Free
            BY <2>1
        <3> QED BY <3>1, <3>2
    <2>3. Free => view = Published(rows)
        BY <2>1 DEF IInv, IndexFollows, Published, Types
    <2> QED BY <2>2, <2>3 DEF LatestReadable
<1> QED BY <1>1, Invariance, PTL

----------------------------------------------------------------------------
(* The refinement: only three steps show through get_record.                *)

\* A reader of one key sees a newer revision, and of the others the same files.
LEMMA PublicationShows ==
    ASSUME IInv, Types', NEW k \in Keys,
           task.do = "publish", task.key = k,
           files' = files, rows' = rows, view'[k] = rows[k].rev,
           \A j \in Keys \ {k} : view'[j] = view[j]
    PROVE  Map!Next
<1>0. Types
    BY DEF IInv
<1>1. PICK f \in files : f.key = k /\ f.rev = revs
    BY DEF IInv, WriteAhead
<1>2. rows[k].rev = revs /\ view[k] < revs
    BY DEF IInv, WriteAhead
<1>3. Found(k)' = {f}
    BY <1>1, <1>2 DEF Found, IInv, FilesApart
<1>4. Has(k)' /\ Get(k)' = f
    BY <1>3 DEF Has, Get
<1>5. \A j \in Keys \ {k} : Found(j)' = Found(j)
    BY DEF Found
<1>6. \A j \in Keys \ {k} : Has(j)' = Has(j) /\ Get(j)' = Get(j)
    BY <1>5 DEF Has, Get
<1>7. Latest'[k] = [rev |-> f.rev, gray |-> f.gray, target |-> f.target]
    BY <1>4 DEF Latest
<1>8. Map!Others(k)
    BY <1>6 DEF Latest, Map!Others
<1>9. f.rev > Latest[k].rev
    <2>1. CASE Has(k)
        <3>1. Latest[k].rev = view[k]
            BY <2>1 DEF Latest, Has, Get, Found
        <3> QED BY <1>1, <1>2, <3>1
    <2>2. CASE ~Has(k)
        <3>1. Latest[k].rev = 0 /\ f.rev \in 1..MaxRev
            BY <1>0, <2>2 DEF Latest, Types, File
        <3> QED BY <3>1
    <2> QED BY <2>1, <2>2
<1>10. Latest'[k] \in Map!Revision
    BY <1>0, <1>7 DEF Types, File, Map!Revision
<1>11. Map!Put(k)
    BY <1>7, <1>9, <1>10 DEF Map!Put
<1>12. Latest' \in [Keys -> Map!Revision \cup {Map!None}]
    BY <1>0, LatestIsMap
<1> QED BY <1>8, <1>11, <1>12 DEF Map!Next

\* The GC forgets a gray key that no active record names.
LEMMA Forgotten ==
    ASSUME IInv, Types', NEW k \in Keys, GcKeyFiles(k)
    PROVE  Map!Next \/ Latest' = Latest
<1>0. Types
    BY DEF IInv
<1>1. /\ view' = view /\ rows' = rows /\ files' = {f \in files : f.key # k}
      /\ task.do = "sweep" /\ k \in task.doomed
    BY DEF GcKeyFiles, Pending
<1>2. \A j \in Keys \ {k} : Found(j)' = Found(j)
    BY <1>1 DEF Found
<1>3. Found(k)' = {}
    BY <1>1 DEF Found
<1>4. \A j \in Keys \ {k} : Latest'[j] = Latest[j]
    BY <1>2 DEF Latest, Has, Get
<1>5. Latest'[k] = Map!None
    BY <1>3 DEF Latest, Has, Map!None
<1>6. CASE Has(k)
    <2>1. view[k] = rows[k].rev /\ rows[k].gray /\ rows[k].rev # 0 /\ k \notin ActiveTargets
        BY <1>1 DEF IInv, IndexFollows, CollectSafely
    <2>2. Get(k) \in LatestFiles(k)
        BY <1>6, <2>1 DEF Has, Get, Found, LatestFiles
    <2>3. Get(k).gray
        BY <2>1, <2>2 DEF IInv, RowsFiled
    <2>4. Latest[k].gray
        BY <1>6, <2>3 DEF Latest
    <2>5. ASSUME NEW j \in Keys, Map!Active(j) PROVE Latest[j].target # k
        <3>1. Active(j)
            BY <2>5 DEF Map!Active, Map!None, Latest, Active
        <3>2. Latest[j].target = Get(j).target
            BY <3>1 DEF Active, Latest
        <3> QED BY <2>1, <3>1, <3>2 DEF ActiveTargets
    <2>6. Map!Forget(k)
        BY <1>5, <2>4, <2>5 DEF Map!Forget
    <2>7. Map!Others(k)
        BY <1>4 DEF Map!Others
    <2>8. Latest' \in [Keys -> Map!Revision \cup {Map!None}]
        BY LatestIsMap
    <2> QED BY <2>6, <2>7, <2>8 DEF Map!Next
<1>7. CASE ~Has(k)
    <2>1. Found(k) = {}
        BY <1>7 DEF Has
    <2>2. \A j \in Keys : Found(j)' = Found(j)
        BY <1>2, <1>3, <2>1
    <2> QED BY <2>2, SameFound
<1> QED BY <1>6, <1>7

\* Every step of the store is a step of the map or does not show.
LEMMA StepMaps == IInv /\ IInv' /\ [StoreNext]_storeVars => [Map!Next]_Latest
<1> SUFFICES ASSUME IInv, IInv', [StoreNext]_storeVars
             PROVE  Map!Next \/ Latest' = Latest
    OBVIOUS
<1>0. Types /\ Types' /\ \A j \in Keys : rows[j].rev \in Nat
    BY DEF IInv, Types, Rows
<1>1. ASSUME files' = files, view' = view PROVE Latest' = Latest
    BY <1>1, SameFound DEF Found
<1>2. ASSUME NEW k \in Keys, KeyStep(k) PROVE Map!Next \/ Latest' = Latest
    <2>1. CASE WriteFile(k)
        <3>1. /\ view' = view /\ task.do = "none"
              /\ files' = files \cup {[key |-> k, rev |-> revs + 1, gray |-> op[k].gray,
                                       evi |-> op[k].evi, target |-> op[k].target]}
            BY <2>1 DEF WriteFile, Free, NoTask, ghosts
        <3>2. \A j \in Keys : view[j] <= revs
            BY <3>1 DEF IInv, IndexFollows, RowsFiled
        <3>3. \A j \in Keys : Found(j)' = Found(j)
            BY <1>0, <3>1, <3>2 DEF Found, Types
        <3> QED BY <3>3, SameFound
    <2>2. CASE WritePublish(k)
        <3>1. /\ files' = files /\ rows' = rows /\ view'[k] = rows[k].rev
              /\ \A j \in Keys \ {k} : view'[j] = view[j]
              /\ task.do = "publish" /\ task.key = k
            BY <1>0, <2>2 DEF WritePublish, Doing, store, drawn, ghosts, Types
        <3> QED BY <1>0, <3>1, PublicationShows
    <2>3. CASE GcKeyFiles(k)
        BY <1>0, <2>3, Forgotten
    <2>4. CASE ~(WriteFile(k) \/ WritePublish(k) \/ GcKeyFiles(k))
        <3>1. files' = files /\ view' = view
            BY <1>2, <2>4 DEF KeyStep, Begin, CopyFile, CopyEvict, CopyKeep, Refuse, Accept, SetGray,
               WriteRow, Drop, PurgeRow, GcKeyEvidence, store, drawn, ghosts
        <3> QED BY <1>1, <3>1
    <2> QED BY <2>1, <2>2, <2>3, <2>4
<1>3. CASE GcRevisions
    <2>1. /\ view' = view /\ task.do = "none" /\ files' \subseteq files /\ files \ Stale \subseteq files'
        BY <1>3 DEF GcRevisions, Free, NoTask
    <2>2. \A k \in Keys : view[k] = rows[k].rev
        BY <2>1 DEF IInv, IndexFollows
    <2>3. \A k \in Keys : Found(k)' = Found(k)
        BY <2>1, <2>2 DEF Found, Stale
    <2> QED BY <2>3, SameFound
<1>4. CASE GcEvidence \/ GcCommit
    BY <1>1, <1>4 DEF GcEvidence, GcCommit, drawn, ghosts
<1>5. ASSUME task.do = "unpublish", files' = files,
             \A k \in Keys \ task.doomed : view'[k] = view[k]
      PROVE  Latest' = Latest
    <2>1. \A f \in files : f.key \notin task.doomed
        BY <1>5 DEF IInv, CollectSafely
    <2>2. \A k \in Keys : Found(k)' = Found(k)
        BY <1>5, <2>1 DEF Found
    <2> QED BY <2>2, SameFound
<1>6. CASE GcPublish
    BY <1>0, <1>5, <1>6 DEF GcPublish, store, drawn, ghosts, Types
<1>7. CASE Restart
    <2>1. files' = files /\ rows' = rows /\ \A k \in Keys : view'[k] = rows[k].rev
        BY <1>7 DEF Restart, Published, store, drawn
    <2>2. CASE task.do = "publish"
        <3>1. task.key \in Keys /\ \A k \in Keys \ {task.key} : view'[k] = view[k]
            BY <2>1, <2>2 DEF IInv, IndexFollows, WriteAhead
        <3> QED BY <1>0, <2>1, <2>2, <3>1, PublicationShows
    <2>3. CASE task.do = "unpublish"
        BY <1>5, <2>1, <2>3 DEF IInv, IndexFollows
    <2>4. CASE task.do \notin {"publish", "unpublish"}
        <3>1. \A k \in Keys : view'[k] = view[k]
            BY <2>1, <2>4 DEF IInv, IndexFollows
        <3>2. \A k \in Keys : Found(k)' = Found(k)
            BY <2>1, <3>1 DEF Found
        <3> QED BY <3>2, SameFound
    <2> QED BY <2>2, <2>3, <2>4
<1>8. CASE UNCHANGED storeVars
    BY <1>1, <1>8 DEF storeVars, store
<1> QED BY <1>2, <1>3, <1>4, <1>6, <1>7, <1>8 DEF StoreNext

\* What get_record answers is the map of RecordMap: a revision gives way only to
\* a newer one, only a gray key that no active record names is forgotten, and
\* neither a crash nor a half-done write or collection shows.
THEOREM StoreIsMap == StoreSpec => ImplementsMap
<1>1. StoreInit => Map!Init
    <2> SUFFICES ASSUME StoreInit PROVE Map!Init
        OBVIOUS
    <2>1. \A k \in Keys : Found(k) = {}
        BY DEF StoreInit, Found
    <2>2. \A k \in Keys : ~Has(k)
        BY <2>1 DEF Has
    <2> QED BY <2>2 DEF Latest, Map!Init, Map!None
<1>2. IInv /\ IInv' /\ [StoreNext]_storeVars => [Map!Next]_Latest
    BY StepMaps
<1> QED BY <1>1, <1>2, Invariance, PTL DEF StoreSpec, ImplementsMap, Map!Spec

----------------------------------------------------------------------------
(* The evidence an active record names.                                      *)

\* Evidence e of a key is there, or somebody took it away knowingly.
Secured(k, e) == e = NoEvi \/ [key |-> k, evi |-> e] \in evidence \cup lost

\* The GC sees from the row that e is still named.
Listed(k, e) ==
    \/ e = NoEvi
    \/ e \in ToSet(rows[k].history)
    \/ [key |-> k, evi |-> e] \in lost

\* What a reader may come upon is secured, now or after a restart, and the rows
\* list it.
FilesSecured ==
    \A k \in Keys :
       /\ \A f \in LatestFiles(k) : Secured(k, f.evi) /\ Listed(k, f.evi)
       /\ \A f \in Found(k) : Secured(k, f.evi)

\* So is what an operation holds, and an idle one holds nothing.
HandsSecured ==
    \A k \in Keys : /\ Secured(k, op[k].evi)
                    /\ op[k].pc = "idle" => op[k].evi = NoEvi

\* Tasks in the middle: a copy whose oldest references are to go from the row,
\* a write whose file has what the operation holds, a purge, and a collection
\* that has removed the files of a key.
Midway ==
    /\ task.do \in {"evict", "keep", "purge", "unrow"} => task.key \in Keys
    /\ task.do \in {"evict", "keep"} => op[task.key].pc = "copy"
    /\ task.do = "keep" => Evicted(task.key) \subseteq lost
    /\ task.do = "commit" =>
          \A f \in files : f.key = task.key /\ f.rev = revs => f.evi = op[task.key].evi
    /\ task.do = "purge" =>
          \A f \in LatestFiles(task.key) :
             f.evi = NoEvi \/ [key |-> task.key, evi |-> f.evi] \in lost
    /\ task.do = "unrow" => \A f \in files : f.key # task.key

\* A row keeps no more than it may.
ShortHistories == \A k \in Keys : Len(rows[k].history) <= EvidenceVersions

EInv == FilesSecured /\ HandsSecured /\ Midway /\ ShortHistories

\* What is kept of a history is its end, and short; the rest is its beginning.
LEMMA KeptIsEnd ==
    ASSUME NEW S, NEW s \in Seq(S), EvidenceVersions \in Nat \ {0}
    PROVE  /\ Kept(s) \in Seq(S) /\ Len(Kept(s)) <= EvidenceVersions
           /\ Len(s) <= EvidenceVersions => Kept(s) = s
           /\ s # <<>> => s[Len(s)] \in ToSet(Kept(s))
           /\ ToSet(s) \subseteq ToSet(SubSeq(s, 1, Len(s) - Len(Kept(s)))) \cup ToSet(Kept(s))
<1> DEFINE n == IF Len(s) > EvidenceVersions THEN Len(s) - EvidenceVersions + 1 ELSE 1
<1>1. Kept(s) = SubSeq(s, n, Len(s)) /\ Len(s) \in Nat
    BY DEF Kept
<1>2. n \in Nat /\ n >= 1 /\ n <= Len(s) + 1
    BY <1>1
<1>3. /\ Kept(s) \in Seq(S) /\ Len(Kept(s)) = Len(s) - n + 1
      /\ \A i \in 1..(Len(s) - n + 1) : Kept(s)[i] = s[n + i - 1]
    <2>1. n \in Int /\ Len(s) \in Int /\ \A i \in n..Len(s) : s[i] \in S
        BY <1>1, <1>2
    <2>2. /\ SubSeq(s, n, Len(s)) \in Seq(S)
          /\ Len(SubSeq(s, n, Len(s))) = IF n <= Len(s) THEN Len(s) - n + 1 ELSE 0
          /\ \A i \in 1..(Len(s) - n + 1) : SubSeq(s, n, Len(s))[i] = s[n + i - 1]
        <3> HIDE DEF n
        <3> QED BY <2>1, SubSeqProperties
    <2> HIDE DEF n
    <2> QED BY <1>1, <1>2, <2>2
<1>4. Len(Kept(s)) <= EvidenceVersions
    BY <1>1, <1>3
<1>5. ASSUME Len(s) <= EvidenceVersions PROVE Kept(s) = s
    <2>1. n = 1
        BY <1>1, <1>5
    <2>2. SubSeq(s, 1, Len(s)) = s
        BY SubSeqFull
    <2> HIDE DEF n
    <2> QED BY <1>1, <2>1, <2>2
<1>6. ASSUME NEW i \in n..Len(s) PROVE s[i] \in ToSet(Kept(s))
    <2>1. i - n + 1 \in 1..(Len(s) - n + 1) /\ n + (i - n + 1) - 1 = i
        BY <1>1, <1>2
    <2>2. Kept(s)[i - n + 1] = s[i] /\ i - n + 1 \in DOMAIN Kept(s)
        BY <1>1, <1>2, <1>3, <2>1
    <2> QED BY <2>2 DEF ToSet
<1>7. s # <<>> => s[Len(s)] \in ToSet(Kept(s))
    <2>1. s # <<>> => Len(s) \in n..Len(s)
        BY <1>1
    <2> QED BY <1>6, <2>1
<1> HIDE DEF n
<1>8. Len(s) - Len(Kept(s)) = n - 1
    BY <1>1, <1>2, <1>3
<1>9. ASSUME NEW i \in 1..(n - 1) PROVE s[i] \in ToSet(SubSeq(s, 1, n - 1))
    <2>1. i \in DOMAIN SubSeq(s, 1, n - 1) /\ SubSeq(s, 1, n - 1)[i] = s[i]
        BY <1>1, <1>2
    <2> QED BY <2>1 DEF ToSet
<1>10. ASSUME NEW x \in ToSet(s)
       PROVE  x \in ToSet(SubSeq(s, 1, n - 1)) \cup ToSet(Kept(s))
    <2>1. PICK i \in 1..Len(s) : x = s[i]
        BY DEF ToSet
    <2>2. i \in 1..(n - 1) \/ i \in n..Len(s)
        BY <1>1, <1>2
    <2> QED BY <1>6, <1>9, <2>1, <2>2
<1> QED BY <1>3, <1>4, <1>5, <1>7, <1>8, <1>10

\* What is secured stays secured where no evidence goes that is not on record
\* as lost.
Grows == evidence \cup lost \subseteq evidence' \cup lost' /\ lost \subseteq lost'

\* Who reads the same files of the same rows finds them secured as before.
LEMMA SameFilesSecured ==
    ASSUME FilesSecured, Grows, files' = files, view' = view, rows' = rows
    PROVE  FilesSecured'
<1>1. \A k \in Keys : LatestFiles(k)' = LatestFiles(k) /\ Found(k)' = Found(k)
    BY DEF LatestFiles, Found
<1> QED BY <1>1 DEF FilesSecured, Grows, Secured, Listed

\* So do the hands that hold the same.
LEMMA SameHandsSecured ==
    ASSUME HandsSecured, Grows, op' = op
    PROVE  HandsSecured'
BY DEF HandsSecured, Grows, Secured

\* Steps of an operation: it starts with nothing, or with what its record names.
LEMMA OperationSecures ==
    ASSUME IInv, EInv, NEW k \in Keys,
           \/ Begin(k) \/ Refuse(k) \/ SetGray(k)
           \/ \E t \in (Keys \ {k}) \cup {NoKey}, g \in BOOLEAN : Accept(k, t, g)
    PROVE  EInv'
<1>0. Types /\ FilesSecured /\ HandsSecured /\ Midway /\ ShortHistories
      /\ op[k] \in Op /\ NoEvi = 0
    BY DEF IInv, EInv, Types, NoEvi
<1>1. /\ files' = files /\ evidence' = evidence /\ rows' = rows /\ view' = view
      /\ task' = task /\ revs' = revs /\ lost' = lost
    BY DEF Begin, Refuse, SetGray, Accept, store, drawn, ghosts
<1>2. Grows
    BY <1>1 DEF Grows
<1>3. FilesSecured'
    BY <1>0, <1>1, <1>2, SameFilesSecured
<1>4. Has(k) => Secured(k, Get(k).evi)
    BY <1>0 DEF Has, Get, FilesSecured
<1>5. /\ \A j \in Keys \ {k} : op'[j] = op[j]
      /\ op'[k].evi = op[k].evi \/ op'[k].evi = NoEvi \/ (Has(k) /\ op'[k].evi = Get(k).evi)
      /\ op'[k].pc # "idle" \/ op'[k].evi = NoEvi
      /\ op[k].pc # "copy" /\ op[k].pc # "write"
    <2>1. CASE Begin(k)
        <3>1. CASE Step(k, "copy")
            BY <1>0, <2>1, <3>1 DEF Begin, Step, Types, Op
        <3>2. CASE op' = [op EXCEPT ![k] = [Idle EXCEPT !.pc = "clean"]]
            BY <1>0, <2>1, <3>2 DEF Begin, Types, Idle
        <3>3. CASE Has(k) /\ op' = [op EXCEPT ![k] =
                             [Idle EXCEPT !.pc = "clean", !.evi = Get(k).evi]]
            BY <1>0, <2>1, <3>3 DEF Begin, Types, Idle
        <3> QED BY <2>1, <3>1, <3>2, <3>3 DEF Begin
    <2>2. CASE Refuse(k)
        BY <1>0, <2>2 DEF Refuse, Ends, Idle, Types
    <2>3. CASE SetGray(k)
        BY <1>0, <2>3 DEF SetGray, Types
    <2>4. ASSUME NEW t \in (Keys \ {k}) \cup {NoKey}, NEW g \in BOOLEAN, Accept(k, t, g)
          PROVE  /\ \A j \in Keys \ {k} : op'[j] = op[j]
                 /\ op'[k].evi = op[k].evi /\ op'[k].pc = "write" /\ op[k].pc = "clean"
        <3>1. op' = [op EXCEPT ![k] = [op[k] EXCEPT !.pc = "write", !.target = t, !.gray = g]]
            BY <1>0, <2>4 DEF Accept, Types
        <3>2. op'[k] = [op[k] EXCEPT !.pc = "write", !.target = t, !.gray = g]
            BY <1>0, <3>1 DEF Types
        <3>3. op'[k].evi = op[k].evi /\ op'[k].pc = "write"
            BY <1>0, <3>2 DEF Op
        <3>4. op[k].pc = "clean"
            BY <2>4 DEF Accept
        <3> QED BY <1>0, <3>1, <3>3, <3>4 DEF Types
    <2> QED BY <2>1, <2>2, <2>3, <2>4
<1>6. HandsSecured'
    BY <1>0, <1>1, <1>4, <1>5 DEF HandsSecured, Secured
<1>7. Midway'
    <2>1. task.do \in {"evict", "keep"} => task.key # k
        BY <1>0, <1>5 DEF Midway
    <2>2. task.do = "commit" => task.key # k /\ task.key \in Keys
        BY <1>5 DEF IInv, WriteAhead
    <2>3. task.do = "keep" => Evicted(task.key)' = Evicted(task.key)
        BY <1>0, <1>1, <1>5, <2>1 DEF Evicted, History, Midway
    <2> QED BY <1>0, <1>1, <1>5, <2>1, <2>2, <2>3 DEF Midway, LatestFiles
<1>8. ShortHistories'
    BY <1>0, <1>1 DEF ShortHistories
<1> QED BY <1>3, <1>6, <1>7, <1>8 DEF EInv

\* A copy: its file, the references it pushes out, its row.
LEMMA CopySecures ==
    ASSUME IInv, IInv', EInv, NEW k \in Keys, CopyFile(k) \/ CopyEvict(k) \/ CopyKeep(k)
    PROVE  EInv'
<1>0. Types /\ Types' /\ FilesSecured /\ HandsSecured /\ Midway /\ ShortHistories
      /\ op[k] \in Op /\ rows[k] \in Rows /\ NoEvi = 0
    BY DEF IInv, EInv, Types, NoEvi
<1>1. CASE CopyFile(k)
    <2>1. /\ files' = files /\ rows' = rows /\ view' = view /\ lost' = lost
          /\ evidence' = evidence \cup {[key |-> k, evi |-> evis']}
          /\ op' = [op EXCEPT ![k].evi = evis'] /\ op[k].pc = "copy"
          /\ task'.do = "evict" /\ task'.key = k
        BY <1>1 DEF CopyFile, Run, NoTask, ghosts
    <2>2. Grows
        BY <2>1 DEF Grows
    <2>3. FilesSecured'
        BY <1>0, <2>1, <2>2, SameFilesSecured
    <2>4. /\ op'[k].evi = evis' /\ op'[k].pc = "copy"
          /\ \A j \in Keys \ {k} : op'[j] = op[j]
        BY <1>0, <2>1 DEF Types, Op
    <2>5. HandsSecured'
        BY <1>0, <2>1, <2>4 DEF HandsSecured, Secured
    <2>6. Midway' /\ ShortHistories'
        BY <1>0, <2>1, <2>4 DEF Midway, ShortHistories
    <2> QED BY <2>3, <2>5, <2>6 DEF EInv
<1>2. CASE CopyEvict(k)
    <2>1. /\ files' = files /\ rows' = rows /\ view' = view /\ op' = op
          /\ evidence' = evidence \ Evicted(k) /\ lost' = lost \cup Evicted(k)
          /\ task.do = "evict" /\ task.key = k /\ task'.do = "keep" /\ task'.key = k
        BY <1>2 DEF CopyEvict, Doing, Run, NoTask
    <2>2. Grows
        BY <2>1 DEF Grows
    <2>3. FilesSecured' /\ HandsSecured'
        BY <1>0, <2>1, <2>2, SameFilesSecured, SameHandsSecured
    <2>4. Evicted(k)' = Evicted(k)
        BY <2>1 DEF Evicted, History
    <2>5. Midway' /\ ShortHistories'
        BY <1>0, <2>1, <2>4 DEF Midway, ShortHistories
    <2> QED BY <2>3, <2>5 DEF EInv
<1>3. CASE CopyKeep(k)
    <2> DEFINE h == History(k)
    <2>1. /\ files' = files /\ evidence' = evidence /\ view' = view /\ lost' = lost
          /\ task.do = "keep" /\ task.key = k /\ task'.do = "none"
        BY <1>3 DEF CopyKeep, Doing, NoTask, drawn, ghosts
    <2>2. Evicted(k) \subseteq lost
        BY <1>0, <2>1 DEF Midway
    <2>3. h \in Seq(0..MaxEvi) /\ ToSet(rows[k].history) \subseteq ToSet(h)
        <3>1. rows[k].history \in Seq(0..MaxEvi) /\ op[k].evi \in 0..MaxEvi
            BY <1>0 DEF Rows, Op
        <3>2. ASSUME NEW i \in DOMAIN rows[k].history
              PROVE  i \in DOMAIN h /\ h[i] = rows[k].history[i]
            BY <3>1 DEF History
        <3> QED BY <3>1, <3>2, AppendHistory DEF History, ToSet
    <2>4. /\ Kept(h) \in Seq(0..MaxEvi) /\ Len(Kept(h)) <= EvidenceVersions
          /\ \A e \in ToSet(h) : e \in ToSet(Kept(h)) \/ [key |-> k, evi |-> e] \in lost
        <3>1. /\ Kept(h) \in Seq(0..MaxEvi) /\ Len(Kept(h)) <= EvidenceVersions
              /\ ToSet(h) \subseteq ToSet(SubSeq(h, 1, Len(h) - Len(Kept(h)))) \cup ToSet(Kept(h))
            BY <2>3, KeptIsEnd, RecordStoreAssumption DEF RecordStoreAssumption
        <3> QED BY <2>2, <3>1 DEF Evicted
    <2> HIDE DEF h
    <2>5. /\ \A j \in Keys \ {k} : rows'[j] = rows[j]
          /\ rows'[k].rev = rows[k].rev
          /\ rows'[k].history = rows[k].history \/ rows'[k].history = Kept(h)
        <3>1. CASE rows[k].rev = 0
            BY <1>3, <3>1 DEF CopyKeep
        <3>2. CASE rows[k].rev # 0
            <4>1. rows' = [rows EXCEPT ![k] = [rows[k] EXCEPT !.history = Kept(h),
                                                             !.latest = op[k].evi]]
                BY <1>0, <1>3, <3>2 DEF CopyKeep, Types, h
            <4>2. rows'[k] = [rows[k] EXCEPT !.history = Kept(h), !.latest = op[k].evi]
                BY <1>0, <4>1 DEF Types
            <4> QED BY <1>0, <4>1, <4>2 DEF Types, Rows
        <3> QED BY <3>1, <3>2
    <2>6. \A j \in Keys : LatestFiles(j)' = LatestFiles(j) /\ Found(j)' = Found(j)
        BY <2>1, <2>5 DEF LatestFiles, Found
    <2>7. ASSUME NEW e, Listed(k, e)
          PROVE  \/ e = NoEvi \/ e \in ToSet(rows'[k].history)
                 \/ [key |-> k, evi |-> e] \in lost'
        BY <2>1, <2>3, <2>4, <2>5, <2>7 DEF Listed
    <2>8. FilesSecured'
        BY <1>0, <2>1, <2>5, <2>6, <2>7 DEF FilesSecured, Secured, Listed
    <2>9. op' = [op EXCEPT ![k].pc = "clean"]
        BY <1>3 DEF CopyKeep, Step
    <2>10. /\ op'[k].evi = op[k].evi /\ op'[k].pc = "clean"
           /\ \A j \in Keys \ {k} : op'[j] = op[j]
        BY <1>0, <2>9 DEF Types, Op
    <2>11. HandsSecured'
        BY <1>0, <2>1, <2>10 DEF HandsSecured, Secured
    <2>12. Midway'
        BY <2>1 DEF Midway
    <2>13. ShortHistories'
        BY <1>0, <2>4, <2>5 DEF ShortHistories
    <2> QED BY <2>8, <2>11, <2>12, <2>13 DEF EInv
<1> QED BY <1>1, <1>2, <1>3

\* A compression drops a record and purges what it names.
LEMMA DropSecures ==
    ASSUME IInv, EInv, NEW k \in Keys, Drop(k) \/ PurgeRow(k)
    PROVE  EInv'
<1>0. Types /\ FilesSecured /\ HandsSecured /\ Midway /\ ShortHistories
      /\ rows[k] \in Rows /\ NoEvi = 0
    BY DEF IInv, EInv, Types, NoEvi
<1>1. CASE Drop(k)
    <2>1. /\ files' = files /\ rows' = rows /\ view' = view /\ op' = op
          /\ evidence' = evidence \ OfKey(k) /\ lost' = lost \cup OfKey(k)
          /\ task'.do = "purge" /\ task'.key = k
        BY <1>1 DEF Drop, Run, NoTask
    <2>2. Grows
        BY <2>1 DEF Grows
    <2>3. FilesSecured' /\ HandsSecured'
        BY <1>0, <2>1, <2>2, SameFilesSecured, SameHandsSecured
    <2>4. LatestFiles(k)' = LatestFiles(k)
        BY <2>1 DEF LatestFiles
    <2>5. ASSUME NEW f \in LatestFiles(k)
          PROVE  f.evi = NoEvi \/ [key |-> k, evi |-> f.evi] \in lost'
        <3>1. Secured(k, f.evi)
            BY <1>0 DEF FilesSecured
        <3>2. [key |-> k, evi |-> f.evi].key = k
            OBVIOUS
        <3> QED BY <2>1, <3>1, <3>2 DEF Secured, OfKey
    <2>6. Midway' /\ ShortHistories'
        BY <1>0, <2>1, <2>4, <2>5 DEF Midway, ShortHistories
    <2> QED BY <2>3, <2>6 DEF EInv
<1>2. CASE PurgeRow(k)
    <2>1. /\ files' = files /\ evidence' = evidence /\ view' = view /\ op' = op /\ lost' = lost
          /\ task.do = "purge" /\ task.key = k /\ task'.do = "none"
        BY <1>2 DEF PurgeRow, Doing, NoTask, drawn, ghosts
    <2>2. /\ \A j \in Keys \ {k} : rows'[j] = rows[j]
          /\ rows'[k] = [rows[k] EXCEPT !.history = <<>>, !.latest = NoEvi]
        BY <1>0, <1>2 DEF PurgeRow, Purged, Types
    <2>3. rows'[k].rev = rows[k].rev /\ rows'[k].history = <<>>
        BY <1>0, <2>2 DEF Rows
    <2>4. \A j \in Keys : LatestFiles(j)' = LatestFiles(j) /\ Found(j)' = Found(j)
        <3>1. \A j \in Keys : rows'[j].rev = rows[j].rev
            BY <2>2, <2>3
        <3> QED BY <2>1, <3>1 DEF LatestFiles, Found
    <2>5. \A f \in LatestFiles(k) : f.evi = NoEvi \/ [key |-> k, evi |-> f.evi] \in lost
        BY <1>0, <2>1 DEF Midway
    <2>6. FilesSecured'
        BY <1>0, <2>1, <2>2, <2>4, <2>5 DEF FilesSecured, Secured, Listed
    <2>7. Grows
        BY <2>1 DEF Grows
    <2>8. HandsSecured'
        BY <1>0, <2>1, <2>7, SameHandsSecured
    <2>9. Midway'
        BY <2>1 DEF Midway
    <2>10. ShortHistories'
        <3>1. Len(rows'[k].history) <= EvidenceVersions
            BY <2>3, RecordStoreAssumption DEF RecordStoreAssumption
        <3>2. \A j \in Keys \ {k} : Len(rows'[j].history) <= EvidenceVersions
            BY <1>0, <2>2 DEF ShortHistories
        <3> QED BY <3>1, <3>2 DEF ShortHistories
    <2> QED BY <2>6, <2>8, <2>9, <2>10 DEF EInv
<1> QED BY <1>1, <1>2

\* A write: the new file holds what the operation held, and its row lists it.
LEMMA WriteSecures ==
    ASSUME IInv, IInv', EInv, NEW k \in Keys,
           WriteFile(k) \/ WriteRow(k) \/ WritePublish(k)
    PROVE  EInv'
<1>0. /\ Types /\ Types' /\ FilesSecured /\ HandsSecured /\ Midway /\ ShortHistories
      /\ op[k] \in Op /\ rows[k] \in Rows /\ NoEvi = 0
      /\ revs \in Nat /\ \A j \in Keys : rows[j].rev \in Nat /\ view[j] \in Nat
    BY DEF IInv, EInv, Types, NoEvi, Rows
<1>1. CASE WriteFile(k)
    <2> DEFINE f == [key |-> k, rev |-> revs', gray |-> op[k].gray,
                     evi |-> op[k].evi, target |-> op[k].target]
    <2>1. /\ revs' = revs + 1 /\ files' = files \cup {f} /\ f.rev = revs + 1 /\ f.evi = op[k].evi
          /\ evidence' = evidence /\ rows' = rows /\ view' = view /\ op' = op /\ lost' = lost
          /\ task.do = "none" /\ task'.do = "commit" /\ task'.key = k
        BY <1>1 DEF WriteFile, Free, Run, NoTask, ghosts
    <2> HIDE DEF f
    <2>2. \A j \in Keys : rows[j].rev <= revs /\ view[j] <= revs
        BY <2>1 DEF IInv, RowsFiled, IndexFollows
    <2>3. \A j \in Keys : LatestFiles(j)' = LatestFiles(j) /\ Found(j)' = Found(j)
        BY <1>0, <2>1, <2>2 DEF LatestFiles, Found
    <2>4. Grows
        BY <2>1 DEF Grows
    <2>5. FilesSecured'
        BY <1>0, <2>1, <2>3 DEF FilesSecured, Secured, Listed
    <2>6. HandsSecured' /\ ShortHistories'
        BY <1>0, <2>1, <2>4, SameHandsSecured DEF ShortHistories
    <2>7. ASSUME NEW g \in files', g.rev = revs' PROVE g.evi = op[k].evi
        <3>1. g \in files => g.rev <= revs
            BY DEF IInv, FilesApart
        <3> QED BY <1>0, <2>1, <2>7, <3>1
    <2>8. Midway'
        BY <2>1, <2>7 DEF Midway
    <2> QED BY <2>5, <2>6, <2>8 DEF EInv
<1>2. CASE WriteRow(k)
    <2> DEFINE h == Kept(Named(k))
    <2>1. /\ files' = files /\ evidence' = evidence /\ view' = view /\ op' = op /\ lost' = lost
          /\ task.do = "commit" /\ task.key = k /\ task'.do = "publish"
          /\ rows' = [rows EXCEPT ![k] = [rev |-> revs, gray |-> op[k].gray,
                                          latest |-> op[k].evi, history |-> h]]
        BY <1>2 DEF WriteRow, Doing, Run, NoTask, drawn, ghosts
    <2>2. /\ Len(h) <= EvidenceVersions
          /\ op[k].evi = NoEvi \/ op[k].evi \in ToSet(h)
        <3>0. rows[k].history \in Seq(0..MaxEvi) /\ op[k].evi \in 0..MaxEvi
            BY <1>0 DEF Rows, Op
        <3>1. CASE op[k].evi = NoEvi \/ op[k].evi \in ToSet(rows[k].history)
            <4>1. Named(k) = rows[k].history
                BY <3>1 DEF Named
            <4>2. Len(rows[k].history) <= EvidenceVersions
                BY <1>0 DEF ShortHistories
            <4>3. h = rows[k].history
                BY <3>0, <4>1, <4>2, KeptIsEnd, RecordStoreAssumption DEF RecordStoreAssumption
            <4> QED BY <3>1, <4>2, <4>3
        <3>2. CASE ~(op[k].evi = NoEvi \/ op[k].evi \in ToSet(rows[k].history))
            <4>1. Named(k) = Append(rows[k].history, op[k].evi)
                BY <3>2 DEF Named, History
            <4>2. /\ Named(k) \in Seq(0..MaxEvi) /\ Named(k) # <<>>
                  /\ Named(k)[Len(Named(k))] = op[k].evi
                BY <3>0, <4>1
            <4> QED BY <4>2, KeptIsEnd, RecordStoreAssumption DEF RecordStoreAssumption
        <3> QED BY <3>1, <3>2
    <2> HIDE DEF h
    <2>3. /\ rows'[k].rev = revs /\ rows'[k].history = h
          /\ \A j \in Keys \ {k} : rows'[j] = rows[j]
        BY <1>0, <2>1 DEF Types
    <2>4. /\ \A j \in Keys : Found(j)' = Found(j)
          /\ \A j \in Keys \ {k} : LatestFiles(j)' = LatestFiles(j)
        BY <2>1, <2>3 DEF LatestFiles, Found
    <2>5. ASSUME NEW f \in LatestFiles(k)' PROVE f.evi = op[k].evi
        <3>1. f \in files /\ f.key = k /\ f.rev = revs
            BY <2>1, <2>3 DEF LatestFiles
        <3> QED BY <1>0, <2>1, <3>1 DEF Midway
    <2>6. FilesSecured'
        <3>1. \A f \in LatestFiles(k)' : Secured(k, f.evi)' /\ Listed(k, f.evi)'
            BY <1>0, <2>1, <2>2, <2>3, <2>5 DEF HandsSecured, Secured, Listed
        <3>2. \A j \in Keys \ {k} : \A f \in LatestFiles(j)' : Secured(j, f.evi)' /\ Listed(j, f.evi)'
            BY <1>0, <2>1, <2>3, <2>4 DEF FilesSecured, Secured, Listed
        <3>3. \A j \in Keys : \A f \in Found(j)' : Secured(j, f.evi)'
            BY <1>0, <2>1, <2>4 DEF FilesSecured, Secured
        <3> QED BY <3>1, <3>2, <3>3 DEF FilesSecured
    <2>7. Grows
        BY <2>1 DEF Grows
    <2>8. HandsSecured' /\ Midway' /\ ShortHistories'
        BY <1>0, <2>1, <2>2, <2>3, <2>7, SameHandsSecured DEF Midway, ShortHistories
    <2> QED BY <2>6, <2>8 DEF EInv
<1>3. CASE WritePublish(k)
    <2>1. /\ files' = files /\ evidence' = evidence /\ rows' = rows /\ lost' = lost
          /\ view'[k] = rows[k].rev /\ \A j \in Keys \ {k} : view'[j] = view[j]
          /\ op' = [op EXCEPT ![k] = Idle] /\ task'.do = "none"
        BY <1>0, <1>3 DEF WritePublish, Ends, NoTask, store, drawn, ghosts, Types
    <2>2. \A j \in Keys : LatestFiles(j)' = LatestFiles(j)
        BY <2>1 DEF LatestFiles
    <2>3. \A j \in Keys : Found(j)' = Found(j) \/ Found(j)' = LatestFiles(j)
        BY <2>1 DEF LatestFiles, Found
    <2>4. FilesSecured'
        BY <1>0, <2>1, <2>2, <2>3 DEF FilesSecured, Secured, Listed
    <2>5. op'[k].evi = NoEvi /\ \A j \in Keys \ {k} : op'[j] = op[j]
        BY <1>0, <2>1 DEF Types, Idle
    <2>6. HandsSecured'
        BY <1>0, <2>1, <2>5 DEF HandsSecured, Secured
    <2>7. Midway' /\ ShortHistories'
        BY <1>0, <2>1 DEF Midway, ShortHistories
    <2> QED BY <2>4, <2>6, <2>7 DEF EInv
<1> QED BY <1>1, <1>2, <1>3

\* The storage GC takes evidence only of keys nobody reads any more, or that no
\* row lists, and puts on record what an operation holds.
LEMMA CollectSecures ==
    ASSUME IInv, IInv', EInv,
           \/ GcRevisions \/ GcEvidence \/ GcCommit \/ GcPublish
           \/ \E k \in Keys : GcKeyFiles(k) \/ GcKeyEvidence(k)
    PROVE  EInv'
<1>0. /\ Types /\ Types' /\ FilesSecured /\ HandsSecured /\ Midway /\ ShortHistories
      /\ NoEvi = 0 /\ \A j \in Keys : rows[j] \in Rows
    BY DEF IInv, EInv, Types, NoEvi
<1>1. ASSUME files' \subseteq files, evidence' = evidence, rows' = rows, view' = view,
             op' = op, lost' = lost,
             \/ task'.do = "sweep"
             \/ /\ task'.do = "unrow" /\ task'.key \in Keys
                /\ \A f \in files' : f.key # task'.key
      PROVE  EInv'
    <2>1. \A j \in Keys : LatestFiles(j)' \subseteq LatestFiles(j) /\ Found(j)' \subseteq Found(j)
        BY <1>1 DEF LatestFiles, Found
    <2>2. FilesSecured'
        BY <1>0, <1>1, <2>1 DEF FilesSecured, Secured, Listed
    <2>3. Grows
        BY <1>1 DEF Grows
    <2>4. HandsSecured' /\ Midway' /\ ShortHistories'
        BY <1>0, <1>1, <2>3, SameHandsSecured DEF Midway, ShortHistories
    <2> QED BY <2>2, <2>4 DEF EInv
<1>2. CASE GcRevisions
    <2>1. files' \subseteq files /\ task'.do = "sweep"
        BY <1>2 DEF GcRevisions
    <2>2. /\ evidence' = evidence /\ rows' = rows /\ view' = view
          /\ op' = op /\ lost' = lost
        BY <1>2 DEF GcRevisions, drawn, ghosts
    <2> QED BY <1>1, <2>1, <2>2
<1>3. ASSUME NEW k \in Keys, GcKeyFiles(k) PROVE EInv'
    <2>1. task'.do = "unrow" /\ task'.key = k
        BY <1>0, <1>3 DEF GcKeyFiles, Types, Task
    <2>2. /\ files' = {f \in files : f.key # k} /\ evidence' = evidence /\ rows' = rows
          /\ view' = view /\ op' = op /\ lost' = lost
        BY <1>3 DEF GcKeyFiles, drawn, ghosts
    <2> QED BY <1>1, <2>1, <2>2
<1>4. ASSUME NEW k \in Keys, GcKeyEvidence(k) PROVE EInv'
    <2>1. /\ files' = files /\ view' = view /\ op' = op
          /\ evidence' = evidence \ OfKey(k) /\ lost' = lost \cup (OfKey(k) \cap Held)
          /\ task.do = "unrow" /\ task.key = k /\ task'.do = "sweep"
        BY <1>0, <1>4 DEF GcKeyEvidence, Doing, drawn, Types, Task
    <2>2. /\ \A j \in Keys \ {k} : rows'[j] = rows[j]
          /\ rows'[k] = [rows[k] EXCEPT !.history = <<>>, !.latest = NoEvi]
        BY <1>0, <1>4 DEF GcKeyEvidence, Purged, Types
    <2>3. rows'[k].rev = rows[k].rev /\ rows'[k].history = <<>>
        BY <1>0, <2>2 DEF Rows
    <2>4. /\ \A j \in Keys : LatestFiles(j)' = LatestFiles(j) /\ Found(j)' = Found(j)
          /\ LatestFiles(k) = {} /\ Found(k) = {}
        <3>1. \A j \in Keys : rows'[j].rev = rows[j].rev
            BY <2>2, <2>3
        <3>2. \A f \in files : f.key # k
            BY <1>0, <2>1 DEF Midway
        <3> QED BY <2>1, <3>1, <3>2 DEF LatestFiles, Found
    <2>5. ASSUME NEW j \in Keys \ {k}, NEW e
          PROVE  [key |-> j, evi |-> e] \notin OfKey(k)
        BY DEF OfKey
    <2>6. FilesSecured'
        BY <1>0, <2>1, <2>2, <2>4, <2>5 DEF FilesSecured, Secured, Listed
    <2>7. ASSUME NEW j \in Keys PROVE Secured(j, op[j].evi)'
        <3>1. CASE op[j].pc = "idle"
            BY <1>0, <2>1, <3>1 DEF HandsSecured, Secured
        <3>2. CASE op[j].pc # "idle"
            <4>1. [key |-> j, evi |-> op[j].evi] \in Held
                BY <3>2 DEF Held
            <4> QED BY <1>0, <2>1, <4>1 DEF HandsSecured, Secured
        <3> QED BY <3>1, <3>2
    <2>8. HandsSecured'
        BY <1>0, <2>1, <2>7 DEF HandsSecured
    <2>9. Midway'
        BY <2>1 DEF Midway
    <2>10. ShortHistories'
        <3>1. Len(rows'[k].history) <= EvidenceVersions
            BY <2>3, RecordStoreAssumption DEF RecordStoreAssumption
        <3>2. \A j \in Keys \ {k} : Len(rows'[j].history) <= EvidenceVersions
            BY <1>0, <2>2 DEF ShortHistories
        <3> QED BY <3>1, <3>2 DEF ShortHistories
    <2> QED BY <2>6, <2>8, <2>9, <2>10 DEF EInv
<1>5. CASE GcEvidence
    <2>1. /\ files' = files /\ rows' = rows /\ view' = view /\ op' = op
          /\ evidence' = evidence \cap Referenced
          /\ lost' = lost \cup ((evidence \cap Held) \ Referenced)
          /\ task.do = "sweep" /\ Pending = {} /\ task'.do = "forget"
        BY <1>0, <1>5 DEF GcEvidence, drawn, Types, Task
    <2>2. \A j \in Keys : LatestFiles(j)' = LatestFiles(j) /\ Found(j)' = Found(j)
        BY <2>1 DEF LatestFiles, Found
    <2>3. \A j \in Keys : Found(j) = LatestFiles(j)
        BY <2>1 DEF Found, LatestFiles, IInv, IndexFollows
    <2>4. ASSUME NEW j \in Keys, NEW f \in LatestFiles(j)
          PROVE  Secured(j, f.evi)' /\ Listed(j, f.evi)'
        <3>1. Secured(j, f.evi) /\ Listed(j, f.evi)
            BY <1>0 DEF FilesSecured
        <3>2. j \notin task.doomed
            BY <2>1 DEF Pending, LatestFiles
        <3>3. f.evi \in ToSet(rows[j].history) => [key |-> j, evi |-> f.evi] \in Referenced
            BY <3>2 DEF Referenced
        <3> QED BY <2>1, <3>1, <3>3 DEF Secured, Listed
    <2>5. FilesSecured'
        BY <2>2, <2>3, <2>4 DEF FilesSecured
    <2>6. ASSUME NEW j \in Keys PROVE Secured(j, op[j].evi)'
        <3>1. CASE op[j].pc = "idle"
            BY <1>0, <2>1, <3>1 DEF HandsSecured, Secured
        <3>2. CASE op[j].pc # "idle"
            <4>1. [key |-> j, evi |-> op[j].evi] \in Held
                BY <3>2 DEF Held
            <4> QED BY <1>0, <2>1, <4>1 DEF HandsSecured, Secured
        <3> QED BY <3>1, <3>2
    <2>7. HandsSecured' /\ Midway' /\ ShortHistories'
        BY <1>0, <2>1, <2>6 DEF HandsSecured, Midway, ShortHistories
    <2> QED BY <2>5, <2>7 DEF EInv
<1>6. CASE GcCommit
    <2>1. /\ files' = files /\ evidence' = evidence /\ view' = view /\ op' = op /\ lost' = lost
          /\ task.do = "forget" /\ task'.do = "unpublish"
          /\ \A j \in Keys : rows'[j] = IF j \in task.doomed THEN NoRow ELSE rows[j]
        BY <1>0, <1>6 DEF GcCommit, drawn, ghosts, Types, Task
    <2>2. \A f \in files : f.key \notin task.doomed
        BY <2>1 DEF IInv, CollectSafely
    <2>3. /\ \A j \in Keys : Found(j)' = Found(j)
          /\ \A j \in Keys \ task.doomed : LatestFiles(j)' = LatestFiles(j) /\ rows'[j] = rows[j]
          /\ \A j \in Keys \cap task.doomed : LatestFiles(j)' = {}
        BY <2>1, <2>2 DEF Found, LatestFiles
    <2>4. FilesSecured'
        BY <1>0, <2>1, <2>3 DEF FilesSecured, Secured, Listed
    <2>5. Grows
        BY <2>1 DEF Grows
    <2>6. HandsSecured' /\ Midway'
        BY <1>0, <2>1, <2>5, SameHandsSecured DEF Midway
    <2>7. ShortHistories'
        <3>1. Len(NoRow.history) <= EvidenceVersions
            BY RecordStoreAssumption DEF RecordStoreAssumption, NoRow
        <3> QED BY <1>0, <2>1, <3>1 DEF ShortHistories
    <2> QED BY <2>4, <2>6, <2>7 DEF EInv
<1>7. CASE GcPublish
    <2>1. /\ files' = files /\ evidence' = evidence /\ rows' = rows /\ op' = op /\ lost' = lost
          /\ task.do = "unpublish" /\ task'.do = "none"
          /\ \A j \in Keys : view'[j] = IF j \in task.doomed THEN 0 ELSE view[j]
        BY <1>0, <1>7 DEF GcPublish, NoTask, store, drawn, ghosts, Types
    <2>2. \A f \in files : f.key \notin task.doomed
        BY <2>1 DEF IInv, CollectSafely
    <2>3. \A j \in Keys : Found(j)' = Found(j) /\ LatestFiles(j)' = LatestFiles(j)
        BY <2>1, <2>2 DEF Found, LatestFiles
    <2>4. FilesSecured'
        BY <1>0, <2>1, <2>3 DEF FilesSecured, Secured, Listed
    <2>5. Grows
        BY <2>1 DEF Grows
    <2>6. HandsSecured' /\ Midway' /\ ShortHistories'
        BY <1>0, <2>1, <2>5, SameHandsSecured DEF Midway, ShortHistories
    <2> QED BY <2>4, <2>6 DEF EInv
<1> QED BY <1>2, <1>3, <1>4, <1>5, <1>6, <1>7

\* The empty store has nothing to lose.
LEMMA InitSecured == StoreInit => EInv
<1> SUFFICES ASSUME StoreInit PROVE EInv
    OBVIOUS
<1>1. task.do = "none" /\ files = {} /\ \A k \in Keys : rows[k] = NoRow /\ op[k] = Idle
    BY DEF StoreInit, NoTask
<1>2. Len(NoRow.history) <= EvidenceVersions /\ Idle.evi = NoEvi
    BY RecordStoreAssumption DEF RecordStoreAssumption, NoRow, Idle
<1> QED BY <1>1, <1>2 DEF EInv, FilesSecured, LatestFiles, Found, HandsSecured, Secured,
                          Midway, ShortHistories

\* Every step keeps what is named secured.
LEMMA StepSecures == IInv /\ IInv' /\ EInv /\ [StoreNext]_storeVars => EInv'
<1> SUFFICES ASSUME IInv, IInv', EInv, [StoreNext]_storeVars PROVE EInv'
    OBVIOUS
<1>0. Types /\ Types' /\ FilesSecured /\ HandsSecured /\ Midway /\ ShortHistories
    BY DEF IInv, EInv
<1>1. ASSUME NEW k \in Keys, KeyStep(k) PROVE EInv'
    BY <1>1, OperationSecures, CopySecures, DropSecures, WriteSecures, CollectSecures DEF KeyStep
<1>2. CASE GcRevisions \/ GcEvidence \/ GcCommit \/ GcPublish
    BY <1>2, CollectSecures
<1>3. CASE Restart
    <2>1. /\ files' = files /\ evidence' = evidence /\ rows' = rows /\ lost' = lost
          /\ task'.do = "none" /\ \A k \in Keys : view'[k] = rows[k].rev /\ op'[k] = Idle
        BY <1>0, <1>3 DEF Restart, NoTask, Published, store, drawn, Types
    <2>2. \A k \in Keys : LatestFiles(k)' = LatestFiles(k) /\ Found(k)' = LatestFiles(k)
        BY <2>1 DEF LatestFiles, Found
    <2>3. FilesSecured'
        BY <1>0, <2>1, <2>2 DEF FilesSecured, Secured, Listed
    <2>4. HandsSecured' /\ Midway' /\ ShortHistories'
        BY <1>0, <2>1 DEF HandsSecured, Secured, Idle, Midway, ShortHistories
    <2> QED BY <2>3, <2>4 DEF EInv
<1>4. CASE UNCHANGED storeVars
    <2>1. /\ files' = files /\ evidence' = evidence /\ rows' = rows /\ view' = view
          /\ op' = op /\ task' = task /\ revs' = revs /\ lost' = lost
        BY <1>4 DEF storeVars, store, drawn, ghosts
    <2>2. Grows
        BY <2>1 DEF Grows
    <2>3. FilesSecured' /\ HandsSecured'
        BY <1>0, <2>1, <2>2, SameFilesSecured, SameHandsSecured
    <2>4. \A k \in Keys : Evicted(k)' = Evicted(k) /\ LatestFiles(k)' = LatestFiles(k)
        BY <2>1 DEF Evicted, History, LatestFiles
    <2>5. Midway' /\ ShortHistories'
        BY <1>0, <2>1, <2>4 DEF Midway, ShortHistories
    <2> QED BY <2>3, <2>5 DEF EInv
<1> QED BY <1>1, <1>2, <1>3, <1>4 DEF StoreNext

\* Evidence an active record names is there, unless a newer copy, a compression,
\* or a collection beside an operation that held it took it away: no crash and no
\* GC between operations does (copy_evidence, gc_storage).
THEOREM EvidenceSafe == StoreSpec => []EvidenceLossExplained
<1>1. EInv => EvidenceLossExplained
    <2> SUFFICES ASSUME EInv, NEW k \in Keys, Active(k), Get(k).evi # NoEvi
                 PROVE  [key |-> k, evi |-> Get(k).evi] \in evidence \cup lost
        BY DEF EvidenceLossExplained
    <2>1. Get(k) \in Found(k)
        BY DEF Active, Has, Get
    <2> QED BY <2>1 DEF EInv, FilesSecured, Secured
<1> QED BY <1>1, InitSecured, StepSecures, Invariance, PTL DEF StoreSpec

-----------------------------------------------------------------------------
(* The ids. *)

\* Being past what was given out is kept by every step; with the domains of
\* the variables it is inductive.
IdsInv == IdsTypeOK /\ NotBehind

\* The state after is a state, and its id is greater.
LEMMA FollowingGrows ==
    ASSUME Width \in Nat \ {0}, NEW s \in State, NEW now \in Nat
    PROVE  Following(s, now) \in State /\ Id(s) < Id(Following(s, now))
<1>1. s.ms \in Nat /\ s.seq \in 0..(Width - 1)
    BY DEF State
<1>2. CASE now > s.ms
    <2>1. PICK d \in Nat : now = s.ms + 1 + d
        <3>1. now - s.ms - 1 \in Nat /\ now = s.ms + 1 + (now - s.ms - 1)
            BY <1>1, <1>2
        <3> QED BY <3>1
    <2>2. now * Width = s.ms * Width + Width + d * Width
        BY <1>1, <2>1, SMT
    <2>3. d * Width >= 0
        BY <2>1, SMT
    <2>4. s.ms * Width \in Int /\ d * Width \in Int
        BY <1>1, <2>1, SMT
    <2>5. Following(s, now) = [ms |-> now, seq |-> 0]
        BY <1>2 DEF Following
    <2>6. s.ms * Width + s.seq < now * Width
        BY <1>1, <2>2, <2>3, <2>4, SMT
    <2> QED BY <1>1, <2>5, <2>6 DEF State, Id
<1>3. CASE ~(now > s.ms) /\ s.seq + 1 < Width
    <2>1. Following(s, now) = [s EXCEPT !.seq = s.seq + 1]
        BY <1>3 DEF Following
    <2>2. Following(s, now).ms = s.ms /\ Following(s, now).seq = s.seq + 1
        BY <2>1 DEF State
    <2>3. s.ms * Width \in Int
        BY <1>1, SMT
    <2>4. Id(s) < Id(Following(s, now))
        BY <1>1, <2>2, <2>3 DEF Id
    <2> QED BY <1>1, <1>3, <2>1, <2>4 DEF State
<1>4. CASE ~(now > s.ms) /\ ~(s.seq + 1 < Width)
    <2>1. Following(s, now) = [ms |-> s.ms + 1, seq |-> 0]
        BY <1>4 DEF Following
    <2>2. (s.ms + 1) * Width = s.ms * Width + Width
        BY <1>1, SMT
    <2>3. s.ms * Width \in Int
        BY <1>1, SMT
    <2>4. Id(s) < Id(Following(s, now))
        BY <1>1, <2>1, <2>2, <2>3 DEF Id
    <2> QED BY <1>1, <2>1, <2>4 DEF State
<1> QED BY <1>2, <1>3, <1>4

\* The id of a state is a number.
LEMMA IdIsNat ==
    ASSUME Width \in Nat \ {0}, NEW s \in State
    PROVE  Id(s) \in Nat
<1>1. s.ms \in Nat /\ s.seq \in Nat
    BY DEF State
<1>2. s.ms * Width \in Nat
    BY <1>1, SMT
<1> QED BY <1>1, <1>2 DEF Id

LEMMA IdsInitInv ==
    ASSUME Width \in Nat \ {0}, IdsInit
    PROVE  IdsInv
<1>1. Zero \in State
    BY DEF Zero, State
<1> QED BY <1>1 DEF IdsInit, IdsInv, IdsTypeOK, NotBehind

LEMMA IdsStepInv ==
    ASSUME Width \in Nat \ {0}, MaxMs \in Nat, IdsInv, [IdsNext]_idVars
    PROVE  IdsInv'
<1> USE DEF IdsInv
<1>1. CASE Tick
    <2>1. IdsTypeOK'
        BY <1>1 DEF Tick, IdsTypeOK
    <2>2. NotBehind'
        BY <1>1 DEF Tick, NotBehind, Id
    <2> QED BY <2>1, <2>2
<1>2. ASSUME Loaded PROVE IdsInv'
    <2>1. mem' \in State
        BY <1>2 DEF Loaded, IdsTypeOK, Zero, State
    <2>2. IdsTypeOK'
        BY <1>2, <2>1 DEF Loaded, IdsTypeOK
    <2>3. Id(mem)' \in Nat
        <3>1. Id(mem') \in Nat
            BY <2>1, IdIsNat
        <3> QED BY <3>1 DEF Id
    <2>4. ASSUME ~lapsed', NEW i \in issued PROVE i <= Id(mem)'
        <3>1. ~(i > Id(mem'))
            BY <1>2, <2>4 DEF Loaded
        <3>2. i \in Nat
            BY DEF IdsTypeOK
        <3> QED BY <2>3, <3>1, <3>2 DEF Id
    <2>5. NotBehind'
        BY <1>2, <2>4 DEF Loaded, NotBehind
    <2> QED BY <2>2, <2>5
<1>3. CASE Start
    BY <1>2, <1>3 DEF Start
<1>4. CASE Configure
    BY <1>2, <1>4 DEF Configure
<1>5. CASE NextId
    <2>1. mem \in State /\ clock \in Nat
        BY DEF IdsTypeOK
    <2>2. mem' \in State /\ Id(mem) < Id(mem')
        BY <1>5, <2>1, FollowingGrows DEF NextId
    <2>3. Id(mem) \in Nat /\ Id(mem') \in Nat
        BY <2>1, <2>2, IdIsNat
    <2>4. IdsTypeOK'
        BY <1>5, <2>2 DEF NextId, IdsTypeOK
    <2>5. ASSUME ~lapsed, NEW i \in issued PROVE i < Id(mem')
        <3>1. i <= Id(mem)
            BY <1>5, <2>5 DEF NextId, NotBehind
        <3>2. i \in Nat
            BY DEF IdsTypeOK
        <3> QED BY <2>2, <2>3, <3>1, <3>2
    <2>6. NotBehind'
        BY <1>5, <2>5 DEF NextId, NotBehind, Id
    <2> QED BY <2>4, <2>6
<1>6. ASSUME NEW saved \in BOOLEAN, Return(saved) PROVE IdsInv'
    <2>1. Id(mem) \in Nat
        BY IdIsNat DEF IdsTypeOK
    <2>2. IdsTypeOK'
        BY <1>6, <2>1 DEF Return, IdsTypeOK
    <2>3. ASSUME ~lapsed, NEW i \in issued \cup {Id(mem)} PROVE i <= Id(mem)
        BY <1>6, <2>1, <2>3 DEF Return, NotBehind, IdsTypeOK
    <2>4. NotBehind'
        BY <1>6, <2>3 DEF Return, NotBehind, Id
    <2> QED BY <2>2, <2>4
<1>7. ASSUME NEW saved \in BOOLEAN, Dies(saved) PROVE IdsInv'
    <2>1. Zero \in State
        BY DEF Zero, State
    <2>2. IdsTypeOK'
        BY <1>7, <2>1 DEF Dies, IdsTypeOK
    <2>3. NotBehind'
        BY <1>7 DEF Dies, NotBehind
    <2> QED BY <2>2, <2>3
<1>8. CASE UNCHANGED idVars
    BY <1>8 DEF idVars, IdsTypeOK, NotBehind, Id
<1> QED BY <1>1, <1>3, <1>4, <1>5, <1>6, <1>7, <1>8 DEF IdsNext

\* An id is greater than every one given out before it, whatever the clock
\* does and however often the generator is started again (next_id,
\* _load_state, _save_state).
THEOREM IdsAlwaysIncrease ==
    ASSUME Width \in Nat \ {0}, MaxMs \in Nat
    PROVE  IdsSpec => []IdsIncrease
<1>1. IdsInit => IdsInv
    BY IdsInitInv
<1>2. IdsInv /\ [IdsNext]_idVars => IdsInv'
    BY IdsStepInv
<1>3. IdsInv => IdsIncrease
    BY DEF IdsInv, NotBehind, IdsIncrease
<1> QED BY <1>1, <1>2, <1>3, PTL DEF IdsSpec

-----------------------------------------------------------------------------
(* Migration: for every sequence of items and any number of runs, crashes    *)
(* and failed operations.  The live dataset is endangered only by the        *)
(* switch.  Until then it is the old data, or the new data beside a complete *)
(* backup, or a run before this one left a copy of the old data behind.  In  *)
(* the switch the run's own rollback copy stands in, until the dataset is    *)
(* wholly switched or wholly restored.                                       *)

\* A copy of the old data that a run left behind and nobody will remove.
Earlier == \E r \in Runs : /\ rollback[r] = Old
                           /\ r < run \/ pc \in {"down", "serving"}

\* Run directories are not reused.
Fresh == run \in Nat /\ \A r \in Runs : r > run => rollback[r] = Nothing

\* A run begins on a dataset whose schema file is not the new one.
Behind == pc \in Before => live[Schema] # "new"

\* What a run that began on the old data has in hand.
Prepared == /\ pc = "work" /\ live = Old => backup = Old
            /\ pc = "rollback" /\ live = Old => work = New /\ backup = Old
            /\ pc \in {"switch", "place"} /\ rollback[run] = Old =>
                  work = New /\ backup = Old

\* How far the switch, or the restoring, has come.
Progress == /\ pc \in {"switch", "place"} /\ rollback[run] = Old =>
                  \A i \in Items : i < at => live[i] = "new"
            /\ pc \in {"restore", "refill"} /\ rollback[run] = Old =>
                  \A i \in Items : i < at => live[i] = "old"
            /\ pc = "finish" /\ rollback[run] = Old => live = New /\ backup = Old

\* A dataset is restored only after a failure.
Failed == pc \in {"restore", "refill"} => failures >= 1

CopyKept == failures <= 1 =>
          IF pc \in Switching THEN rollback[run] = Old \/ Earlier
          ELSE live = Old \/ (live = New /\ backup = Old) \/ Earlier

UpgradeInv == TypeOK /\ Fresh /\ Behind /\ Prepared /\ Progress /\ Failed /\ CopyKept

USE DEF Items, Runs, NoRun, Before, Switching, Places, Dataset

\* The uniform datasets are datasets, and differ.
LEMMA Uniform ==
    /\ Old \in Dataset /\ New \in Dataset /\ Nothing \in Dataset
    /\ Old # New /\ Old # Nothing
    /\ Old[Schema] = "old" /\ New[Schema] = "new" /\ New[Index] = "new"
    /\ \A i \in Items : Old[i] = "old" /\ New[i] = "new"
  BY MigrationAssumption DEF Old, New, Nothing, All

\* What opening a store writes keeps the old data and the new.
LEMMA SettledKeeps ==
    ASSUME live \in Dataset
    PROVE  /\ Settled \in Dataset
           /\ Settled[Schema] = live[Schema]
           /\ live = Old => Settled = Old
           /\ live = New => Settled = New
<1>1. Settled \in Dataset /\ Settled[Schema] = live[Schema]
  BY MigrationAssumption DEF Settled
<1>2. ASSUME live = Old PROVE Settled = Old
  BY <1>2, Uniform, MigrationAssumption DEF Settled, Old, All
<1>3. ASSUME live = New PROVE Settled = New
  BY <1>3, Uniform, MigrationAssumption DEF Settled
<1> QED BY <1>1, <1>2, <1>3

\* The old data are converted to the new.
LEMMA ConvertedOld ==
    ASSUME live \in Dataset, NEW index \in {"new", "bad"}
    PROVE  /\ Converted(index) \in Dataset
           /\ live = Old /\ index = "new" => Converted(index) = New
  BY Uniform, MigrationAssumption DEF Converted, New, Old, All

\* A dataset is determined by its items.
LEMMA ItemByItem ==
    ASSUME NEW d \in Dataset, NEW v \in {"old", "new"}, \A i \in Items : d[i] = v
    PROVE  d = All(v)
  BY DEF All

\* The initial store satisfies the invariant.
LEMMA UpgradeStart == Init => UpgradeInv
<1> SUFFICES ASSUME Init PROVE UpgradeInv
  OBVIOUS
<1>1. TypeOK
  <2>1. Nothing \in Dataset /\ Old \in Dataset
    BY Uniform
  <2>2. 1 \in Items
    BY MigrationAssumption
  <2>3. done \in BOOLEAN
    BY DEF Init
  <2> HIDE DEF Items, Dataset
  <2> QED BY <2>1, <2>2, <2>3, MigrationAssumption DEF Init, TypeOK
<1>2. Fresh /\ Behind /\ Prepared /\ Progress /\ Failed /\ CopyKept
  BY Uniform DEF Init, Fresh, Behind, Prepared, Progress, Failed, CopyKept
<1> QED BY <1>1, <1>2 DEF UpgradeInv

\* Every variable keeps to its domain.
LEMMA Typing == TypeOK /\ [Next]_vars => TypeOK'
<1> SUFFICES ASSUME TypeOK, [Next]_vars PROVE TypeOK'
  OBVIOUS
<1> USE MigrationAssumption
<1>1. CASE Serve
  BY <1>1, SettledKeeps DEF TypeOK, Serve
<1>2. CASE Open
  <2>1. Nothing \in Dataset /\ Settled \in Dataset
    BY Uniform, SettledKeeps DEF TypeOK
  <2>2. done' \in BOOLEAN
    BY <1>2 DEF Open
  <2>3. run' \in Runs
    BY <1>2 DEF TypeOK, Open
  <2> HIDE DEF Dataset
  <2> QED BY <1>2, <2>1, <2>2, <2>3 DEF TypeOK, Open
<1>3. CASE Stop
  BY <1>3 DEF TypeOK, Stop, disk
<1>4. CASE AcquireLock \/ LockExists \/ Announce
  BY <1>4 DEF TypeOK, AcquireLock, LockExists, Announce, disk
<1>5. CASE ClearBackup \/ FillBackup
  <2>1. Nothing \in Dataset
    BY Uniform
  <2> HIDE DEF Dataset
  <2> QED BY <1>5, <2>1 DEF TypeOK, ClearBackup, FillBackup
<1>6. CASE Convert
  BY <1>6, ConvertedOld DEF TypeOK, Convert, disk
<1>7. CASE Reject \/ Raise
  BY <1>7 DEF TypeOK, Reject, Raise, disk
<1>8. CASE CloneRollback \/ Cleanup
  <2>1. Nothing \in Dataset /\ 1 \in Items
    BY Uniform
  <2> HIDE DEF Dataset
  <2>2. CASE CloneRollback
    BY <2>1, <2>2 DEF TypeOK, CloneRollback
  <2>3. CASE Cleanup
    BY <2>1, <2>3 DEF TypeOK, Cleanup
  <2> QED BY <1>8, <2>2, <2>3
<1>9. CASE DeleteItem \/ RestoreDelete
  BY <1>9 DEF TypeOK, DeleteItem, RestoreDelete, Absent
<1>10. CASE PlaceItem \/ RestoreItem
  BY <1>10 DEF TypeOK, PlaceItem, RestoreItem
<1>11. CASE SwitchFails
  BY <1>11 DEF TypeOK, SwitchFails, disk
<1>12. CASE Succeed \/ RecordFailure \/ RecordFails \/ Release \/ Crash
  <2> HIDE DEF Dataset
  <2>1. CASE Succeed \/ RecordFailure
    BY <2>1 DEF TypeOK, Succeed, RecordFailure
  <2>2. CASE RecordFails \/ Release \/ Crash
    BY <2>2 DEF TypeOK, RecordFails, Release, Crash, disk
  <2> QED BY <1>12, <2>1, <2>2
<1>13. CASE UNCHANGED vars
  BY <1>13 DEF TypeOK, vars, disk, process
<1> QED BY <1>1, <1>2, <1>3, <1>4, <1>5, <1>6, <1>7, <1>8, <1>9, <1>10, <1>11,
           <1>12, <1>13 DEF Next

\* The invariant is inductive.
LEMMA Inductive == UpgradeInv /\ [Next]_vars => UpgradeInv'
<1> SUFFICES ASSUME UpgradeInv, [Next]_vars PROVE UpgradeInv'
  OBVIOUS
<1> USE MigrationAssumption
<1>0. TypeOK /\ TypeOK'
  BY Typing DEF UpgradeInv
<1> USE DEF Fresh, Behind, Prepared, Progress, Failed, CopyKept, Earlier
<1>a. Fresh /\ Behind /\ Prepared /\ Progress /\ Failed /\ CopyKept
  BY DEF UpgradeInv
<1> HIDE DEF Before, Switching, Places
<1> SUFFICES Fresh' /\ Behind' /\ Prepared' /\ Progress' /\ Failed' /\ CopyKept'
  BY <1>0 DEF UpgradeInv
<1> USE DEF Before, Switching
<1>1. CASE Serve
  BY <1>0, <1>a, <1>1, SettledKeeps DEF TypeOK, Serve
<1>2. CASE Open
  <2>1. Fresh' /\ Failed' /\ Progress' /\ Prepared'
    BY <1>0, <1>a, <1>2 DEF TypeOK, Open
  <2>2. Behind'
    BY <1>0, <1>a, <1>2, SettledKeeps DEF TypeOK, Open
  <2>3. Earlier => Earlier'
    BY <1>0, <1>a, <1>2, Uniform DEF TypeOK, Open
  <2>4. CopyKept'
    BY <1>0, <1>a, <1>2, <2>3, SettledKeeps DEF TypeOK, Open
  <2> QED BY <2>1, <2>2, <2>4
<1>3. CASE Stop
  BY <1>0, <1>a, <1>3 DEF TypeOK, Stop, disk
<1>4. CASE AcquireLock \/ LockExists \/ Announce
  BY <1>0, <1>a, <1>4 DEF TypeOK, AcquireLock, LockExists, Announce, disk
<1>5. CASE ClearBackup
  BY <1>0, <1>a, <1>5, Uniform DEF TypeOK, ClearBackup
<1>6. CASE FillBackup
  BY <1>0, <1>a, <1>6, Uniform DEF TypeOK, FillBackup
<1>7. CASE Convert
  <2>1. live = Old => work' = New
    BY <1>0, <1>7, ConvertedOld DEF TypeOK, Convert
  <2> QED BY <1>0, <1>a, <1>7, <2>1 DEF TypeOK, Convert, disk
<1>8. CASE Reject
  BY <1>0, <1>a, <1>8 DEF TypeOK, Reject, disk
<1>9. CASE CloneRollback
  <2>1. /\ rollback'[run] = live /\ pc' = "switch" /\ pc = "rollback"
        /\ at' = 1 /\ UNCHANGED <<live, backup, work, run, failures>>
        /\ \A r \in Runs : r # run => rollback'[r] = rollback[r]
    BY <1>0, <1>9 DEF TypeOK, CloneRollback
  <2>2. Earlier => Earlier'
    BY <1>0, <2>1 DEF TypeOK
  <2>3. live # New
    BY <1>a, <2>1, Uniform
  <2> QED BY <1>0, <1>a, <2>1, <2>2, <2>3 DEF TypeOK
<1>10. CASE DeleteItem
  BY <1>0, <1>a, <1>10 DEF TypeOK, DeleteItem
<1>11. CASE PlaceItem
  <2>1. ASSUME rollback[run] = Old
        PROVE  \A i \in Items : i <= at => live'[i] = "new"
    BY <1>0, <1>a, <1>11, <2>1, Uniform DEF TypeOK, PlaceItem
  <2>2. ASSUME rollback[run] = Old, at = NItems PROVE live' = New
    BY <1>0, <2>1, <2>2, ItemByItem DEF TypeOK, New
  <2>3. Progress'
    BY <1>0, <1>a, <1>11, <2>1, <2>2 DEF TypeOK, PlaceItem
  <2> QED BY <1>0, <1>a, <1>11, <2>3 DEF TypeOK, PlaceItem
<1>12. CASE SwitchFails
  BY <1>0, <1>a, <1>12 DEF TypeOK, SwitchFails, disk
<1>13. CASE RestoreDelete
  BY <1>0, <1>a, <1>13 DEF TypeOK, RestoreDelete
<1>14. CASE RestoreItem
  <2>1. ASSUME rollback[run] = Old
        PROVE  \A i \in Items : i <= at => live'[i] = "old"
    BY <1>0, <1>a, <1>14, <2>1, Uniform DEF TypeOK, RestoreItem
  <2>2. ASSUME rollback[run] = Old, at = NItems PROVE live' = Old
    BY <1>0, <2>1, <2>2, ItemByItem DEF TypeOK, Old
  <2>3. Progress'
    BY <1>0, <1>a, <1>14, <2>1 DEF TypeOK, RestoreItem
  <2>4. CopyKept'
    BY <1>0, <1>a, <1>14, <2>2 DEF TypeOK, RestoreItem
  <2> QED BY <1>0, <1>a, <1>14, <2>3, <2>4 DEF TypeOK, RestoreItem
<1>15. CASE Succeed
  BY <1>0, <1>a, <1>15 DEF TypeOK, Succeed
<1>16. CASE Raise
  BY <1>0, <1>a, <1>16 DEF TypeOK, Raise, disk
<1>17. CASE RecordFailure \/ RecordFails \/ Release
  BY <1>0, <1>a, <1>17 DEF TypeOK, RecordFailure, RecordFails, Release, disk
<1>18. CASE Cleanup
  <2>1. /\ pc = "cleanup" /\ pc' \in {"serving", "down"}
        /\ UNCHANGED <<live, backup, run, failures>>
        /\ \A r \in Runs : r # run => rollback'[r] = rollback[r]
    BY <1>0, <1>18 DEF TypeOK, Cleanup
  <2>2. Earlier => Earlier'
    BY <1>0, <2>1 DEF TypeOK
  <2> QED BY <1>0, <1>a, <2>1, <2>2 DEF TypeOK
<1>19. CASE Crash
  BY <1>0, <1>a, <1>19 DEF TypeOK, Crash, disk
<1>20. CASE UNCHANGED vars
  BY <1>a, <1>20 DEF vars, disk, process
<1> QED BY <1>1, <1>2, <1>3, <1>4, <1>5, <1>6, <1>7, <1>8, <1>9, <1>10, <1>11,
           <1>12, <1>13, <1>14, <1>15, <1>16, <1>17, <1>18, <1>19, <1>20 DEF Next

\* Every reachable state satisfies the invariant.
LEMMA UpgradeInvariant == Spec => []UpgradeInv
<1> QED BY UpgradeStart, Inductive, PTL DEF Spec

\* The variables of the upgrade keep to their domains.
THEOREM UpgradeTypes == Spec => []TypeOK
<1>1. UpgradeInv => TypeOK
  BY DEF UpgradeInv
<1> QED BY <1>1, UpgradeInvariant, PTL

\* A complete copy of the old data outlives every upgrade in which at most
\* one operation failed, however often it was interrupted.
THEOREM OldDataSafe == Spec => []OldDataSurvives
<1>1. UpgradeInv => OldDataSurvives
  BY DEF UpgradeInv, TypeOK, CopyKept, Earlier, OldDataSurvives
<1> QED BY <1>1, UpgradeInvariant, PTL

-----------------------------------------------------------------------------
(* Without a crash and with at most one failed operation. *)

Ending == {"failing", "release", "cleanup"}
Resting == {"down", "serving"}

\* Where nothing has begun to be switched, the data are the old ones; in the
\* switch the rollback copy and the backup are; and what is left in the end is
\* wholly one or the other.  No run but this one has a directory, and the lock
\* is nobody else's.
TidyAt ==
    /\ \A r \in Runs : rollback[r] = Nothing \/ (r = run /\ pc \in Switching \cup Ending)
    /\ pc \in Resting \cup {"lock", "cleanup"} => lock = NoRun
    /\ pc \in Before => live = Old /\ ~done /\ journal # "success"
    /\ pc \in Switching => /\ rollback[run] = Old /\ backup = Old
                           /\ ~done /\ journal # "success"
    /\ pc \in Ending \cup Resting => /\ live = Old \/ (live = New /\ backup = Old)
                                     /\ journal = "success" => live = New
    /\ pc = "failing" => ~done
    /\ pc = "serving" \/ (pc \in Ending /\ done) => live = New

Tidy == crashes = 0 /\ failures <= 1 => TidyAt

\* At the start nothing lies about.
LEMMA StartTidy == Init => Tidy
BY DEF Init, Tidy, TidyAt, Ending, Resting

\* No step leaves anything lying about.
LEMMA KeepsTidy == UpgradeInv /\ Tidy /\ [Next]_vars => Tidy'
<1> SUFFICES ASSUME UpgradeInv, Tidy, [Next]_vars, crashes' = 0, failures' <= 1 PROVE TidyAt'
  BY DEF Tidy
<1> USE MigrationAssumption DEF Ending, Resting
<1>0. TypeOK /\ TypeOK'
  BY Typing DEF UpgradeInv
<1>1. TidyAt
  BY <1>0 DEF TypeOK, Tidy, Next, vars, disk, process, Serve, Open, Stop, AcquireLock,
     LockExists, Announce, ClearBackup, FillBackup, Convert, Reject, CloneRollback,
     DeleteItem, PlaceItem, SwitchFails, RestoreDelete, RestoreItem, Succeed, Raise,
     RecordFailure, RecordFails, Release, Cleanup, Crash
<1>a. Fresh /\ Prepared /\ Progress /\ Failed
  BY DEF UpgradeInv
<1> HIDE DEF Before, Switching, Places, Dataset
<1> USE DEF TidyAt
<1> USE DEF Before, Switching
<1>2. CASE Serve
  BY <1>0, <1>1, <1>2, SettledKeeps, Uniform DEF TypeOK, Serve
<1>3. CASE Open
  <2>1. live = Old /\ live' = Old
    BY <1>0, <1>1, <1>3, SettledKeeps, Uniform DEF TypeOK, Open
  <2> QED BY <1>0, <1>1, <1>3, <2>1, Uniform DEF TypeOK, Open
<1>4. CASE Stop
  BY <1>0, <1>1, <1>4 DEF TypeOK, Stop, disk
<1>5. CASE AcquireLock \/ LockExists \/ Announce
  BY <1>0, <1>1, <1>5 DEF TypeOK, AcquireLock, LockExists, Announce, disk
<1>6. CASE ClearBackup \/ FillBackup
  BY <1>0, <1>1, <1>6 DEF TypeOK, ClearBackup, FillBackup
<1>7. CASE Convert \/ Reject
  BY <1>0, <1>1, <1>7 DEF TypeOK, Convert, Reject, disk
<1>8. CASE CloneRollback
  <2>1. backup = Old
    BY <1>0, <1>1, <1>a, <1>8 DEF TypeOK, CloneRollback, Prepared
  <2>2. /\ rollback'[run] = Old /\ pc' = "switch" /\ pc = "rollback"
        /\ \A r \in Runs : r # run => rollback'[r] = rollback[r]
        /\ UNCHANGED <<live, backup, lock, journal, run, done>>
    BY <1>0, <1>1, <1>8 DEF TypeOK, CloneRollback
  <2> QED BY <1>0, <1>1, <2>1, <2>2 DEF TypeOK
<1>9. CASE DeleteItem \/ RestoreDelete
  BY <1>0, <1>1, <1>9 DEF TypeOK, DeleteItem, RestoreDelete
<1>10. CASE PlaceItem
  BY <1>0, <1>1, <1>10 DEF TypeOK, PlaceItem
<1>11. CASE SwitchFails
  BY <1>0, <1>1, <1>11 DEF TypeOK, SwitchFails, disk
<1>12. CASE RestoreItem
  <2>0. /\ rollback[run] = Old /\ at \in Items
        /\ live' = [live EXCEPT ![at] = rollback[run][at]]
        /\ \A i \in Items : i < at => live[i] = "old"
    BY <1>0, <1>1, <1>a, <1>12 DEF TypeOK, RestoreItem, Progress
  <2>1. ASSUME NEW i \in Items, i <= at PROVE live'[i] = "old"
    <3>1. i < at \/ i = at
      BY <2>0, <2>1
    <3> QED BY <1>0, <2>0, <3>1, Uniform DEF TypeOK, Dataset
  <2>2. at = NItems => live' = Old
    BY <1>0, <2>1, ItemByItem DEF TypeOK, Old
  <2> QED BY <1>0, <1>1, <1>12, <2>2 DEF TypeOK, RestoreItem
<1>13. CASE Succeed
  <2>1. live = New
    BY <1>1, <1>a, <1>13 DEF Succeed, Progress
  <2> QED BY <1>0, <1>1, <1>13, <2>1 DEF TypeOK, Succeed
<1>14. CASE Raise
  <2>1. pc \in {"restore", "refill"} => FALSE
    BY <1>0, <1>a, <1>14 DEF TypeOK, Raise, Failed
  <2>2. pc = "finish" => live = New
    BY <1>1, <1>a, <1>14 DEF Raise, Progress
  <2> QED BY <1>0, <1>1, <1>14, <2>1, <2>2, Uniform DEF TypeOK, Raise, disk
<1>15. CASE RecordFailure \/ RecordFails \/ Release
  BY <1>0, <1>1, <1>15 DEF TypeOK, RecordFailure, RecordFails, Release, disk
<1>16. CASE Cleanup
  <2>1. /\ pc = "cleanup" /\ pc' = IF done THEN "serving" ELSE "down"
        /\ \A r \in Runs : rollback'[r] = Nothing
        /\ UNCHANGED <<live, backup, lock, journal, run, done>>
    BY <1>0, <1>1, <1>16 DEF TypeOK, Cleanup
  <2> QED BY <1>0, <1>1, <2>1 DEF TypeOK
<1>17. CASE Crash
  BY <1>0, <1>17 DEF TypeOK, Crash
<1>18. CASE UNCHANGED vars
  BY <1>1, <1>18 DEF vars, disk, process
<1> QED BY <1>2, <1>3, <1>4, <1>5, <1>6, <1>7, <1>8, <1>9, <1>10, <1>11,
           <1>12, <1>13, <1>14, <1>15, <1>16, <1>17, <1>18 DEF Next

\* Uncrashed and with at most one failed operation, an upgrade leaves the data
\* wholly of one schema, and nothing behind it.
THEOREM Atomic == Spec => []UpgradeIsAtomic
<1>1. Tidy => UpgradeIsAtomic
  BY Uniform DEF Tidy, TidyAt, Ending, Resting, UpgradeIsAtomic
<1>2. Spec => []Tidy
  BY UpgradeInvariant, StartTidy, KeepsTidy, PTL DEF Spec
<1> QED BY <1>1, <1>2, PTL
=============================================================================
