------------------------- MODULE SplitIngest_proofs -------------------------
(* Proofs about SplitIngest, for any number of chunks, workers, crashes,   *)
(* exceptions and overlapping resumes.                                     *)
EXTENDS SplitIngest, FiniteSetTheorems, TLAPS

----------------------------------------------------------------------------
(* The inductive invariant. *)

\* What the batch, the resume and the journal call done is on disk; so is the
\* chunk each of the two is about to note.
DoneIsStored ==
    /\ journal.done \subseteq stored
    /\ committed \subseteq stored
    /\ resume.done \subseteq stored /\ resume.job.done \subseteq stored
    /\ pc = "note" => \A c \in Chunks : Committing(c) => c \in stored
    /\ resume.pc = "note" => resume.idx \in stored

\* A batch that commits has no worker left, and a result for every chunk unless
\* it gave up; a resume about to complete its job has no open chunk.
Concluding ==
    /\ pc \in {"out", "commit", "note"} => flight = {}
    /\ pc \in {"commit", "note"} => fatal \/ done = Chunks
    /\ resume.pc = "complete" => resume.done = Chunks
    /\ resume.pc \in {"ingest", "rebuilt", "write", "note"} => resume.idx \in Chunks

IInv == TypeOK /\ DoneIsStored /\ Concluding /\ CompletedMeansStored

----------------------------------------------------------------------------
(* Lemmas. *)

\* Storing a chunk forgets none.
LEMMA StoreKeeps ==
    ASSUME TypeOK, NEW c \in Chunks, Store(c)
    PROVE  stored \subseteq stored' /\ c \in stored' /\ stored' \subseteq Chunks /\ again' \in Nat
  BY DEF Store, TypeOK

\* Only one chunk of a set comes first in it.
LEMMA OneFirst ==
    ASSUME NEW S \in SUBSET Chunks, NEW c \in Chunks, NEW d \in Chunks,
           IsFirst(c, S), IsFirst(d, S)
    PROVE  c = d
  BY SplitIngestAssumption DEF IsFirst, Chunks

\* The records the process starts from have their types.
LEMMA Records == NoJob \in Job /\ NoResume \in ResumeState
<1>1. NoJob \in Job
  BY DEF NoJob, Job
<1> QED
  BY <1>1 DEF NoResume, ResumeState, NoChunk

LEMMA InitIInv == Init => IInv
<1> SUFFICES ASSUME Init PROVE IInv
  OBVIOUS
<1>1. BatchTypeOK
  BY DEF Init, IdleBatch, BatchTypeOK
<1>2. TypeOK
  <2>1. journal \in Job /\ resume \in ResumeState
    BY Records DEF Init
  <2>2. crashes \in 0..MaxCrashes /\ raises \in 0..MaxRaises
    BY SplitIngestAssumption DEF Init
  <2>3. again \in Nat /\ rebuilds \in Nat /\ boot \in BOOLEAN /\ overlaid \in BOOLEAN
    BY DEF Init
  <2> QED
    BY <1>1, <2>1, <2>2, <2>3 DEF Init, TypeOK
<1>3. DoneIsStored
  BY DEF Init, IdleBatch, DoneIsStored, NoJob, NoResume
<1>4. Concluding /\ CompletedMeansStored
  BY DEF Init, IdleBatch, Concluding, CompletedMeansStored, NoJob, NoResume
<1> QED
  BY <1>2, <1>3, <1>4 DEF IInv

USE DEF NoChunk

\* A step of the workers or of the coordinator before the commit leaves the disk,
\* the resume and what is committed alone.
LEMMA Ingesting ==
    ASSUME IInv, NEW c \in Chunks, Take(c) \/ Ingested(c) \/ Overflow(c)
    PROVE  IInv'
<1>0. pc \notin {"out", "commit", "note"}
  BY DEF IInv, Concluding, Take, Ingested, Overflow, Lands
<1>1. UNCHANGED <<disk, pc, committed, generation, rebuilds, again, overlaid, resume, boot, faults>>
  BY DEF Take, Ingested, Overflow, Lands, history
<1>2. TypeOK'
  <2>1. BatchTypeOK'
    BY <1>1 DEF IInv, TypeOK, BatchTypeOK, Take, Ingested, Overflow, Lands
  <2> QED
    BY <1>1, <2>1 DEF IInv, TypeOK, disk, faults
<1>3. DoneIsStored' /\ Concluding' /\ CompletedMeansStored'
  BY <1>0, <1>1 DEF IInv, DoneIsStored, Concluding, CompletedMeansStored, disk, Committing
<1> QED
  BY <1>2, <1>3 DEF IInv

LEMMA Coordinating ==
    ASSUME IInv, Submit \/ Poll \/ Drained \/ Rebuild \/ SaveRebuilt
    PROVE  IInv'
<1>1. /\ UNCHANGED <<stored, committed, resume, boot, faults, again, overlaid>>
      /\ pc' # "note"
  BY DEF Submit, Poll, Drained, Rebuild, SaveRebuilt, CancelWorkers, history, disk
<1>2. TypeOK'
  <2>1. BatchTypeOK'
    BY <1>1 DEF IInv, TypeOK, BatchTypeOK, Submit, Poll, Drained, Rebuild,
                SaveRebuilt, CancelWorkers
  <2>2. journal' \in Job
    BY DEF IInv, TypeOK, BatchTypeOK, Job, Submit, Poll, Drained, Rebuild,
           SaveRebuilt, SaveJob, disk
  <2>3. rebuilds' \in Nat
    BY DEF IInv, TypeOK, Submit, Poll, Drained, Rebuild, SaveRebuilt, history
  <2> QED
    BY <1>1, <2>1, <2>2, <2>3 DEF IInv, TypeOK, faults
<1>3. journal'.done \subseteq stored'
  BY <1>1 DEF IInv, DoneIsStored, Submit, Poll, Drained, Rebuild, SaveRebuilt,
              CancelWorkers, SaveJob, NoJob, disk
<1>4. CompletedMeansStored'
  BY <1>1 DEF IInv, CompletedMeansStored, Submit, Poll, Drained, Rebuild,
              SaveRebuilt, SaveJob, NoJob, disk
<1>5. Concluding'
  BY <1>1 DEF IInv, TypeOK, BatchTypeOK, Concluding, Submit, Poll, Drained, Rebuild, SaveRebuilt,
              CancelWorkers, disk
<1> QED
  BY <1>1, <1>2, <1>3, <1>4, <1>5 DEF IInv, DoneIsStored

LEMMA Committed ==
    ASSUME IInv, Commit \/ Note
    PROVE  IInv'
<1>0. TypeOK /\ DoneIsStored /\ Concluding /\ CompletedMeansStored
  BY DEF IInv
<1>1. PICK c \in Chunks : Committing(c) /\ IF pc = "commit" THEN Commit /\ Store(c)
                           ELSE /\ Note /\ committed' = committed \cup {c}
                                /\ SaveJob("running", committed \cup {c})
  BY DEF Commit, Note
<1>2. /\ UNCHANGED <<done, flight, fatal, resume, boot, faults, queue, generation,
                     paused, rebuild, woken, rebuilds, overlaid>>
      /\ c \in done /\ pc \in {"commit", "note"} /\ pc' \in {"commit", "note"}
  BY <1>1 DEF Commit, Note, Committing, IsFirst, history
<1>3. CASE pc = "commit"
  <2>1. /\ Store(c) /\ UNCHANGED <<journal, committed>>
    BY <1>1, <1>3 DEF Commit
  <2>2. stored \subseteq stored' /\ c \in stored' /\ stored' \subseteq Chunks /\ again' \in Nat
    BY <1>0, <2>1, StoreKeeps
  <2>3. TypeOK'
    BY <1>0, <1>2, <2>1, <2>2 DEF TypeOK, BatchTypeOK, faults
  <2>4. \A d \in Chunks : Committing(d)' => d \in stored'
    <3>1. SUFFICES ASSUME NEW d \in Chunks, Committing(d)' PROVE d = c
      BY <2>2
    <3>2. Committing(d)
      BY <3>1, <1>2, <2>1 DEF Committing
    <3> QED
      BY <1>0, <1>1, <3>2, OneFirst DEF Committing, TypeOK, BatchTypeOK
  <2>5. DoneIsStored'
    BY <1>0, <1>2, <2>1, <2>2, <2>4 DEF DoneIsStored
  <2> QED
    BY <1>0, <1>2, <2>1, <2>2, <2>3, <2>5
       DEF IInv, Concluding, CompletedMeansStored, TypeOK
<1>4. CASE pc # "commit"
  <2>1. /\ Note /\ pc = "note" /\ pc' = "commit" /\ UNCHANGED <<stored, again>>
        /\ committed' = committed \cup {c}
        /\ SaveJob("running", committed \cup {c})
    BY <1>1, <1>2, <1>4 DEF Note, history
  <2>2. TypeOK'
    BY <1>0, <1>2, <2>1 DEF TypeOK, BatchTypeOK, SaveJob, Job, faults
  <2>3. DoneIsStored'
    BY <1>0, <1>1, <1>2, <2>1 DEF DoneIsStored, SaveJob
  <2> QED
    BY <1>0, <1>2, <2>1, <2>2, <2>3 DEF IInv, Concluding, CompletedMeansStored, SaveJob
<1> QED
  BY <1>3, <1>4

LEMMA Ending ==
    ASSUME IInv, Conclude \/ BatchRaises \/ Crash
    PROVE  IInv'
<1>0. TypeOK /\ DoneIsStored /\ Concluding /\ CompletedMeansStored
  BY DEF IInv
<1>1. /\ BatchGone /\ UNCHANGED <<stored, again, rebuilds, overlaid>>
      /\ resume' \in {resume, NoResume} /\ boot' \in BOOLEAN
  BY <1>0 DEF Conclude, BatchRaises, Crash, disk, history, TypeOK
<1>2. crashes' \in 0..MaxCrashes /\ raises' \in 0..MaxRaises
  BY <1>0, SplitIngestAssumption DEF Conclude, BatchRaises, Crash, faults, TypeOK
<1>3. /\ journal' \in Job /\ journal'.done \subseteq stored
      /\ journal'.status = "completed" => stored = Chunks
  <2>1. CASE Conclude
    BY <1>0, <2>1 DEF Conclude, SaveJob, Job, TypeOK, BatchTypeOK, DoneIsStored, Concluding
  <2>2. CASE journal' = journal
    BY <1>0, <2>2 DEF TypeOK, DoneIsStored, CompletedMeansStored
  <2> QED
    BY <2>1, <2>2 DEF BatchRaises, Crash, disk
<1>4. TypeOK'
  <2>1. BatchTypeOK'
    BY <1>1 DEF BatchTypeOK, BatchGone
  <2> QED
    BY <1>0, <1>1, <1>2, <1>3, <2>1, Records DEF TypeOK
<1>5. DoneIsStored' /\ Concluding' /\ CompletedMeansStored'
  BY <1>0, <1>1, <1>3
     DEF BatchGone, DoneIsStored, Concluding, CompletedMeansStored, NoResume, NoJob
<1> QED
  BY <1>4, <1>5 DEF IInv

LEMMA Resumed ==
    ASSUME IInv, Resume \/ ResumeIngests \/ ResumeOverflows \/ ResumeSavesRebuilt
                 \/ ResumeCompletes \/ ResumeReturns \/ ResumeRaises
    PROVE  IInv'
<1>0. TypeOK /\ DoneIsStored /\ Concluding /\ CompletedMeansStored
  BY DEF IInv
<1>1. /\ UNCHANGED <<stored, batch, crashes, again>>
      /\ boot' \in BOOLEAN /\ overlaid' \in BOOLEAN /\ rebuilds' \in Nat
      /\ raises' \in 0..MaxRaises
  <2>1. UNCHANGED <<stored, batch, crashes, again>>
    BY DEF Resume, ResumeIngests, ResumeOverflows, ResumeSavesRebuilt,
           ResumeCompletes, ResumeReturns,
           ResumeRaises, disk, faults, history
  <2>2. /\ boot' \in {boot, FALSE}
        /\ overlaid' \in {overlaid, (overlaid \/ pc # "out")}
    BY DEF Resume, ResumeIngests, ResumeOverflows, ResumeSavesRebuilt,
           ResumeCompletes, ResumeReturns,
           ResumeRaises, history
  <2>3. boot' \in BOOLEAN /\ overlaid' \in BOOLEAN
    BY <1>0, <2>2 DEF TypeOK
  <2>4. rebuilds' \in {rebuilds, rebuilds + 1}
    BY DEF Resume, ResumeIngests, ResumeOverflows, ResumeSavesRebuilt,
           ResumeCompletes, ResumeReturns,
           ResumeRaises, history
  <2>5. raises' = raises \/ (raises < MaxRaises /\ raises' = raises + 1)
    BY DEF Resume, ResumeIngests, ResumeOverflows, ResumeSavesRebuilt,
           ResumeCompletes, ResumeReturns,
           ResumeRaises, faults
  <2> QED
    BY <1>0, <2>1, <2>3, <2>4, <2>5, SplitIngestAssumption DEF TypeOK
<1>2. BatchTypeOK'
  BY <1>0, <1>1 DEF TypeOK, BatchTypeOK, batch
<1>3. /\ resume' \in ResumeState
      /\ resume'.done \subseteq stored /\ resume'.job.done \subseteq stored
      /\ resume'.pc # "note"
      /\ resume'.pc = "complete" => resume'.done = Chunks
      /\ resume'.pc \in {"ingest", "rebuilt", "write"} => resume'.idx \in Chunks
  <2>1. CASE Resume
    <3>1. CASE resume' = resume
      BY <1>0, <2>1, <3>1 DEF TypeOK, DoneIsStored, Concluding, Resume, ResumeState
    <3>2. CASE Onward(Loaded(journal))
      BY <1>0, <3>2 DEF TypeOK, DoneIsStored, Onward, Loaded, ResumeState, Job
    <3> QED
      BY <2>1, <3>1, <3>2 DEF Resume
  <2>2. CASE resume' = NoResume
    BY <2>2, Records DEF NoResume, NoJob
  <2>3. CASE ResumeIngests
    BY <1>0, <2>3 DEF TypeOK, DoneIsStored, Concluding, ResumeIngests, ResumeState
  <2>4. CASE /\ resume' = [resume EXCEPT !.pc = "rebuilt", !.generation = 1]
             /\ resume.pc = "ingest"
    BY <1>0, <2>4 DEF TypeOK, DoneIsStored, Concluding, ResumeState
  <2>5. CASE resume' = [resume EXCEPT !.pc = "manage"]
    BY <1>0, <2>5 DEF TypeOK, DoneIsStored, ResumeState
  <2>6. CASE ResumeSavesRebuilt
    BY <1>0, <2>6 DEF TypeOK, DoneIsStored, Concluding, ResumeSavesRebuilt, ResumeState
  <2> QED
    BY <2>1, <2>2, <2>3, <2>4, <2>5, <2>6
       DEF ResumeIngests, ResumeOverflows, ResumeSavesRebuilt,
           ResumeCompletes, ResumeReturns, ResumeRaises
<1>4. /\ journal' \in Job /\ journal'.done \subseteq stored
      /\ journal'.status = "completed" => stored = Chunks
  <2>1. CASE \/ ResumeOverflows /\ SaveResumed("paused", resume)
             \/ ResumeSavesRebuilt
    BY <1>0, <2>1
       DEF TypeOK, DoneIsStored, ResumeSavesRebuilt, SaveResumed, Job, ResumeState
  <2>2. CASE ResumeCompletes
    BY <1>0, <2>2
       DEF TypeOK, DoneIsStored, Concluding, ResumeCompletes, SaveResumed, Job, ResumeState
  <2>3. CASE ResumeRaises
    BY <1>0, <2>3 DEF TypeOK, DoneIsStored, ResumeRaises, Job, ResumeState
  <2>4. CASE journal' = journal
    BY <1>0, <2>4 DEF TypeOK, DoneIsStored, CompletedMeansStored
  <2> QED
    BY <2>1, <2>2, <2>3, <2>4
       DEF Resume, ResumeIngests, ResumeOverflows, ResumeReturns, disk
<1>5. TypeOK'
  BY <1>0, <1>1, <1>2, <1>3, <1>4 DEF TypeOK
<1>6. DoneIsStored' /\ Concluding' /\ CompletedMeansStored'
  BY <1>0, <1>1, <1>3, <1>4
     DEF DoneIsStored, Concluding, CompletedMeansStored, batch, Committing
<1> QED
  BY <1>5, <1>6 DEF IInv

LEMMA ResumeStores ==
    ASSUME IInv, ResumeWrites \/ ResumeNotes
    PROVE  IInv'
<1>0. TypeOK /\ DoneIsStored /\ Concluding /\ CompletedMeansStored
  BY DEF IInv
<1>1. resume.idx \in Chunks /\ resume.pc \in {"write", "note"}
  BY <1>0 DEF ResumeWrites, ResumeNotes, Concluding
<1>2. UNCHANGED <<batch, boot, faults, rebuilds, overlaid>>
  BY DEF ResumeWrites, ResumeNotes, history
<1>3. BatchTypeOK'
  BY <1>0, <1>2 DEF TypeOK, BatchTypeOK, batch
<1>4. CASE ResumeWrites
  <2>1. /\ stored \subseteq stored' /\ resume.idx \in stored'
        /\ stored' \subseteq Chunks /\ again' \in Nat
    BY <1>0, <1>1, <1>4, StoreKeeps DEF ResumeWrites
  <2>2. resume' = [resume EXCEPT !.pc = "note"] /\ journal' = journal
    BY <1>4 DEF ResumeWrites
  <2>3. resume' \in ResumeState
    BY <1>0, <2>2 DEF TypeOK, ResumeState
  <2>4. TypeOK'
    BY <1>0, <1>2, <1>3, <2>1, <2>2, <2>3 DEF TypeOK, faults
  <2>5. /\ resume'.done = resume.done /\ resume'.job = resume.job
        /\ resume'.idx = resume.idx /\ resume'.pc = "note"
    BY <1>0, <2>2 DEF TypeOK, ResumeState
  <2> QED
    BY <1>0, <1>1, <1>2, <2>1, <2>2, <2>4, <2>5
       DEF IInv, DoneIsStored, Concluding, CompletedMeansStored, TypeOK, batch, Committing
<1>5. CASE ResumeNotes
  <2> DEFINE r == [resume EXCEPT !.done = @ \cup {resume.idx}]
  <2>1. Onward(r) /\ SaveResumed("running", r) /\ UNCHANGED <<stored, again>>
        /\ resume.pc = "note"
    BY <1>5 DEF ResumeNotes, history
  <2>2. /\ r \in ResumeState /\ r.done = resume.done \cup {resume.idx}
        /\ r.job = resume.job /\ r.generation = resume.generation
    BY <1>0, <1>1 DEF TypeOK, ResumeState
  <2> HIDE DEF r
  <2>3. r.done \subseteq stored
    BY <1>0, <2>1, <2>2 DEF DoneIsStored
  <2>4. /\ resume' \in ResumeState /\ resume'.pc \in {"complete", "ingest"}
        /\ resume'.done = r.done /\ resume'.job = resume.job
        /\ resume'.pc = "complete" => resume'.done = Chunks
        /\ resume'.pc = "ingest" => resume'.idx \in Chunks
    BY <2>1, <2>2 DEF Onward, ResumeState
  <2>5. /\ journal' \in Job /\ journal'.done = r.done
        /\ journal'.status = "running"
    BY <2>1, <2>2 DEF SaveResumed, Job, ResumeState
  <2>6. TypeOK'
    BY <1>0, <1>2, <1>3, <2>1, <2>4, <2>5 DEF TypeOK, faults
  <2> QED
    BY <1>0, <1>2, <2>1, <2>3, <2>4, <2>5, <2>6
       DEF IInv, DoneIsStored, Concluding, CompletedMeansStored, batch, Committing
<1> QED
  BY <1>4, <1>5

LEMMA StepIInv == IInv /\ [Next]_vars => IInv'
<1> SUFFICES ASSUME IInv, [Next]_vars PROVE IInv'
  OBVIOUS
<1>1. CASE Submit \/ Poll \/ Drained \/ Rebuild \/ SaveRebuilt
  BY <1>1, Coordinating
<1>2. CASE \E c \in Chunks : Take(c) \/ Ingested(c) \/ Overflow(c)
  BY <1>2, Ingesting
<1>3. CASE Commit \/ Note
  BY <1>3, Committed
<1>4. CASE Conclude \/ BatchRaises \/ Crash
  BY <1>4, Ending
<1>5. CASE Resume \/ ResumeIngests \/ ResumeOverflows \/ ResumeSavesRebuilt
           \/ ResumeCompletes \/ ResumeReturns \/ ResumeRaises
  BY <1>5, Resumed
<1>6. CASE ResumeWrites \/ ResumeNotes
  BY <1>6, ResumeStores
<1>7. CASE UNCHANGED vars
  <2> USE <1>7 DEF vars, disk, batch, faults, history, IInv
  <2>1. TypeOK'
    BY DEF TypeOK, BatchTypeOK
  <2>2. DoneIsStored'
    BY DEF DoneIsStored, Committing
  <2>3. Concluding' /\ CompletedMeansStored'
    BY DEF Concluding, CompletedMeansStored
  <2> QED BY <2>1, <2>2, <2>3
<1> QED
  BY <1>1, <1>2, <1>3, <1>4, <1>5, <1>6, <1>7 DEF Next, Batch, ResumeStep

----------------------------------------------------------------------------
(* The theorems. *)

\* IInv is inductive, whatever crashes, raises or overlaps.
THEOREM Invariance == Spec => []IInv
  BY InitIInv, StepIInv, PTL DEF Spec

\* The batch's, the resume's and the journal's state keep their types.
THEOREM TypeCorrect == Spec => []TypeOK
<1>1. IInv => TypeOK
  BY DEF IInv
<1> QED
  BY <1>1, Invariance, PTL

\* The journal never runs ahead of the store: _save_job after every write, and
\* the resume's own saves, name only chunks that survive a crash.
THEOREM NothingLost == Spec => []JournalBehindStore
<1>1. IInv => JournalBehindStore
  BY DEF IInv, DoneIsStored, JournalBehindStore
<1> QED
  BY <1>1, Invariance, PTL

\* A job is called completed, by the batch or by a resume, only with every chunk
\* of its text in the store.
THEOREM NothingMissing == Spec => []CompletedMeansStored
<1>1. IInv => CompletedMeansStored
  BY DEF IInv
<1> QED
  BY <1>1, Invariance, PTL

----------------------------------------------------------------------------
(* What a crash costs. *)

Calm == raises = 0 /\ ~overlaid

\* The chunk that is written and about to be noted in the journal.
Noting ==
    {c \in Chunks : (pc = "note" /\ Committing(c)) \/ (resume.pc = "note" /\ resume.idx = c)}

\* Chunks in the store that the journal does not know and nobody will tell it of:
\* each has cost a crash, and each may be ingested once more.
Orphans == stored \ (journal.done \cup Noting)

\* The generation whoever is at work has reached.
Reached ==
    IF pc # "out" THEN generation ELSE IF resume.pc # "out" THEN resume.generation
    ELSE journal.generation

\* The batch starts afresh, the resume of a chunk has not done it yet.
Afresh ==
    /\ pc = "out" => generation = 0 /\ committed = {}
    /\ pc = "rebuild" => generation = 0
    /\ journal.status = "none" => journal = NoJob /\ resume.pc = "out"
    /\ resume.pc \in {"ingest", "rebuilt", "write", "note"} => resume.idx \notin resume.done

\* One at a time is at work, and the journal knows its progress, except for a
\* compression that has just been made.
Journalled ==
    /\ pc = "out" \/ resume.pc = "out"
    /\ pc # "out" => /\ journal.done = committed
                     /\ pc # "rebuilt" => journal.generation = generation
    /\ resume.pc # "out" => /\ journal.done = resume.done
                            /\ resume.pc # "rebuilt" => journal.generation = resume.generation

Paid ==
    /\ again + Cardinality(Orphans) <= crashes
    /\ rebuilds <= crashes + Reached

RInv == Afresh /\ (Calm => Journalled /\ Paid)

\* How many chunks there are in a set of them.
LEMMA Counting ==
    ASSUME NEW B \in SUBSET Chunks
    PROVE  /\ Cardinality(B) \in Nat
           /\ \A A \in SUBSET B : Cardinality(A) <= Cardinality(B)
           /\ \A c \in Chunks : \A A \in SUBSET (B \cup {c}) : Cardinality(A) <= Cardinality(B) + 1
           /\ \A c \in B : \A A \in SUBSET (B \ {c}) : Cardinality(A) + 1 <= Cardinality(B)
<1>1. IsFiniteSet(Chunks)
  BY SplitIngestAssumption, FS_Interval DEF Chunks
<1>2. \A A \in SUBSET Chunks : IsFiniteSet(A) /\ Cardinality(A) \in Nat
  BY <1>1, FS_Subset, FS_CardinalityType
<1>3. \A C \in SUBSET Chunks : \A A \in SUBSET C : Cardinality(A) <= Cardinality(C)
  BY <1>2, FS_Subset
<1>4. \A c \in Chunks : Cardinality(B \cup {c}) <= Cardinality(B) + 1
  <2> TAKE c \in Chunks
  <2>1. Cardinality(B \cup {c}) = IF c \in B THEN Cardinality(B) ELSE Cardinality(B) + 1
    BY <1>2, FS_AddElement
  <2> QED
    BY <1>2, <2>1
<1>5. \A c \in B : Cardinality(B \ {c}) + 1 = Cardinality(B)
  <2> TAKE c \in B
  <2>1. Cardinality(B \ {c}) = IF c \in B THEN Cardinality(B) - 1 ELSE Cardinality(B)
    BY <1>2, FS_RemoveElement
  <2> QED
    BY <1>2, <2>1
<1>6. ASSUME NEW c \in Chunks, NEW A \in SUBSET (B \cup {c})
      PROVE  Cardinality(A) <= Cardinality(B) + 1
  <2>1. Cardinality(A) <= Cardinality(B \cup {c})
    BY <1>3
  <2> QED
    BY <1>2, <1>4, <2>1
<1>7. ASSUME NEW c \in B, NEW A \in SUBSET (B \ {c})
      PROVE  Cardinality(A) + 1 <= Cardinality(B)
  <2>1. Cardinality(A) <= Cardinality(B \ {c})
    BY <1>3
  <2> QED
    BY <1>2, <1>5, <2>1
<1> QED
  BY <1>2, <1>3, <1>6, <1>7

\* A step that makes no orphan and ingests nothing again costs nothing.
LEMMA StillPaid ==
    ASSUME TypeOK, TypeOK', Paid, Orphans' \subseteq Orphans,
           UNCHANGED <<again, crashes>>,
           rebuilds' + Reached <= rebuilds + Reached',
           Reached \in Nat, Reached' \in Nat
    PROVE  Paid'
<1>1. Cardinality(Orphans') <= Cardinality(Orphans)
      /\ Cardinality(Orphans') \in Nat /\ Cardinality(Orphans) \in Nat
  BY Counting DEF Orphans, TypeOK
<1>2. again \in Nat /\ crashes \in Nat /\ rebuilds \in Nat /\ rebuilds' \in Nat
  BY DEF TypeOK
<1>3. again' + Cardinality(Orphans') <= crashes'
  BY <1>1, <1>2 DEF Paid
<1>4. rebuilds' <= crashes' + Reached'
  <2>1. rebuilds <= crashes + Reached
    BY DEF Paid
  <2>2. \A b, d, n, r, q \in Nat : b <= n + r /\ d + r <= b + q => d <= n + q
    OBVIOUS
  <2>3. rebuilds' <= crashes + Reached'
    BY <1>2, <2>1, <2>2
  <2> QED
    BY <2>3
<1> QED
  BY <1>3, <1>4 DEF Paid

\* Whoever is at work, the generation it has reached is one of the two.
LEMMA ReachedType ==
    (TypeOK => Reached \in {0, 1}) /\ (TypeOK' => Reached' \in {0, 1})
  BY DEF TypeOK, BatchTypeOK, Reached, ResumeState, Job

\* Writing the chunk one is about to note costs at most what its orphan had.
LEMMA StorePaid ==
    ASSUME TypeOK, TypeOK', Paid, NEW c \in Chunks, Store(c), c \notin journal.done,
           Noting = {}, c \in Noting', journal' = journal,
           UNCHANGED <<crashes, rebuilds>>, Reached' = Reached
    PROVE  Paid'
<1>1. Cardinality(Orphans) \in Nat /\ Cardinality(Orphans') \in Nat
  BY Counting DEF Orphans, TypeOK
<1>2. Orphans' \subseteq Orphans \ {c}
  BY DEF Orphans, Store
<1>3. again \in Nat /\ crashes \in Nat
  BY DEF TypeOK
<1>4. CASE c \in stored
  <2>1. c \in Orphans
    BY <1>4 DEF Orphans
  <2>2. Cardinality(Orphans') + 1 <= Cardinality(Orphans)
    <3>1. Orphans \in SUBSET Chunks
      BY DEF Orphans, TypeOK
    <3> QED
      BY <1>2, <2>1, <3>1, Counting
  <2>3. again' = again + 1
    BY <1>4 DEF Store
  <2> QED
    BY <1>1, <1>3, <2>2, <2>3 DEF Paid
<1>5. CASE c \notin stored
  <2>1. again' = again
    BY <1>5 DEF Store
  <2>2. Cardinality(Orphans') <= Cardinality(Orphans)
    <3>1. Orphans \in SUBSET Chunks /\ Orphans' \in SUBSET Orphans
      BY <1>2 DEF Orphans, TypeOK
    <3> QED
      BY <3>1, Counting
  <2> QED
    BY <1>1, <1>3, <2>1, <2>2 DEF Paid
<1> QED
  BY <1>4, <1>5

\* Before the commit nothing is stored or noted.
LEMMA IngestingPays ==
    ASSUME IInv, IInv', RInv,
           \/ \E c \in Chunks : Take(c) \/ Ingested(c) \/ Overflow(c)
           \/ Submit \/ Poll \/ Drained \/ Rebuild \/ SaveRebuilt
    PROVE  RInv'
<1>0. TypeOK /\ TypeOK' /\ Afresh
  BY DEF IInv, RInv
<1>1. /\ UNCHANGED <<stored, committed, resume, raises, crashes, again, overlaid>>
      /\ pc' \notin {"note", "out"} /\ pc # "note"
      /\ pc = "out" => pc' = "watch"
      /\ pc' = "rebuilt" => pc \in {"rebuild", "rebuilt"}
  BY DEF Take, Ingested, Overflow, Lands, IInv, Concluding, Submit, Poll, Drained, Rebuild,
         SaveRebuilt, CancelWorkers, history, faults, disk
<1>2. \/ UNCHANGED <<journal, generation, rebuilds>> /\ pc # "out" /\ (pc = "rebuilt" => pc' = "rebuilt")
      \/ Submit \/ Rebuild \/ SaveRebuilt
  BY DEF Take, Ingested, Overflow, Lands, IInv, Concluding, Poll, Drained, CancelWorkers,
         history, disk
<1>3. generation \in {0, 1} /\ generation' \in {0, 1}
  BY <1>0 DEF TypeOK, BatchTypeOK
<1>4. Afresh'
  <2>1. pc' = "rebuild" => generation' = 0
    <3>1. CASE Drained
      BY <1>3, <3>1 DEF Drained, CancelWorkers
    <3>2. CASE ~Drained
      BY <1>0, <1>1, <3>2 DEF Take, Ingested, Overflow, Submit, Poll, Rebuild, SaveRebuilt,
         CancelWorkers, Afresh
    <3> QED
      BY <3>1, <3>2
  <2>2. journal'.status = "none" => journal' = NoJob /\ resume.pc = "out"
    BY <1>0, <1>2 DEF Afresh, Submit, Rebuild, SaveRebuilt, SaveJob, disk
  <2> QED
    BY <1>0, <1>1, <2>1, <2>2 DEF Afresh
<1>5. ASSUME Calm' PROVE Journalled' /\ Paid'
  <2>1. Journalled /\ Paid
    BY <1>1, <1>5 DEF RInv, Calm
  <2>2. Submit => resume.pc = "out" /\ journal.done = {} /\ journal.generation = 0
    BY <1>0 DEF Submit, Afresh, NoJob
  <2>3. Journalled'
    BY <1>0, <1>1, <1>2, <2>1, <2>2 DEF Journalled, Afresh, Submit, Rebuild, SaveRebuilt, SaveJob, disk
  <2>4. Noting' = Noting
    BY <1>1 DEF Noting
  <2>5. journal.done \subseteq journal'.done
    BY <1>0, <1>2, <2>1, <2>2 DEF Journalled, Afresh, Submit, Rebuild, SaveRebuilt, SaveJob, disk
  <2>6. Orphans' \subseteq Orphans
    BY <1>1, <2>4, <2>5 DEF Orphans
  <2>7. rebuilds' + Reached <= rebuilds + Reached'
    <3>1. rebuilds \in Nat /\ Reached \in {0, 1} /\ Reached' = generation'
      BY <1>0, <1>1, ReachedType DEF TypeOK, Reached
    <3>2. CASE Submit
      BY <1>3, <2>2, <3>1, <3>2 DEF Submit, Reached, history
    <3>3. CASE Rebuild
      <4>1. Reached = 0 /\ generation' = 1 /\ rebuilds' = rebuilds + 1
        BY <1>0, <3>3 DEF Rebuild, Reached, Afresh
      <4> QED BY <3>1, <4>1
    <3>4. CASE ~Submit /\ ~Rebuild
      <4>1. Reached = generation /\ generation' = generation /\ rebuilds' = rebuilds
        BY <1>2, <3>4 DEF Reached, SaveRebuilt, history
      <4> QED BY <1>3, <3>1, <4>1
    <3> QED BY <3>2, <3>3, <3>4
  <2>8. Reached \in Nat /\ Reached' \in Nat
    BY <1>0, <1>3, <1>1, ReachedType DEF Reached
  <2> QED
    BY <1>0, <1>1, <2>1, <2>3, <2>6, <2>7, <2>8, StillPaid
<1> QED
  BY <1>4, <1>5 DEF RInv

\* The commit writes a chunk the journal does not know, and notes it.
LEMMA CommittingPays ==
    ASSUME IInv, IInv', RInv, Commit \/ Note
    PROVE  RInv'
<1>0. TypeOK /\ TypeOK' /\ Afresh
  BY DEF IInv, RInv
<1>1. /\ UNCHANGED <<generation, resume, raises, crashes, rebuilds, overlaid, done>>
      /\ pc # "out" /\ pc' \in {"commit", "note"} /\ pc \in {"commit", "note"}
  BY DEF Commit, Note, faults, history
<1>2. Afresh'
  BY <1>0, <1>1 DEF Afresh, Commit, Note, SaveJob
<1>3. ASSUME Calm' PROVE Journalled' /\ Paid'
  <2>1. Journalled /\ Paid
    BY <1>1, <1>3 DEF RInv, Calm
  <2>2. resume.pc = "out"
    BY <1>1, <2>1 DEF Journalled
  <2>3. Journalled'
    BY <1>1, <2>1, <2>2 DEF Journalled, Commit, Note, SaveJob
  <2>4. Reached' = Reached /\ Reached \in Nat
    BY <1>0, <1>1, ReachedType DEF Reached
  <2>5. CASE Commit
    <3>1. PICK c \in Chunks : Committing(c) /\ Store(c)
      BY <2>5 DEF Commit
    <3>2. pc = "commit" /\ pc' = "note" /\ journal' = journal /\ committed' = committed
      BY <2>5 DEF Commit
    <3>3. c \notin journal.done
      BY <1>1, <2>1, <3>1 DEF Committing, IsFirst, Journalled
    <3>4. Noting = {} /\ c \in Noting'
      BY <1>1, <2>2, <3>1, <3>2 DEF Noting, Committing
    <3> QED
      BY <1>0, <1>1, <2>1, <2>3, <2>4, <3>1, <3>2, <3>3, <3>4, StorePaid
  <2>6. CASE Note
    <3>1. PICK c \in Chunks : Committing(c) /\ journal'.done = committed \cup {c}
      BY <2>6 DEF Note, SaveJob
    <3>2. stored' = stored /\ again' = again /\ pc = "note"
      BY <2>6 DEF Note, history
    <3>3. \A d \in Chunks : Committing(d) => d = c
      BY <1>0, <3>1, OneFirst DEF Committing, TypeOK, BatchTypeOK
    <3>4. Noting \subseteq {c}
      BY <2>2, <3>3 DEF Noting
    <3>5. journal.done = committed
      BY <1>1, <2>1 DEF Journalled
    <3>6. Orphans' \subseteq Orphans
      BY <3>1, <3>2, <3>4, <3>5 DEF Orphans
    <3>7. rebuilds' + Reached <= rebuilds + Reached'
      BY <1>0, <1>1, <2>4 DEF TypeOK
    <3> QED
      BY <1>0, <1>1, <2>1, <2>3, <2>4, <3>2, <3>6, <3>7, StillPaid
  <2> QED
    BY <2>5, <2>6
<1> QED
  BY <1>2, <1>3 DEF RInv

\* A crash makes at most one orphan, and loses at most one compression.
LEMMA CrashPays ==
    ASSUME IInv, IInv', RInv, Crash
    PROVE  RInv'
<1>0. TypeOK /\ TypeOK' /\ Afresh
  BY DEF IInv, RInv
<1>1. /\ UNCHANGED <<journal, stored, raises, again, rebuilds, overlaid>>
      /\ crashes' = crashes + 1 /\ BatchGone /\ resume' = NoResume
      /\ resume'.pc = "out" /\ pc' = "out" /\ generation' = 0 /\ committed' = {}
  BY DEF Crash, disk, history, BatchGone, NoResume
<1>2. Afresh'
  BY <1>0, <1>1 DEF Afresh
<1>3. ASSUME Calm' PROVE Journalled' /\ Paid'
  <2>1. Journalled /\ Paid
    BY <1>1, <1>3 DEF RInv, Calm
  <2>2. Journalled'
    BY <1>1 DEF Journalled
  <2>3. Noting = {} \/ \E c \in Chunks : Noting \subseteq {c}
    <3>1. CASE resume.pc = "out"
      <4>1. \A c, d \in Noting : c = d
        BY <1>0, <3>1, OneFirst DEF Noting, Committing, TypeOK, BatchTypeOK
      <4> QED BY <4>1 DEF Noting
    <3>2. CASE resume.pc # "out"
      BY <2>1, <3>2 DEF Journalled, Noting
    <3> QED BY <3>1, <3>2
  <2>4. Orphans' = stored \ journal.done
    <3>1. Noting' = {}
      BY <1>1 DEF Noting
    <3> QED BY <1>1, <3>1 DEF Orphans
  <2>5. Orphans \in SUBSET Chunks
    BY <1>0 DEF Orphans, TypeOK
  <2>6. Orphans' \in SUBSET Orphans \/ \E c \in Chunks : Orphans' \in SUBSET (Orphans \cup {c})
    BY <2>3, <2>4 DEF Orphans
  <2>7. Cardinality(Orphans) \in Nat /\ Cardinality(Orphans') <= Cardinality(Orphans) + 1
        /\ Cardinality(Orphans') \in Nat
    <3>1. Cardinality(Orphans') \in Nat
      BY <1>0, Counting DEF Orphans, TypeOK
    <3>2. /\ Cardinality(Orphans) \in Nat
          /\ \A A \in SUBSET Orphans : Cardinality(A) <= Cardinality(Orphans)
          /\ \A c \in Chunks : \A A \in SUBSET (Orphans \cup {c}) :
                Cardinality(A) <= Cardinality(Orphans) + 1
      BY <2>5, Counting
    <3>3. CASE Orphans' \in SUBSET Orphans
      <4>1. Cardinality(Orphans') <= Cardinality(Orphans)
        BY <3>2, <3>3
      <4> QED BY <3>1, <3>2, <4>1
    <3>4. CASE \E c \in Chunks : Orphans' \in SUBSET (Orphans \cup {c})
      BY <3>1, <3>2, <3>4
    <3> QED BY <2>6, <3>3, <3>4
  <2>8. rebuilds' <= crashes' + Reached'
    <3>1. rebuilds \in Nat /\ crashes \in Nat /\ Reached \in {0, 1} /\ Reached' \in {0, 1}
      BY <1>0, ReachedType DEF TypeOK
    <3>2. rebuilds <= crashes + Reached
      BY <2>1 DEF Paid
    <3>3. \A b, n \in Nat : \A r, q \in {0, 1} : b <= n + r => b <= (n + 1) + q
      OBVIOUS
    <3>4. rebuilds <= (crashes + 1) + Reached'
      BY <3>1, <3>2, <3>3
    <3> QED BY <1>1, <3>4
  <2>9. again' + Cardinality(Orphans') <= crashes'
    BY <1>0, <1>1, <2>1, <2>7 DEF Paid, TypeOK
  <2> QED
    BY <2>2, <2>8, <2>9 DEF Paid
<1> QED
  BY <1>2, <1>3 DEF RInv

\* A batch ends with everything it committed journalled; whoever raises ends
\* the calm.
LEMMA LeavingPays ==
    ASSUME IInv, IInv', RInv, Conclude \/ BatchRaises \/ ResumeRaises
    PROVE  RInv'
<1>0. TypeOK /\ TypeOK' /\ Afresh
  BY DEF IInv, RInv
<1>1. CASE BatchRaises \/ ResumeRaises
  <2>1. raises' = raises + 1 /\ raises \in Nat
    BY <1>0, <1>1 DEF BatchRaises, ResumeRaises, TypeOK
  <2>2. Afresh'
    <3>1. CASE BatchRaises
      BY <1>0, <3>1 DEF BatchRaises, BatchGone, Afresh, disk
    <3>2. CASE ResumeRaises
      <4>1. journal'.status = "paused" /\ resume'.pc = "out"
        BY <1>0, <3>2 DEF ResumeRaises, NoResume, TypeOK, ResumeState, Job
      <4> QED BY <1>0, <3>2, <4>1 DEF ResumeRaises, Afresh, batch
    <3> QED BY <1>1, <3>1, <3>2
  <2> QED BY <2>1, <2>2 DEF RInv, Calm
<1>2. CASE Conclude
  <2>1. /\ pc = "commit" /\ pc' = "out" /\ generation' = 0 /\ committed' = {}
        /\ UNCHANGED <<stored, resume, raises, crashes, again, rebuilds, overlaid>>
        /\ journal'.done = committed /\ journal'.generation = generation
        /\ journal'.status \in {"paused", "completed"}
    BY <1>2 DEF Conclude, BatchGone, SaveJob, faults, history
  <2>2. Afresh'
    BY <1>0, <2>1 DEF Afresh
  <2>3. ASSUME Calm' PROVE Journalled' /\ Paid'
    <3>1. Journalled /\ Paid
      BY <2>1, <2>3 DEF RInv, Calm
    <3>2. resume.pc = "out" /\ journal.done = committed
      BY <2>1, <3>1 DEF Journalled
    <3>3. Journalled'
      BY <2>1, <3>2 DEF Journalled
    <3>4. Noting = {}
      BY <2>1, <3>2 DEF Noting
    <3>5. Orphans' \subseteq Orphans
      BY <2>1, <3>2, <3>4 DEF Orphans
    <3>6. Reached' = Reached /\ Reached \in Nat
      BY <1>0, <2>1, <3>2, ReachedType DEF Reached
    <3>7. rebuilds' + Reached <= rebuilds + Reached'
      BY <1>0, <2>1, <3>6 DEF TypeOK
    <3> QED
      BY <1>0, <2>1, <3>1, <3>3, <3>5, <3>6, <3>7, StillPaid
  <2> QED BY <2>2, <2>3 DEF RInv
<1> QED BY <1>1, <1>2

\* A resume begins where the journal is.
LEMMA BeginningPays ==
    ASSUME IInv, IInv', RInv, Resume
    PROVE  RInv'
<1>0. TypeOK /\ TypeOK' /\ Afresh
  BY DEF IInv, RInv
<1>1. /\ UNCHANGED <<disk, batch, raises, crashes, again, rebuilds>>
      /\ resume.pc = "out" /\ (~overlaid' => ~overlaid /\ pc = "out")
  BY DEF Resume, faults
<1>2. CASE resume' = resume
  <2>1. Afresh'
    BY <1>0, <1>1, <1>2 DEF Afresh, disk, batch
  <2>2. ASSUME Calm' PROVE Journalled' /\ Paid'
    <3>1. Journalled /\ Paid
      BY <1>1, <2>2 DEF RInv, Calm
    <3> QED
      BY <1>1, <1>2, <3>1 DEF Journalled, Paid, Orphans, Noting, Committing, Reached, disk, batch
  <2> QED BY <2>1, <2>2 DEF RInv
<1>3. CASE resume' # resume
  <2>1. /\ Onward(Loaded(journal)) /\ journal.status # "none"
    BY <1>3 DEF Resume
  <2>2. /\ resume'.done = journal.done /\ resume'.generation = journal.generation
        /\ resume'.pc \in {"ingest", "complete"}
        /\ resume'.pc = "ingest" => resume'.idx \notin resume'.done
    BY <2>1 DEF Onward, Loaded, IsFirst
  <2>3. Afresh'
    BY <1>0, <1>1, <2>1, <2>2 DEF Afresh, disk, batch
  <2>4. ASSUME Calm' PROVE Journalled' /\ Paid'
    <3>1. Journalled /\ Paid /\ pc = "out"
      BY <1>1, <2>4 DEF RInv, Calm
    <3>2. Journalled'
      BY <1>1, <2>2, <3>1 DEF Journalled, disk, batch
    <3>3. Noting' = {} /\ Noting = {}
      BY <1>1, <2>2, <3>1 DEF Noting, batch
    <3>4. Orphans' = Orphans
      BY <1>1, <3>3 DEF Orphans, disk
    <3>5. Reached' = Reached
      BY <1>1, <2>2, <3>1 DEF Reached, disk, batch
    <3>6. UNCHANGED <<again, crashes, rebuilds>>
      BY <1>1
    <3> QED BY <3>1, <3>2, <3>4, <3>5, <3>6 DEF Paid
  <2> QED BY <2>3, <2>4 DEF RInv
<1> QED BY <1>2, <1>3

\* A resume that writes nothing journals all it has done before it leaves.
LEMMA ResumingPays ==
    ASSUME IInv, IInv', RInv,
           \/ ResumeIngests \/ ResumeOverflows \/ ResumeSavesRebuilt
           \/ ResumeNotes \/ ResumeCompletes \/ ResumeReturns
    PROVE  RInv'
<1>0. TypeOK /\ TypeOK' /\ Afresh /\ resume \in ResumeState /\ journal \in Job
  BY DEF IInv, RInv, TypeOK
<1>1. UNCHANGED <<stored, batch, raises, crashes, again, overlaid>>
  BY DEF ResumeIngests, ResumeOverflows, ResumeSavesRebuilt, ResumeNotes,
         ResumeCompletes, ResumeReturns, disk, faults, history
<1>2. \/ journal' = journal /\ ~ResumeNotes
      \/ journal'.done = resume.done /\ journal'.generation = resume.generation /\ ~ResumeNotes
         /\ journal'.status # "none" /\ resume.pc # "note"
      \/ ResumeNotes /\ journal'.done = resume.done \cup {resume.idx}
         /\ journal'.generation = resume.generation /\ journal'.status # "none"
  BY <1>0 DEF ResumeIngests, ResumeOverflows, ResumeSavesRebuilt, ResumeNotes,
         ResumeCompletes, ResumeReturns, SaveResumed, disk, ResumeState
<1>3. \/ /\ resume'.pc = "out" /\ resume.pc # "note"
         /\ (resume.pc = "rebuilt" => FALSE)
      \/ /\ resume'.done = resume.done /\ resume'.idx = resume.idx /\ ~ResumeNotes
         /\ resume.pc \in {"ingest", "rebuilt", "complete"}
         /\ resume'.pc \in {"write", "rebuilt", "ingest", "manage"}
         /\ resume'.pc # "manage" => resume.pc \in {"ingest", "rebuilt"}
      \/ /\ ResumeNotes /\ resume'.done = resume.done \cup {resume.idx}
         /\ resume'.generation = resume.generation /\ resume.pc = "note"
         /\ resume'.pc \in {"complete", "ingest"}
         /\ resume'.pc = "ingest" => resume'.idx \notin resume'.done
  <2>1. CASE ResumeNotes
    BY <1>0, <2>1 DEF ResumeNotes, Onward, IsFirst, ResumeState
  <2>2. CASE ResumeIngests \/ ResumeOverflows \/ ResumeSavesRebuilt
    <3>1. ~ResumeNotes
      BY <2>2 DEF ResumeIngests, ResumeOverflows, ResumeSavesRebuilt, ResumeNotes
    <3>2. resume.pc \in {"ingest", "rebuilt"}
      BY <2>2 DEF ResumeIngests, ResumeOverflows, ResumeSavesRebuilt
    <3>3. CASE resume' = NoResume
      <4>1. resume.pc = "ingest"
        BY <1>0, <2>2, <3>3 DEF ResumeIngests, ResumeOverflows, ResumeSavesRebuilt, NoResume, ResumeState
      <4> QED BY <3>3, <4>1 DEF NoResume
    <3>4. CASE resume' # NoResume
      BY <1>0, <2>2, <3>1, <3>4 DEF ResumeIngests, ResumeOverflows, ResumeSavesRebuilt, ResumeState
    <3> QED BY <3>3, <3>4
  <2>3. CASE ResumeCompletes \/ ResumeReturns
    <3>1. ~ResumeNotes
      BY <2>3 DEF ResumeCompletes, ResumeReturns, ResumeNotes
    <3> QED
      BY <1>0, <2>3, <3>1 DEF ResumeCompletes, ResumeReturns, NoResume, ResumeState
  <2> QED BY <2>1, <2>2, <2>3
<1>4. resume.pc # "out" /\ journal.status # "none"
  BY <1>0 DEF Afresh, ResumeIngests, ResumeOverflows, ResumeSavesRebuilt, ResumeNotes,
         ResumeCompletes, ResumeReturns
<1>5. Afresh'
  <2>1. journal'.status # "none"
    BY <1>2, <1>4
  <2>2. resume'.pc \in {"ingest", "rebuilt", "write", "note"} => resume'.idx \notin resume'.done
    BY <1>0, <1>3 DEF Afresh
  <2> QED BY <1>0, <1>1, <2>1, <2>2 DEF Afresh, batch
<1>6. ASSUME Calm' PROVE Journalled' /\ Paid'
  <2>1. Journalled /\ Paid /\ pc = "out" /\ pc' = "out"
    BY <1>1, <1>4, <1>6 DEF RInv, Calm, Journalled, batch
  <2>2. Journalled'
    <3>1. resume'.pc # "out" => journal'.done = resume'.done
      BY <1>2, <1>3, <1>4, <2>1 DEF Journalled
    <3>2. resume'.pc \notin {"out", "rebuilt"} => journal'.generation = resume'.generation
      <4>1. CASE ResumeNotes
        BY <1>2, <1>3, <4>1
      <4>2. CASE ResumeIngests \/ ResumeOverflows
        <5>1. CASE ResumeIngests
          <6>1. resume.pc = "ingest" /\ journal' = journal /\ resume' = [resume EXCEPT !.pc = "write"]
            BY <5>1 DEF ResumeIngests, disk
          <6>2. journal.generation = resume.generation
            BY <2>1, <6>1 DEF Journalled
          <6> QED BY <1>0, <6>1, <6>2 DEF ResumeState
        <5>2. CASE ResumeOverflows
          <6>1. \/ resume' = NoResume
                \/ resume' = [resume EXCEPT !.pc = "rebuilt", !.generation = 1]
            BY <5>2 DEF ResumeOverflows
          <6>2. CASE resume' = NoResume
            BY <6>2 DEF NoResume
          <6>3. CASE resume' = [resume EXCEPT !.pc = "rebuilt", !.generation = 1]
            BY <1>0, <6>3 DEF ResumeState
          <6> QED BY <6>1, <6>2, <6>3
        <5> QED BY <4>2, <5>1, <5>2
      <4>3. CASE ResumeSavesRebuilt \/ ResumeCompletes
        <5>1. journal'.generation = resume.generation
          BY <4>3 DEF ResumeSavesRebuilt, ResumeCompletes, SaveResumed
        <5>2. resume'.pc = "out" \/ resume'.generation = resume.generation
          BY <1>0, <4>3 DEF ResumeSavesRebuilt, ResumeCompletes, NoResume, ResumeState
        <5> QED BY <5>1, <5>2
      <4>4. CASE ResumeReturns
        BY <4>4 DEF ResumeReturns, NoResume
      <4> QED BY <4>1, <4>2, <4>3, <4>4
    <3> QED BY <2>1, <3>1, <3>2 DEF Journalled
  <2>3. Noting' = {} /\ (resume.pc = "note" => Noting \subseteq {resume.idx}) /\ (resume.pc # "note" => Noting = {})
    BY <1>3, <2>1 DEF Noting
  <2>4. Orphans' \subseteq Orphans
    <3>1. journal.done = resume.done
      BY <1>4, <2>1 DEF Journalled
    <3>2. resume.pc = "note" => ResumeNotes
      BY <1>3
    <3> QED BY <1>1, <1>2, <2>3, <3>1, <3>2 DEF Orphans
  <2>5. Reached = resume.generation
        /\ Reached' = IF resume'.pc # "out" THEN resume'.generation ELSE journal'.generation
    BY <1>4, <2>1 DEF Reached
  <2>6. Reached \in {0, 1} /\ Reached' \in {0, 1} /\ rebuilds \in Nat
    BY <1>0, ReachedType DEF TypeOK
  <2>7. rebuilds' + Reached <= rebuilds + Reached'
    <3>1. CASE ResumeOverflows /\ resume.generation = 0
      <4>1. /\ rebuilds' = rebuilds + 1 /\ resume' = [resume EXCEPT !.pc = "rebuilt", !.generation = 1]
        BY <3>1 DEF ResumeOverflows
      <4>2. resume'.pc = "rebuilt" /\ resume'.generation = 1
        BY <1>0, <4>1 DEF ResumeState
      <4>3. Reached = 0 /\ Reached' = 1
        BY <2>5, <3>1, <4>2
      <4> QED BY <2>6, <4>1, <4>3
    <3>2. CASE ~(ResumeOverflows /\ resume.generation = 0)
      <4>1. rebuilds' = rebuilds
        BY <3>2 DEF ResumeIngests, ResumeOverflows, ResumeSavesRebuilt, ResumeNotes,
           ResumeCompletes, ResumeReturns, history
      <4>2. resume.pc # "rebuilt" => journal.generation = resume.generation
        BY <1>4, <2>1 DEF Journalled
      <4>3. Reached' = Reached
        <5>1. resume'.pc # "out" => resume'.generation = resume.generation
          <6>1. CASE ResumeNotes
            BY <1>3, <6>1
          <6>2. CASE ResumeIngests \/ ResumeOverflows \/ ResumeSavesRebuilt
            BY <1>0, <3>2, <6>2 DEF ResumeIngests, ResumeOverflows, ResumeSavesRebuilt, NoResume, ResumeState
          <6>3. CASE ResumeCompletes \/ ResumeReturns
            BY <1>0, <6>3 DEF ResumeCompletes, ResumeReturns, NoResume, ResumeState
          <6> QED BY <6>1, <6>2, <6>3
        <5>2. resume'.pc = "out" => journal'.generation = resume.generation
          BY <1>2, <1>3, <4>2
        <5> QED BY <2>5, <5>1, <5>2
      <4> QED BY <2>6, <4>1, <4>3
    <3> QED BY <3>1, <3>2
  <2> QED BY <1>0, <1>1, <2>1, <2>2, <2>4, <2>6, <2>7, StillPaid
<1> QED BY <1>5, <1>6 DEF RInv

\* A resume writes a chunk that the journal does not know.
LEMMA RewritingPays ==
    ASSUME IInv, IInv', RInv, ResumeWrites
    PROVE  RInv'
<1>0. TypeOK /\ TypeOK' /\ Afresh /\ resume \in ResumeState
  BY DEF IInv, RInv, TypeOK
<1>1. /\ UNCHANGED <<journal, batch, raises, crashes, rebuilds, overlaid>>
      /\ resume.pc = "write" /\ Store(resume.idx) /\ resume.idx \in Chunks
      /\ resume' = [resume EXCEPT !.pc = "note"]
  BY DEF ResumeWrites, faults, IInv, Concluding
<1>2. /\ resume'.pc = "note" /\ resume'.idx = resume.idx /\ resume'.done = resume.done
      /\ resume'.generation = resume.generation
  BY <1>0, <1>1 DEF ResumeState
<1>3. Afresh'
  BY <1>0, <1>1, <1>2 DEF Afresh, batch
<1>4. ASSUME Calm' PROVE Journalled' /\ Paid'
  <2>1. Journalled /\ Paid /\ pc = "out" /\ pc' = "out"
    BY <1>1, <1>4 DEF RInv, Calm, Journalled, batch
  <2>2. Journalled'
    BY <1>1, <1>2, <2>1 DEF Journalled
  <2>3. resume.idx \notin journal.done
    BY <1>0, <1>1, <2>1 DEF Journalled, Afresh
  <2>4. Noting = {} /\ resume.idx \in Noting' /\ Reached' = Reached
    BY <1>1, <1>2, <2>1 DEF Noting, Reached
  <2> QED BY <1>0, <1>1, <2>1, <2>2, <2>3, <2>4, StorePaid
<1> QED BY <1>3, <1>4 DEF RInv

LEMMA InitRInv == Init => RInv
<1> SUFFICES ASSUME Init PROVE RInv
  OBVIOUS
<1>1. Afresh /\ Journalled
  BY DEF Init, IdleBatch, Afresh, Journalled, NoJob, NoResume
<1>2. Orphans = {} /\ Reached = 0
  BY DEF Init, IdleBatch, Orphans, Reached, NoJob, NoResume
<1>3. Paid
  BY <1>2, FS_EmptySet DEF Init, Paid
<1> QED BY <1>1, <1>3 DEF RInv

\* Every step is paid for.
LEMMA StepRInv == IInv /\ RInv /\ [Next]_vars => RInv'
<1> SUFFICES ASSUME IInv, RInv, [Next]_vars PROVE RInv'
  OBVIOUS
<1>0. IInv'
  BY StepIInv
<1>1. CASE \/ \E c \in Chunks : Take(c) \/ Ingested(c) \/ Overflow(c)
           \/ Submit \/ Poll \/ Drained \/ Rebuild \/ SaveRebuilt
  BY <1>0, <1>1, IngestingPays
<1>2. CASE Commit \/ Note
  BY <1>0, <1>2, CommittingPays
<1>3. CASE Crash
  BY <1>0, <1>3, CrashPays
<1>4. CASE Conclude \/ BatchRaises \/ ResumeRaises
  BY <1>0, <1>4, LeavingPays
<1>5. CASE Resume
  BY <1>0, <1>5, BeginningPays
<1>6. CASE \/ ResumeIngests \/ ResumeOverflows \/ ResumeSavesRebuilt
           \/ ResumeNotes \/ ResumeCompletes \/ ResumeReturns
  BY <1>0, <1>6, ResumingPays
<1>7. CASE ResumeWrites
  BY <1>0, <1>7, RewritingPays
<1>8. CASE UNCHANGED vars
  <2> USE <1>8 DEF vars, disk, batch, faults, history, RInv
  <2>1. Afresh' /\ (Journalled => Journalled') /\ Calm' = Calm
    BY DEF Afresh, Journalled, Calm
  <2>2. Paid => Paid'
    BY DEF Paid, Orphans, Noting, Committing, Reached
  <2> QED BY <2>1, <2>2
<1> QED
  BY <1>1, <1>2, <1>3, <1>4, <1>5, <1>6, <1>7, <1>8 DEF Next, Batch, ResumeStep

\* As long as nothing raises and no resume overlaps the batch, a crash costs at
\* most one chunk ingested again and one more compression (_save_job after every
\* chunk and every compression).
THEOREM CrashesCostLittle == Spec => []ReworkBounded
<1>1. IInv /\ RInv => ReworkBounded
  <2> SUFFICES ASSUME IInv, RInv, raises = 0 /\ ~overlaid
               PROVE  again <= crashes /\ rebuilds <= crashes + 1
    BY DEF ReworkBounded
  <2>1. Paid /\ TypeOK
    BY DEF RInv, Calm, IInv
  <2>2. Cardinality(Orphans) \in Nat
    BY <2>1, Counting DEF Orphans, TypeOK
  <2>3. again \in Nat /\ crashes \in Nat /\ rebuilds \in Nat /\ Reached \in {0, 1}
    BY <2>1, ReachedType DEF TypeOK
  <2> QED BY <2>1, <2>2, <2>3 DEF Paid
<1> QED
  BY <1>1, InitIInv, StepIInv, InitRInv, StepRInv, PTL DEF Spec
============================================================================
