----------------------------- MODULE SplitIngest -----------------------------
(***************************************************************************)
(* One batch of split ingest: a long text cut into chunks that a pool of   *)
(* workers ingests while a coordinator watches for overflows, the commit   *)
(* of what was ingested, the job journal, and the resumption of the job    *)
(* after a restart.                                                        *)
(*                                                                         *)
(* A chunk overflows when the bucket's context leaves no room for it.  The *)
(* first overflow pauses the workers; once they are drained the bucket is  *)
(* compressed (generation 1) and the open chunks are queued again.  An     *)
(* overflow in generation 1 is fatal: the batch commits what it has and    *)
(* pauses the job.                                                         *)
(*                                                                         *)
(* The workers, the coordinator and the resume are tasks of one event      *)
(* loop, so what each does between two awaits is one step.  state_lock is  *)
(* held across an await only while all workers are paused, so nobody waits *)
(* for it.  rebuilt_once is always generation = 1.                         *)
(***************************************************************************)
EXTENDS Naturals, FiniteSets

CONSTANTS Total,       \* chunks in the batch (chunk_total)
          Parallelism, \* workers (split_ingest_parallelism), all alike
          MaxCrashes,  \* bound on crashes of the process
          MaxRaises,   \* bound on exceptions that reach the batch or the resume
          Overlaps     \* TRUE: a resume may be asked for while the batch runs

ASSUME SplitIngestAssumption ==
    /\ Total \in Nat \ {0} /\ Parallelism \in Nat \ {0}
    /\ MaxCrashes \in Nat /\ MaxRaises \in Nat
    /\ Overlaps \in BOOLEAN

Chunks == 1..Total
NoChunk == 0

VARIABLES
  journal,    \* the batch's job journal, on disk
  stored,     \* chunks with a memory record, on disk
  pc,         \* where the coordinator is; "out" before and after the batch
  queue,      \* the current work queue, as a set: its order decides nothing
  flight,     \* chunks being ingested (inflight is their number)
  done,       \* done_indices: chunks with a result
  committed,  \* committed_indices
  generation,
  paused,     \* pause_event is clear
  rebuild,    \* rebuild_event is set
  woken,      \* drain_event was set since the coordinator waits for it
  fatal,      \* fatal_recoverable_error is not empty
  resume,     \* the resume task: where it is, the job it loaded, its progress
  boot,       \* the automatic resume of a restart is still to run
  crashes, raises,           \* history: what went wrong so far
  again, rebuilds, overlaid  \* history: rewrites, compressions, overlaps

disk == <<journal, stored>>
batch == <<pc, queue, flight, done, committed, generation, paused, rebuild,
           woken, fatal>>
faults == <<crashes, raises>>
history == <<again, rebuilds, overlaid>>
vars == <<disk, batch, resume, boot, faults, history>>

Job == [status: {"none", "running", "paused", "completed"},
        done: SUBSET Chunks, generation: {0, 1}]

NoJob == [status |-> "none", done |-> {}, generation |-> 0]
NoResume == [pc |-> "out", job |-> NoJob, idx |-> NoChunk, done |-> {},
             generation |-> 0]

ResumeState == [pc: {"out", "ingest", "rebuilt", "write", "note", "complete", "manage"},
                job: Job, idx: Chunks \cup {NoChunk}, done: SUBSET Chunks,
                generation: {0, 1}]

BatchTypeOK ==
    /\ pc \in {"out", "watch", "drain", "rebuild", "rebuilt", "commit", "note"}
    /\ queue \subseteq Chunks /\ flight \subseteq Chunks
    /\ done \subseteq Chunks /\ committed \subseteq done
    /\ generation \in {0, 1}
    /\ paused \in BOOLEAN /\ rebuild \in BOOLEAN
    /\ woken \in BOOLEAN /\ fatal \in BOOLEAN

\* Every variable keeps to its domain, and only what was ingested is committed.
TypeOK ==
    /\ journal \in Job /\ stored \subseteq Chunks
    /\ BatchTypeOK
    /\ resume \in ResumeState /\ boot \in BOOLEAN
    /\ crashes \in 0..MaxCrashes /\ raises \in 0..MaxRaises
    /\ again \in Nat /\ rebuilds \in Nat /\ overlaid \in BOOLEAN

IdleBatch ==
    /\ pc = "out" /\ queue = {} /\ flight = {} /\ done = {} /\ committed = {}
    /\ generation = 0
    /\ paused = FALSE /\ rebuild = FALSE /\ woken = FALSE /\ fatal = FALSE

Init ==
    /\ IdleBatch
    /\ journal = NoJob /\ stored = {}
    /\ resume = NoResume /\ boot = FALSE
    /\ crashes = 0 /\ raises = 0
    /\ again = 0 /\ rebuilds = 0 /\ overlaid = FALSE

----------------------------------------------------------------------------
(* The workers. *)

\* The chunks are there, the job is journalled and the workers start.  Bound: one
\* batch.
Submit ==
    /\ pc = "out" /\ journal = NoJob
    /\ journal' = [status |-> "running", done |-> {}, generation |-> 0]
    /\ pc' = "watch" /\ queue' = Chunks
    /\ UNCHANGED <<stored, flight, done, committed, generation, paused, rebuild,
                   woken, fatal, resume, boot, faults, history>>

\* The pause is waited for, a chunk taken and counted without another await.
Take(c) ==
    /\ pc \in {"watch", "drain", "rebuilt"} /\ ~paused
    /\ c \in queue /\ Cardinality(flight) < Parallelism
    /\ queue' = queue \ {c}
    /\ flight' = flight \cup {c}
    /\ UNCHANGED <<disk, pc, done, committed, generation, paused, rebuild, woken,
                   fatal, resume, boot, faults, history>>

\* The finally block: the last worker sets drain_event, which wakes the
\* coordinator if it waits, even when the event is cleared again before it runs.
Lands(c) ==
    /\ c \in flight
    /\ flight' = flight \ {c}
    /\ woken' = (woken \/ (pc = "drain" /\ flight = {c}))

\* The pipeline's answer, or what stands for it when the pipeline raised.
Ingested(c) ==
    /\ Lands(c)
    /\ done' = done \cup {c}
    /\ UNCHANGED <<disk, pc, queue, committed, generation, paused, rebuild, fatal,
                   resume, boot, faults, history>>

\* Fault: the overflow pauses the workers and does not ask for the rebuild.
OverflowUnasked(c) ==
    /\ Lands(c)
    /\ queue' = queue \cup {c}
    /\ paused' = TRUE
    /\ fatal' = (generation = 1)
    /\ UNCHANGED <<disk, pc, done, committed, generation, rebuild, resume, boot,
                   faults, history>>

Overflow(c) ==
    /\ Lands(c)
    /\ queue' = queue \cup {c}
    /\ paused' = TRUE
    /\ IF generation = 0 THEN rebuild' = TRUE /\ UNCHANGED fatal
       ELSE fatal' = TRUE /\ UNCHANGED rebuild
    /\ UNCHANGED <<disk, pc, done, committed, generation, resume, boot, faults,
                   history>>

----------------------------------------------------------------------------
(* The coordinator. *)

\* The loop is left: workers still in flight are cancelled, then the commit.
CancelWorkers ==
    /\ pc' = "commit" /\ flight' = {}

Poll ==
    /\ pc = "watch"
    /\ \/ /\ done = Chunks \/ fatal
          /\ CancelWorkers
          /\ UNCHANGED <<rebuild, woken>>
       \/ /\ done # Chunks /\ ~fatal /\ rebuild
          /\ rebuild' = FALSE
          /\ pc' = "drain" /\ woken' = (flight = {})
          /\ UNCHANGED flight
    /\ UNCHANGED <<disk, queue, done, committed, generation, paused, fatal, resume,
                   boot, faults, history>>

\* A second request for a rebuild ends the batch, whatever became of the chunks.
Drained ==
    /\ pc = "drain" /\ woken
    /\ woken' = FALSE
    /\ IF generation = 1 THEN CancelWorkers /\ fatal' = TRUE
       ELSE pc' = "rebuild" /\ UNCHANGED <<flight, fatal>>
    /\ UNCHANGED <<disk, queue, done, committed, generation, paused, rebuild,
                   resume, boot, faults, history>>

\* _prepare_rebuilt_split_bucket, whose failures are swallowed, and the switch.
Rebuild ==
    /\ pc = "rebuild"
    /\ rebuilds' = rebuilds + 1
    /\ generation' = 1
    /\ queue' = Chunks \ done
    /\ paused' = FALSE
    /\ pc' = "rebuilt"
    /\ UNCHANGED <<disk, flight, done, committed, rebuild, woken, fatal, resume,
                   boot, faults, again, overlaid>>

\* _save_job
SaveJob(status, chunks) ==
    journal' = [status |-> status, done |-> chunks, generation |-> generation]

SaveRebuilt ==
    /\ pc = "rebuilt"
    /\ SaveJob("running", committed)
    /\ pc' = "watch"
    /\ UNCHANGED <<stored, queue, flight, done, committed, generation, paused,
                   rebuild, woken, fatal, resume, boot, faults, history>>

----------------------------------------------------------------------------
(* The commit. *)

IsFirst(c, S) == c \in S /\ \A d \in S : c <= d

\* write_memory_record of chunk c; a key written before gets a new revision.
Store(c) ==
    /\ stored' = stored \cup {c}
    /\ again' = IF c \in stored THEN again + 1 ELSE again

\* The chunk the commit is at: chunks without a result are passed over.
Committing(c) == IsFirst(c, done \ committed)

\* Fault: the chunk is journalled before it is written.
CommitEarly ==
    /\ pc = "commit"
    /\ \E c \in Chunks : Committing(c) /\ SaveJob("running", committed \cup {c})
    /\ pc' = "note"
    /\ UNCHANGED <<stored, queue, flight, done, committed, generation, paused,
                   rebuild, woken, fatal, resume, boot, faults, history>>

Commit ==
    /\ pc = "commit"
    /\ \E c \in Chunks : Committing(c) /\ Store(c)
    /\ pc' = "note"
    /\ UNCHANGED <<journal, queue, flight, done, committed, generation, paused,
                   rebuild, woken, fatal, resume, boot, faults, rebuilds, overlaid>>

\* Fault: progress is not journalled chunk by chunk.
NoteUnsaved ==
    /\ pc = "note"
    /\ \E c \in Chunks : Committing(c) /\ committed' = committed \cup {c}
    /\ pc' = "commit"
    /\ UNCHANGED <<disk, queue, flight, done, generation, paused, rebuild, woken,
                   fatal, resume, boot, faults, history>>

Note ==
    /\ pc = "note"
    /\ \E c \in Chunks :
        /\ Committing(c)
        /\ committed' = committed \cup {c}
        /\ SaveJob("running", committed \cup {c})
    /\ pc' = "commit"
    /\ UNCHANGED <<stored, queue, flight, done, generation, paused, rebuild, woken,
                   fatal, resume, boot, faults, history>>

\* The batch is over, or the process is.
BatchGone ==
    /\ pc' = "out" /\ queue' = {} /\ flight' = {} /\ done' = {} /\ committed' = {}
    /\ generation' = 0
    /\ paused' = FALSE /\ rebuild' = FALSE /\ woken' = FALSE /\ fatal' = FALSE

\* Fault: a batch that gave up is called completed.
ConcludeAnyway ==
    /\ pc = "commit" /\ done = committed
    /\ SaveJob("completed", committed)
    /\ BatchGone
    /\ UNCHANGED <<stored, resume, boot, faults, history>>

\* Everything ingested is committed: the job is paused or completed.
Conclude ==
    /\ pc = "commit" /\ done = committed
    /\ SaveJob(IF fatal THEN "paused" ELSE "completed", committed)
    /\ BatchGone
    /\ UNCHANGED <<stored, resume, boot, faults, history>>

\* A storage task, the governance or the summary raises, or the caller is
\* cancelled: add_memory ends and leaves the journal as it is.
BatchRaises ==
    /\ pc # "out" /\ raises < MaxRaises
    /\ raises' = raises + 1
    /\ BatchGone
    /\ UNCHANGED <<disk, resume, boot, crashes, history>>

----------------------------------------------------------------------------
(* resume_pending_jobs, under the global lock: one at a time. *)

SaveResumed(status, r) ==
    journal' = [status |-> status, done |-> r.done, generation |-> r.generation]

\* On to the job's next open chunk, or to its end.
Onward(r) ==
    \/ /\ r.done = Chunks
       /\ resume' = [r EXCEPT !.pc = "complete", !.idx = NoChunk]
    \/ \E c \in Chunks :
        /\ IsFirst(c, Chunks \ r.done)
        /\ resume' = [r EXCEPT !.pc = "ingest", !.idx = c]

Loaded(job) == [pc |-> "load", job |-> job, idx |-> NoChunk, done |-> job.done,
                generation |-> job.generation]

\* Nothing tells a running batch's job from an interrupted one's.
MayResume == pc = "out" \/ Overlaps

\* Fault: paused jobs are resumed, interrupted ones are not.
ResumePausedOnly ==
    /\ resume.pc = "out" /\ MayResume
    /\ boot \/ journal.status = "paused"
    /\ boot' = FALSE
    /\ IF journal.status = "paused"
       THEN Onward(Loaded(journal))
       ELSE UNCHANGED resume
    /\ overlaid' = (overlaid \/ pc # "out")
    /\ UNCHANGED <<disk, batch, faults, again, rebuilds>>

\* A resume by the restart (boot) or by a caller loads the journal.
Resume ==
    /\ resume.pc = "out" /\ MayResume
    /\ boot \/ journal.status \in {"running", "paused"}
    /\ boot' = FALSE
    /\ IF journal.status \in {"running", "paused"}
       THEN Onward(Loaded(journal))
       ELSE UNCHANGED resume
    /\ overlaid' = (overlaid \/ pc # "out")
    /\ UNCHANGED <<disk, batch, faults, again, rebuilds>>

ResumeIngests ==
    /\ resume.pc = "ingest"
    /\ resume' = [resume EXCEPT !.pc = "write"]
    /\ UNCHANGED <<disk, batch, boot, faults, history>>

\* The chunk overflows: rebuild and try again, or pause the job for good.
ResumeOverflows ==
    /\ resume.pc = "ingest"
    /\ IF resume.generation = 0
       THEN /\ resume' = [resume EXCEPT !.pc = "rebuilt", !.generation = 1]
            /\ rebuilds' = rebuilds + 1
            /\ UNCHANGED journal
       ELSE /\ resume' = NoResume
            /\ SaveResumed("paused", resume)
            /\ UNCHANGED rebuilds
    /\ UNCHANGED <<stored, batch, boot, faults, again, overlaid>>

ResumeSavesRebuilt ==
    /\ resume.pc = "rebuilt"
    /\ SaveResumed("running", resume)
    /\ resume' = [resume EXCEPT !.pc = "ingest"]
    /\ UNCHANGED <<stored, batch, boot, faults, history>>

ResumeWrites ==
    /\ resume.pc = "write"
    /\ Store(resume.idx)
    /\ resume' = [resume EXCEPT !.pc = "note"]
    /\ UNCHANGED <<journal, batch, boot, faults, rebuilds, overlaid>>

ResumeNotes ==
    /\ resume.pc = "note"
    /\ \E r \in {[resume EXCEPT !.done = @ \cup {resume.idx}]} :
        Onward(r) /\ SaveResumed("running", r)
    /\ UNCHANGED <<stored, batch, boot, faults, history>>

\* No chunk is open: the job is completed; then, unless none was open to begin
\* with, governance and the memory gc.
ResumeCompletes ==
    /\ resume.pc = "complete"
    /\ SaveResumed("completed", resume)
    /\ resume' = IF resume.job.done = Chunks THEN NoResume
                 ELSE [resume EXCEPT !.pc = "manage"]
    /\ UNCHANGED <<stored, batch, boot, faults, history>>

ResumeReturns ==
    /\ resume.pc = "manage"
    /\ resume' = NoResume
    /\ UNCHANGED <<disk, batch, boot, faults, history>>

\* An exception pauses the job as it was loaded, without the progress since.
ResumeRaises ==
    /\ resume.pc # "out" /\ raises < MaxRaises
    /\ raises' = raises + 1
    /\ journal' = [resume.job EXCEPT !.status = "paused"]
    /\ resume' = NoResume
    /\ UNCHANGED <<stored, batch, boot, crashes, history>>

----------------------------------------------------------------------------
\* The process dies and starts again: the disk is what is left.
Crash ==
    /\ crashes < MaxCrashes
    /\ crashes' = crashes + 1
    /\ BatchGone
    /\ resume' = NoResume
    /\ boot' = TRUE
    /\ UNCHANGED <<disk, raises, history>>

Batch == Poll \/ Drained \/ Rebuild \/ SaveRebuilt \/ Commit \/ Note \/ Conclude

ResumeStep ==
    \/ ResumeIngests \/ ResumeOverflows \/ ResumeSavesRebuilt
    \/ ResumeWrites \/ ResumeNotes \/ ResumeCompletes \/ ResumeReturns

Next ==
    \/ Submit
    \/ \E c \in Chunks : Take(c) \/ Ingested(c) \/ Overflow(c)
    \/ Batch \/ BatchRaises
    \/ Resume \/ ResumeStep \/ ResumeRaises
    \/ Crash

Spec == Init /\ [][Next]_vars

\* Tasks of the loop run, calls of the pipeline and storage tasks return, and a
\* restart resumes what it finds.
FairSpec ==
    /\ Spec
    /\ \A c \in Chunks : WF_vars(Take(c)) /\ WF_vars(Ingested(c) \/ Overflow(c))
    /\ WF_vars(Batch) /\ WF_vars(ResumeStep) /\ WF_vars(boot /\ Resume)

----------------------------------------------------------------------------
(* Properties. *)

\* A job called completed has every chunk of its text in the store, whatever
\* crashed, raised, overflowed or ran at the same time.
CompletedMeansStored == journal.status = "completed" => stored = Chunks

\* What the journal calls done is stored: a resume, which skips it, skips nothing
\* that a crash has lost.
JournalBehindStore == journal.done \subseteq stored

\* As long as nothing raises and no resume overlaps the batch, a crash costs at
\* most one chunk ingested a second time and one more rebuild.
ReworkBounded ==
    raises = 0 /\ ~overlaid => again <= crashes /\ rebuilds <= crashes + 1

\* The batch returns: no overflow leaves workers paused or the coordinator
\* waiting for ever.
BatchReturns == pc # "out" ~> pc = "out"

\* "interrupted tasks are resumed after restart": a job found running by a
\* restart ends, completed or paused.
RestartResumes ==
    boot /\ journal.status = "running" ~> journal.status \in {"paused", "completed"}

\* Whoever takes up a job brings it to an end.
JobsEnd == BatchReturns /\ RestartResumes
============================================================================
