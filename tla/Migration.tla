------------------------------ MODULE Migration ------------------------------
(***************************************************************************)
(* The upgrade of a store to schema 4, as the engine runs it when it       *)
(* opens a store: lock, journal, pre-upgrade backup, conversion of a copy, *)
(* switch of the live dataset item by item with a rollback copy, release.  *)
(* The process can die at any point and is started again.                  *)
(*                                                                         *)
(* The dataset is a sequence of items, switched in that order: files and   *)
(* directories that both schemas have, the legacy index files that schema  *)
(* 4 leaves behind, the SQLite index that only schema 4 has, and the file  *)
(* that names the schema.  Of an item only this is kept: "old" and "new"   *)
(* are its whole content under the old schema and under schema 4, "bad" is *)
(* anything else.  For a legacy item "new" is to be absent, for the SQLite *)
(* index "old" is.                                                         *)
(*                                                                         *)
(* The journal is itself an item of the dataset: between the two halves of *)
(* its switch it is missing, which is not shown here because nothing but   *)
(* the status report reads it.                                             *)
(***************************************************************************)
EXTENDS Naturals

CONSTANTS NItems, Legacy, Index, Schema, \* the items, by their position
          MaxRuns,     \* bound on migration runs
          MaxCrashes,  \* bound on crashes
          MaxFailures  \* bound on operations that raise

Items == 1..NItems
Runs == 1..MaxRuns
NoRun == 0

ASSUME MigrationAssumption ==
    /\ NItems \in Nat /\ MaxRuns \in Nat /\ MaxCrashes \in Nat /\ MaxFailures \in Nat
    /\ Legacy \subseteq Items /\ Index \in Items /\ Schema \in Items
    /\ Index # Schema /\ {Index, Schema} \cap Legacy = {}

VARIABLES
  live,      \* the live dataset
  backup,    \* migration_backups/pre_upgrade_latest
  rollback,  \* per run: the rollback copy in its migration_tmp directory
  lock,      \* the run that wrote migration.lock, or NoRun
  journal,   \* the status in migration_journal.json
  work,      \* the workspace of the run
  pc,        \* where the process is; "down" when there is none
  at,        \* the next item to switch or restore
  run,       \* the latest run
  done,      \* it reached its end
  crashes, failures \* history: what went wrong so far

disk == <<live, backup, rollback, lock, journal>>
process == <<work, pc, at, run, done>>
vars == <<disk, process, crashes, failures>>

All(value) == [i \in Items |-> value]
Nothing == All("bad")
Old == All("old")
New == All("new")

Absent(i) == IF i \in Legacy THEN "new" ELSE IF i = Index THEN "old" ELSE "bad"
Dataset == [Items -> {"old", "new", "bad"}]

Before == {"lock", "journal", "clear", "copy", "work", "rollback"}
Switching == {"switch", "place", "restore", "refill", "finish"}
Places == Before \cup Switching
            \cup {"down", "serving", "failing", "release", "cleanup"}

\* A store of the old schema is complete; backup and run directories hold
\* nothing yet.
Init == /\ live = Old /\ backup = Nothing /\ work = Nothing
        /\ rollback = [r \in Runs |-> Nothing]
        /\ lock = NoRun /\ journal = "none" /\ pc = "down"
        /\ at = 1 /\ run = NoRun /\ done = FALSE
        /\ crashes = 0 /\ failures = 0

-----------------------------------------------------------------------------
\* Opening a store without SQLite index writes an empty legacy file where
\* there is none.
Settled == IF live[Index] # "old" THEN live
           ELSE [i \in Items |-> IF i \in Legacy /\ live[i] = "new" THEN "bad"
                                                                    ELSE live[i]]

\* A SQLite index beside a schema file of another version is refused, before
\* the upgrade looks at anything.
Refused == live[Index] # "old" /\ live[Schema] = "old"

\* The engine opens the store and finds it at the version of the code.
Serve == /\ pc = "down" /\ live[Schema] = "new"
         /\ live' = Settled /\ pc' = "serving"
         /\ UNCHANGED <<backup, rollback, lock, journal, work, at, run, done, crashes, failures>>

\* It finds the version behind, or no schema file, which counts as version 1.
Open == /\ pc = "down" /\ live[Schema] # "new" /\ ~Refused
        /\ run < MaxRuns
        /\ live' = Settled /\ run' = run + 1
        /\ work' = Nothing /\ done' = FALSE /\ pc' = "lock"
        /\ UNCHANGED <<backup, rollback, lock, journal, at, crashes, failures>>

Stop == /\ pc = "serving" /\ pc' = "down"
        /\ UNCHANGED <<disk, work, at, run, done, crashes, failures>>

AcquireLock == /\ pc = "lock" /\ lock = NoRun
               /\ lock' = run /\ pc' = "journal"
               /\ UNCHANGED <<live, backup, rollback, journal, work, at, run, done, crashes, failures>>

LockExists == /\ pc = "lock" /\ lock # NoRun
              /\ pc' = "failing"
              /\ UNCHANGED <<disk, work, at, run, done, crashes, failures>>

Announce == /\ pc = "journal"
            /\ journal' = "running" /\ pc' = "clear"
            /\ UNCHANGED <<live, backup, rollback, lock, work, at, run, done, crashes, failures>>

\* The backup of the previous run is removed before the new one is copied; a
\* copy that is not finished counts as no copy.
ClearBackup == /\ pc = "clear"
               /\ backup' = Nothing /\ pc' = "copy"
               /\ UNCHANGED <<live, rollback, lock, journal, work, at, run, done, crashes, failures>>

FillBackup == /\ pc = "copy"
              /\ backup' = live /\ pc' = "work"
              /\ UNCHANGED <<live, rollback, lock, journal, work, at, run, done, crashes, failures>>

\* What the steps make of a copy of the dataset.  The index they make from a
\* dataset that was not complete may be wrong or may not.
Converted(index) ==
    [i \in Items |-> IF i = Index THEN index
                     ELSE IF i = Schema \/ i \in Legacy THEN "new"
                     ELSE IF live[i] = "bad" THEN "bad" ELSE "new"]

Convert == /\ pc = "work"
           /\ \E index \in IF live = Old THEN {"new"} ELSE {"new", "bad"} :
                 work' = Converted(index)
           /\ pc' = "rollback"
           /\ UNCHANGED <<disk, at, run, done, crashes, failures>>

\* A step or its validation rejects a dataset that is not complete.
Reject == /\ pc = "work" /\ live # Old
          /\ pc' = "failing"
          /\ UNCHANGED <<disk, work, at, run, done, crashes, failures>>

\* Fault: the switch starts without a rollback copy.
CloneRollbackSkipped ==
    /\ pc = "rollback"
    /\ at' = 1 /\ pc' = "switch"
    /\ UNCHANGED <<disk, work, run, done, crashes, failures>>

CloneRollback == /\ pc = "rollback"
                 /\ rollback' = [rollback EXCEPT ![run] = live]
                 /\ at' = 1 /\ pc' = "switch"
                 /\ UNCHANGED <<live, backup, lock, journal, work, run, done, crashes, failures>>

\* An item is switched in two halves: the live one is deleted, the one of the
\* workspace is moved in its place.
DeleteItem == /\ pc = "switch"
              /\ live' = [live EXCEPT ![at] = Absent(at)]
              /\ pc' = "place"
              /\ UNCHANGED <<backup, rollback, lock, journal, work, at, run, done, crashes, failures>>

PlaceItem == /\ pc = "place"
             /\ live' = [live EXCEPT ![at] = work[at]]
             /\ IF at = NItems THEN at' = at /\ pc' = "finish"
                               ELSE at' = at + 1 /\ pc' = "switch"
             /\ UNCHANGED <<backup, rollback, lock, journal, work, run, done, crashes, failures>>

\* Fault: a failed switch is reported without restoring the dataset.
SwitchFailsUnrestored ==
    /\ pc \in {"switch", "place"} /\ failures < MaxFailures
    /\ failures' = failures + 1 /\ pc' = "failing"
    /\ UNCHANGED <<disk, work, at, run, done, crashes>>

\* An exception in the switch: every item is deleted and copied back.
SwitchFails == /\ pc \in {"switch", "place"} /\ failures < MaxFailures
               /\ failures' = failures + 1
               /\ at' = 1 /\ pc' = "restore"
               /\ UNCHANGED <<disk, work, run, done, crashes>>

RestoreDelete == /\ pc = "restore"
                 /\ live' = [live EXCEPT ![at] = Absent(at)]
                 /\ pc' = "refill"
                 /\ UNCHANGED <<backup, rollback, lock, journal, work, at, run, done, crashes, failures>>

RestoreItem == /\ pc = "refill"
               /\ live' = [live EXCEPT ![at] = rollback[run][at]]
               /\ IF at = NItems THEN at' = at /\ pc' = "failing"
                                 ELSE at' = at + 1 /\ pc' = "restore"
               /\ UNCHANGED <<backup, rollback, lock, journal, work, run, done, crashes, failures>>

Succeed == /\ pc = "finish"
           /\ journal' = "success" /\ done' = TRUE /\ pc' = "release"
           /\ UNCHANGED <<live, backup, rollback, lock, work, at, run, crashes, failures>>

\* Any other operation of the run may raise, the restoring of the dataset too.
Raise == /\ pc \in Before \cup {"restore", "refill", "finish"}
         /\ failures < MaxFailures
         /\ failures' = failures + 1 /\ pc' = "failing"
         /\ UNCHANGED <<disk, work, at, run, done, crashes>>

RecordFailure == /\ pc = "failing"
                 /\ journal' = "failed" /\ pc' = "release"
                 /\ UNCHANGED <<live, backup, rollback, lock, work, at, run, done, crashes, failures>>

\* Recording the failure may itself raise: the finally block still runs.
RecordFails == /\ pc = "failing" /\ failures < MaxFailures
               /\ failures' = failures + 1 /\ pc' = "release"
               /\ UNCHANGED <<disk, work, at, run, done, crashes>>

\* The finally block: the lock file goes, whoever wrote it, and then the
\* directory of this run.
Release == /\ pc = "release"
           /\ lock' = NoRun /\ pc' = "cleanup"
           /\ UNCHANGED <<live, backup, rollback, journal, work, at, run, done, crashes, failures>>

Cleanup == /\ pc = "cleanup"
           /\ rollback' = [rollback EXCEPT ![run] = Nothing]
           /\ pc' = IF done THEN "serving" ELSE "down"
           /\ UNCHANGED <<live, backup, lock, journal, work, at, run, done, crashes, failures>>

Crash == /\ pc # "down" /\ crashes < MaxCrashes
         /\ crashes' = crashes + 1 /\ pc' = "down"
         /\ UNCHANGED <<disk, work, at, run, done, failures>>

Next == \/ Serve \/ Open \/ Stop
        \/ AcquireLock \/ LockExists \/ Announce
        \/ ClearBackup \/ FillBackup \/ Convert \/ Reject
        \/ CloneRollback \/ DeleteItem \/ PlaceItem \/ SwitchFails
        \/ RestoreDelete \/ RestoreItem \/ Succeed
        \/ Raise \/ RecordFailure \/ RecordFails \/ Release \/ Cleanup
        \/ Crash

Spec == Init /\ [][Next]_vars

-----------------------------------------------------------------------------
\* Every variable keeps to its domain (migration_service.py, storage.py).
TypeOK == /\ live \in Dataset /\ backup \in Dataset /\ work \in Dataset
          /\ rollback \in [Runs -> Dataset]
          /\ lock \in Runs \cup {NoRun}
          /\ journal \in {"none", "running", "success", "failed"}
          /\ pc \in Places /\ (pc \in Places \ {"down", "serving"} => run \in Runs)
          /\ at \in Items /\ run \in Runs \cup {NoRun} /\ done \in BOOLEAN
          /\ crashes \in 0..MaxCrashes /\ failures \in 0..MaxFailures

\* However often the process dies, and wherever, as long as at most one
\* operation failed, a complete copy of the data of before the upgrade is on
\* disk: live, in the pre-upgrade backup, or in the directory of some run.
\* It is the rollback copies of runs that died, which nobody removes, that
\* make up for a backup overwritten from a half-switched dataset.
OldDataSurvives ==
    failures <= 1 =>
        \/ live = Old \/ backup = Old
        \/ \E r \in Runs : rollback[r] = Old

\* Without a crash, and with at most one failed operation, no upgrade leaves
\* anything half done: the dataset is wholly of one schema, the store serves
\* only the new one with the old one in the backup, the journal reports a
\* success only of a switched dataset, and neither lock nor run directory
\* stays behind.
UpgradeIsAtomic ==
    (crashes = 0 /\ failures <= 1 /\ pc \in {"down", "serving"}) =>
        /\ live \in {Old, New}
        /\ pc = "serving" => live = New
        /\ live = New => backup = Old
        /\ journal = "success" => live = New
        /\ lock = NoRun /\ \A r \in Runs : rollback[r] = Nothing

=============================================================================
