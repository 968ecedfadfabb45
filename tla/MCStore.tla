------------------------------ MODULE MCStore -------------------------------
(* What a restart may find on disk, in one run, chosen at the start: a store *)
(* that is upgraded, its memory records, or the ids they are named by.       *)
EXTENDS Migration, RecordStore, TimeIds, TLC

VARIABLE mix

recordVars == <<files, evidence, rows, view, op, task, revs, evis, restarts, lost, dropped>>
mixVars == <<mix, vars, recordVars, idVars>>

MixInit == Init /\ StoreInit /\ IdsInit /\ mix \in {"upgrade", "records", "ids"}

UpgradeSteps == mix = "upgrade" /\ Next /\ UNCHANGED <<mix, recordVars, idVars>>
RecordSteps == mix = "records" /\ StoreNext /\ UNCHANGED <<mix, vars, idVars>>
IdSteps == mix = "ids" /\ IdsNext /\ UNCHANGED <<mix, vars, recordVars>>

MixNext == UpgradeSteps \/ RecordSteps \/ IdSteps
MixSpec == MixInit /\ [][MixNext]_mixVars

KeySymmetry == Permutations(Keys)
=============================================================================
