------------------------------- MODULE MCTrees -------------------------------
(* BucketServices with three repertoires of operations in one run, chosen at *)
(* the start and kept: two tasks that race for titles, the same beside       *)
(* summary refreshes, or one that does everything that moves things about.   *)
EXTENDS MCBucketServices

VARIABLE mix

Mixes == {"titles", "refreshed", "moves"}
KindsOf(x) == CASE x = "titles" -> TitleKinds \ {"refresh"}
                [] x = "refreshed" -> TitleKinds
                [] x = "moves" -> MoveKinds
TasksOf(x) == IF x = "moves" THEN {t1} ELSE Tasks

MixInit == Init /\ mix \in Mixes
MixNext ==
    /\ Next
    /\ \A t \in Tasks :
          \/ task'[t].op = "idle"
          \/ t \in TasksOf(mix) /\ task'[t].op \in KindsOf(mix)
    /\ UNCHANGED mix

MixSpec == MixInit /\ [][MixNext]_<<vars, mix>>

\* However two callers interleave: while children are only created, looked up and
\* deleted, a title never has two live ones under a parent; when their summaries
\* are refreshed as well, never two that nobody deleted (a refresh may revive a
\* deleted one, TwoForOneTitle.cfg).  Either way a title does not lead to a
\* deleted child.  Moves may break all of it.
TitlesUntilMoved ==
    /\ mix = "titles" => OneChildPerTitle
    /\ mix \in {"titles", "refreshed"} => OneKeptChildPerTitle /\ TitlesLeadToLive
============================================================================
