------------------------------ MODULE MCAdvance ------------------------------
(* Two questions in one run, chosen at the start: an advance query beside a  *)
(* rebuild of its bucket, or the alias maps themselves under operations of   *)
(* every kind.                                                               *)
EXTENDS MCAdvanceQuery, AliasMaps

VARIABLE mix

MixInit ==
    /\ Init /\ MapsInit
    /\ mix \in {"query", "maps"}
    /\ mix = "maps" => mode = "single_shot" /\ \A m \in AllMems : size[m] = 1

QuerySteps == mix = "query" /\ Steps /\ UNCHANGED <<mix, mapVars>>
QueryRebuild == mix = "query" /\ Rebuild /\ UNCHANGED <<mix, mapVars>>
MapSteps == mix = "maps" /\ MapsNext /\ UNCHANGED <<mix, vars>>

MixNext == QuerySteps \/ QueryRebuild \/ MapSteps

MixSpec ==
    /\ MixInit /\ [][MixNext]_<<mix, vars, mapVars>>
    /\ WF_<<mix, vars, mapVars>>(QuerySteps)

\* Every advance query ends, under the fairness of its own steps.
EveryQueryEnds == mix = "query" ~> result # Open
=============================================================================
