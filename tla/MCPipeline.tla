----------------------------- MODULE MCPipeline -----------------------------
(* Two questions in one run, chosen at the start: operations that share the  *)
(* pipeline, or one call's request, reply and result.                        *)
EXTENDS MCLlmPipeline

CONSTANTS LineSizes, NumLines, MaxChars, Overlaps, Cuts, Keys
VARIABLES mix, request, reply, result

Results == INSTANCE ToolResults

resultVars == <<request, reply, result>>

\* What a reply says of a chunk: a line, lines in either order, a line twice,
\* one that is not there; and lines to drop.
SomeCuts ==
    [ranges : {<<<<1, 1>>>>, <<<<2, 2>>>>, <<<<1, 2>>>>, <<<<2, 3>>>>, <<<<3, 3>>, <<1, 1>>>>,
               <<<<2, 2>>, <<2, 2>>>>, <<<<2, 1>>>>, <<<<3, 4>>>>},
     drops : {{}, {1}, {2, 3}}]

MixInit ==
    /\ Init /\ mix \in {"calls", "results"}
    /\ IF mix = "results" THEN Results!Init /\ cleaning = TRUE
       ELSE request = Results!NoReply /\ reply = Results!NoReply /\ result = Results!Pending

CallSteps == mix = "calls" /\ Next /\ UNCHANGED <<mix, resultVars>>
ResultSteps == mix = "results" /\ Results!Answer /\ UNCHANGED <<mix, vars>>

MixNext == CallSteps \/ ResultSteps

MixSpec ==
    /\ MixInit /\ [][MixNext]_<<mix, vars, resultVars>>
    /\ \A c \in Clients : WF_<<mix, vars, resultVars>>(mix = "calls" /\ Steps(c) /\ UNCHANGED <<mix, resultVars>>)

\* A bad reply loses nothing: no text between chunks, no text of its user, no
\* record of a split, and a local result changes nothing that lives
\* (ToolResults.NoTextLost and the three after it).
ResultsLoseNothing ==
    /\ Results!NoTextLost /\ Results!AddedTextKept
    /\ Results!LocalSplitDealsAll /\ Results!FallbacksHarmless
=============================================================================
