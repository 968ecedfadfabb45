------------------------------- MODULE MCChat -------------------------------
(* Constants and bounds of the Chat run: two asks of any kind and a stop, or *)
(* three asks and no stop, one of which may queue, have its caller cancelled *)
(* or close the client.  One ask at most ends in an exception.  Tasks are    *)
(* taken in order.                                                           *)
EXTENDS Chat, TLC

CONSTANTS a1, a2, a3

ThreeTasks == {a1, a2, a3}
AllModes == {"queue", "nowait", "skip"}

Begun == {t \in Tasks : pc[t] # "idle"}
InOrder == Begun' \in {{}, {a1}, {a1, a2}, ThreeTasks}
Raised == {t \in Tasks : answer[t] = "raised" /\ retry[t] = NoTask}
Closing == {t \in Tasks : pc[t] = "closing"}
Few ==
    /\ Cardinality(Raised') <= 1
    /\ \/ a3 \notin Begun'
       \/ /\ stops' = 0
          /\ \A t \in Tasks : mode'[t] # "skip"
          /\ Cardinality({t \in Begun' : mode'[t] = "queue"} \union Raised' \union Closing') <= 1

\* Does not hold: a client that does not close takes the turn with it.
TurnKept == ~lost

MCSpec == Init /\ [][Next /\ InOrder /\ Few]_vars /\ Fairness
=============================================================================
