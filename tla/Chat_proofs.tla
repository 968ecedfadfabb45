----------------------------- MODULE Chat_proofs -----------------------------
(* The turn of the chat client is never lost, no request outlives its caller *)
(* uncancelled, and what callers are told agrees with the conversation, for  *)
(* any number of asks and any number of stops.                               *)
EXTENDS Chat, FiniteSetTheorems, TLAPS

Waiting == {"held", "woken", "posting"}

Types ==
    /\ pc \in [Tasks -> {"idle", "queued", "closing", "retried", "returned"} \union Waiting]
    /\ mode \in [Tasks -> {"queue", "nowait", "skip"}]
    /\ post \in [Tasks -> Sending \union {"none", "done", "raised"}]
    /\ queue \in Seq(Tasks)
    /\ worker \in [at : {"get", "wait", "pause", "again", "woken", "sending", "ended"},
                   task : Tasks \union {NoTask}]
    /\ running \in BOOLEAN /\ lost \in BOOLEAN

\* Tasks that were queued: only the worker sends for them.
QueuedOnes == {t \in Tasks : mode[t] = "queue" /\ pc[t] # "idle"}

WorkerServesQueued ==
    /\ \A i \in 1..Len(queue) : queue[i] \in QueuedOnes
    /\ worker.at \notin {"get", "ended"} => worker.task \in QueuedOnes

\* An ask that sends for itself waits for what it sent; a queued one that has
\* returned has its event set, so what the worker sends for it ends at once.
CallersKnow ==
    \A t \in Tasks :
       /\ pc[t] = "idle" => post[t] = "none"
       /\ pc[t] \in Waiting \union {"closing"} => mode[t] # "queue"
       /\ mode[t] # "queue" /\ post[t] \in Sending => pc[t] = "posting"
       /\ mode[t] = "queue" /\ pc[t] = "returned" => t \in event

\* A client that is kept is not closed, and no turn is lost with it.
LostIfClosed == KeepAlive => ~lost /\ \A t \in Tasks : pc[t] # "closing"

IInv == Types /\ WorkerServesQueued /\ CallersKnow /\ NoOrphanRequest /\ TurnHasHolder /\ LostIfClosed

----------------------------------------------------------------------------
\* At the beginning nobody has asked.
LEMMA InitIInv == Init => IInv
<1> SUFFICES ASSUME Init PROVE IInv
    OBVIOUS
<1>1. Types
    <2>1. lost = FALSE /\ running = TRUE /\ queue = <<>> /\ worker = [at |-> "get", task |-> NoTask]
        BY DEF Init
    <2>2. pc = [t \in Tasks |-> "idle"] /\ mode = [t \in Tasks |-> "queue"] /\ post = [t \in Tasks |-> "none"]
        BY DEF Init
    <2>3. queue \in Seq(Tasks) /\ running \in BOOLEAN /\ lost \in BOOLEAN
        <3>1. running \in BOOLEAN /\ lost \in BOOLEAN
            BY <2>1, Zenon
        <3>2. queue \in Seq(Tasks)
            BY <2>1
        <3> QED BY <3>1, <3>2
    <2>4. worker \in [at : {"get", "wait", "pause", "again", "woken", "sending", "ended"},
                      task : Tasks \union {NoTask}]
        BY <2>1
    <2>5. /\ pc \in [Tasks -> {"idle", "queued", "closing", "retried", "returned"} \union Waiting]
          /\ mode \in [Tasks -> {"queue", "nowait", "skip"}]
          /\ post \in [Tasks -> Sending \union {"none", "done", "raised"}]
        BY <2>2
    <2> QED BY <2>3, <2>4, <2>5 DEF Types
<1>2. WorkerServesQueued /\ CallersKnow /\ NoOrphanRequest /\ TurnHasHolder /\ LostIfClosed
    BY DEF Init, WorkerServesQueued, CallersKnow, NoOrphanRequest, TurnHasHolder, LostIfClosed, Sending, Waiting
<1> QED BY <1>1, <1>2 DEF IInv

\* An ask begins, on its own or as the retry of t, which is what p says of t.
LEMMA EnterKeeps ==
    ASSUME IInv, NEW u \in Tasks, NEW m \in {"queue", "nowait", "skip"}, pc[u] = "idle",
           NEW p \in [Tasks -> {"idle", "queued", "closing", "retried", "returned"} \union Waiting],
           NEW r, NEW free \in BOOLEAN, Enter(u, m, p, r, free),
           p[u] = "idle",
           \A t \in Tasks : \/ p[t] = pc[t]
                            \/ pc[t] = "held" /\ p[t] = "woken"
                            \/ pc[t] # "idle" /\ p[t] = "retried" /\ (mode[t] # "queue" => post[t] \notin Sending),
           \/ free
           \/ worker'.at = "sending"
           \/ \E t \in Tasks : p[t] \in {"posting", "closing"}
           \/ lost',
           lost' = lost \/ lost' = FALSE,
           worker' = worker \/ worker' = WorkerWoken(worker),
           event' = event, cancelled \subseteq cancelled'
    PROVE  IInv'
<1>0. Types /\ WorkerServesQueued /\ CallersKnow /\ NoOrphanRequest /\ LostIfClosed
    BY DEF IInv
<1>1. /\ mode' = [mode EXCEPT ![u] = m] /\ running' \in BOOLEAN
      /\ pc' \in [Tasks -> {"idle", "queued", "closing", "retried", "returned"} \union Waiting]
      /\ \A t \in Tasks \ {u} : pc'[t] = p[t] /\ mode'[t] = mode[t] /\ post'[t] = post[t]
      /\ post' \in [Tasks -> Sending \union {"none", "done", "raised"}]
      /\ mode'[u] = m
    <2>1. mode' = [mode EXCEPT ![u] = m] /\ running' \in BOOLEAN
        BY DEF Enter
    <2>2. pc' = [p EXCEPT ![u] = pc'[u]] /\ pc'[u] \in {"queued", "posting", "held", "returned"}
        BY DEF Enter
    <2>3. post' = post \/ post' = [post EXCEPT ![u] = "created"]
        BY DEF Enter
    <2>4. pc' \in [Tasks -> {"idle", "queued", "closing", "retried", "returned"} \union Waiting]
          /\ \A t \in Tasks \ {u} : pc'[t] = p[t]
        BY <2>2 DEF Waiting
    <2>5. post' \in [Tasks -> Sending \union {"none", "done", "raised"}]
          /\ \A t \in Tasks \ {u} : post'[t] = post[t]
        BY <1>0, <2>3 DEF Types, Sending
    <2> QED BY <1>0, <2>1, <2>4, <2>5 DEF Types
<1>2. /\ queue' \in Seq(Tasks)
      /\ \A i \in 1..Len(queue') : \/ queue'[i] = u /\ m = "queue"
                                   \/ i \in 1..Len(queue) /\ queue'[i] = queue[i]
    BY <1>0 DEF Enter, Types
<1>3. /\ m = "queue" => pc'[u] = "queued" /\ post'[u] = post[u] /\ running' = free
      /\ m # "queue" /\ free => pc'[u] = "posting" /\ post'[u] = "created"
      /\ m # "queue" /\ ~free => pc'[u] \in {"held", "returned"} /\ post'[u] = post[u] /\ ~running'
    BY <1>0 DEF Enter, Types
<1>4. worker' \in [at : {"get", "wait", "pause", "again", "woken", "sending", "ended"},
                   task : Tasks \union {NoTask}]
      /\ worker'.task = worker.task /\ (worker'.at \in {"get", "ended"}) = (worker.at \in {"get", "ended"})
    BY <1>0 DEF Types, WorkerWoken
<1>5. Types'
    BY <1>0, <1>1, <1>2, <1>4 DEF Types
<1>6. QueuedOnes \subseteq QueuedOnes'
    BY <1>1 DEF QueuedOnes, Waiting
<1>7. m = "queue" => u \in QueuedOnes'
    BY <1>1, <1>3 DEF QueuedOnes
<1>8. WorkerServesQueued'
    BY <1>0, <1>2, <1>4, <1>6, <1>7 DEF WorkerServesQueued
<1>9. CallersKnow'
    <2>1. post[u] = "none"
        BY <1>0 DEF CallersKnow
    <2> QED BY <1>0, <1>1, <1>3, <2>1 DEF CallersKnow, Waiting, Sending
<1>10. NoOrphanRequest'
    <2>1. post[u] = "none"
        BY <1>0 DEF CallersKnow
    <2> QED BY <1>0, <1>1, <1>3, <2>1 DEF NoOrphanRequest
<1>11. TurnHasHolder'
    BY <1>1, <1>3 DEF TurnHasHolder
<1>12. LostIfClosed'
    BY <1>0, <1>1, <1>3 DEF LostIfClosed
<1> QED BY <1>5, <1>8, <1>9, <1>10, <1>11, <1>12 DEF IInv

\* An ask returns, its request ended or cancelled.
LEMMA ReturnKeeps ==
    ASSUME IInv, NEW t \in Tasks, NEW a, NEW r, NEW free \in BOOLEAN,
           NEW p \in [Tasks -> {"idle", "queued", "closing", "retried", "returned"} \union Waiting],
           Return(t, a, p, r, free), pc[t] # "idle",
           \A u \in Tasks : p[u] = pc[u] \/ (pc[u] = "held" /\ p[u] = "woken"),
           \/ free
           \/ worker'.at = "sending"
           \/ \E u \in Tasks \ {t} : p[u] \in {"posting", "closing"}
           \/ lost',
           lost' = lost \/ lost' = FALSE,
           worker' = worker \/ worker' = WorkerWoken(worker),
           event \subseteq event', cancelled \subseteq cancelled',
           mode[t] = "queue" => t \in event',
           post[t] \in Sending => t \in cancelled' /\ mode[t] = "queue"
    PROVE  IInv'
<1>0. Types /\ WorkerServesQueued /\ CallersKnow /\ NoOrphanRequest /\ LostIfClosed
    BY DEF IInv
<1>1. /\ mode' = mode /\ queue' = queue /\ post' = post /\ running' = free
      /\ pc'[t] = "returned" /\ \A u \in Tasks \ {t} : pc'[u] = p[u]
      /\ pc' \in [Tasks -> {"idle", "queued", "closing", "retried", "returned"} \union Waiting]
    BY DEF Return
<1>2. worker' \in [at : {"get", "wait", "pause", "again", "woken", "sending", "ended"},
                   task : Tasks \union {NoTask}]
      /\ worker'.task = worker.task /\ (worker'.at \in {"get", "ended"}) = (worker.at \in {"get", "ended"})
    BY <1>0 DEF Types, WorkerWoken
<1>3. Types'
    BY <1>0, <1>1, <1>2 DEF Types
<1>4. QueuedOnes \subseteq QueuedOnes'
    BY <1>1 DEF QueuedOnes, Waiting
<1>5. WorkerServesQueued'
    BY <1>0, <1>1, <1>2, <1>4 DEF WorkerServesQueued, Types
<1>6. CallersKnow'
    BY <1>0, <1>1 DEF CallersKnow, Waiting, Sending
<1>7. NoOrphanRequest'
    BY <1>0, <1>1 DEF NoOrphanRequest, Sending
<1>8. TurnHasHolder'
    BY <1>1 DEF TurnHasHolder
<1>9. LostIfClosed'
    BY <1>0, <1>1 DEF LostIfClosed
<1> QED BY <1>3, <1>5, <1>6, <1>7, <1>8, <1>9 DEF IInv

\* A request or a stop moves on: nobody's ask, nor the worker's, is touched,
\* and a request that is still going on was going on.
LEMMA BesideKeeps ==
    ASSUME IInv, pc' = pc, mode' = mode, queue' = queue \/ queue' = <<>>, running' = running, lost' = lost,
           worker' = worker \/ (worker.at # "sending" /\ worker' = [worker EXCEPT !.at = "ended"]),
           event \subseteq event', cancelled \subseteq cancelled',
           post' \in [Tasks -> Sending \union {"none", "done", "raised"}],
           \A t \in Tasks :
              \/ post'[t] = post[t]
              \/ post[t] \in Sending /\ post'[t] \in {"done", "raised"}
              \/ post[t] = "created" /\ t \notin event
    PROVE  IInv'
<1>0. Types /\ WorkerServesQueued /\ CallersKnow /\ NoOrphanRequest /\ TurnHasHolder /\ LostIfClosed
    BY DEF IInv
<1>1. queue' \in Seq(Tasks) /\ \A i \in 1..Len(queue') : i \in 1..Len(queue) /\ queue'[i] = queue[i]
    <2>1. CASE queue' = queue
        BY <1>0, <2>1 DEF Types
    <2>2. CASE queue' = <<>>
        BY <2>2
    <2> QED BY <2>1, <2>2
<1>2. Types'
    BY <1>0, <1>1 DEF Types
<1>3. WorkerServesQueued'
    BY <1>0, <1>1 DEF WorkerServesQueued, QueuedOnes, Types
<1>4. CallersKnow'
    BY <1>0 DEF CallersKnow, Sending
<1>5. NoOrphanRequest'
    BY <1>0 DEF NoOrphanRequest, CallersKnow, Sending, Types
<1>6. TurnHasHolder' /\ LostIfClosed'
    BY <1>0 DEF TurnHasHolder, LostIfClosed, Types
<1> QED BY <1>2, <1>3, <1>4, <1>5, <1>6 DEF IInv

\* The worker takes the next ask, waits for its turn, and sends.
LEMMA WorkerKeeps ==
    ASSUME IInv, WorkerGet \/ WorkerWait \/ WorkerSend \/ WorkerDone
    PROVE  IInv'
<1>0. Types /\ WorkerServesQueued /\ CallersKnow /\ NoOrphanRequest /\ TurnHasHolder /\ LostIfClosed
    BY DEF IInv
<1>1. CASE WorkerGet
    <2>1. /\ pc' = pc /\ mode' = mode /\ post' = post /\ running' = running
          /\ event' = event /\ cancelled' = cancelled /\ lost' = lost
        BY <1>1 DEF WorkerGet, asks, requests, marks
    <2>2. worker.at = "get" /\ worker'.at \in {"pause", "wait"} /\ worker'.task = queue[1] /\ 1 \in 1..Len(queue)
        BY <1>0, <1>1 DEF WorkerGet, Types
    <2>3. /\ queue' \in Seq(Tasks)
          /\ \A i \in 1..Len(queue') : i + 1 \in 1..Len(queue) /\ queue'[i] = queue[i + 1]
        BY <1>0, <1>1 DEF WorkerGet, Types
    <2>4. queue[1] \in QueuedOnes
        BY <1>0, <2>2 DEF WorkerServesQueued
    <2>5. Types'
        BY <1>0, <1>1, <2>1, <2>3, <2>4 DEF WorkerGet, Types, QueuedOnes
    <2>6. WorkerServesQueued'
        BY <1>0, <2>1, <2>2, <2>3, <2>4 DEF WorkerServesQueued, QueuedOnes
    <2>7. CallersKnow' /\ NoOrphanRequest' /\ TurnHasHolder' /\ LostIfClosed'
        BY <1>0, <2>1, <2>2 DEF CallersKnow, NoOrphanRequest, TurnHasHolder, LostIfClosed
    <2> QED BY <2>5, <2>6, <2>7 DEF IInv
<1>2. CASE WorkerWait
    <2>1. /\ pc' = pc /\ mode' = mode /\ post' = post /\ running' = running /\ queue' = queue
          /\ event' = event /\ cancelled' = cancelled /\ lost' = lost
        BY <1>2 DEF WorkerWait, asks, requests, marks
    <2>2. worker.at = "pause" /\ worker' = [worker EXCEPT !.at = "again"]
        BY <1>2 DEF WorkerWait
    <2>3. Types' /\ WorkerServesQueued'
        BY <1>0, <2>1, <2>2 DEF Types, WorkerServesQueued, QueuedOnes
    <2>4. CallersKnow' /\ NoOrphanRequest' /\ TurnHasHolder' /\ LostIfClosed'
        BY <1>0, <2>1, <2>2 DEF CallersKnow, NoOrphanRequest, TurnHasHolder, LostIfClosed
    <2> QED BY <2>3, <2>4 DEF IInv
<1>3. CASE WorkerSend
    <2>1. /\ pc' = pc /\ mode' = mode /\ queue' = queue /\ event' = event /\ cancelled' = cancelled
          /\ post' = [post EXCEPT ![worker.task] = "created"] /\ running' = FALSE /\ lost' = lost
          /\ worker' = [worker EXCEPT !.at = "sending"] /\ worker.at \in {"woken", "pause"}
        BY <1>3 DEF WorkerSend, asks, marks
    <2>2. worker.task \in QueuedOnes
        BY <1>0, <2>1 DEF WorkerServesQueued
    <2>3. Types' /\ WorkerServesQueued'
        BY <1>0, <2>1, <2>2 DEF Types, WorkerServesQueued, QueuedOnes, Sending
    <2>4. CallersKnow' /\ NoOrphanRequest'
        BY <1>0, <2>1, <2>2 DEF CallersKnow, NoOrphanRequest, QueuedOnes, Sending, Types
    <2>5. TurnHasHolder' /\ LostIfClosed'
        BY <1>0, <2>1 DEF TurnHasHolder, LostIfClosed, Types
    <2> QED BY <2>3, <2>4, <2>5 DEF IInv
<1>4. CASE WorkerDone
    <2>1. /\ mode' = mode /\ queue' = queue /\ post' = post /\ cancelled' = cancelled
          /\ running' = TRUE /\ lost' = FALSE /\ pc' = Woken(pc) /\ event \subseteq event'
          /\ worker' = [at |-> "get", task |-> NoTask]
        BY <1>0, <1>4 DEF WorkerDone, Freed, requests, Types
    <2>2. \A t \in Tasks : pc'[t] = pc[t] \/ (pc[t] = "held" /\ pc'[t] = "woken")
        BY <2>1 DEF Woken
    <2>3. pc' \in [Tasks -> {"idle", "queued", "closing", "retried", "returned"} \union Waiting]
        BY <1>0, <2>1 DEF Woken, Types, Waiting
    <2>4. Types'
        BY <1>0, <2>1, <2>3 DEF Types
    <2>5. WorkerServesQueued'
        BY <1>0, <2>1, <2>2 DEF WorkerServesQueued, QueuedOnes
    <2>6. CallersKnow' /\ NoOrphanRequest'
        BY <1>0, <2>1, <2>2 DEF CallersKnow, NoOrphanRequest, Waiting, Sending
    <2>7. TurnHasHolder' /\ LostIfClosed'
        BY <1>0, <2>1, <2>2 DEF TurnHasHolder, LostIfClosed
    <2> QED BY <2>4, <2>5, <2>6, <2>7 DEF IInv
<1> QED BY <1>1, <1>2, <1>3, <1>4

\* An ask that sent for itself gives the turn back.
LEMMA GivesBackKeeps ==
    ASSUME IInv, NEW t \in Tasks, NEW a, GivesBack(t, a), pc[t] \in {"posting", "closing"},
           post[t] \notin Sending, event' = event, cancelled' = cancelled
    PROVE  IInv'
<1>0. Types /\ CallersKnow
    BY DEF IInv
<1>1. pc \in [Tasks -> {"idle", "queued", "closing", "retried", "returned"} \union Waiting]
    BY <1>0 DEF Types
<1>2. mode[t] \in {"queue", "nowait", "skip"} /\ mode[t] # "queue"
    BY <1>0 DEF Types, CallersKnow, Waiting
<1>3. worker' = WorkerWoken(worker) /\ lost' = FALSE
    BY DEF GivesBack
<1>4. /\ Woken(pc) \in [Tasks -> {"idle", "queued", "closing", "retried", "returned"} \union Waiting]
      /\ \A u \in Tasks : Woken(pc)[u] = pc[u] \/ (pc[u] = "held" /\ Woken(pc)[u] = "woken")
    BY <1>1 DEF Woken, Waiting
<1>5. CASE Retries(t, a)
    <2> DEFINE p == [Woken(pc) EXCEPT ![t] = "retried"]
    <2>1. PICK u \in Tasks : pc[u] = "idle" /\ Enter(u, mode[t], p, registered \ {t}, TRUE)
        BY <1>5 DEF GivesBack, AskAgain
    <2>2. /\ p \in [Tasks -> {"idle", "queued", "closing", "retried", "returned"} \union Waiting]
          /\ p[t] = "retried" /\ \A v \in Tasks \ {t} : p[v] = Woken(pc)[v]
        BY <1>4
    <2> HIDE DEF p
    <2>3. \A v \in Tasks :
             \/ p[v] = pc[v]
             \/ pc[v] = "held" /\ p[v] = "woken"
             \/ pc[v] # "idle" /\ p[v] = "retried" /\ (mode[v] # "queue" => post[v] \notin Sending)
        BY <1>4, <2>2
    <2>4. p[u] = "idle" /\ event' = event /\ cancelled \subseteq cancelled'
        BY <2>1, <2>3
    <2> QED BY <1>2, <1>3, <2>1, <2>2, <2>3, <2>4, EnterKeeps
<1>6. CASE ~Retries(t, a)
    <2>1. Return(t, a, Woken(pc), registered \ {t}, TRUE)
        BY <1>6 DEF GivesBack
    <2> QED BY <1>2, <1>3, <1>4, <2>1, ReturnKeeps
<1> QED BY <1>5, <1>6

\* An ask ends: it returns, or is made again.
LEMMA EndingKeeps ==
    ASSUME IInv, NEW t \in Tasks, Ending(t) \/ AskTimeout(t) \/ Failing(t), ~PostTimeout(t)
    PROVE  IInv'
<1>0. Types /\ WorkerServesQueued /\ CallersKnow /\ NoOrphanRequest /\ TurnHasHolder /\ LostIfClosed
    BY DEF IInv
<1>1. pc \in [Tasks -> {"idle", "queued", "closing", "retried", "returned"} \union Waiting] /\ running \in BOOLEAN
    BY <1>0 DEF Types
<1>2. mode[t] \in {"queue", "nowait", "skip"}
    BY <1>0 DEF Types
<1>3. pc[t] # "posting" => (post[t] \in Sending => mode[t] = "queue")
    BY <1>0 DEF CallersKnow
<1>4. pc[t] \notin {"posting", "closing"} =>
         running \/ worker.at = "sending" \/ lost \/ \E u \in Tasks \ {t} : pc[u] \in {"posting", "closing"}
    BY <1>0 DEF TurnHasHolder
<1>5. CASE AskTold(t)
    <2>1. pc[t] = "queued" /\ t \in event /\ event' = event /\ worker' = worker /\ lost' = lost
        BY <1>5 DEF AskTold
    <2>2. CASE Retries(t, response[t])
        <3> DEFINE p == [pc EXCEPT ![t] = "retried"]
        <3>1. PICK u \in Tasks : pc[u] = "idle" /\ Enter(u, mode[t], p, registered, running)
            BY <1>5, <2>2 DEF AskTold, AskAgain
        <3>2. cancelled' = cancelled
            BY <1>5, <2>2 DEF AskTold
        <3>3. /\ p \in [Tasks -> {"idle", "queued", "closing", "retried", "returned"} \union Waiting]
              /\ p[t] = "retried" /\ \A v \in Tasks \ {t} : p[v] = pc[v]
            BY <1>1
        <3> HIDE DEF p
        <3> QED BY <1>1, <1>2, <1>3, <1>4, <2>1, <3>1, <3>2, <3>3, EnterKeeps
    <2>3. CASE ~Retries(t, response[t])
        <3>1. Return(t, response[t], pc, registered, running) /\ cancelled' = cancelled \union ToCancel(t)
            BY <1>5, <2>3 DEF AskTold
        <3>2. post[t] \in Sending => t \in cancelled'
            BY <3>1 DEF ToCancel
        <3>3. cancelled \subseteq cancelled'
            BY <3>1
        <3> HIDE DEF Return
        <3> QED BY <1>1, <1>3, <1>4, <2>1, <3>1, <3>2, <3>3, ReturnKeeps
    <2> QED BY <2>2, <2>3
<1>6. CASE AskTimeout(t) \/ AskCancelled(t)
    <2>1. PICK a \in {"none", "raised"} : AskEnds(t, a)
        BY <1>6 DEF AskTimeout, AskCancelled
    <2>2. /\ pc[t] = "queued" /\ event' = event \union {t} /\ worker' = worker /\ lost' = lost
          /\ Return(t, a, pc, registered, running) /\ cancelled' = cancelled \union ToCancel(t)
        BY <2>1 DEF AskEnds
    <2>3. post[t] \in Sending => t \in cancelled'
        BY <2>2 DEF ToCancel
    <2>4. cancelled \subseteq cancelled' /\ event \subseteq event' /\ t \in event'
        BY <2>2
    <2> QED BY <1>1, <1>3, <1>4, <2>2, <2>3, <2>4, ReturnKeeps
<1>7. CASE AskPosted(t)
    <2>1. /\ pc[t] = "posting" /\ post[t] \in {"done", "raised"}
          /\ event' = event /\ cancelled' = cancelled
        BY <1>7 DEF AskPosted
    <2>2. post[t] \notin Sending /\ mode[t] # "queue"
        BY <1>0, <2>1 DEF Sending, CallersKnow, Waiting
    <2>3. CASE \E a \in {result[t], "none"} : GivesBack(t, a)
        BY <2>1, <2>2, <2>3, GivesBackKeeps
    <2>4. CASE /\ ~KeepAlive
               /\ pc' = [pc EXCEPT ![t] = "closing"]
               /\ UNCHANGED <<mode, post, turn>>
        <3>1. /\ pc'[t] = "closing" /\ \A u \in Tasks \ {t} : pc'[u] = pc[u]
              /\ pc' \in [Tasks -> {"idle", "queued", "closing", "retried", "returned"} \union Waiting]
            BY <1>1, <2>4
        <3>2. UNCHANGED <<queue, running, worker, lost, mode, post, event, cancelled>>
            BY <2>1, <2>4 DEF turn
        <3>3. Types' /\ LostIfClosed'
            BY <1>0, <2>4, <3>1, <3>2 DEF Types, LostIfClosed
        <3>4. WorkerServesQueued'
            BY <1>0, <3>1, <3>2 DEF WorkerServesQueued, QueuedOnes
        <3>5. CallersKnow' /\ NoOrphanRequest'
            BY <1>0, <2>2, <3>1, <3>2 DEF CallersKnow, NoOrphanRequest, Waiting, Sending
        <3>6. TurnHasHolder'
            BY <3>1 DEF TurnHasHolder
        <3> QED BY <3>3, <3>4, <3>5, <3>6 DEF IInv
    <2> QED BY <1>7, <2>3, <2>4 DEF AskPosted
<1>8. CASE RetryReturned(t)
    <2>1. /\ pc[t] = "retried" /\ worker' = worker /\ lost' = lost
          /\ Return(t, answer[retry[t]], pc, registered, running)
          /\ mode[t] = "queue" => event' = event \union {t} /\ cancelled' = cancelled \union ToCancel(t)
          /\ mode[t] # "queue" => event' = event /\ cancelled' = cancelled
        BY <1>8 DEF RetryReturned
    <2>2. /\ cancelled \subseteq cancelled' /\ event \subseteq event'
          /\ mode[t] = "queue" => t \in event'
        BY <2>1
    <2>3. post[t] \in Sending => t \in cancelled' /\ mode[t] = "queue"
        BY <1>3, <2>1 DEF ToCancel
    <2> QED BY <1>1, <1>4, <2>1, <2>2, <2>3, ReturnKeeps
<1>9. CASE CloseEnds(t)
    <2>1. /\ pc[t] = "closing" /\ GivesBack(t, answer[t])
          /\ event' = event /\ cancelled' = cancelled
        BY <1>9 DEF CloseEnds
    <2>2. post[t] \notin Sending
        BY <1>0, <2>1 DEF CallersKnow
    <2> QED BY <2>1, <2>2, GivesBackKeeps
<1>10. CASE WaitCancelled(t) \/ CloseFails(t)
    <2>1. /\ pc[t] \in {"held", "woken", "closing"} /\ pc' = [pc EXCEPT ![t] = "returned"]
          /\ UNCHANGED <<mode, post, queue, running, worker, event, cancelled>>
          /\ \/ lost' = lost /\ pc[t] # "closing"
             \/ lost' = ~running /\ pc[t] = "closing"
        BY <1>10 DEF WaitCancelled, CloseFails, requests, marks, turn
    <2>2. /\ pc'[t] = "returned" /\ \A u \in Tasks \ {t} : pc'[u] = pc[u]
          /\ pc' \in [Tasks -> {"idle", "queued", "closing", "retried", "returned"} \union Waiting]
        BY <1>1, <2>1
    <2>3. Types'
        BY <1>0, <2>1, <2>2 DEF Types
    <2>4. mode[t] # "queue" /\ post[t] \notin Sending
        BY <1>0, <2>1 DEF CallersKnow, Waiting
    <2>5. WorkerServesQueued'
        BY <1>0, <2>1, <2>2 DEF WorkerServesQueued, QueuedOnes
    <2>6. CallersKnow' /\ NoOrphanRequest'
        BY <1>0, <2>1, <2>2, <2>4 DEF CallersKnow, NoOrphanRequest, Waiting, Sending
    <2>7. TurnHasHolder'
        <3>1. CASE lost' = lost /\ pc[t] # "closing"
            BY <1>4, <2>1, <2>2, <3>1 DEF TurnHasHolder
        <3>2. CASE lost' = ~running
            BY <2>1, <3>2 DEF TurnHasHolder
        <3> QED BY <2>1, <3>1, <3>2
    <2>8. LostIfClosed'
        BY <1>0, <2>1, <2>2 DEF LostIfClosed
    <2> QED BY <2>3, <2>5, <2>6, <2>7, <2>8 DEF IInv
<1> QED BY <1>5, <1>6, <1>7, <1>8, <1>9, <1>10 DEF Ending, Failing

\* Every step keeps the invariant.
LEMMA StepIInv == IInv /\ [Next]_vars => IInv'
<1> SUFFICES ASSUME IInv, [Next]_vars PROVE IInv'
    OBVIOUS
<1>0. Types /\ WorkerServesQueued /\ CallersKnow /\ NoOrphanRequest /\ TurnHasHolder /\ LostIfClosed
    BY DEF IInv
<1>1. ASSUME NEW t \in Tasks, Ask(t) PROVE IInv'
    <2>1. PICK m \in Modes : Enter(t, m, pc, registered, running)
        BY <1>1 DEF Ask
    <2>2. m \in {"queue", "nowait", "skip"}
        BY ChatAssumption DEF ChatAssumption
    <2>3. pc[t] = "idle" /\ event' = event /\ cancelled' = cancelled /\ worker' = worker /\ lost' = lost
        BY <1>1 DEF Ask
    <2>4. /\ pc \in [Tasks -> {"idle", "queued", "closing", "retried", "returned"} \union Waiting]
          /\ running \in BOOLEAN
        BY <1>0 DEF Types
    <2>5. running \/ worker'.at = "sending" \/ lost' \/ \E u \in Tasks : pc[u] \in {"posting", "closing"}
        BY <1>0, <2>3 DEF TurnHasHolder
    <2> QED BY <2>1, <2>2, <2>3, <2>4, <2>5, EnterKeeps
<1>2. ASSUME NEW t \in Tasks, TakeTurn(t) PROVE IInv'
    <2>1. /\ pc[t] = "woken" /\ pc' = [pc EXCEPT ![t] = "posting"] /\ post' = [post EXCEPT ![t] = "created"]
          /\ running' = FALSE /\ mode' = mode /\ queue' = queue /\ worker' = worker
          /\ event' = event /\ cancelled' = cancelled /\ lost' = lost
        BY <1>2 DEF TakeTurn, marks
    <2>2. mode[t] # "queue"
        BY <1>0, <2>1 DEF CallersKnow, Waiting
    <2>3. Types' /\ WorkerServesQueued'
        BY <1>0, <2>1 DEF Types, WorkerServesQueued, QueuedOnes, Sending, Waiting
    <2>4. CallersKnow' /\ NoOrphanRequest' /\ TurnHasHolder' /\ LostIfClosed'
        BY <1>0, <2>1, <2>2 DEF CallersKnow, NoOrphanRequest, TurnHasHolder, LostIfClosed, Types, Sending
    <2> QED BY <2>3, <2>4 DEF IInv
<1>3. ASSUME NEW t \in Tasks, Posting(t) \/ PostTimeout(t) PROVE IInv'
    <2>1. /\ pc' = pc /\ mode' = mode /\ queue' = queue /\ running' = running /\ worker' = worker
          /\ event' = event /\ cancelled \subseteq cancelled' /\ lost' = lost
        BY <1>3 DEF Posting, PostTimeout, PostStart, PostRaises, PostEnd, PostStopped, PostFail, Returns,
           asks, marks, turn
    <2>2. \/ post' = post
          \/ post[t] \in Sending /\ \E e \in {"done", "raised"} : post' = [post EXCEPT ![t] = e]
          \/ post[t] = "created" /\ t \notin event /\ post' = [post EXCEPT ![t] = "streaming"]
        BY <1>3 DEF Posting, PostTimeout, PostStart, PostRaises, PostEnd, PostStopped, PostFail, Returns,
           requests, Sending
    <2>3. /\ post' \in [Tasks -> Sending \union {"none", "done", "raised"}]
          /\ \A u \in Tasks :
                \/ post'[u] = post[u]
                \/ post[u] \in Sending /\ post'[u] \in {"done", "raised"}
                \/ post[u] = "created" /\ u \notin event
        BY <1>0, <2>2 DEF Types, Sending
    <2> QED BY <2>1, <2>3, BesideKeeps
<1>4. ASSUME NEW t \in Tasks, Ending(t) \/ AskTimeout(t) \/ Failing(t), ~PostTimeout(t) PROVE IInv'
    BY <1>4, EndingKeeps
<1>5. CASE Working
    BY <1>5, WorkerKeeps DEF Working
<1>6. CASE Stopping \/ UNCHANGED vars
    <2>1. /\ pc' = pc /\ mode' = mode /\ post' = post /\ running' = running /\ lost' = lost
          /\ event \subseteq event' /\ cancelled \subseteq cancelled'
          /\ queue' = queue \/ queue' = <<>>
          /\ \/ worker' = worker
             \/ worker.at # "sending" /\ worker' = [worker EXCEPT !.at = "ended"]
        <3>1. CASE StopAll \/ StopBreaks \/ StopNext
            BY <3>1 DEF StopAll, StopBreaks, StopNext, asks, requests, marks, turn
        <3>2. CASE StopOne \/ StopCancel \/ Close
            BY <3>2 DEF StopOne, StopCancel, Close, asks, requests, marks, turn
        <3>3. CASE UNCHANGED vars
            BY <3>3 DEF vars, asks, requests, marks, turn
        <3> QED BY <1>6, <3>1, <3>2, <3>3 DEF Stopping
    <2>2. post' \in [Tasks -> Sending \union {"none", "done", "raised"}]
        BY <1>0, <2>1 DEF Types
    <2> QED BY <2>1, <2>2, BesideKeeps
<1> QED BY <1>1, <1>2, <1>3, <1>4, <1>5, <1>6 DEF Next, Failing

\* The invariant holds of every behaviour.
LEMMA Invariance == Spec => []IInv
BY InitIInv, StepIInv, PTL DEF Spec

\* While the turn is taken there is somebody who will give it back, however
\* asks, retries, timeouts, cancellations and stops fall, unless an ask ended with
\* it because the HTTP client did not close, which cannot happen when the client
\* is kept (post_nowait, run, ask).
THEOREM TurnNeverLost == Spec => [](TurnHasHolder /\ (KeepAlive => ~lost))
<1>1. IInv => TurnHasHolder /\ (KeepAlive => ~lost)
    BY DEF IInv, LostIfClosed
<1> QED BY <1>1, Invariance, PTL

\* A request that goes on when its caller has left has been cancelled (ask's
\* finally clause, stop_from_id).
THEOREM NobodyOrphaned == Spec => []NoOrphanRequest
<1>1. IInv => NoOrphanRequest
    BY DEF IInv
<1> QED BY <1>1, Invariance, PTL

----------------------------------------------------------------------------
(* The conversation.                                                         *)

Has(c, m) == \E i \in DOMAIN c.messages : c.messages[i] = m

\* Nothing is there twice, and an answer stands right after its question.
Orderly(c) ==
    /\ \A i, j \in DOMAIN c.messages : c.messages[i] = c.messages[j] => i = j
    /\ \A t \in Tasks : \A i \in DOMAIN c.messages :
          c.messages[i] = Reply(t) => i > 1 /\ c.messages[i - 1] = Question(t)

Served == worker.at \notin {"get", "ended"}

\* Tasks that somebody may still remember: nobody has done so yet.
Unheard(t) ==
    \/ pc[t] \in Waiting \union {"idle"}
    \/ \E i \in 1..Len(queue) : queue[i] = t
    \/ Served /\ worker.task = t

ChatTypes ==
    /\ retry \in [Tasks -> Tasks \union {NoTask}]
    /\ answer \in [Tasks -> Answers]
    /\ result \in [Tasks -> Texts]
    /\ response \in [Tasks -> Texts]
    /\ context.messages \in Seq(Messages)

\* A task is taken from the queue once.
QueuedOnce ==
    /\ \A i, j \in 1..Len(queue) : queue[i] = queue[j] => i = j
    /\ Served => \A i \in 1..Len(queue) : queue[i] # worker.task

HeardOnce == Orderly(context) /\ \A t \in Tasks : Unheard(t) => ~Has(context, Question(t))

\* What is said to a caller, or is waiting to be, is in the conversation.
ToldAt(t) ==
    /\ pc[t] = "idle" => answer[t] = "none"
    /\ pc[t] = "queued" => mode[t] = "queue"
    /\ pc[t] = "retried" => retry[t] \in Tasks
    /\ response[t] \in {"full", "partial"} => Has(context, Reply(t))
    /\ pc[t] = "closing" \/ (pc[t] = "returned" /\ retry[t] = NoTask) =>
          /\ answer[t] \in {"full", "partial"} => Has(context, Reply(t))
          /\ answer[t] = "none" /\ mode[t] # "queue" => ~Has(context, Question(t))

CInv == ChatTypes /\ QueuedOnce /\ HeardOnce /\ \A t \in Tasks : ToldAt(t)

----------------------------------------------------------------------------
\* Remembering a task that was not there: its question and, if there is a text,
\* its answer come at the end.
LEMMA RememberedKeeps ==
    ASSUME NEW c, c.messages \in Seq(Messages), Orderly(c),
           NEW t \in Tasks, ~Has(c, Question(t)), NEW a, NEW d, d = Remembered(c, t, a)
    PROVE  /\ d.messages \in Seq(Messages) /\ Orderly(d)
           /\ \A m : Has(c, m) => Has(d, m)
           /\ \A u \in Tasks \ {t} : Has(d, Question(u)) => Has(c, Question(u))
           /\ a = "none" => d = c
           /\ a \in {"full", "partial"} => Has(d, Reply(t))
<1> DEFINE s == c.messages
           q == Question(t)
           r == Reply(t)
<1>1. q \in Messages /\ r \in Messages /\ q # r
    BY DEF Messages, Question, Reply
<1>2. \A u \in Tasks : /\ Question(u) # r /\ Reply(u) # q
                       /\ Question(u) = q => u = t
                       /\ Reply(u) = r => u = t
    BY DEF Question, Reply
<1>3. \A i \in DOMAIN s : s[i] # q /\ s[i] # r
    <2> SUFFICES ASSUME NEW i \in DOMAIN s PROVE s[i] # q /\ s[i] # r
        OBVIOUS
    <2>1. s[i] # q
        BY DEF Has
    <2>2. ASSUME s[i] = r PROVE FALSE
        <3>1. i > 1 /\ s[i - 1] = q
            BY <2>2 DEF Orderly
        <3>2. i - 1 \in DOMAIN s
            BY <3>1
        <3> QED BY <3>1, <3>2 DEF Has
    <2> QED BY <2>1, <2>2
<1>4. \/ a = "none" /\ d = c
      \/ a = "usage" /\ d.messages = Append(s, q)
      \/ a \notin {"none", "usage"} /\ d.messages = Append(Append(s, q), r)
    BY DEF Remembered, Appended
<1>5. CASE a = "none"
    BY <1>4, <1>5
<1>6. CASE a # "none"
    <2> DEFINE e == d.messages
               n == Len(s)
    <2>1. n \in Nat /\ DOMAIN s = 1..n /\ s \in Seq(Messages)
        OBVIOUS
    <2> HIDE DEF q, r, s, n
    <2>2. /\ e \in Seq(Messages) /\ \A i \in 1..n : e[i] = s[i]
          /\ \/ DOMAIN e = 1..(n + 1) /\ e[n + 1] = q /\ a = "usage"
             \/ DOMAIN e = 1..(n + 2) /\ e[n + 1] = q /\ e[n + 2] = r
        <3>1. \A x \in Seq(Messages), y \in Messages :
                 /\ Append(x, y) \in Seq(Messages) /\ Len(Append(x, y)) = Len(x) + 1
                 /\ \A i \in 1..Len(x) : Append(x, y)[i] = x[i]
                 /\ Append(x, y)[Len(x) + 1] = y
            OBVIOUS
        <3>2. CASE e = Append(s, q)
            BY <1>1, <1>4, <1>6, <2>1, <3>1, <3>2 DEF n
        <3>3. CASE e = Append(Append(s, q), r)
            <4> DEFINE f == Append(s, q)
            <4>1. f \in Seq(Messages) /\ Len(f) = n + 1 /\ f[n + 1] = q /\ \A i \in 1..n : f[i] = s[i]
                BY <1>1, <2>1, <3>1 DEF n
            <4>2. e = Append(f, r)
                BY <3>3
            <4> HIDE DEF f, e
            <4>3. /\ e \in Seq(Messages) /\ Len(e) = n + 2 /\ e[n + 2] = r
                  /\ \A i \in 1..(n + 1) : e[i] = f[i]
                BY <1>1, <2>1, <3>1, <4>1, <4>2
            <4> QED BY <2>1, <4>1, <4>3
        <3> QED BY <1>4, <1>6, <3>2, <3>3 DEF n, s, q, r
    <2>3. e \in Seq(Messages)
        BY <2>2
    <2> HIDE DEF e
    <2>4. \A i \in DOMAIN e : \/ i \in 1..n /\ e[i] = s[i]
                              \/ i = n + 1 /\ e[i] = q
                              \/ i = n + 2 /\ e[i] = r
        BY <2>1, <2>2
    <2>5. \A i, j \in DOMAIN e : e[i] = e[j] => i = j
        <3>1. \A i, j \in DOMAIN s : s[i] = s[j] => i = j
            BY DEF Orderly, s
        <3> QED BY <1>1, <1>3, <2>1, <2>4, <3>1
    <2>6. ASSUME NEW u \in Tasks, NEW i \in DOMAIN e, e[i] = Reply(u)
          PROVE  i > 1 /\ e[i - 1] = Question(u)
        <3>1. CASE i \in 1..n /\ e[i] = s[i]
            <4>1. i > 1 /\ s[i - 1] = Question(u)
                BY <2>1, <2>6, <3>1 DEF Orderly, s
            <4> QED BY <2>1, <2>2, <3>1, <4>1
        <3>2. CASE i = n + 1 /\ e[i] = q
            BY <1>2, <2>6, <3>2 DEF q, r
        <3>3. CASE i = n + 2 /\ e[i] = r
            <4>1. u = t
                BY <1>2, <2>6, <3>3 DEF q, r
            <4>2. i > 1 /\ i - 1 = n + 1
                BY <2>1, <3>3
            <4>3. e[n + 1] = q
                BY <2>2
            <4> QED BY <4>1, <4>2, <4>3 DEF q
        <3> QED BY <2>4, <3>1, <3>2, <3>3
    <2>7. Orderly(d)
        BY <2>5, <2>6 DEF Orderly, e
    <2>8. \A m : Has(c, m) => Has(d, m)
        <3>1. \A i \in DOMAIN s : i \in DOMAIN e /\ e[i] = s[i]
            BY <2>1, <2>2
        <3> QED BY <3>1 DEF Has, s, e
    <2>9. \A u \in Tasks \ {t} : Has(d, Question(u)) => Has(c, Question(u))
        <3> SUFFICES ASSUME NEW u \in Tasks \ {t}, NEW i \in DOMAIN e, e[i] = Question(u)
                     PROVE  \E j \in DOMAIN s : s[j] = Question(u)
            BY DEF Has, s, e
        <3>1. e[i] # q /\ e[i] # r
            BY <1>2 DEF q, r
        <3> QED BY <2>1, <2>4, <3>1
    <2>10. a \in {"full", "partial"} => Has(d, r)
        BY <2>1, <2>2 DEF Has, e
    <2> QED BY <1>6, <2>3, <2>7, <2>8, <2>9, <2>10 DEF e, r
<1> QED BY <1>5, <1>6

\* A step that tells and remembers nothing, and queues nothing.
LEMMA QuietKeeps ==
    ASSUME IInv, CInv,
           UNCHANGED <<mode, retry, answer, response, context>>,
           result' \in [Tasks -> Texts],
           \A t \in Tasks : pc'[t] = pc[t] \/ (pc[t] = "woken" /\ pc'[t] = "posting"),
           \/ queue' = queue /\ (worker' = worker \/ (Served /\ Served' /\ worker'.task = worker.task)
                                                  \/ ~Served')
           \/ queue' = <<>> /\ worker' = worker
    PROVE  CInv'
<1>0. Types /\ ChatTypes /\ QueuedOnce /\ HeardOnce /\ \A t \in Tasks : ToldAt(t)
    BY DEF IInv, CInv
<1>1. ChatTypes'
    BY <1>0 DEF ChatTypes
<1>2. QueuedOnce'
    BY <1>0 DEF QueuedOnce, Served
<1>3. \A t \in Tasks : Unheard(t)' => Unheard(t)
    BY <1>0 DEF Unheard, Served, Waiting
<1>4. HeardOnce'
    BY <1>0, <1>3 DEF HeardOnce, Orderly, Has
<1>5. ASSUME NEW t \in Tasks PROVE ToldAt(t)'
    <2>1. ToldAt(t)
        BY <1>0
    <2> QED BY <2>1 DEF ToldAt, Has
<1> QED BY <1>1, <1>2, <1>4, <1>5 DEF CInv

\* An ask begins, on its own or as the retry of one that was told nothing.
LEMMA EnterTells ==
    ASSUME IInv, CInv, NEW u \in Tasks, NEW m \in {"queue", "nowait", "skip"}, pc[u] = "idle",
           NEW p \in [Tasks -> {"idle", "queued", "closing", "retried", "returned"} \union Waiting],
           NEW r, NEW free \in BOOLEAN, Enter(u, m, p, r, free), p[u] = "idle",
           UNCHANGED <<answer, result, response, context>>,
           retry' \in [Tasks -> Tasks \union {NoTask}],
           \A t \in Tasks : \/ p[t] = pc[t] /\ retry'[t] = retry[t]
                            \/ pc[t] = "held" /\ p[t] = "woken" /\ retry'[t] = retry[t]
                            \/ p[t] = "retried" /\ retry'[t] \in Tasks,
           worker'.task = worker.task, Served' = Served
    PROVE  CInv'
<1>0. Types /\ WorkerServesQueued /\ ChatTypes /\ QueuedOnce /\ HeardOnce /\ \A t \in Tasks : ToldAt(t)
    BY DEF IInv, CInv
<1>1. /\ \A t \in Tasks \ {u} : pc'[t] = p[t] /\ mode'[t] = mode[t]
      /\ pc'[u] \in {"queued", "posting", "held", "returned"}
      /\ pc'[u] = "returned" => retry'[u] = retry[u] /\ m # "queue"
      /\ (m = "queue") = (pc'[u] = "queued") /\ mode'[u] = m
    BY <1>0 DEF Enter, Types
<1>2. queue' \in Seq(Tasks) /\ (queue' = queue \/ (m = "queue" /\ queue' = Append(queue, u)))
    BY <1>0 DEF Enter, Types
<1>3. /\ \A i \in 1..Len(queue) : queue[i] # u
      /\ Served => worker.task # u
    BY <1>0 DEF WorkerServesQueued, QueuedOnes, Served
<1>4. ChatTypes'
    BY <1>0 DEF ChatTypes
<1>5. \A i \in 1..Len(queue') : \/ i \in 1..Len(queue) /\ queue'[i] = queue[i]
                                \/ i = Len(queue) + 1 /\ queue'[i] = u
    BY <1>0, <1>2 DEF Types
<1>6. QueuedOnce'
    BY <1>0, <1>3, <1>5 DEF QueuedOnce
<1>7. \A t \in Tasks : Unheard(t)' => Unheard(t)
    BY <1>1, <1>5 DEF Unheard, Waiting
<1>8. HeardOnce'
    BY <1>0, <1>7 DEF HeardOnce, Orderly, Has
<1>9. ASSUME NEW t \in Tasks PROVE ToldAt(t)'
    <2>1. ToldAt(t)
        BY <1>0
    <2>2. CASE t = u
        <3>1. ~Has(context, Question(t)) /\ answer[t] = "none"
            BY <1>0, <2>1, <2>2 DEF HeardOnce, Unheard, ToldAt
        <3> QED BY <1>1, <2>1, <2>2, <3>1 DEF ToldAt, Has
    <2>3. CASE t # u
        <3>1. pc'[t] = p[t] /\ mode'[t] = mode[t]
            BY <1>1, <2>3
        <3> QED BY <2>1, <3>1 DEF ToldAt, Has
    <2> QED BY <2>2, <2>3
<1> QED BY <1>4, <1>6, <1>8, <1>9 DEF CInv

\* An ask returns, or goes on to close the client; one that sent for itself
\* remembers first.
LEMMA ReturnTells ==
    ASSUME IInv, CInv, NEW t \in Tasks, NEW a \in Answers,
           NEW p \in [Tasks -> {"idle", "queued", "closing", "retried", "returned"} \union Waiting],
           UNCHANGED <<mode, queue, retry, result, response>>, pc[t] # "idle",
           \A u \in Tasks : p[u] = pc[u] \/ (pc[u] = "held" /\ p[u] = "woken"),
           \E e \in {"returned", "closing"} : pc' = [p EXCEPT ![t] = e],
           answer' = [answer EXCEPT ![t] = a],
           \/ context' = context
           \/ mode[t] # "queue" /\ ~Has(context, Question(t)) /\ \E b : context' = Remembered(context, t, b),
           retry[t] = NoTask \/ pc'[t] = "closing" =>
              /\ a \in {"full", "partial"} => Has(context', Reply(t))
              /\ a = "none" /\ mode[t] # "queue" => ~Has(context', Question(t)),
           worker'.task = worker.task, Served' = Served
    PROVE  CInv'
<1>0. Types /\ WorkerServesQueued /\ ChatTypes /\ QueuedOnce /\ HeardOnce /\ \A u \in Tasks : ToldAt(u)
    BY DEF IInv, CInv
<1>1. /\ mode' = mode /\ queue' = queue /\ retry' = retry
      /\ pc'[t] \in {"returned", "closing"}
      /\ \A u \in Tasks \ {t} : pc'[u] = p[u] /\ answer'[u] = answer[u]
      /\ answer'[t] = a /\ answer' \in [Tasks -> Answers]
    BY <1>0 DEF ChatTypes
<1>2. /\ context'.messages \in Seq(Messages) /\ Orderly(context')
      /\ \A m : Has(context, m) => Has(context', m)
      /\ \A u \in Tasks \ {t} : Has(context', Question(u)) => Has(context, Question(u))
      /\ Has(context', Question(t)) => Has(context, Question(t)) \/ mode[t] # "queue"
    <2>1. CASE context' = context
        BY <1>0, <2>1 DEF ChatTypes, HeardOnce
    <2>2. CASE context' # context
        <3>1. PICK b : context' = Remembered(context, t, b)
            BY <2>2
        <3>2. context.messages \in Seq(Messages) /\ Orderly(context) /\ ~Has(context, Question(t))
            BY <1>0, <2>2 DEF ChatTypes, HeardOnce
        <3>3. mode[t] # "queue"
            BY <2>2
        <3> QED BY <3>1, <3>2, <3>3, RememberedKeeps
    <2> QED BY <2>1, <2>2
<1>3. ChatTypes'
    BY <1>0, <1>1, <1>2 DEF ChatTypes
<1>4. QueuedOnce'
    BY <1>0, <1>1 DEF QueuedOnce
<1>5. ASSUME NEW u \in Tasks, Unheard(u)' PROVE ~Has(context', Question(u))
    <2>1. Unheard(u)
        BY <1>1, <1>5 DEF Unheard, Waiting
    <2>2. ~Has(context, Question(u))
        BY <1>0, <2>1 DEF HeardOnce
    <2>3. u = t => mode[u] = "queue"
        BY <1>0, <1>1, <1>5 DEF Unheard, Waiting, WorkerServesQueued, QueuedOnes, Served
    <2> QED BY <1>2, <2>2, <2>3
<1>6. HeardOnce'
    <2>1. \A u \in Tasks : Unheard(u)' => ~Has(context', Question(u))
        BY <1>5
    <2> QED BY <1>2, <2>1 DEF HeardOnce, Orderly, Has
<1>7. ASSUME NEW u \in Tasks PROVE ToldAt(u)'
    <2>1. ToldAt(u)
        BY <1>0
    <2>2. response[u] \in {"full", "partial"} => Has(context', Reply(u))
        BY <1>2, <2>1 DEF ToldAt
    <2>3. CASE u = t
        BY <1>1, <2>2, <2>3 DEF ToldAt, Has
    <2>4. CASE u # t
        <3>1. pc[u] = "closing" \/ (pc[u] = "returned" /\ retry[u] = NoTask) =>
                 /\ answer[u] \in {"full", "partial"} => Has(context', Reply(u))
                 /\ answer[u] = "none" /\ mode[u] # "queue" => ~Has(context', Question(u))
            BY <1>2, <2>1, <2>4 DEF ToldAt
        <3>2. pc'[u] = p[u] /\ answer'[u] = answer[u]
            BY <1>1, <2>4
        <3> QED BY <1>1, <2>1, <2>2, <3>1, <3>2 DEF ToldAt, Has
    <2> QED BY <2>3, <2>4
<1> QED BY <1>3, <1>4, <1>6, <1>7 DEF CInv

\* The worker remembers the task it has sent.
LEMMA DoneTells ==
    ASSUME IInv, CInv, WorkerDone
    PROVE  CInv'
<1> DEFINE t == worker.task
<1>0. Types /\ WorkerServesQueued /\ ChatTypes /\ QueuedOnce /\ HeardOnce /\ \A u \in Tasks : ToldAt(u)
    BY DEF IInv, CInv
<1>1. /\ worker.at = "sending" /\ worker'.at = "get" /\ pc' = Woken(pc)
      /\ UNCHANGED <<mode, retry, answer, result, queue>>
      /\ response' = [response EXCEPT ![t] = result[t]]
      /\ context' = Remembered(context, t, result[t])
    BY DEF WorkerDone, Freed, requests
<1>2. t \in Tasks /\ mode[t] = "queue" /\ Unheard(t) /\ Served /\ ~Served'
    BY <1>0, <1>1 DEF WorkerServesQueued, QueuedOnes, Unheard, Served
<1>3. ~Has(context, Question(t))
    BY <1>0, <1>2 DEF HeardOnce
<1> HIDE DEF t
<1>4. /\ context'.messages \in Seq(Messages) /\ Orderly(context')
      /\ \A m : Has(context, m) => Has(context', m)
      /\ \A u \in Tasks \ {t} : Has(context', Question(u)) => Has(context, Question(u))
      /\ result[t] \in {"full", "partial"} => Has(context', Reply(t))
    <2>1. context.messages \in Seq(Messages) /\ Orderly(context)
        BY <1>0 DEF ChatTypes, HeardOnce
    <2> QED BY <1>1, <1>2, <1>3, <2>1, RememberedKeeps
<1>5. /\ \A u \in Tasks : \/ pc'[u] = pc[u]
                          \/ pc[u] = "held" /\ pc'[u] = "woken"
    BY <1>1 DEF Woken
<1>6. ChatTypes'
    BY <1>0, <1>1, <1>2, <1>4 DEF ChatTypes
<1>7. QueuedOnce'
    BY <1>0, <1>1, <1>2 DEF QueuedOnce
<1>8. ASSUME NEW u \in Tasks, Unheard(u)' PROVE ~Has(context', Question(u))
    <2>1. Unheard(u)
        BY <1>1, <1>2, <1>5, <1>8 DEF Unheard, Waiting
    <2>2. u # t
        <3>1. pc'[t] \notin Waiting \union {"idle"}
            BY <1>0, <1>2, <1>5 DEF IInv, CallersKnow, Waiting, WorkerServesQueued, QueuedOnes, Served, t
        <3>2. \A i \in 1..Len(queue) : queue[i] # t
            BY <1>0, <1>2 DEF QueuedOnce, t
        <3> QED BY <1>1, <1>2, <1>8, <3>1, <3>2 DEF Unheard
    <2> QED BY <1>0, <1>4, <2>1, <2>2 DEF HeardOnce
<1>9. HeardOnce'
    <2>1. \A u \in Tasks : Unheard(u)' => ~Has(context', Question(u))
        BY <1>8
    <2> QED BY <1>4, <2>1 DEF HeardOnce, Orderly, Has
<1>10. ASSUME NEW u \in Tasks PROVE ToldAt(u)'
    <2>1. ToldAt(u)
        BY <1>0
    <2>2. response'[u] \in {"full", "partial"} => Has(context', Reply(u))
        BY <1>0, <1>1, <1>4, <2>1 DEF ToldAt, ChatTypes
    <2>3. pc'[u] = "closing" \/ (pc'[u] = "returned" /\ retry[u] = NoTask) =>
             /\ answer[u] \in {"full", "partial"} => Has(context', Reply(u))
             /\ answer[u] = "none" /\ mode[u] # "queue" => ~Has(context', Question(u))
        BY <1>2, <1>4, <1>5, <2>1 DEF ToldAt
    <2>4. /\ pc'[u] = "idle" => answer[u] = "none"
          /\ pc'[u] = "queued" => mode[u] = "queue"
          /\ pc'[u] = "retried" => retry[u] \in Tasks
        BY <1>5, <2>1 DEF ToldAt
    <2>5. mode' = mode /\ answer' = answer /\ retry' = retry
        BY <1>1
    <2> QED BY <2>2, <2>3, <2>4, <2>5 DEF ToldAt, Has
<1> QED BY <1>6, <1>7, <1>9, <1>10 DEF CInv

\* What Return does to what is told.
Returned(t, a, p) ==
    /\ pc' = [p EXCEPT ![t] = "returned"]
    /\ answer' = [answer EXCEPT ![t] = a]
    /\ UNCHANGED <<mode, queue, retry>>

\* An ask that sent for itself gives the turn back, its answer remembered.
LEMMA GivesBackTells ==
    ASSUME IInv, CInv, NEW t \in Tasks, NEW a \in Answers, GivesBack(t, a),
           pc[t] \in {"posting", "closing"}, mode[t] # "queue", UNCHANGED <<result, response>>,
           \/ context' = context
           \/ ~Has(context, Question(t)) /\ \E b : context' = Remembered(context, t, b),
           a \in {"full", "partial"} => Has(context', Reply(t)),
           a = "none" => context' = context /\ ~Has(context', Question(t))
    PROVE  CInv'
<1>0. Types /\ ChatTypes
    BY DEF IInv, CInv
<1>1. pc \in [Tasks -> {"idle", "queued", "closing", "retried", "returned"} \union Waiting]
    BY <1>0 DEF Types
<1>2. worker'.task = worker.task /\ Served' = Served
    BY <1>0 DEF GivesBack, Types, WorkerWoken, Served
<1>3. /\ Woken(pc) \in [Tasks -> {"idle", "queued", "closing", "retried", "returned"} \union Waiting]
      /\ \A u \in Tasks : Woken(pc)[u] = pc[u] \/ (pc[u] = "held" /\ Woken(pc)[u] = "woken")
    BY <1>1 DEF Woken, Waiting
<1>4. CASE Retries(t, a)
    <2> DEFINE p == [Woken(pc) EXCEPT ![t] = "retried"]
    <2>1. PICK u \in Tasks : /\ pc[u] = "idle" /\ Enter(u, mode[t], p, registered \ {t}, TRUE)
                             /\ retry' = [retry EXCEPT ![t] = u] /\ answer' = answer
        BY <1>4 DEF GivesBack, AskAgain
    <2>2. /\ p \in [Tasks -> {"idle", "queued", "closing", "retried", "returned"} \union Waiting]
          /\ p[t] = "retried" /\ \A v \in Tasks \ {t} : p[v] = Woken(pc)[v]
        BY <1>3
    <2> HIDE DEF p
    <2>3. /\ retry' \in [Tasks -> Tasks \union {NoTask}] /\ retry'[t] = u
          /\ \A v \in Tasks \ {t} : retry'[v] = retry[v]
        BY <1>0, <2>1 DEF ChatTypes
    <2>4. \A v \in Tasks : \/ p[v] = pc[v] /\ retry'[v] = retry[v]
                           \/ pc[v] = "held" /\ p[v] = "woken" /\ retry'[v] = retry[v]
                           \/ p[v] = "retried" /\ retry'[v] \in Tasks
        BY <1>3, <2>2, <2>3
    <2>5. p[u] = "idle"
        BY <1>3, <2>1, <2>2
    <2>6. UNCHANGED <<answer, result, response, context>>
        BY <1>4, <2>1 DEF Retries
    <2>7. /\ mode[t] \in {"queue", "nowait", "skip"} /\ pc[u] = "idle"
          /\ p \in [Tasks -> {"idle", "queued", "closing", "retried", "returned"} \union Waiting]
          /\ Enter(u, mode[t], p, registered \ {t}, TRUE) /\ TRUE \in BOOLEAN
        BY <1>0, <2>1, <2>2 DEF Types
    <2> HIDE DEF Enter
    <2> QED BY <1>2, <2>3, <2>4, <2>5, <2>6, <2>7, EnterTells
<1>5. CASE ~Retries(t, a)
    <2>1. Returned(t, a, Woken(pc))
        BY <1>5 DEF GivesBack, Return, Returned
    <2> QED BY <1>2, <1>3, <2>1, ReturnTells DEF Returned
<1> QED BY <1>4, <1>5

\* The end of an ask: what it says is remembered, or it asks again.
LEMMA EndingTells ==
    ASSUME IInv, CInv, NEW t \in Tasks, Ending(t) \/ AskTimeout(t) \/ Failing(t), ~PostTimeout(t)
    PROVE  CInv'
<1>0. Types /\ CallersKnow /\ ChatTypes /\ HeardOnce /\ ToldAt(t)
    BY DEF IInv, CInv
<1>1. pc \in [Tasks -> {"idle", "queued", "closing", "retried", "returned"} \union Waiting]
    BY <1>0 DEF Types
<1>2. /\ mode[t] \in {"queue", "nowait", "skip"} /\ running \in BOOLEAN
      /\ response[t] \in Answers /\ result[t] \in Answers /\ "none" \in Answers /\ "raised" \in Answers
      /\ \A u \in Tasks : answer[u] \in Answers
    BY <1>0 DEF Types, ChatTypes, Answers, Texts
<1>3. \A u \in Tasks : retry' = [retry EXCEPT ![t] = u] =>
         /\ retry' \in [Tasks -> Tasks \union {NoTask}] /\ retry'[t] = u
         /\ \A v \in Tasks \ {t} : retry'[v] = retry[v]
    BY <1>0 DEF ChatTypes
<1>4. WorkerWoken(worker).task = worker.task
      /\ (WorkerWoken(worker).at \notin {"get", "ended"}) = Served
    BY <1>0 DEF Types, WorkerWoken, Served
<1>5. CASE AskTold(t)
    <2>1. pc[t] = "queued" /\ UNCHANGED <<result, response, context, worker>>
        BY <1>5 DEF AskTold, chat
    <2>2. CASE Retries(t, response[t])
        <3> DEFINE p == [pc EXCEPT ![t] = "retried"]
        <3>1. PICK u \in Tasks : /\ pc[u] = "idle" /\ Enter(u, mode[t], p, registered, running)
                                 /\ retry' = [retry EXCEPT ![t] = u] /\ answer' = answer
            BY <1>5, <2>2 DEF AskTold, AskAgain
        <3>2. /\ p \in [Tasks -> {"idle", "queued", "closing", "retried", "returned"} \union Waiting]
              /\ p[t] = "retried" /\ \A v \in Tasks \ {t} : p[v] = pc[v]
            BY <1>1
        <3> HIDE DEF p
        <3>3. /\ retry' \in [Tasks -> Tasks \union {NoTask}]
              /\ \A v \in Tasks : \/ p[v] = pc[v] /\ retry'[v] = retry[v]
                                  \/ p[v] = "retried" /\ retry'[v] \in Tasks
            BY <1>3, <3>1, <3>2
        <3>4. p[u] = "idle" /\ worker'.task = worker.task /\ Served' = Served
            BY <2>1, <3>1, <3>2 DEF Served
        <3> QED BY <1>2, <2>1, <3>1, <3>2, <3>3, <3>4, EnterTells
    <2>3. CASE ~Retries(t, response[t])
        <3>1. Return(t, response[t], pc, registered, running)
            BY <1>5, <2>3 DEF AskTold
        <3>2. response[t] \in {"full", "partial"} => Has(context', Reply(t))
            BY <1>0, <2>1 DEF ToldAt
        <3>3. mode[t] = "queue"
            BY <1>0, <2>1 DEF ToldAt
        <3>4. worker'.task = worker.task /\ Served' = Served
            BY <2>1 DEF Served
        <3>5. Returned(t, response[t], pc)
            BY <3>1 DEF Return, Returned
        <3> QED BY <1>1, <1>2, <2>1, <3>2, <3>3, <3>4, <3>5, ReturnTells DEF Returned
    <2> QED BY <2>2, <2>3
<1>6. CASE AskTimeout(t) \/ AskCancelled(t)
    <2>1. PICK a \in {"none", "raised"} : AskEnds(t, a)
        BY <1>6 DEF AskTimeout, AskCancelled
    <2>2. pc[t] = "queued" /\ Returned(t, a, pc) /\ UNCHANGED <<result, response, context, worker>>
        BY <2>1 DEF AskEnds, Return, Returned, chat
    <2>3. mode[t] = "queue" /\ a \in Answers /\ a \notin {"full", "partial"}
        BY <1>0, <1>2, <2>1, <2>2 DEF ToldAt
    <2> QED BY <1>1, <2>2, <2>3, ReturnTells DEF Served, Returned
<1>7. CASE AskPosted(t)
    <2>1. /\ pc[t] = "posting" /\ UNCHANGED <<result, response>>
        BY <1>7 DEF AskPosted
    <2>2. PICK a \in {result[t], "none"} :
             /\ context' = Remembered(context, t, a)
             /\ \/ GivesBack(t, a)
                \/ /\ pc' = [pc EXCEPT ![t] = "closing"]
                   /\ answer' = [answer EXCEPT ![t] = a]
                   /\ UNCHANGED <<mode, retry, turn>>
        BY <1>7 DEF AskPosted
    <2>3. mode[t] # "queue" /\ Unheard(t) /\ ~Has(context, Question(t))
        BY <1>0, <2>1 DEF CallersKnow, Waiting, Unheard, HeardOnce
    <2>4. /\ a = "none" => context' = context
          /\ a \in {"full", "partial"} => Has(context', Reply(t))
        <3>1. context.messages \in Seq(Messages) /\ Orderly(context)
            BY <1>0 DEF ChatTypes, HeardOnce
        <3> QED BY <2>2, <2>3, <3>1, RememberedKeeps
    <2>5. a \in Answers /\ (a = "none" => ~Has(context', Question(t)))
        BY <1>2, <2>2, <2>3, <2>4
    <2>6. CASE GivesBack(t, a)
        BY <2>1, <2>2, <2>3, <2>4, <2>5, <2>6, GivesBackTells
    <2>7. CASE /\ pc' = [pc EXCEPT ![t] = "closing"]
               /\ answer' = [answer EXCEPT ![t] = a]
               /\ UNCHANGED <<mode, retry, turn>>
        <3>1. UNCHANGED <<queue, worker>> /\ Served' = Served
            BY <2>7 DEF turn, Served
        <3> QED BY <1>1, <2>1, <2>2, <2>3, <2>4, <2>5, <2>7, <3>1, ReturnTells
    <2> QED BY <2>2, <2>6, <2>7
<1>8. CASE RetryReturned(t)
    <2>1. /\ pc[t] = "retried" /\ UNCHANGED <<result, response, context, worker>>
          /\ Returned(t, answer[retry[t]], pc)
        BY <1>8 DEF RetryReturned, Return, Returned, chat
    <2>2. retry[t] \in Tasks /\ retry[t] # NoTask /\ answer[retry[t]] \in Answers
        BY <1>0, <1>2, <2>1, ChatAssumption DEF ToldAt, ChatAssumption
    <2> QED BY <1>1, <2>1, <2>2, ReturnTells DEF Served, Returned
<1>9. CASE CloseEnds(t)
    <2>1. pc[t] = "closing" /\ GivesBack(t, answer[t]) /\ UNCHANGED <<result, response, context>>
        BY <1>9 DEF CloseEnds
    <2>2. /\ mode[t] # "queue" /\ answer[t] \in Answers
          /\ answer[t] \in {"full", "partial"} => Has(context', Reply(t))
          /\ answer[t] = "none" => context' = context /\ ~Has(context', Question(t))
        BY <1>0, <1>2, <2>1 DEF ToldAt, CallersKnow
    <2> QED BY <2>1, <2>2, GivesBackTells
<1>10. CASE WaitCancelled(t) \/ CloseFails(t)
    <2>1. /\ pc[t] \in {"held", "woken", "closing"} /\ UNCHANGED <<result, response, context, worker>>
          /\ Returned(t, "raised", pc)
        BY <1>10 DEF WaitCancelled, CloseFails, Returned, requests, marks, turn, chat
    <2> QED BY <1>1, <1>2, <2>1, ReturnTells DEF Served, Returned
<1> QED BY <1>5, <1>6, <1>7, <1>8, <1>9, <1>10 DEF Ending, Failing

\* Every step keeps what is told and what is kept in agreement.
LEMMA StepTells == IInv /\ CInv /\ [Next]_vars => CInv'
<1> SUFFICES ASSUME IInv, CInv, [Next]_vars PROVE CInv'
    OBVIOUS
<1>0. Types /\ WorkerServesQueued /\ ChatTypes
    BY DEF IInv, CInv
<1>1. ASSUME NEW t \in Tasks, Ask(t) PROVE CInv'
    <2>1. PICK m \in Modes : Enter(t, m, pc, registered, running)
        BY <1>1 DEF Ask
    <2>2. m \in {"queue", "nowait", "skip"}
        BY ChatAssumption DEF ChatAssumption
    <2>3. pc[t] = "idle" /\ UNCHANGED <<retry, answer, result, response, worker, context>>
        BY <1>1 DEF Ask, chat
    <2>4. /\ pc \in [Tasks -> {"idle", "queued", "closing", "retried", "returned"} \union Waiting]
          /\ running \in BOOLEAN /\ retry' \in [Tasks -> Tasks \union {NoTask}]
        BY <1>0, <2>3 DEF Types, ChatTypes
    <2> HIDE DEF Enter
    <2> QED BY <2>1, <2>2, <2>3, <2>4, EnterTells DEF Served
<1>2. ASSUME NEW t \in Tasks, TakeTurn(t) PROVE CInv'
    <2>1. /\ pc[t] = "woken" /\ pc' = [pc EXCEPT ![t] = "posting"]
          /\ UNCHANGED <<mode, retry, answer, result, response, context, queue, worker>>
        BY <1>2 DEF TakeTurn, marks, chat
    <2>2. \A u \in Tasks : pc'[u] = pc[u] \/ (pc[u] = "woken" /\ pc'[u] = "posting")
        BY <1>0, <2>1 DEF Types
    <2> QED BY <1>0, <2>1, <2>2, QuietKeeps DEF ChatTypes
<1>3. ASSUME NEW t \in Tasks, Posting(t) \/ PostTimeout(t) PROVE CInv'
    <2>1. UNCHANGED <<pc, mode, retry, answer, response, context, queue, worker>>
        BY <1>3 DEF Posting, PostTimeout, PostStart, PostRaises, PostEnd, PostStopped, PostFail, Returns,
           asks, marks, turn, chat
    <2>2. result' = result \/ \E a \in Texts : result' = [result EXCEPT ![t] = a]
        BY <1>3 DEF Posting, PostTimeout, PostStart, PostRaises, PostEnd, PostStopped, PostFail, Returns,
           requests, Texts
    <2>3. result' \in [Tasks -> Texts]
        BY <1>0, <2>2 DEF ChatTypes
    <2> QED BY <2>1, <2>3, QuietKeeps
<1>4. ASSUME NEW t \in Tasks, Ending(t) \/ AskTimeout(t) \/ Failing(t), ~PostTimeout(t) PROVE CInv'
    BY <1>4, EndingTells
<1>5. CASE WorkerDone
    BY <1>5, DoneTells
<1>6. CASE WorkerGet
    <2>1. /\ UNCHANGED <<pc, mode, retry, answer, response, result, context>>
          /\ ~Served /\ Served' /\ worker'.task = queue[1] /\ 1 \in 1..Len(queue)
        BY <1>0, <1>6 DEF WorkerGet, asks, requests, marks, chat, Served, Types
    <2>2. /\ queue' \in Seq(Tasks)
          /\ \A i \in 1..Len(queue') : i + 1 \in 2..Len(queue) /\ queue'[i] = queue[i + 1]
        BY <1>0, <1>6 DEF WorkerGet, Types
    <2>3. QueuedOnce /\ HeardOnce
        BY DEF CInv
    <2>4. QueuedOnce'
        <3>1. \A i, j \in 1..Len(queue) : queue[i] = queue[j] => i = j
            BY <2>3 DEF QueuedOnce
        <3>2. \A i, j \in 1..Len(queue') : queue'[i] = queue'[j] => i = j
            BY <2>2, <3>1
        <3>3. \A i \in 1..Len(queue') : queue'[i] # queue[1]
            BY <2>1, <2>2, <3>1
        <3> QED BY <2>1, <3>2, <3>3 DEF QueuedOnce
    <2>5. \A t \in Tasks : Unheard(t)' => Unheard(t)
        BY <2>1, <2>2 DEF Unheard
    <2>6. HeardOnce'
        BY <2>1, <2>3, <2>5 DEF HeardOnce, Orderly, Has
    <2>7. ASSUME NEW t \in Tasks PROVE ToldAt(t)'
        <3>1. ToldAt(t)
            BY DEF CInv
        <3> QED BY <2>1, <3>1 DEF ToldAt, Has
    <2>8. ChatTypes'
        BY <1>0, <2>1 DEF ChatTypes
    <2> QED BY <2>4, <2>6, <2>7, <2>8 DEF CInv
<1>7. CASE WorkerWait \/ WorkerSend
    <2>1. UNCHANGED <<pc, mode, retry, answer, response, result, context, queue>>
        BY <1>7 DEF WorkerWait, WorkerSend, asks, requests, marks, chat
    <2>2. Served /\ Served' /\ worker'.task = worker.task
        BY <1>0, <1>7 DEF WorkerWait, WorkerSend, Served, Types
    <2> QED BY <1>0, <2>1, <2>2, QuietKeeps DEF ChatTypes
<1>8. CASE Stopping \/ UNCHANGED vars
    <2>1. /\ UNCHANGED <<pc, mode, retry, answer, response, result, context>>
          /\ \/ queue' = queue /\ (worker' = worker \/ ~Served')
             \/ queue' = <<>> /\ worker' = worker
        <3>1. CASE StopAll \/ StopBreaks \/ StopNext
            BY <3>1 DEF StopAll, StopBreaks, StopNext, asks, requests, marks, turn, chat
        <3>2. CASE StopOne \/ StopCancel
            BY <3>2 DEF StopOne, StopCancel, asks, requests, marks, turn, chat
        <3>3. CASE Close
            BY <1>0, <3>3 DEF Close, asks, requests, chat, Served, Types
        <3>4. CASE UNCHANGED vars
            BY <3>4 DEF vars, asks, requests, marks, turn, chat
        <3> QED BY <1>8, <3>1, <3>2, <3>3, <3>4 DEF Stopping
    <2> QED BY <1>0, <2>1, QuietKeeps DEF ChatTypes
<1> QED BY <1>1, <1>2, <1>3, <1>4, <1>5, <1>6, <1>7, <1>8 DEF Next, Working, Failing

\* At the beginning nothing has been said.
LEMMA InitTells == Init => CInv
<1> SUFFICES ASSUME Init PROVE CInv
    OBVIOUS
<1>1. context.messages = <<>> /\ queue = <<>> /\ ~Served
    BY DEF Init, Served
<1>2. ChatTypes
    BY <1>1 DEF Init, ChatTypes, Answers, Texts
<1>3. QueuedOnce /\ HeardOnce
    BY <1>1 DEF QueuedOnce, HeardOnce, Orderly, Has
<1>4. \A t \in Tasks : ToldAt(t)
    BY DEF Init, ToldAt
<1> QED BY <1>2, <1>3, <1>4 DEF CInv

\* What is in order, told and kept is what the callers may rely on.
LEMMA InvAgrees == CInv => ConversationAgrees
<1> SUFFICES ASSUME CInv PROVE ConversationAgrees
    OBVIOUS
<1>1. ASSUME NEW t \in Tasks
      PROVE  Cardinality(At(t)) <= 1 /\ Cardinality(Asked(t)) <= 1 /\ \A i \in At(t) : i - 1 \in Asked(t)
    <2>1. \A S : (\A i, j \in S : i = j) => Cardinality(S) <= 1
        <3> SUFFICES ASSUME NEW S, \A i, j \in S : i = j PROVE Cardinality(S) <= 1
            OBVIOUS
        <3>1. CASE S = {}
            BY <3>1, FS_EmptySet
        <3>2. CASE S # {}
            <4>1. PICK i : S = {i}
                BY <3>2
            <4>2. Cardinality({i}) = 1
                BY FS_Singleton
            <4> QED BY <4>1, <4>2
        <3> QED BY <3>1, <3>2
    <2>2. /\ \A i, j \in At(t) : i = j
          /\ \A i, j \in Asked(t) : i = j
        BY DEF At, Asked, CInv, HeardOnce, Orderly
    <2>3. \A i \in At(t) : i - 1 \in Asked(t)
        BY DEF At, Asked, CInv, ChatTypes, HeardOnce, Orderly
    <2> QED BY <2>1, <2>2, <2>3
<1>2. ASSUME NEW t \in Tasks, pc[t] = "returned", retry[t] = NoTask
      PROVE  /\ answer[t] \in {"full", "partial"} => At(t) # {}
             /\ answer[t] = "none" /\ mode[t] # "queue" => Asked(t) = {}
    <2>1. ToldAt(t)
        BY DEF CInv
    <2> QED BY <1>2, <2>1 DEF ToldAt, Has, At, Asked
<1> QED BY <1>1, <1>2 DEF ConversationAgrees, AnswersFollowQuestions, ToldIsRemembered

\* However asks, retries, timeouts and stops fall, an answer is kept once and
\* right after its question, and a caller that was given one finds it there
\* (send's and _worker's use of the context, ask's answer).
THEOREM Agreement == Spec => []ConversationAgrees
BY InitIInv, StepIInv, InitTells, StepTells, InvAgrees, PTL DEF Spec
=============================================================================
