-------------------------------- MODULE Chat --------------------------------
(***************************************************************************)
(* The client of one model endpoint (LLM_connect.Chat): callers ask, a     *)
(* worker serves the queued asks one by one, asks that do not queue send   *)
(* for themselves, and all of them take turns by an event, running, that   *)
(* is waited for and then cleared.  An asyncio event wakes everybody who   *)
(* waits for it, and those it woke do not look at it again.                *)
(*                                                                         *)
(* An ask is an AskTask; a retry is a new one.  What is sent and received  *)
(* is reduced to what the request returns: a full answer, the part of one, *)
(* or a token count alone.  An ask that sent for itself closes the HTTP    *)
(* client before it gives the turn back, and is lost with its turn when    *)
(* that fails; opening the client, the size estimate of ask and clear are  *)
(* left out.  The task that called ask may be cancelled wherever it waits. *)
(***************************************************************************)
EXTENDS Integers, Sequences, FiniteSets

CONSTANTS Tasks,     \* AskTask objects
          NoTask,
          Modes,     \* ways of asking in use: queue, nowait, skip
          KeepAlive, \* _keep_alive: the HTTP client stays open between requests
          MaxStops   \* bound: calls of stop_one, stop_all and close

ASSUME ChatAssumption ==
    /\ NoTask \notin Tasks
    /\ Modes \subseteq {"queue", "nowait", "skip"}
    /\ KeepAlive \in BOOLEAN
    /\ MaxStops \in Nat

VARIABLES
    pc,          \* where the ask of each task is
    mode,        \* how it was asked
    retry,       \* the task its automatic retry took
    answer,      \* what the caller was told, or will be
    post,        \* the request made for it
    result,      \* what the request returned
    response,    \* what the worker handed to the task
    event,       \* tasks whose event is set
    cancelled,   \* tasks whose request is to be cancelled
    registered,  \* _ask_tasks
    queue,       \* _queue
    running,     \* _running is set: nobody is sending
    worker,      \* the worker loop: where it is and its task
    lost,        \* history: an ask ended with the turn, and nobody has given one back since
    runningTask, \* _running_task_id
    firstRetry,  \* _first_SSE_retry
    context,     \* the conversation: messages and rounds
    stop,        \* a stop call in progress
    stops        \* stop calls begun

asks == <<pc, mode, retry, answer>>
requests == <<post, result>>
marks == <<response, event, cancelled, registered>>
turn == <<queue, running, worker, lost>>
chat == <<runningTask, firstRetry, context>>
stopping == <<stop, stops>>
vars == <<asks, requests, marks, turn, chat, stopping>>

Texts == {"none", "usage", "partial", "full"}
Answers == Texts \union {"raised"}
Sending == {"created", "streaming"}
Question(t) == [by |-> t, part |-> "question"]
Reply(t) == [by |-> t, part |-> "answer"]
NoStop == [at |-> "no", task |-> NoTask, todo |-> {}, size |-> 0]

Init ==
    /\ pc = [t \in Tasks |-> "idle"]
    /\ mode = [t \in Tasks |-> "queue"]
    /\ retry = [t \in Tasks |-> NoTask]
    /\ answer = [t \in Tasks |-> "none"]
    /\ post = [t \in Tasks |-> "none"]
    /\ result = [t \in Tasks |-> "none"]
    /\ response = [t \in Tasks |-> "none"]
    /\ event = {} /\ cancelled = {} /\ registered = {}
    /\ queue = <<>> /\ running = TRUE /\ lost = FALSE
    /\ worker = [at |-> "get", task |-> NoTask]
    /\ runningTask = NoTask
    /\ firstRetry = TRUE
    /\ context = [messages |-> <<>>, rounds |-> <<>>]
    /\ stop = NoStop /\ stops = 0

------------------------------------------------------------------------------
(* The conversation: a list of messages, kept a second time by rounds.  An   *)
(* answer ends its round, and the next message that is not one begins another. *)

Last(s) == s[Len(s)]
Front(s) == SubSeq(s, 1, Len(s) - 1)

Appended(c, m) ==
    LET open == IF c.rounds = <<>> THEN <<>> ELSE Last(c.rounds)
        ended == open # <<>> /\ Last(open).part = "answer" /\ m.part # "answer"
    IN [messages |-> Append(c.messages, m),
        rounds |-> IF c.rounds = <<>> \/ ended
                   THEN Append(c.rounds, <<m>>)
                   ELSE Append(Front(c.rounds), Append(open, m))]

\* Fault: the question is kept whether or not an answer came.
RememberedAlways(c, t, a) ==
    IF a \in {"none", "usage"} THEN Appended(c, Question(t))
    ELSE Appended(Appended(c, Question(t)), Reply(t))

\* A response with a token count and nothing else is empty: the question alone is kept.
Remembered(c, t, a) ==
    CASE a = "none" -> c
      [] a = "usage" -> Appended(c, Question(t))
      [] OTHER -> Appended(Appended(c, Question(t)), Reply(t))

------------------------------------------------------------------------------
(* The turn.                                                                 *)

\* _running.set(): those who waited in post_nowait go on, each of them.
Woken(p) == [t \in Tasks |-> IF p[t] = "held" THEN "woken" ELSE p[t]]

\* The worker, woken from its first wait, goes on to its pause.
WorkerWoken(w) ==
    [w EXCEPT !.at = CASE w.at = "wait" -> "pause" [] w.at = "again" -> "woken" [] OTHER -> w.at]

\* ask: the task is registered, then queued, or sent if nobody is sending; if
\* somebody is, a nowait ask waits and a skipping one gives up.  p, r and free
\* are pc, registered and running when it is called.
Enter(t, m, p, r, free) ==
    LET now == m # "queue" /\ free
    IN /\ mode' = [mode EXCEPT ![t] = m]
       /\ pc' = [p EXCEPT ![t] = CASE m = "queue" -> "queued"
                                   [] now -> "posting"
                                   [] m = "nowait" /\ ~free -> "held"
                                   [] OTHER -> "returned"]
       /\ registered' = IF m = "skip" /\ ~free THEN r ELSE r \union {t}
       /\ queue' = IF m = "queue" THEN Append(queue, t) ELSE queue
       /\ running' = (free /\ ~now)
       /\ post' = IF now THEN [post EXCEPT ![t] = "created"] ELSE post

Ask(t) ==
    /\ pc[t] = "idle"
    /\ \E m \in Modes : Enter(t, m, pc, registered, running)
    /\ UNCHANGED <<retry, answer, result, response, event, cancelled, worker, lost, chat, stopping>>

\* post_nowait, woken: it takes the turn, though another that was woken with it
\* may have it.
TakeTurn(t) ==
    /\ pc[t] = "woken"
    /\ pc' = [pc EXCEPT ![t] = "posting"]
    /\ running' = FALSE
    /\ post' = [post EXCEPT ![t] = "created"]
    /\ UNCHANGED <<mode, retry, answer, result, marks, queue, worker, lost, chat, stopping>>

------------------------------------------------------------------------------
(* The worker.                                                               *)

\* Fault: the turn is taken before the pause.
WorkerGetTakes ==
    /\ worker.at = "get" /\ queue # <<>> /\ running
    /\ worker' = [at |-> "pause", task |-> Head(queue)]
    /\ queue' = Tail(queue)
    /\ running' = FALSE
    /\ UNCHANGED <<asks, requests, marks, lost, chat, stopping>>

WorkerGet ==
    /\ worker.at = "get"
    /\ queue # <<>>
    /\ worker' = [at |-> IF running THEN "pause" ELSE "wait", task |-> Head(queue)]
    /\ queue' = Tail(queue)
    /\ UNCHANGED <<asks, requests, marks, running, lost, chat, stopping>>

\* After a pause that lets asks that do not queue go first.
WorkerWait ==
    /\ worker.at = "pause"
    /\ ~running
    /\ worker' = [worker EXCEPT !.at = "again"]
    /\ UNCHANGED <<asks, requests, marks, queue, running, lost, chat, stopping>>

WorkerSend ==
    /\ worker.at = "woken" \/ (worker.at = "pause" /\ running)
    /\ worker' = [worker EXCEPT !.at = "sending"]
    /\ running' = FALSE
    /\ post' = [post EXCEPT ![worker.task] = "created"]
    /\ UNCHANGED <<asks, result, marks, queue, lost, chat, stopping>>

\* Fault: a request that ends in an exception does not give the turn back.
FreedUnlessRaised(t) == post[t] # "raised"

\* The finally clause: the turn is given back, however the request ended.
Freed(t) == TRUE

WorkerDone ==
    LET t == worker.task
    IN /\ worker.at = "sending"
       /\ post[t] \in {"done", "raised"}
       /\ response' = [response EXCEPT ![t] = result[t]]
       /\ context' = Remembered(context, t, result[t])
       /\ running' = (running \/ Freed(t))
       /\ lost' = (lost /\ ~Freed(t))
       /\ pc' = IF Freed(t) THEN Woken(pc) ELSE pc
       /\ event' = event \union {t}
       /\ worker' = [at |-> "get", task |-> NoTask]
       /\ UNCHANGED <<mode, retry, answer, requests, cancelled, registered, queue, runningTask,
                      firstRetry, stopping>>

------------------------------------------------------------------------------
(* A request.                                                                *)

\* Fault: the question is kept as soon as it is sent.
PostStartKeeps(t) ==
    /\ post[t] = "created" /\ t \notin cancelled
    /\ runningTask' = t
    /\ post' = [post EXCEPT ![t] = IF t \in event THEN "done" ELSE "streaming"]
    /\ context' = Appended(context, Question(t))
    /\ UNCHANGED <<asks, result, marks, turn, firstRetry, stopping>>

PostStart(t) ==
    /\ post[t] = "created"
    /\ t \notin cancelled
    /\ runningTask' = t
    /\ post' = [post EXCEPT ![t] = IF t \in event THEN "done" ELSE "streaming"]
    /\ UNCHANGED <<asks, result, marks, turn, firstRetry, context, stopping>>

\* Cancelled before it has run at all, or while the payload is built.
PostRaises(t) ==
    /\ post[t] = "streaming" \/ (post[t] = "created" /\ t \in cancelled)
    /\ post' = [post EXCEPT ![t] = "raised"]
    /\ UNCHANGED <<asks, result, marks, turn, chat, stopping>>

Returns(t, Outcomes) ==
    /\ post[t] = "streaming"
    /\ post' = [post EXCEPT ![t] = "done"]
    /\ \E a \in Outcomes : result' = [result EXCEPT ![t] = a]
    /\ UNCHANGED <<asks, marks, turn, runningTask, context, stopping>>

\* The stream ends, with an answer or without text.
PostEnd(t) ==
    /\ t \notin cancelled
    /\ Returns(t, {"full", "none"})
    /\ UNCHANGED firstRetry

\* A line of the stream arrives when the event is set: a token count is all that is returned.
PostStopped(t) ==
    /\ t \in event \ cancelled
    /\ Returns(t, {"usage", "none"})
    /\ UNCHANGED firstRetry

\* An error or a cancellation: the token count if there is one, and otherwise
\* the text received so far.
PostFail(t) ==
    /\ Returns(t, {"usage", "partial", "none"})
    /\ firstRetry' = FALSE

\* The time of wait_for around the request is up, or its caller is cancelled there.
PostTimeout(t) ==
    /\ post[t] \in Sending
    /\ cancelled' = cancelled \union {t}
    /\ UNCHANGED <<asks, requests, response, event, registered, turn, chat, stopping>>

------------------------------------------------------------------------------
(* The end of an ask.                                                        *)

\* The first ask of a chat that fails in no way known is asked again, once
\* (bound: while a task is left).
Retries(t, a) == a = "none" /\ firstRetry /\ \E u \in Tasks : pc[u] = "idle"

\* The retry is another ask, made from within this one.
AskAgain(t, p, r, free) ==
    \E u \in Tasks :
       /\ pc[u] = "idle"
       /\ retry' = [retry EXCEPT ![t] = u]
       /\ Enter(u, mode[t], [p EXCEPT ![t] = "retried"], r, free)
       /\ answer' = answer

Return(t, a, p, r, free) ==
    /\ pc' = [p EXCEPT ![t] = "returned"]
    /\ registered' = r \ {t}
    /\ running' = free
    /\ answer' = [answer EXCEPT ![t] = a]
    /\ UNCHANGED <<mode, retry, queue, post>>

\* Fault: a caller that leaves does not cancel its request.
NothingToCancel(t) == {}

\* handle.cancel(): it means something while the request is under way.
ToCancel(t) == IF post[t] \in Sending THEN {t} ELSE {}

\* A queued ask is told, or its time is up, or its caller is cancelled.
AskTold(t) ==
    /\ pc[t] = "queued"
    /\ t \in event
    /\ firstRetry' = FALSE
    /\ IF Retries(t, response[t])
       THEN /\ AskAgain(t, pc, registered, running)
            /\ UNCHANGED cancelled
       ELSE /\ Return(t, response[t], pc, registered, running)
            /\ cancelled' = cancelled \union ToCancel(t)
    /\ UNCHANGED <<result, response, event, worker, lost, runningTask, context, stopping>>

AskEnds(t, a) ==
    /\ pc[t] = "queued"
    /\ Return(t, a, pc, registered, running)
    /\ event' = event \union {t}
    /\ cancelled' = cancelled \union ToCancel(t)
    /\ UNCHANGED <<result, response, worker, lost, chat, stopping>>

AskTimeout(t) == t \notin event /\ AskEnds(t, "none")

AskCancelled(t) == AskEnds(t, "raised")

\* A caller that is cancelled while it waits for the turn leaves its task registered.
WaitCancelled(t) ==
    /\ pc[t] \in {"held", "woken"}
    /\ pc' = [pc EXCEPT ![t] = "returned"]
    /\ answer' = [answer EXCEPT ![t] = "raised"]
    /\ UNCHANGED <<mode, retry, requests, marks, turn, chat, stopping>>

\* An ask that sent for itself gives the turn back and returns, or asks again.
GivesBack(t, a) ==
    /\ worker' = WorkerWoken(worker)
    /\ firstRetry' = FALSE
    /\ lost' = FALSE
    /\ IF Retries(t, a)
       THEN AskAgain(t, Woken(pc), registered \ {t}, TRUE)
       ELSE Return(t, a, Woken(pc), registered \ {t}, TRUE)

\* post_nowait, its request ended: the answer is none if its caller is cancelled
\* at that moment.  Unless the client is kept, or another has closed it, it is
\* closed first.
AskPosted(t) ==
    /\ pc[t] = "posting"
    /\ post[t] \in {"done", "raised"}
    /\ \E a \in {result[t], "none"} :
          /\ context' = Remembered(context, t, a)
          /\ \/ GivesBack(t, a)
             \/ /\ ~KeepAlive
                /\ pc' = [pc EXCEPT ![t] = "closing"]
                /\ answer' = [answer EXCEPT ![t] = a]
                /\ UNCHANGED <<mode, retry, post, registered, turn, firstRetry>>
    /\ UNCHANGED <<result, response, event, cancelled, runningTask, stopping>>

\* The client is closed.
CloseEnds(t) ==
    /\ pc[t] = "closing"
    /\ GivesBack(t, answer[t])
    /\ UNCHANGED <<result, response, event, cancelled, runningTask, context, stopping>>

\* Closing the client raises, or its caller is cancelled there: the ask ends, its
\* task registered, and nobody gives the turn back.
CloseFails(t) ==
    /\ pc[t] = "closing"
    /\ pc' = [pc EXCEPT ![t] = "returned"]
    /\ answer' = [answer EXCEPT ![t] = "raised"]
    /\ lost' = ~running
    /\ UNCHANGED <<mode, retry, requests, marks, queue, running, worker, chat, stopping>>

\* The retry has returned: its answer is the answer.  What a queued ask left
\* behind is cleared up only now.
RetryReturned(t) ==
    /\ pc[t] = "retried"
    /\ pc[retry[t]] = "returned"
    /\ Return(t, answer[retry[t]], pc, registered, running)
    /\ IF mode[t] = "queue"
       THEN /\ event' = event \union {t}
            /\ cancelled' = cancelled \union ToCancel(t)
       ELSE UNCHANGED <<event, cancelled>>
    /\ UNCHANGED <<result, response, worker, lost, chat, stopping>>

------------------------------------------------------------------------------
(* Stopping.                                                                 *)

\* stop_all empties the queue and then goes through the registered tasks.
StopAll ==
    /\ stop.at = "no" /\ stops < MaxStops
    /\ queue' = <<>>
    /\ stop' = [at |-> "next", task |-> NoTask, todo |-> registered, size |-> Cardinality(registered)]
    /\ stops' = stops + 1
    /\ UNCHANGED <<asks, requests, marks, running, worker, lost, chat>>

\* A dictionary that has changed size under the loop ends it with an error.
StopBreaks ==
    /\ stop.at = "next"
    /\ stop.todo = {} \/ Cardinality(registered) # stop.size
    /\ stop' = NoStop
    /\ UNCHANGED <<asks, requests, marks, turn, chat, stops>>

\* stop_from_id sets the event, lets the others run, and cancels the request.
StopNext ==
    /\ stop.at = "next" /\ Cardinality(registered) = stop.size
    /\ \E t \in stop.todo :
          /\ stop' = [stop EXCEPT !.todo = @ \ {t}, !.at = IF t \in event THEN "next" ELSE "yield",
                                  !.task = t]
          /\ event' = event \union {t}
    /\ UNCHANGED <<asks, requests, response, cancelled, registered, turn, chat, stops>>

StopOne ==
    /\ stop.at = "no" /\ stops < MaxStops
    /\ runningTask \in registered \ event
    /\ event' = event \union {runningTask}
    /\ stop' = [NoStop EXCEPT !.at = "yield", !.task = runningTask, !.size = Cardinality(registered)]
    /\ stops' = stops + 1
    /\ UNCHANGED <<asks, requests, response, cancelled, registered, turn, chat>>

StopCancel ==
    /\ stop.at = "yield"
    /\ cancelled' = cancelled \union ToCancel(stop.task)
    /\ stop' = [stop EXCEPT !.at = "next"]
    /\ UNCHANGED <<asks, requests, response, event, registered, turn, chat, stops>>

\* close cancels the worker; one that is sending cancels the request instead,
\* and goes on when that has ended.
Close ==
    /\ stops < MaxStops
    /\ stops' = stops + 1
    /\ IF worker.at = "sending"
       THEN /\ cancelled' = cancelled \union ToCancel(worker.task)
            /\ UNCHANGED worker
       ELSE /\ worker' = [worker EXCEPT !.at = "ended"]
            /\ UNCHANGED cancelled
    /\ UNCHANGED <<asks, requests, response, event, registered, queue, running, lost, chat, stop>>

------------------------------------------------------------------------------
Posting(t) == PostStart(t) \/ PostRaises(t) \/ PostEnd(t) \/ PostStopped(t) \/ PostFail(t)
Ending(t) == AskTold(t) \/ AskPosted(t) \/ CloseEnds(t) \/ RetryReturned(t)
Failing(t) == PostTimeout(t) \/ AskCancelled(t) \/ WaitCancelled(t) \/ CloseFails(t)
Working == WorkerGet \/ WorkerWait \/ WorkerSend \/ WorkerDone
Stopping == StopAll \/ StopBreaks \/ StopNext \/ StopOne \/ StopCancel \/ Close

Next ==
    \/ \E t \in Tasks : Ask(t) \/ TakeTurn(t) \/ Posting(t) \/ Ending(t) \/ AskTimeout(t) \/ Failing(t)
    \/ Working
    \/ Stopping

\* The event loop does not rest while something can run or a time is up.
Progress == Working \/ \E t \in Tasks : TakeTurn(t) \/ Posting(t) \/ Ending(t) \/ AskTimeout(t)
Fairness == WF_vars(Progress)

Spec == Init /\ [][Next]_vars /\ Fairness

------------------------------------------------------------------------------
(* Properties.                                                               *)

Messages == {Question(t) : t \in Tasks} \union {Reply(t) : t \in Tasks}

TypeOK ==
    /\ pc \in [Tasks -> {"idle", "queued", "held", "woken", "posting", "closing", "retried",
                       "returned"}]
    /\ mode \in [Tasks -> {"queue", "nowait", "skip"}]
    /\ retry \in [Tasks -> Tasks \union {NoTask}]
    /\ answer \in [Tasks -> Answers]
    /\ post \in [Tasks -> Sending \union {"none", "done", "raised"}]
    /\ result \in [Tasks -> Texts]
    /\ response \in [Tasks -> Texts]
    /\ event \subseteq Tasks /\ cancelled \subseteq Tasks /\ registered \subseteq Tasks
    /\ queue \in Seq(Tasks)
    /\ running \in BOOLEAN /\ lost \in BOOLEAN /\ firstRetry \in BOOLEAN
    /\ worker.at \in {"get", "wait", "pause", "again", "woken", "sending", "ended"}
    /\ worker.task \in Tasks \union {NoTask}
    /\ runningTask \in Tasks \union {NoTask}
    /\ context.messages \in Seq(Messages) /\ context.rounds \in Seq(Seq(Messages))
    /\ stops \in 0..MaxStops

At(t) == {i \in DOMAIN context.messages : context.messages[i] = Reply(t)}
Asked(t) == {i \in DOMAIN context.messages : context.messages[i] = Question(t)}

\* However requests overlap, an answer in the conversation comes right after
\* the question it answers, and both are there once.
AnswersFollowQuestions ==
    \A t \in Tasks :
       /\ Cardinality(At(t)) <= 1 /\ Cardinality(Asked(t)) <= 1
       /\ \A i \in At(t) : i - 1 \in Asked(t)

\* A caller that was given an answer finds it in the conversation; one that
\* sent for itself and was given nothing left nothing there.
ToldIsRemembered ==
    \A t \in Tasks :
       pc[t] = "returned" /\ retry[t] = NoTask =>
          /\ answer[t] \in {"full", "partial"} => At(t) # {}
          /\ answer[t] = "none" /\ mode[t] # "queue" => Asked(t) = {}

\* What callers were told and the conversation agree.
ConversationAgrees == AnswersFollowQuestions /\ ToldIsRemembered

\* A request that is still going on when nobody waits for it any more has been
\* cancelled.
NoOrphanRequest ==
    \A t \in Tasks : pc[t] = "returned" /\ post[t] = "streaming" => t \in cancelled

\* While the turn is taken, somebody is sending, or closing the client, who will
\* give it back; or else an ask ended with it because that closing failed, which
\* is the one way the turn is lost.
TurnHasHolder ==
    \/ running
    \/ worker.at = "sending"
    \/ \E t \in Tasks : pc[t] \in {"posting", "closing"}
    \/ lost

\* Every ask returns, except one that waits in post_nowait, itself or in its
\* retry, for a turn that is lost for good.
AsksReturn ==
    \A t \in Tasks :
       \/ pc[t] # "idle" ~> pc[t] = "returned"
       \/ <>[](lost /\ pc[t] \in {"held", "retried"})
=============================================================================
