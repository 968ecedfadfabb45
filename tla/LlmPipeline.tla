----------------------------- MODULE LlmPipeline -----------------------------
(* The LLM pipeline (memory/llm_pipeline.py, LLMPipelineV3) and the services *)
(* that call it.  A call of a tool asks up to MaxRetries chats for a JSON    *)
(* object, adds up what they used, and falls back to a local result; how it  *)
(* went is left in two fields of the pipeline, _last_usage and _last_diag,   *)
(* which the caller reads when it has come back to its turn.  All operations *)
(* of an engine share one pipeline; a worker of a split ingest has its own.  *)
(* What a tool returns is the subject of ToolResults.                        *)
(*                                                                           *)
(* An operation is the sequence of tools it calls: <<"clean", "ingest">> for *)
(* an add or an update, <<"clean", "text_chunk">> for a split ingest up to   *)
(* its workers, one tool for a query, a compress, a split or an optimize.    *)
(* Usage is counted in answered calls; tokens are counted the same way.  An  *)
(* operation keeps what it owes: answers it got less answers it recorded.    *)
EXTENDS Integers, Sequences, FiniteSets

CONSTANTS
    Clients,    \* operations that may be in flight together ...
    Workers,    \* ... of which these are split ingest workers
    Programs,   \* sequences of tools
    Cleaning,   \* values enable_cleaning may have
    MaxRetries, \* chats per call
    MaxOps      \* bound: operations started

Tools == {"clean", "ingest", "query", "compress", "bucket_split", "text_chunk",
          "bucket_summary", "optimize"}

ASSUME PipelineConstants ==
    /\ Workers \subseteq Clients /\ "engine" \notin Clients
    /\ Programs \subseteq Seq(Tools) \ {<<>>}
    /\ Cleaning \subseteq BOOLEAN /\ MaxRetries \in Nat \ {0} /\ MaxOps \in Nat

VARIABLES
    cleaning, \* enable_cleaning
    usage,  \* _last_usage of every pipeline
    diag,   \* _last_diag of every pipeline
    call,   \* the operation of every client
    inUse,  \* clients between a call on the pipeline and its last look at it (history)
    ops

vars == <<cleaning, usage, diag, call, inUse, ops>>

Pipes == {"engine"} \cup Workers
Outcomes == {"none", "parsed", "text", "failed", "overflow"}
\* Tools that may answer locally and leave no mark of it.
Silent == {"bucket_split", "text_chunk"}
Calling == {"ask", "close"}
Reading == {"usage", "diag", "check"}

\* parse_failed, precheck_failed and the reason go with the stage.
Clear == [degraded |-> FALSE, stage |-> ""]
Fallback(stage) == [degraded |-> TRUE, stage |-> stage]
Idle == [todo |-> <<>>, pc |-> "idle", tries |-> 0, acc |-> 0, out |-> "none",
         local |-> FALSE, retried |-> FALSE, owed |-> 0, shared |-> FALSE]

\* Of an operation that ended, only what it still owes is kept.
Ended(k) == [Idle EXCEPT !.owed = k.owed, !.shared = k.shared]

\* And of one that goes on, what its first call came to is forgotten.
Onward(k, todo) ==
    IF todo = <<>> THEN Ended(k)
    ELSE [k EXCEPT !.pc = "call", !.todo = todo, !.out = "none", !.local = FALSE]

\* What it owes is only kept of an operation that has its pipeline to itself.
Owing(k, n) == IF k.shared THEN k ELSE [k EXCEPT !.owed = @ + n]
Shared(k) == [k EXCEPT !.shared = TRUE, !.owed = 0]

Tool(c) == Head(call[c].todo)
Pipe(c) == IF c \in Workers /\ Tool(c) = "ingest" THEN c ELSE "engine"

Init ==
    /\ usage = [p \in Pipes |-> 0] /\ diag = [p \in Pipes |-> Clear]
    /\ call = [c \in Clients |-> Idle] /\ inUse = [p \in Pipes |-> {}]
    /\ ops = 0 /\ cleaning \in Cleaning

-----------------------------------------------------------------------------
Begin(c) ==
    /\ call[c].pc = "idle" /\ ops < MaxOps /\ ops' = ops + 1
    /\ \E p \in IF c \in Workers THEN {<<"ingest">>} ELSE Programs :
          call' = [call EXCEPT ![c] = [Idle EXCEPT !.todo = p, !.pc = "call"]]
    /\ UNCHANGED <<cleaning, usage, diag, inUse>>

\* Whoever calls a pipeline while another still has to look at its fields
\* shares them with it.
Enter(c, k) ==
    LET others == inUse[Pipe(c)] \ {c} IN
    /\ inUse' = [inUse EXCEPT ![Pipe(c)] = @ \cup {c}]
    /\ call' = [d \in Clients |->
          IF d \in others THEN Shared(call[d])
          ELSE IF d # c THEN call[d] ELSE IF others # {} THEN Shared(k) ELSE k]

\* Cleaning that is switched off touches neither field.
CallNothing(c) ==
    /\ call[c].pc = "call" /\ Tool(c) = "clean" /\ ~cleaning
    /\ Enter(c, [call[c] EXCEPT !.pc = "usage", !.local = FALSE, !.out = "none"])
    /\ UNCHANGED <<cleaning, usage, diag, ops>>

\* No usable preset or no prompt: the fallback at once.
Precheck(c) ==
    /\ call[c].pc = "call" /\ (Tool(c) = "clean" => cleaning)
    /\ Enter(c, [call[c] EXCEPT !.pc = "usage", !.local = TRUE, !.out = "none"])
    /\ usage' = [usage EXCEPT ![Pipe(c)] = 0]
    /\ diag' = [diag EXCEPT ![Pipe(c)] = Fallback("precheck")]
    /\ UNCHANGED <<cleaning, ops>>

FirstAsk(c) ==
    /\ call[c].pc = "call" /\ (Tool(c) = "clean" => cleaning)
    /\ Enter(c, [call[c] EXCEPT !.pc = "ask", !.tries = 1])
    /\ diag' = [diag EXCEPT ![Pipe(c)] = Clear]
    /\ UNCHANGED <<cleaning, usage, ops>>

\* The chat answers (with a JSON object or not), fails, or says that the
\* context is too long; it is closed in every case.
AskReturns(c, out) ==
    LET n == IF out \in {"parsed", "text"} THEN 1 ELSE 0 IN
    /\ call[c].pc = "ask"
    /\ call' = [call EXCEPT ![c] =
          [Owing(call[c], n) EXCEPT !.pc = "close", !.acc = call[c].acc + n, !.out = out]]
    /\ usage' = IF out = "parsed" THEN [usage EXCEPT ![Pipe(c)] = call[c].acc + n] ELSE usage
    /\ diag' = IF out = "overflow" THEN [diag EXCEPT ![Pipe(c)].stage = "overflow"] ELSE diag
    /\ UNCHANGED <<cleaning, inUse, ops>>

\* Fault: an attempt forgets what those before it used.
AskAgainAnew(c) ==
    /\ call[c].pc = "close" /\ call[c].out \in {"text", "failed"}
    /\ call[c].tries < MaxRetries
    /\ call' = [call EXCEPT ![c].pc = "ask", ![c].tries = @ + 1, ![c].acc = 0]
    /\ UNCHANGED <<cleaning, usage, diag, inUse, ops>>

\* Fault: the attempts are not counted.
AskAgainForever(c) ==
    /\ call[c].pc = "close" /\ call[c].out \in {"text", "failed"}
    /\ call' = [call EXCEPT ![c].pc = "ask"]
    /\ UNCHANGED <<cleaning, usage, diag, inUse, ops>>

AskAgain(c) ==
    /\ call[c].pc = "close" /\ call[c].out \in {"text", "failed"}
    /\ call[c].tries < MaxRetries
    /\ call' = [call EXCEPT ![c].pc = "ask", ![c].tries = @ + 1]
    /\ UNCHANGED <<cleaning, usage, diag, inUse, ops>>

\* Back at the caller, with an LLM's result or a local one.
Asked(k, local) == [k EXCEPT !.pc = "usage", !.local = local, !.tries = 0, !.acc = 0]

\* A parsed answer is normalised, or replaced by a local result when nothing in
\* it is of use: an empty object, a query's matches or a text's chunks that come
\* to nothing.  A plan of groups or of lines may be replaced unmarked.
Normalise(c) ==
    /\ call[c].pc = "close" /\ call[c].out = "parsed"
    /\ \E result \in {"llm", "marked"} \cup IF Tool(c) \in Silent THEN {"silent"} ELSE {} :
          /\ call' = [call EXCEPT ![c] = Asked(call[c], result # "llm")]
          /\ diag' = [diag EXCEPT ![Pipe(c)] = [degraded |-> result = "marked", stage |-> ""]]
    /\ UNCHANGED <<cleaning, usage, inUse, ops>>

OutOfTries(c) ==
    \/ call[c].out = "overflow"
    \/ call[c].out \in {"text", "failed"} /\ call[c].tries = MaxRetries

\* Fault: the overflow is taken for one more failed parse.
GiveUpParse(c) ==
    LET p == Pipe(c) IN
    /\ call[c].pc = "close"
    /\ OutOfTries(c)
    /\ usage' = [usage EXCEPT ![p] = call[c].acc]
    /\ diag' = [diag EXCEPT ![p] = Fallback("parse")]
    /\ call' = [call EXCEPT ![c] = Asked(call[c], TRUE)]
    /\ UNCHANGED <<cleaning, inUse, ops>>

\* An overflow ends the attempts; so does the last of them.  Which of the two
\* it was is read back from the shared field.
GiveUp(c) ==
    LET p == Pipe(c) IN
    /\ call[c].pc = "close"
    /\ OutOfTries(c)
    /\ usage' = [usage EXCEPT ![p] = call[c].acc]
    /\ diag' = [diag EXCEPT ![p] =
          Fallback(IF @.stage = "overflow" THEN "overflow" ELSE "parse")]
    /\ call' = [call EXCEPT ![c] = Asked(call[c], TRUE)]
    /\ UNCHANGED <<cleaning, inUse, ops>>

-----------------------------------------------------------------------------
\* An answer whose aliases are refused is not recorded and ends the operation,
\* but for that of a compress before an ingest, which is tried all the same.
\* Clean and text_chunk send no aliases, a query skips those it does not know.
RestoreFails(c) ==
    LET k == Owing(call[c], -usage[Pipe(c)]) IN
    /\ call[c].pc = "usage" /\ Tool(c) \notin {"clean", "text_chunk", "query"}
    /\ call' = [call EXCEPT ![c] =
          IF Tool(c) = "compress" THEN Onward(k, Tail(k.todo)) ELSE Ended(k)]
    /\ inUse' = [inUse EXCEPT ![Pipe(c)] = @ \ {c}]
    /\ UNCHANGED <<cleaning, usage, diag, ops>>

\* An ingest that overflowed is tried once more; a worker leaves that to its job.
Again(c, overflow) ==
    Tool(c) = "ingest" /\ overflow /\ ~call[c].retried /\ c \notin Workers

\* The next tool: before a second ingest the bucket is compressed, when there is
\* anything in it to compress, and a rejected clean is the end.
Rest(c, overflow) ==
    IF Again(c, overflow) THEN {<<"compress", "ingest">>, <<"ingest">>}
    ELSE {Tail(call[c].todo)} \cup IF Tool(c) = "clean" THEN {<<>>} ELSE {}

Continue(c, k, overflow) ==
    /\ \E todo \in Rest(c, overflow) :
          call' = [call EXCEPT ![c] =
             Onward([k EXCEPT !.retried = @ \/ Again(c, overflow)], todo)]
    /\ inUse' = [inUse EXCEPT ![Pipe(c)] = @ \ {c}]

\* A query looks at both fields at once ...
RecordAll(c) ==
    LET p == Pipe(c) IN
    /\ call[c].pc = "usage" /\ Tool(c) = "query"
    /\ Continue(c, Owing(call[c], -usage[p]), diag[p].stage = "overflow")
    /\ UNCHANGED <<cleaning, usage, diag, ops>>

\* ... every other caller at one after the other, with a task of the storage
\* thread between them that adds up the counters.
RecordUsage(c) ==
    /\ call[c].pc = "usage" /\ Tool(c) # "query"
    /\ call' = [call EXCEPT ![c] = [Owing(call[c], -usage[Pipe(c)]) EXCEPT !.pc = "diag"]]
    /\ UNCHANGED <<cleaning, usage, diag, inUse, ops>>

RecordDiag(c) ==
    /\ call[c].pc = "diag"
    /\ call' = [call EXCEPT ![c].pc = "check"]
    /\ UNCHANGED <<cleaning, usage, diag, inUse, ops>>

Check(c) ==
    /\ call[c].pc = "check"
    /\ Continue(c, call[c], diag[Pipe(c)].stage = "overflow")
    /\ UNCHANGED <<cleaning, usage, diag, ops>>

Steps(c) ==
    \/ CallNothing(c) \/ Precheck(c) \/ FirstAsk(c)
    \/ \E out \in Outcomes \ {"none"} : AskReturns(c, out)
    \/ AskAgain(c) \/ Normalise(c) \/ GiveUp(c)
    \/ RestoreFails(c) \/ RecordAll(c) \/ RecordUsage(c) \/ RecordDiag(c) \/ Check(c)

Next == \E c \in Clients : Begin(c) \/ Steps(c)

Fairness == \A c \in Clients : WF_vars(Steps(c))
Spec == Init /\ [][Next]_vars /\ Fairness

-----------------------------------------------------------------------------
TypeOK ==
    /\ cleaning \in BOOLEAN /\ usage \in [Pipes -> 0..MaxRetries]
    /\ \A p \in Pipes : inUse[p] \subseteq Clients
    /\ \A c \in Clients :
          /\ call[c].pc \in {"idle", "call"} \cup Calling \cup Reading
          /\ call[c].tries \in 0..MaxRetries /\ call[c].acc \in 0..call[c].tries
          /\ call[c].out \in Outcomes
          /\ call[c].pc # "idle" => (c \in inUse[Pipe(c)]) = (call[c].pc \in Calling \cup Reading)

\* An operation that had its pipeline to itself, with cleaning switched on, has
\* recorded exactly the answers it got, those of attempts that led nowhere
\* included, but for those of a call whose aliases were refused (engine_runtime.py:
\* record_llm_usage reads last_usage after the call returned).
CountedUnlessShared ==
    \A c \in Clients :
        cleaning /\ call[c].pc = "idle" /\ ~call[c].shared => call[c].owed = 0

\* While it still has to look, such an operation finds how its own call went
\* (ingest_service.py retries and optimize_service.py labels by it): what is
\* marked degraded is a local result, an overflow is an overflow, and a local
\* result of a tool that is not among the Silent ones is marked.
DiagnosesOwn ==
    \A c \in Clients :
        call[c].pc \in Reading /\ ~call[c].shared /\ (cleaning \/ Tool(c) # "clean") =>
            /\ diag[Pipe(c)].degraded => call[c].local
            /\ Tool(c) \notin Silent /\ call[c].local => diag[Pipe(c)].degraded
            /\ (diag[Pipe(c)].stage = "overflow") = (call[c].out = "overflow")

\* An operation's answers are recorded once each, whoever else is running and
\* whatever is switched off.
AnswersCounted ==
    \A c \in Clients :
        call[c].pc = "idle" => call[c].owed = 0

\* Every operation ends: attempts are bounded, and so are the second tries
\* after an overflow.
OperationsReturn == \A c \in Clients : call[c].pc # "idle" ~> call[c].pc = "idle"
=============================================================================
