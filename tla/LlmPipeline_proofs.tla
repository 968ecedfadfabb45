-------------------------- MODULE LlmPipeline_proofs --------------------------
(* An operation that has its pipeline to itself finds there what its own     *)
(* call left, for any number of clients, workers, tools and attempts.        *)
EXTENDS LlmPipeline, TLAPS

Calls == [todo : Seq(Tools), pc : {"idle", "call"} \cup Calling \cup Reading,
          tries : Nat, acc : Int, out : Outcomes, local : BOOLEAN,
          retried : BOOLEAN, owed : Int, shared : BOOLEAN]
Diags == [degraded : BOOLEAN, stage : {"", "precheck", "parse", "overflow"}]

Types ==
    /\ cleaning \in BOOLEAN /\ usage \in [Pipes -> Int] /\ diag \in [Pipes -> Diags]
    /\ call \in [Clients -> Calls] /\ inUse \in [Pipes -> SUBSET Clients]

\* Who is between a call and the last look at its pipeline.
UsersKnown ==
    \A c \in Clients, p \in Pipes :
       c \in inUse[p] <=> (p = Pipe(c) /\ call[c].pc \in Calling \cup Reading)

\* Two who are there at a time know that they share.
SharersKnow ==
    \A p \in Pipes : \A c, d \in inUse[p] : c # d => call[c].shared

\* The diagnosis g tells how a call k went.
Tells(k, g) ==
    /\ g.degraded => k.local
    /\ Head(k.todo) \notin Silent /\ k.local => g.degraded
    /\ (g.stage = "overflow") = (k.out = "overflow")

\* What a call k finds in its pipeline: u used, and the diagnosis g.
Finds(k, u, g) ==
    /\ k.pc = "ask" => ~g.degraded /\ g.stage # "overflow"
    /\ k.pc = "close" => ~g.degraded /\ (g.stage = "overflow" <=> k.out = "overflow")
    /\ k.pc \in Reading /\ (cleaning \/ Head(k.todo) # "clean") => Tells(k, g)
    /\ cleaning =>
          /\ k.pc = "call" => k.owed = 0 /\ k.acc = 0
          /\ k.pc \in Calling => k.owed = k.acc
          /\ k.pc = "close" /\ k.out = "parsed" => u = k.acc
          /\ k.pc \in Reading => k.acc = 0
          /\ k.pc = "usage" => k.owed = u
          /\ k.pc \in {"diag", "check"} => k.owed = 0
          /\ k.pc = "idle" => k.owed = 0

OthersKeepOut ==
    \A c \in Clients : ~call[c].shared => Finds(call[c], usage[Pipe(c)], diag[Pipe(c)])

\* Whoever is at work has a tool to call.
Busy == \A c \in Clients : call[c].pc # "idle" => call[c].todo # <<>>

IInv == Types /\ Busy /\ UsersKnown /\ SharersKnow /\ OthersKeepOut

----------------------------------------------------------------------------
\* At the beginning nobody is there.
LEMMA InitIInv == Init => IInv
<1> SUFFICES ASSUME Init PROVE IInv
    OBVIOUS
<1> USE DEF Init
<1>1. Idle \in Calls /\ Clear \in Diags
    <2>1. <<>> \in Seq(Tools) /\ "none" \in Outcomes /\ "idle" \in {"idle", "call"} \cup Calling \cup Reading
        BY DEF Outcomes
    <2>2. Clear \in Diags
        BY DEF Clear, Diags
    <2>3. Idle \in Calls
        BY <2>1 DEF Idle, Calls
    <2> QED BY <2>2, <2>3
<1>2. Types
    BY <1>1, PipelineConstants DEF Types, PipelineConstants
<1>3. \A c \in Clients : call[c].pc = "idle" /\ call[c].owed = 0
    BY DEF Idle
<1>4. Busy /\ UsersKnown /\ SharersKnow
    BY <1>3 DEF Busy, UsersKnown, SharersKnow, Calling, Reading
<1>5. OthersKeepOut
    BY <1>3 DEF OthersKeepOut, Finds, Calling, Reading
<1> QED BY <1>2, <1>4, <1>5 DEF IInv

\* The pipeline of a client is one.
LEMMA PipeIsPipe == \A c \in Clients : Pipe(c) \in Pipes
BY DEF Pipe, Pipes

\* What is to be found before an answer, after it, and back at the caller.
LEMMA FindsAsk ==
    ASSUME NEW k, NEW u, NEW g, k.pc = "ask", ~g.degraded, g.stage # "overflow",
           cleaning => k.owed = k.acc
    PROVE  Finds(k, u, g)
BY DEF Finds, Calling, Reading

LEMMA FindsClose ==
    ASSUME NEW k, NEW u, NEW g, k.pc = "close", ~g.degraded,
           g.stage = "overflow" <=> k.out = "overflow",
           cleaning => k.owed = k.acc, cleaning /\ k.out = "parsed" => u = k.acc
    PROVE  Finds(k, u, g)
BY DEF Finds, Calling, Reading

LEMMA FindsUsage ==
    ASSUME NEW k, NEW u, NEW g, k.pc = "usage", Tells(k, g),
           cleaning => k.acc = 0 /\ k.owed = u
    PROVE  Finds(k, u, g)
BY DEF Finds, Calling, Reading

\* A step of c, which is in its pipeline and stays or leaves.
LEMMA InsideKeeps ==
    ASSUME IInv, NEW c \in Clients, call[c].pc \in Calling \cup Reading,
           NEW k \in Calls, call' = [call EXCEPT ![c] = k], cleaning' = cleaning,
           usage' \in [Pipes -> Int], diag' \in [Pipes -> Diags],
           \A p \in Pipes \ {Pipe(c)} : usage'[p] = usage[p] /\ diag'[p] = diag[p],
           \/ k.pc \in Calling \cup Reading /\ k.todo = call[c].todo /\ inUse' = inUse
           \/ k.pc \in {"idle", "call"} /\ inUse' = [inUse EXCEPT ![Pipe(c)] = @ \ {c}],
           k.shared = call[c].shared, k.pc = "call" => k.todo # <<>>,
           ~k.shared => Finds(k, usage'[Pipe(c)], diag'[Pipe(c)])
    PROVE  IInv'
<1>0. Types /\ Busy /\ UsersKnown /\ SharersKnow /\ OthersKeepOut
    BY DEF IInv
<1>1. /\ \A d \in Clients \ {c} : call'[d] = call[d] /\ Pipe(d)' = Pipe(d)
      /\ call'[c] = k
      /\ k.pc \in Calling \cup Reading => Pipe(c)' = Pipe(c)
    <2>1. call'[c] = k /\ \A d \in Clients \ {c} : call'[d] = call[d]
        BY <1>0 DEF Types
    <2>2. \A d \in Clients \ {c} : Pipe(d)' = Pipe(d)
        BY <2>1 DEF Pipe, Tool
    <2>3. ASSUME k.pc \in Calling \cup Reading PROVE Pipe(c)' = Pipe(c)
        <3>1. k.todo = call[c].todo
            BY <2>3 DEF Calling, Reading
        <3> QED BY <2>1, <3>1 DEF Pipe, Tool
    <2> QED BY <2>1, <2>2, <2>3
<1>2. Types'
    BY <1>0, PipeIsPipe DEF Types
<1>3. UsersKnown'
    BY <1>0, <1>1, PipeIsPipe DEF UsersKnown, Types, Calling, Reading
<1>4. SharersKnow'
    <2>1. \A p \in Pipes : inUse'[p] \subseteq inUse[p] /\ inUse[p] \subseteq Clients
        BY <1>0, PipeIsPipe DEF Types
    <2>2. \A d \in Clients : call'[d].shared = call[d].shared
        BY <1>1
    <2> QED BY <1>0, <2>1, <2>2 DEF SharersKnow
<1>5. ASSUME NEW d \in Clients \ {c}, ~call[d].shared
      PROVE  Finds(call[d], usage'[Pipe(d)], diag'[Pipe(d)])
    <2>1. Finds(call[d], usage[Pipe(d)], diag[Pipe(d)])
        BY <1>0, <1>5 DEF OthersKeepOut
    <2>2. CASE Pipe(d) # Pipe(c)
        BY <2>1, <2>2, PipeIsPipe
    <2>3. CASE Pipe(d) = Pipe(c)
        <3>1. call[d].pc \notin Calling \cup Reading
            BY <1>0, <1>5, <2>3, PipeIsPipe DEF UsersKnown, SharersKnow
        <3> QED BY <2>1, <3>1 DEF Finds, Calling, Reading
    <2> QED BY <2>2, <2>3
<1>6. ~k.shared => Finds(k, usage'[Pipe(c)'], diag'[Pipe(c)'])
    <2>1. CASE k.pc \in Calling \cup Reading
        BY <1>1, <2>1
    <2>2. CASE k.pc \in {"idle", "call"}
        BY <2>2 DEF Finds, Calling, Reading
    <2> QED BY <2>1, <2>2 DEF Calls
<1>7. OthersKeepOut'
    BY <1>1, <1>5, <1>6 DEF OthersKeepOut, Finds
<1>8. Busy'
    BY <1>0, <1>1 DEF Busy, Calling, Reading
<1> QED BY <1>2, <1>3, <1>4, <1>7, <1>8 DEF IInv

\* A call that is shared is a call still, and knows.
LEMMA SharedIsCall ==
    ASSUME NEW r \in Calls
    PROVE  /\ Shared(r) \in Calls /\ Shared(r).shared
           /\ Shared(r).pc = r.pc /\ Shared(r).todo = r.todo
<1>1. Shared(r).shared
    BY DEF Calls, Shared
<1>2. Shared(r).pc = r.pc /\ Shared(r).todo = r.todo
    BY DEF Calls, Shared
<1>3. 0 \in Int /\ TRUE \in BOOLEAN
    OBVIOUS
<1>4. Shared(r) \in Calls
    BY <1>3 DEF Calls, Shared
<1> QED BY <1>1, <1>2, <1>4

\* c comes to its pipeline; whoever is there shares it from now on.
LEMMA EnterKeeps ==
    ASSUME IInv, NEW c \in Clients, call[c].pc = "call",
           NEW k \in Calls, Enter(c, k), cleaning' = cleaning,
           usage' \in [Pipes -> Int], diag' \in [Pipes -> Diags],
           \A p \in Pipes \ {Pipe(c)} : usage'[p] = usage[p] /\ diag'[p] = diag[p],
           k.pc \in Calling \cup Reading, k.todo = call[c].todo, k.shared = call[c].shared,
           ~k.shared => Finds(k, usage'[Pipe(c)], diag'[Pipe(c)])
    PROVE  IInv'
<1> DEFINE others == inUse[Pipe(c)] \ {c}
<1>0. Types /\ Busy /\ UsersKnown /\ SharersKnow /\ OthersKeepOut
    BY DEF IInv
<1>1. /\ inUse' = [inUse EXCEPT ![Pipe(c)] = @ \cup {c}]
      /\ call' = [d \in Clients |->
            IF d \in others THEN Shared(call[d])
            ELSE IF d # c THEN call[d] ELSE IF others # {} THEN Shared(k) ELSE k]
    BY DEF Enter
<1>2. others \subseteq Clients /\ c \notin others
    BY <1>0, PipeIsPipe DEF Types
<1>3. ASSUME NEW r \in Calls
      PROVE  /\ Shared(r) \in Calls /\ Shared(r).shared
             /\ Shared(r).pc = r.pc /\ Shared(r).todo = r.todo
    BY SharedIsCall
<1> HIDE DEF others
<1>4. /\ call'[c] = k \/ (others # {} /\ call'[c] = Shared(k))
      /\ others # {} => call'[c].shared
      /\ others = {} => call'[c] = k
      /\ \A d \in others : call'[d] = Shared(call[d])
      /\ \A d \in Clients \ (others \cup {c}) : call'[d] = call[d]
    BY <1>1, <1>2, <1>3
<1>5. \A d \in Clients \ {c} : call'[d].pc = call[d].pc /\ call'[d].todo = call[d].todo
    BY <1>0, <1>2, <1>3, <1>4 DEF Types
<1>6. call'[c].pc = k.pc /\ call'[c].todo = call[c].todo
    BY <1>3, <1>4
<1>7. \A d \in Clients : Pipe(d)' = Pipe(d)
    BY <1>5, <1>6 DEF Pipe, Tool
<1>8. Types'
    <2>1. call' \in [Clients -> Calls]
        BY <1>0, <1>1, <1>3 DEF Types
    <2> QED BY <1>0, <1>1, <2>1, PipeIsPipe DEF Types
<1>9. UsersKnown'
    BY <1>0, <1>1, <1>5, <1>6, <1>7, PipeIsPipe DEF UsersKnown, Types
<1>10. SharersKnow'
    <2> SUFFICES ASSUME NEW p \in Pipes, NEW a \in inUse'[p], NEW b \in inUse'[p], a # b
                 PROVE  call'[a].shared
        BY DEF SharersKnow
    <2>1. CASE p = Pipe(c)
        <3>1. a \in others \cup {c} /\ b \in others \cup {c}
            BY <1>0, <1>1, <2>1 DEF Types, others
        <3>2. a = c => others # {}
            BY <3>1
        <3>3. a # c => call'[a].shared
            BY <1>0, <1>2, <1>3, <1>4, <3>1 DEF Types
        <3> QED BY <1>4, <3>2, <3>3
    <2>2. CASE p # Pipe(c)
        <3>1. a \in inUse[p] /\ b \in inUse[p]
            BY <1>0, <1>1, <2>2 DEF Types
        <3>2. a \in Clients /\ a # c /\ call[a].shared
            BY <1>0, <3>1 DEF Types, SharersKnow, UsersKnown, Calling, Reading
        <3> QED BY <1>0, <1>3, <1>4, <3>2 DEF Types
    <2> QED BY <2>1, <2>2
<1>11. OthersKeepOut'
    <2>1. ASSUME NEW d \in Clients \ {c}, ~call'[d].shared
          PROVE  Finds(call'[d], usage'[Pipe(d)], diag'[Pipe(d)])
        <3>1. d \notin others /\ call'[d] = call[d]
            BY <1>0, <1>3, <1>4, <2>1 DEF Types
        <3>2. Finds(call[d], usage[Pipe(d)], diag[Pipe(d)])
            BY <1>0, <2>1, <3>1 DEF OthersKeepOut
        <3>3. CASE Pipe(d) # Pipe(c)
            BY <3>1, <3>2, <3>3, PipeIsPipe
        <3>4. CASE Pipe(d) = Pipe(c)
            <4>1. call[d].pc \notin Calling \cup Reading
                BY <1>0, <3>1, <3>4, PipeIsPipe DEF UsersKnown, others
            <4> QED BY <3>1, <3>2, <4>1 DEF Finds, Calling, Reading
        <3> QED BY <3>3, <3>4
    <2>2. ~call'[c].shared => Finds(call'[c], usage'[Pipe(c)], diag'[Pipe(c)])
        BY <1>4
    <2> QED BY <1>7, <2>1, <2>2 DEF OthersKeepOut, Finds
<1>12. Busy'
    BY <1>0, <1>5, <1>6 DEF Busy
<1> QED BY <1>12, <1>8, <1>9, <1>10, <1>11 DEF IInv

\* A call begins: with nothing to do, refused at once, or with a first chat.
LEMMA CallKeeps ==
    ASSUME IInv, NEW c \in Clients, CallNothing(c) \/ Precheck(c) \/ FirstAsk(c)
    PROVE  IInv'
<1> DEFINE p == Pipe(c)
<1>0. Types /\ OthersKeepOut /\ p \in Pipes /\ call[c] \in Calls /\ call[c].pc = "call"
    BY PipeIsPipe DEF IInv, Types, CallNothing, Precheck, FirstAsk
<1>1. ~call[c].shared /\ cleaning => call[c].owed = 0 /\ call[c].acc = 0
    BY <1>0 DEF OthersKeepOut, Finds
<1>2. CASE CallNothing(c)
    <2> DEFINE k == [call[c] EXCEPT !.pc = "usage", !.local = FALSE, !.out = "none"]
    <2>1. /\ k \in Calls /\ k.pc = "usage" /\ k.todo = call[c].todo /\ k.shared = call[c].shared
          /\ k.acc = call[c].acc /\ k.owed = call[c].owed
        BY <1>0 DEF Calls, Reading, Outcomes
    <2>2. /\ Enter(c, k) /\ cleaning' = cleaning /\ usage' = usage /\ diag' = diag
          /\ ~cleaning /\ Head(call[c].todo) = "clean"
        BY <1>2 DEF CallNothing, Tool
    <2> HIDE DEF k
    <2>3. Finds(k, usage'[p], diag'[p])
        BY <2>1, <2>2 DEF Finds, Calling, Reading
    <2> QED BY <1>0, <2>1, <2>2, <2>3, EnterKeeps DEF Types, Reading
<1>3. CASE Precheck(c)
    <2> DEFINE k == [call[c] EXCEPT !.pc = "usage", !.local = TRUE, !.out = "none"]
    <2>1. /\ k \in Calls /\ k.pc = "usage" /\ k.todo = call[c].todo /\ k.shared = call[c].shared
          /\ k.acc = call[c].acc /\ k.owed = call[c].owed /\ k.local = TRUE /\ k.out = "none"
        BY <1>0 DEF Calls, Reading, Outcomes
    <2>2. /\ Enter(c, k) /\ cleaning' = cleaning /\ usage' = [usage EXCEPT ![p] = 0]
          /\ diag' = [diag EXCEPT ![p] = Fallback("precheck")]
        BY <1>3 DEF Precheck
    <2> HIDE DEF k
    <2>3. /\ usage' \in [Pipes -> Int] /\ diag' \in [Pipes -> Diags]
          /\ usage'[p] = 0 /\ diag'[p].degraded = TRUE /\ diag'[p].stage = "precheck"
          /\ \A q \in Pipes \ {p} : usage'[q] = usage[q] /\ diag'[q] = diag[q]
        <3>1. /\ Fallback("precheck") \in Diags /\ Fallback("precheck").degraded = TRUE
              /\ Fallback("precheck").stage = "precheck"
            BY DEF Fallback, Diags
        <3> QED BY <1>0, <2>2, <3>1 DEF Types
    <2>4. Tells(k, diag'[p])
        BY <2>1, <2>3 DEF Tells
    <2>5. ~k.shared => Finds(k, usage'[p], diag'[p])
        BY <1>1, <2>1, <2>2, <2>3, <2>4, FindsUsage
    <2> QED BY <1>0, <2>1, <2>2, <2>3, <2>5, EnterKeeps DEF Reading
<1>4. CASE FirstAsk(c)
    <2> DEFINE k == [call[c] EXCEPT !.pc = "ask", !.tries = 1]
    <2>1. /\ k \in Calls /\ k.pc = "ask" /\ k.todo = call[c].todo /\ k.shared = call[c].shared
          /\ k.acc = call[c].acc /\ k.owed = call[c].owed
        BY <1>0 DEF Calls, Calling
    <2>2. /\ Enter(c, k) /\ cleaning' = cleaning /\ usage' = usage
          /\ diag' = [diag EXCEPT ![p] = Clear]
        BY <1>4 DEF FirstAsk
    <2> HIDE DEF k
    <2>3. /\ usage' \in [Pipes -> Int] /\ diag' \in [Pipes -> Diags]
          /\ ~diag'[p].degraded /\ diag'[p].stage # "overflow"
          /\ \A q \in Pipes \ {p} : usage'[q] = usage[q] /\ diag'[q] = diag[q]
        <3>1. Clear \in Diags /\ ~Clear.degraded /\ Clear.stage # "overflow"
            BY DEF Clear, Diags
        <3> QED BY <1>0, <2>2, <3>1 DEF Types
    <2>4. ~k.shared => Finds(k, usage'[p], diag'[p])
        BY <1>1, <2>1, <2>2, <2>3, FindsAsk
    <2> QED BY <1>0, <2>1, <2>2, <2>3, <2>4, EnterKeeps DEF Calling
<1> QED BY <1>2, <1>3, <1>4

\* What an operation owes changes; nothing else of it does.
LEMMA OwingIsCall ==
    ASSUME NEW r \in Calls, NEW n \in Int
    PROVE  /\ Owing(r, n) \in Calls /\ Owing(r, n).shared = r.shared
           /\ Owing(r, n).pc = r.pc /\ Owing(r, n).todo = r.todo
           /\ Owing(r, n).acc = r.acc /\ Owing(r, n).out = r.out
           /\ Owing(r, n).local = r.local
           /\ ~r.shared => Owing(r, n).owed = r.owed + n
<1>1. CASE r.shared
    BY <1>1 DEF Owing
<1>2. CASE ~r.shared
    <2>1. r.owed + n \in Int
        BY DEF Calls
    <2>2. Owing(r, n) = [r EXCEPT !.owed = r.owed + n]
        BY <1>2 DEF Owing
    <2> QED BY <2>1, <2>2 DEF Calls
<1> QED BY <1>1, <1>2

\* The chat answers, fails or is told that the context is too long.
LEMMA AskReturnsKeeps ==
    ASSUME IInv, NEW c \in Clients, NEW out \in Outcomes \ {"none"}, AskReturns(c, out)
    PROVE  IInv'
<1> DEFINE p == Pipe(c)
           n == IF out \in {"parsed", "text"} THEN 1 ELSE 0
           o == Owing(call[c], n)
           k == [o EXCEPT !.pc = "close", !.acc = call[c].acc + n, !.out = out]
<1>0. Types /\ OthersKeepOut /\ p \in Pipes /\ call[c] \in Calls /\ call[c].pc = "ask"
    BY PipeIsPipe DEF IInv, Types, AskReturns
<1>1. n \in Int
    OBVIOUS
<1>2. /\ call' = [call EXCEPT ![c] = k] /\ cleaning' = cleaning /\ inUse' = inUse
      /\ usage' = IF out = "parsed" THEN [usage EXCEPT ![p] = call[c].acc + n] ELSE usage
      /\ diag' = IF out = "overflow" THEN [diag EXCEPT ![p].stage = "overflow"] ELSE diag
    BY DEF AskReturns
<1> HIDE DEF n
<1>3. /\ k \in Calls /\ k.pc = "close" /\ k.todo = call[c].todo /\ k.shared = call[c].shared
      /\ k.acc = call[c].acc + n /\ k.out = out
      /\ ~k.shared => k.owed = call[c].owed + n
    <2>1. /\ o \in Calls /\ o.shared = call[c].shared /\ o.todo = call[c].todo
          /\ o.acc = call[c].acc
          /\ ~call[c].shared => o.owed = call[c].owed + n
        BY <1>0, <1>1, OwingIsCall
    <2> HIDE DEF o
    <2>2. call[c].acc + n \in Int
        BY <1>0, <1>1 DEF Calls
    <2>3. k \in Calls
        BY <2>1, <2>2 DEF Calls, Calling
    <2>4. /\ k.pc = "close" /\ k.todo = o.todo /\ k.shared = o.shared
          /\ k.acc = call[c].acc + n /\ k.out = out /\ k.owed = o.owed
        BY <2>1 DEF Calls
    <2> QED BY <2>1, <2>3, <2>4
<1>4. ~call[c].shared => /\ ~diag[p].degraded /\ diag[p].stage # "overflow"
                         /\ cleaning => call[c].owed = call[c].acc
    BY <1>0 DEF OthersKeepOut, Finds, Calling
<1> HIDE DEF k
<1>5. /\ usage' \in [Pipes -> Int]
      /\ out = "parsed" => usage'[p] = call[c].acc + n
      /\ \A q \in Pipes \ {p} : usage'[q] = usage[q]
    <2>1. call[c].acc + n \in Int
        BY <1>0, <1>1 DEF Calls
    <2> QED BY <1>0, <1>2, <2>1 DEF Types
<1>6. /\ diag' \in [Pipes -> Diags] /\ diag'[p].degraded = diag[p].degraded
      /\ diag'[p].stage = IF out = "overflow" THEN "overflow" ELSE diag[p].stage
      /\ \A q \in Pipes \ {p} : diag'[q] = diag[q]
    <2>1. /\ [diag[p] EXCEPT !.stage = "overflow"] \in Diags
          /\ [diag[p] EXCEPT !.stage = "overflow"].stage = "overflow"
          /\ [diag[p] EXCEPT !.stage = "overflow"].degraded = diag[p].degraded
        BY <1>0 DEF Types, Diags
    <2>2. CASE out = "overflow"
        BY <1>0, <1>2, <2>1, <2>2 DEF Types
    <2>3. CASE out # "overflow"
        BY <1>0, <1>2, <2>3 DEF Types
    <2> QED BY <2>2, <2>3
<1>7. ASSUME ~k.shared PROVE Finds(k, usage'[p], diag'[p])
    <2>1. ~diag'[p].degraded /\ (diag'[p].stage = "overflow" <=> k.out = "overflow")
        BY <1>3, <1>4, <1>6, <1>7
    <2>2. cleaning => k.owed = k.acc
        BY <1>0, <1>1, <1>3, <1>4, <1>7 DEF Calls
    <2>3. k.out = "parsed" => usage'[p] = k.acc
        BY <1>3, <1>5, Zenon
    <2> QED BY <1>3, <2>1, <2>2, <2>3, FindsClose
<1> HIDE DEF p
<1> QED BY <1>0, <1>2, <1>3, <1>5, <1>6, <1>7, InsideKeeps DEF Calling, p

\* Another attempt: nothing is forgotten of those before.
LEMMA AskAgainKeeps ==
    ASSUME IInv, NEW c \in Clients, AskAgain(c)
    PROVE  IInv'
<1> DEFINE p == Pipe(c)
           k == [call[c] EXCEPT !.pc = "ask", !.tries = @ + 1]
<1>0. /\ Types /\ OthersKeepOut /\ p \in Pipes /\ call[c] \in Calls /\ call[c].pc = "close"
      /\ call[c].out \in {"text", "failed"}
    BY PipeIsPipe DEF IInv, Types, AskAgain
<1>1. /\ call' = [call EXCEPT ![c] = k] /\ cleaning' = cleaning /\ inUse' = inUse
      /\ usage' = usage /\ diag' = diag
    BY <1>0 DEF AskAgain, Types
<1>2. /\ k \in Calls /\ k.pc = "ask" /\ k.todo = call[c].todo /\ k.shared = call[c].shared
      /\ k.acc = call[c].acc /\ k.owed = call[c].owed
    <2>1. call[c].tries + 1 \in Nat
        BY <1>0 DEF Calls
    <2>2. k \in Calls
        BY <1>0, <2>1 DEF Calls, Calling
    <2> QED BY <1>0, <2>2 DEF Calls
<1> HIDE DEF k
<1>3. ~call[c].shared => /\ ~diag[p].degraded /\ diag[p].stage # "overflow"
                         /\ cleaning => call[c].owed = call[c].acc
    BY <1>0 DEF OthersKeepOut, Finds, Calling
<1>4. ~k.shared => Finds(k, usage'[p], diag'[p])
    BY <1>1, <1>2, <1>3, FindsAsk
<1> QED BY <1>0, <1>1, <1>2, <1>4, InsideKeeps DEF Calling, Types

\* A call that is back at its caller.
LEMMA AskedIsCall ==
    ASSUME NEW r \in Calls, NEW l \in BOOLEAN
    PROVE  /\ Asked(r, l) \in Calls /\ Asked(r, l).pc = "usage"
           /\ Asked(r, l).todo = r.todo /\ Asked(r, l).shared = r.shared
           /\ Asked(r, l).acc = 0 /\ Asked(r, l).owed = r.owed
           /\ Asked(r, l).out = r.out /\ Asked(r, l).local = l
<1>1. 0 \in Nat /\ 0 \in Int
    OBVIOUS
<1>2. Asked(r, l) \in Calls
    BY <1>1 DEF Asked, Calls, Reading
<1> QED BY <1>2 DEF Asked, Calls

\* A parsed answer is normalised.
LEMMA NormaliseKeeps ==
    ASSUME IInv, NEW c \in Clients, Normalise(c)
    PROVE  IInv'
<1> DEFINE p == Pipe(c)
<1>0. /\ Types /\ OthersKeepOut /\ p \in Pipes /\ call[c] \in Calls /\ call[c].pc = "close"
      /\ call[c].out = "parsed"
    BY PipeIsPipe DEF IInv, Types, Normalise
<1>1. PICK result :
          /\ result = "silent" => Tool(c) \in Silent
          /\ result \in {"llm", "marked", "silent"}
          /\ call' = [call EXCEPT ![c] = Asked(call[c], result # "llm")]
          /\ diag' = [diag EXCEPT ![p] = [degraded |-> result = "marked", stage |-> ""]]
    BY DEF Normalise
<1>2. cleaning' = cleaning /\ usage' = usage /\ inUse' = inUse
    BY DEF Normalise
<1> DEFINE k == Asked(call[c], result # "llm")
<1>3. /\ k \in Calls /\ k.pc = "usage" /\ k.todo = call[c].todo /\ k.shared = call[c].shared
      /\ k.acc = 0 /\ k.owed = call[c].owed /\ k.out = "parsed"
      /\ k.local <=> result # "llm"
    <2>1. (result # "llm") \in BOOLEAN
        OBVIOUS
    <2> QED BY <1>0, <2>1, AskedIsCall
<1> HIDE DEF k
<1>4. /\ diag' \in [Pipes -> Diags] /\ diag'[p].degraded = (result = "marked")
      /\ diag'[p].stage = ""
      /\ \A q \in Pipes \ {p} : diag'[q] = diag[q]
    <2> DEFINE g == [degraded |-> result = "marked", stage |-> ""]
    <2>1. g \in Diags /\ g.degraded = (result = "marked") /\ g.stage = ""
        BY DEF Diags
    <2> HIDE DEF g
    <2>2. diag' = [diag EXCEPT ![p] = g]
        BY <1>1 DEF g
    <2> QED BY <1>0, <2>1, <2>2 DEF Types
<1>5. ~call[c].shared /\ cleaning => call[c].owed = usage[p]
    BY <1>0 DEF OthersKeepOut, Finds, Calling
<1>6. ASSUME ~k.shared PROVE Finds(k, usage'[p], diag'[p])
    <2>1. Head(k.todo) \notin Silent /\ k.local => diag'[p].degraded
        BY <1>1, <1>3, <1>4 DEF Tool
    <2>2. diag'[p].degraded => k.local
        BY <1>1, <1>3, <1>4
    <2>3. Tells(k, diag'[p])
        BY <1>3, <1>4, <2>1, <2>2 DEF Tells
    <2>4. cleaning => k.acc = 0 /\ k.owed = usage'[p]
        BY <1>2, <1>3, <1>5, <1>6
    <2> QED BY <1>3, <2>3, <2>4, FindsUsage
<1>7. call' = [call EXCEPT ![c] = k]
    BY <1>1 DEF k
<1>8. usage' \in [Pipes -> Int] /\ k.pc \in Reading
    BY <1>0, <1>2, <1>3 DEF Types, Reading
<1> QED BY <1>0, <1>2, <1>3, <1>4, <1>6, <1>7, <1>8, InsideKeeps DEF Calling

\* The attempts are over: the fallback, and why, as long as nobody wrote over it.
LEMMA GiveUpKeeps ==
    ASSUME IInv, NEW c \in Clients, GiveUp(c)
    PROVE  IInv'
<1> DEFINE p == Pipe(c)
           why == IF diag[p].stage = "overflow" THEN "overflow" ELSE "parse"
           k == Asked(call[c], TRUE)
<1>0. /\ Types /\ OthersKeepOut /\ p \in Pipes /\ call[c] \in Calls /\ call[c].pc = "close"
    BY PipeIsPipe DEF IInv, Types, GiveUp
<1>1. /\ call' = [call EXCEPT ![c] = k] /\ cleaning' = cleaning /\ inUse' = inUse
      /\ usage' = [usage EXCEPT ![p] = call[c].acc]
      /\ diag' = [diag EXCEPT ![p] = Fallback(why)]
    BY <1>0 DEF GiveUp, Types
<1>2. /\ k \in Calls /\ k.pc = "usage" /\ k.todo = call[c].todo /\ k.shared = call[c].shared
      /\ k.acc = 0 /\ k.owed = call[c].owed /\ k.out = call[c].out /\ k.local = TRUE
    BY <1>0, AskedIsCall
<1> HIDE DEF k
<1>3. /\ diag' \in [Pipes -> Diags] /\ diag'[p].degraded = TRUE /\ diag'[p].stage = why
      /\ \A q \in Pipes \ {p} : diag'[q] = diag[q]
    <2>1. /\ Fallback(why) \in Diags /\ Fallback(why).degraded = TRUE
          /\ Fallback(why).stage = why
        BY DEF Fallback, Diags
    <2> HIDE DEF why
    <2> QED BY <1>0, <1>1, <2>1 DEF Types
<1>4. /\ usage' \in [Pipes -> Int] /\ usage'[p] = call[c].acc
      /\ \A q \in Pipes \ {p} : usage'[q] = usage[q]
    BY <1>0, <1>1 DEF Types, Calls
<1>5. ~call[c].shared =>
          /\ diag[p].stage = "overflow" <=> call[c].out = "overflow"
          /\ cleaning => call[c].owed = call[c].acc
    BY <1>0 DEF OthersKeepOut, Finds, Calling
<1>6. ASSUME ~k.shared PROVE Finds(k, usage'[p], diag'[p])
    <2>1. (diag'[p].stage = "overflow") = (k.out = "overflow")
        BY <1>2, <1>3, <1>5, <1>6
    <2>2. Tells(k, diag'[p])
        BY <1>2, <1>3, <2>1 DEF Tells
    <2>3. cleaning => k.acc = 0 /\ k.owed = usage'[p]
        BY <1>2, <1>4, <1>5, <1>6
    <2> QED BY <1>2, <2>2, <2>3, FindsUsage
<1>7. k.pc \in Reading
    BY <1>2 DEF Reading
<1> QED BY <1>0, <1>1, <1>2, <1>3, <1>4, <1>6, <1>7, InsideKeeps DEF Calling

\* The caller records what the call used, then how it went.
LEMMA RecordKeeps ==
    ASSUME IInv, NEW c \in Clients, RecordUsage(c) \/ RecordDiag(c)
    PROVE  IInv'
<1> DEFINE p == Pipe(c)
<1>0. /\ Types /\ OthersKeepOut /\ p \in Pipes /\ call[c] \in Calls
      /\ call[c].pc \in Reading
    BY PipeIsPipe DEF IInv, Types, RecordUsage, RecordDiag, Reading
<1>1. /\ cleaning' = cleaning /\ usage' = usage /\ diag' = diag /\ inUse' = inUse
      /\ usage' \in [Pipes -> Int] /\ diag' \in [Pipes -> Diags]
    BY <1>0 DEF RecordUsage, RecordDiag, Types
<1>2. CASE RecordUsage(c)
    <2> DEFINE o == Owing(call[c], -usage[p])
               k == [o EXCEPT !.pc = "diag"]
    <2>1. call' = [call EXCEPT ![c] = k] /\ call[c].pc = "usage"
        BY <1>2 DEF RecordUsage
    <2>2. usage[p] \in Int /\ -usage[p] \in Int
        BY <1>0 DEF Types
    <2>3. /\ o \in Calls /\ o.shared = call[c].shared /\ o.todo = call[c].todo
          /\ o.acc = call[c].acc /\ o.out = call[c].out /\ o.local = call[c].local
          /\ ~call[c].shared => o.owed = call[c].owed + (-usage[p])
        BY <1>0, <2>2, OwingIsCall
    <2> HIDE DEF o
    <2>4. /\ k \in Calls /\ k.pc = "diag" /\ k.shared = o.shared /\ k.todo = o.todo
          /\ k.acc = o.acc /\ k.out = o.out /\ k.local = o.local /\ k.owed = o.owed
        BY <2>3 DEF Calls, Reading
    <2> HIDE DEF k
    <2>5. ASSUME ~k.shared PROVE Finds(k, usage'[p], diag'[p])
        <3>1. Finds(call[c], usage[p], diag[p])
            BY <1>0, <2>3, <2>4, <2>5 DEF OthersKeepOut
        <3>2. cleaning => call[c].owed = usage[p] /\ call[c].acc = 0
            BY <1>0, <2>1, <3>1 DEF Finds
        <3>3. cleaning => k.owed = 0 /\ k.acc = 0
            BY <2>2, <2>3, <2>4, <2>5, <3>2
        <3>4. cleaning \/ Head(k.todo) # "clean" => Tells(k, diag[p])
            BY <1>0, <2>3, <2>4, <3>1, Zenon DEF Finds, Tells
        <3> QED BY <1>1, <2>4, <3>3, <3>4 DEF Finds, Calling, Reading
    <2>6. k.pc \in Reading /\ k.todo = call[c].todo /\ k.shared = call[c].shared
        BY <2>3, <2>4 DEF Reading
    <2> QED BY <1>0, <1>1, <2>1, <2>4, <2>5, <2>6, InsideKeeps
<1>3. CASE RecordDiag(c)
    <2> DEFINE k == [call[c] EXCEPT !.pc = "check"]
    <2>1. call' = [call EXCEPT ![c] = k] /\ call[c].pc = "diag"
        BY <1>3 DEF RecordDiag
    <2>2. /\ k \in Calls /\ k.pc = "check" /\ k.shared = call[c].shared /\ k.todo = call[c].todo
          /\ k.acc = call[c].acc /\ k.out = call[c].out /\ k.local = call[c].local
          /\ k.owed = call[c].owed
        BY <1>0 DEF Calls, Reading
    <2> HIDE DEF k
    <2>3. ASSUME ~k.shared PROVE Finds(k, usage'[p], diag'[p])
        <3>1. Finds(call[c], usage[p], diag[p])
            BY <1>0, <2>2, <2>3 DEF OthersKeepOut
        <3>2. cleaning => k.owed = 0 /\ k.acc = 0
            BY <1>0, <2>1, <2>2, <3>1 DEF Finds
        <3>3. cleaning \/ Head(k.todo) # "clean" => Tells(k, diag[p])
            BY <1>0, <2>2, <3>1, Zenon DEF Finds, Tells
        <3> QED BY <1>1, <2>2, <3>2, <3>3 DEF Finds, Calling, Reading
    <2>4. k.pc \in Reading
        BY <2>2 DEF Reading
    <2> QED BY <1>0, <1>1, <2>1, <2>2, <2>3, <2>4, InsideKeeps
<1> QED BY <1>2, <1>3

\* An operation that ended.
LEMMA EndedIsCall ==
    ASSUME NEW r \in Calls
    PROVE  /\ Ended(r) \in Calls /\ Ended(r).pc = "idle" /\ Ended(r).owed = r.owed
           /\ Ended(r).shared = r.shared
<1>1. /\ <<>> \in Seq(Tools) /\ 0 \in Nat /\ 0 \in Int /\ "none" \in Outcomes
      /\ FALSE \in BOOLEAN
    BY DEF Outcomes
<1>2. Idle \in Calls
    BY <1>1 DEF Idle, Calls
<1> QED BY <1>2 DEF Ended, Calls, Idle

\* An operation that goes on or ends.
LEMMA OnwardIsCall ==
    ASSUME NEW r \in Calls, NEW todo \in Seq(Tools)
    PROVE  /\ Onward(r, todo) \in Calls /\ Onward(r, todo).owed = r.owed
           /\ Onward(r, todo).shared = r.shared
           /\ \/ Onward(r, todo).pc = "idle"
              \/ /\ Onward(r, todo).pc = "call" /\ Onward(r, todo).todo # <<>>
                 /\ Onward(r, todo).acc = r.acc
<1>1. CASE todo = <<>>
    BY <1>1, EndedIsCall DEF Onward
<1>2. CASE todo # <<>>
    <2>1. "none" \in Outcomes /\ FALSE \in BOOLEAN
        BY DEF Outcomes
    <2>2. Onward(r, todo) =
             [r EXCEPT !.pc = "call", !.todo = todo, !.out = "none", !.local = FALSE]
        BY <1>2 DEF Onward
    <2>3. Onward(r, todo) \in Calls
        BY <2>1, <2>2 DEF Calls
    <2>4. /\ Onward(r, todo).pc = "call" /\ Onward(r, todo).todo = todo
          /\ Onward(r, todo).acc = r.acc /\ Onward(r, todo).owed = r.owed
          /\ Onward(r, todo).shared = r.shared
        BY <2>2 DEF Calls
    <2> QED BY <1>2, <2>3, <2>4
<1> QED BY <1>1, <1>2

\* What is left to do after a tool are tools.
LEMMA RestIsTools ==
    ASSUME IInv, NEW c \in Clients, call[c].pc # "idle", NEW over, NEW todo \in Rest(c, over)
    PROVE  todo \in Seq(Tools)
<1>1. call[c].todo \in Seq(Tools) /\ call[c].todo # <<>>
    BY DEF IInv, Types, Busy, Calls
<1>2. Tail(call[c].todo) \in Seq(Tools)
    BY <1>1
<1>3. <<>> \in Seq(Tools)
    OBVIOUS
<1>4. <<"compress", "ingest">> \in Seq(Tools) /\ <<"ingest">> \in Seq(Tools)
    BY DEF Tools
<1> QED BY <1>2, <1>3, <1>4 DEF Rest

\* The operation leaves its pipeline, for the next tool or for good.
LEMMA OnwardKeeps ==
    ASSUME IInv, NEW c \in Clients, call[c].pc \in Reading,
           NEW r \in Calls, r.shared = call[c].shared,
           cleaning /\ ~r.shared => r.owed = 0 /\ r.acc = 0,
           NEW todo \in Seq(Tools),
           call' = [call EXCEPT ![c] = Onward(r, todo)],
           inUse' = [inUse EXCEPT ![Pipe(c)] = @ \ {c}],
           cleaning' = cleaning, usage' = usage, diag' = diag
    PROVE  IInv'
<1> DEFINE p == Pipe(c)
           k == Onward(r, todo)
<1>0. Types /\ p \in Pipes
    BY PipeIsPipe DEF IInv, Types
<1>1. /\ k \in Calls /\ k.owed = r.owed /\ k.shared = r.shared
      /\ \/ k.pc = "idle"
         \/ k.pc = "call" /\ k.todo # <<>> /\ k.acc = r.acc
    BY OnwardIsCall
<1>2. call' = [call EXCEPT ![c] = k]
    OBVIOUS
<1> HIDE DEF k
<1>3. ~k.shared => Finds(k, usage'[p], diag'[p])
    BY <1>1 DEF Finds, Calling, Reading
<1> QED BY <1>0, <1>1, <1>2, <1>3, InsideKeeps DEF Types

LEMMA ContinueKeeps ==
    ASSUME IInv, NEW c \in Clients, call[c].pc \in Reading,
           NEW r \in Calls, r.shared = call[c].shared,
           cleaning /\ ~r.shared => r.owed = 0 /\ r.acc = 0,
           NEW over, Continue(c, r, over),
           cleaning' = cleaning, usage' = usage, diag' = diag
    PROVE  IInv'
<1> DEFINE k == [r EXCEPT !.retried = r.retried \/ Again(c, over)]
<1>1. PICK todo \in Rest(c, over) : call' = [call EXCEPT ![c] = Onward(k, todo)]
    BY DEF Continue
<1>2. inUse' = [inUse EXCEPT ![Pipe(c)] = @ \ {c}]
    BY DEF Continue
<1>3. todo \in Seq(Tools)
    BY RestIsTools DEF Reading
<1>4. k \in Calls /\ k.shared = r.shared /\ k.owed = r.owed /\ k.acc = r.acc
    <2>1. (r.retried \/ Again(c, over)) \in BOOLEAN
        OBVIOUS
    <2> QED BY <2>1 DEF Calls
<1> HIDE DEF k
<1> QED BY <1>1, <1>2, <1>3, <1>4, OnwardKeeps

\* The last look: a query's, which looks at all there is at once, the others',
\* which come to the diagnosis last, and that of a refused answer.
LEMMA LeaveKeeps ==
    ASSUME IInv, NEW c \in Clients, RecordAll(c) \/ Check(c) \/ RestoreFails(c)
    PROVE  IInv'
<1> DEFINE p == Pipe(c)
<1>0. /\ Types /\ OthersKeepOut /\ p \in Pipes /\ call[c] \in Calls
      /\ call[c].pc \in Reading
    BY PipeIsPipe DEF IInv, Types, RecordAll, Check, RestoreFails, Reading
<1>1. cleaning' = cleaning /\ usage' = usage /\ diag' = diag
    BY DEF RecordAll, Check, RestoreFails
<1>2. ~call[c].shared /\ cleaning =>
          /\ call[c].acc = 0
          /\ call[c].pc = "usage" => call[c].owed = usage[p]
          /\ call[c].pc = "check" => call[c].owed = 0
    BY <1>0 DEF OthersKeepOut, Finds
<1>3. CASE RecordAll(c)
    <2> DEFINE r == Owing(call[c], -usage[p])
    <2>1. usage[p] \in Int /\ -usage[p] \in Int
        BY <1>0 DEF Types
    <2>2. /\ r \in Calls /\ r.shared = call[c].shared /\ r.acc = call[c].acc
          /\ ~call[c].shared => r.owed = call[c].owed + (-usage[p])
        BY <1>0, <2>1, OwingIsCall
    <2>3. Continue(c, r, diag[p].stage = "overflow") /\ call[c].pc = "usage"
        BY <1>3 DEF RecordAll
    <2> HIDE DEF r
    <2>4. cleaning /\ ~r.shared => r.owed = 0 /\ r.acc = 0
        BY <1>2, <2>1, <2>2, <2>3
    <2> QED BY <1>0, <1>1, <2>2, <2>3, <2>4, ContinueKeeps
<1>4. CASE Check(c)
    BY <1>0, <1>1, <1>2, <1>4, ContinueKeeps DEF Check
<1>5. CASE RestoreFails(c)
    <2> DEFINE r == Owing(call[c], -usage[p])
               todo == IF Tool(c) = "compress" THEN Tail(r.todo) ELSE <<>>
    <2>1. usage[p] \in Int /\ -usage[p] \in Int
        BY <1>0 DEF Types
    <2>2. /\ r \in Calls /\ r.shared = call[c].shared /\ r.acc = call[c].acc
          /\ r.todo = call[c].todo
          /\ ~call[c].shared => r.owed = call[c].owed + (-usage[p])
        BY <1>0, <2>1, OwingIsCall
    <2>3. /\ call' = [call EXCEPT ![c] = Onward(r, todo)]
          /\ inUse' = [inUse EXCEPT ![p] = @ \ {c}] /\ call[c].pc = "usage"
        <3>1. CASE Tool(c) = "compress"
            BY <1>5, <3>1 DEF RestoreFails
        <3>2. CASE Tool(c) # "compress"
            BY <1>5, <3>2 DEF RestoreFails, Onward
        <3> QED BY <3>1, <3>2
    <2> HIDE DEF r
    <2>4. todo \in Seq(Tools)
        <3>1. r.todo \in Seq(Tools) /\ r.todo # <<>>
            BY <1>0, <2>2 DEF IInv, Busy, Calls, Reading
        <3> QED BY <3>1
    <2>5. cleaning /\ ~r.shared => r.owed = 0 /\ r.acc = 0
        BY <1>2, <2>1, <2>2, <2>3
    <2> HIDE DEF todo
    <2> QED BY <1>0, <1>1, <2>2, <2>3, <2>4, <2>5, OnwardKeeps
<1> QED BY <1>3, <1>4, <1>5

\* An operation begins; it is in no pipeline yet.
LEMMA BeginKeeps ==
    ASSUME IInv, NEW c \in Clients, Begin(c)
    PROVE  IInv'
<1>0. Types /\ Busy /\ UsersKnown /\ SharersKnow /\ OthersKeepOut /\ call[c].pc = "idle"
    BY DEF IInv, Begin
<1>1. PICK prog \in IF c \in Workers THEN {<<"ingest">>} ELSE Programs :
          call' = [call EXCEPT ![c] = [Idle EXCEPT !.todo = prog, !.pc = "call"]]
    BY DEF Begin
<1>2. /\ cleaning' = cleaning /\ usage' = usage /\ diag' = diag /\ inUse' = inUse
    BY DEF Begin
<1>3. prog \in Seq(Tools) /\ prog # <<>>
    <2>1. <<"ingest">> \in Seq(Tools) /\ <<"ingest">> # <<>>
        BY DEF Tools
    <2> QED BY <2>1, PipelineConstants DEF PipelineConstants
<1> DEFINE k == [Idle EXCEPT !.todo = prog, !.pc = "call"]
<1>4. /\ k \in Calls /\ k.pc = "call" /\ k.todo = prog /\ k.owed = 0 /\ k.acc = 0
    <2>1. 0 \in Nat /\ 0 \in Int /\ "none" \in Outcomes /\ FALSE \in BOOLEAN
        BY DEF Outcomes
    <2> QED BY <1>3, <2>1 DEF Idle, Calls
<1>5. call' = [call EXCEPT ![c] = k]
    BY <1>1
<1> HIDE DEF k
<1>6. /\ \A d \in Clients \ {c} : call'[d] = call[d] /\ Pipe(d)' = Pipe(d)
      /\ call'[c] = k
    BY <1>0, <1>5 DEF Types, Pipe, Tool
<1>7. Types' /\ Busy'
    BY <1>0, <1>2, <1>3, <1>4, <1>5, <1>6 DEF Types, Busy
<1>8. UsersKnown'
    BY <1>0, <1>2, <1>4, <1>6 DEF UsersKnown, Calling, Reading
<1>9. SharersKnow'
    <2>1. \A p \in Pipes : c \notin inUse[p]
        BY <1>0 DEF UsersKnown, Calling, Reading
    <2> QED BY <1>0, <1>2, <1>6, <2>1 DEF SharersKnow, Types
<1>10. OthersKeepOut'
    <2>1. Finds(k, usage'[Pipe(c)'], diag'[Pipe(c)'])
        BY <1>4 DEF Finds, Calling, Reading
    <2> QED BY <1>0, <1>2, <1>6, <2>1 DEF OthersKeepOut, Finds
<1> QED BY <1>7, <1>8, <1>9, <1>10 DEF IInv

\* Every step keeps the invariant.
LEMMA StepIInv == IInv /\ [Next]_vars => IInv'
<1> SUFFICES ASSUME IInv, [Next]_vars PROVE IInv'
    OBVIOUS
<1>1. ASSUME NEW c \in Clients, Begin(c) PROVE IInv'
    BY <1>1, BeginKeeps
<1>2. ASSUME NEW c \in Clients, CallNothing(c) \/ Precheck(c) \/ FirstAsk(c) PROVE IInv'
    BY <1>2, CallKeeps
<1>3. ASSUME NEW c \in Clients, NEW out \in Outcomes \ {"none"}, AskReturns(c, out)
      PROVE  IInv'
    BY <1>3, AskReturnsKeeps
<1>4. ASSUME NEW c \in Clients, AskAgain(c) PROVE IInv'
    BY <1>4, AskAgainKeeps
<1>5. ASSUME NEW c \in Clients, Normalise(c) PROVE IInv'
    BY <1>5, NormaliseKeeps
<1>6. ASSUME NEW c \in Clients, GiveUp(c) PROVE IInv'
    BY <1>6, GiveUpKeeps
<1>7. ASSUME NEW c \in Clients, RecordUsage(c) \/ RecordDiag(c) PROVE IInv'
    BY <1>7, RecordKeeps
<1>8. ASSUME NEW c \in Clients, RecordAll(c) \/ Check(c) \/ RestoreFails(c) PROVE IInv'
    BY <1>8, LeaveKeeps
<1>9. CASE UNCHANGED vars
    <2>1. \A c \in Clients : Pipe(c)' = Pipe(c)
        BY <1>9 DEF vars, Pipe, Tool
    <2> QED BY <1>9, <2>1 DEF vars, IInv, Types, Busy, UsersKnown, SharersKnow, OthersKeepOut, Finds
<1> QED BY <1>1, <1>2, <1>3, <1>4, <1>5, <1>6, <1>7, <1>8, <1>9 DEF Next, Steps

\* Who has its pipeline to itself finds there what its own call left.
THEOREM Invariance == Spec => []IInv
<1>1. Init => IInv
    BY InitIInv
<1>2. IInv /\ [Next]_vars => IInv'
    BY StepIInv
<1> QED BY <1>1, <1>2, PTL DEF Spec

\* The answers of an operation that had its pipeline to itself are all recorded,
\* those of attempts that led nowhere too.
THEOREM AnswersRecorded == Spec => []CountedUnlessShared
<1>1. IInv => CountedUnlessShared
    BY DEF IInv, OthersKeepOut, Finds, CountedUnlessShared
<1> QED BY <1>1, Invariance, PTL

\* While it still has to look, such an operation finds how its own call went: what
\* is marked is local, an overflow is an overflow, and a local result is marked
\* unless its tool is one of the Silent.
THEOREM OwnDiagnosis == Spec => []DiagnosesOwn
<1>1. IInv => DiagnosesOwn
    BY DEF IInv, OthersKeepOut, Finds, Tells, DiagnosesOwn, Tool
<1> QED BY <1>1, Invariance, PTL
=============================================================================
