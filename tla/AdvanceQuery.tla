---------------------------- MODULE AdvanceQuery ----------------------------
(* One advance_query (services/advance_query_service.py): a snapshot of a    *)
(* subtree of buckets is put before the LLM whole, or, when it does not fit, *)
(* in chunks whose replies are put together, chunked again if need be, and   *)
(* answered once more.  Every payload goes out under the alias map of the    *)
(* bucket the query is about; the query takes no lock, so a rebuild may seal *)
(* that bucket while it runs and lead it on to a successor with another map. *)
(*                                                                           *)
(* The snapshot is read by one task of the one storage thread; here it is    *)
(* constant but for the sizes of its memories.  A text is its size, what it  *)
(* covers of the snapshot, the real ids in it and the aliases in it, each    *)
(* with the map it came from; labels and wording are left out.  Aliasing is  *)
(* on, and a reply may name whatever its request named.                      *)
EXTENDS AliasTable, FiniteSetsExt

CONSTANTS
    Kids,          \* the children of every bucket, in order; buckets 1..Len(Kids)
    Mems,          \* the memories (numbers) of every bucket, by key
    Sizes,         \* sizes a memory may have
    Wrap,          \* tokens of the instructions around a payload
    Threshold,     \* 80 percent of the context window
    Replies,       \* sizes a reply may have
    MaxReductions, \* 16 in the code
    Parallel       \* max_parallel_chunks

\* The snapshot is what is under bucket 1: children come after their parents.
ASSUME AdvanceConstants ==
    /\ Wrap \in Nat /\ Threshold \in Nat /\ Replies \subseteq Nat \ {0}
    /\ Sizes \subseteq Nat \ {0} /\ MaxReductions \in Nat /\ Parallel \in Nat \ {0}
    /\ Kids \in Seq(Seq(Nat)) /\ Mems \in Seq(Seq(Nat)) /\ Kids # <<>> /\ Len(Mems) = Len(Kids)
    /\ \A n \in 1..Len(Kids) : Range(Kids[n]) \subseteq (n+1)..Len(Kids)
    /\ \A n \in 2..Len(Kids) : \E p \in 1..n-1 : n \in Range(Kids[p])

VARIABLES
    size,   \* sizes of the memories
    mode,   \* "single_shot" or "best_effort"
    stack,  \* the buckets being worked on, the innermost last
    work,   \* the chunks of the innermost
    table,  \* alias maps of the target and of its successor
    moved,  \* the target was sealed and leads to the successor
    result  \* how the query ended, or Open

vars == <<size, mode, stack, work, table, moved, result>>

Nodes == 1..Len(Kids)
AllMems == UNION {Range(Mems[n]) : n \in Nodes}
Open == [st |-> "open"]

\* Texts and what they add up to.
Text(sz, covers, ids, said) ==
    [size |-> sz, covers |-> covers, ids |-> ids, said |-> said]
Total(texts) ==
    LET f[i \in 0..Len(texts)] == IF i = 0 THEN 0 ELSE f[i-1] + texts[i].size
    IN f[Len(texts)]
Merged(texts) ==
    Text(Total(texts), UNION {t.covers : t \in Range(texts)},
         UNION {t.ids : t \in Range(texts)}, UNION {t.said : t \in Range(texts)})
Memories(n) ==
    Merged([i \in 1..Len(Mems[n]) |-> Text(size[Mems[n][i]], {Mems[n][i]}, {Mems[n][i]}, {})])

\* A bucket rendered with everything under it: memories first, then children.
Rendered(node) ==
    LET f[n \in Nodes] ==
          Merged(<<Memories(n)>> \o [i \in 1..Len(Kids[n]) |-> f[Kids[n][i]]])
    IN f[node]

Tokens(t) == Wrap + t.size
Fits(t) == Tokens(t) <= Threshold

Frame(node) ==
    [node |-> node, st |-> "count", todo |-> Kids[node], boxes |-> <<>>,
     round |-> 0, req |-> Text(0, {}, {}, {}), tries |-> 0]
Top == stack[Len(stack)]
Chunk(t, kind, n) ==
    [text |-> t, kind |-> kind, parts |-> n, st |-> "prepare", tries |-> 0]

Init ==
    /\ size \in [AllMems -> Sizes]
    /\ mode \in {"single_shot", "best_effort"}
    /\ stack = <<Frame(1)>> /\ work = <<>>
    /\ table = <<EmptyMap, EmptyMap>> /\ moved = FALSE
    /\ result = Open

-----------------------------------------------------------------------------
\* Every payload is encoded by the map the target leads to at that moment.
Current == IF moved THEN 2 ELSE 1

Remember(t) == table' = [table EXCEPT ![Current] = Encoded(@, t.ids)]
Prepared(t) ==
    LET m == Encoded(table[Current], t.ids) IN
    Text(t.size, t.covers, {}, t.said \cup {<<Current, n>> : n \in Aliases(m, t.ids)})

InTop(f) == stack' = [stack EXCEPT ![Len(stack)] = f]
Fails(why) == result' = [st |-> "failed", why |-> why]

\* Fault: the instructions around the boxes are not counted.
PlaceBare(chunks, box) ==
    LET fit == {i \in 1..Len(chunks) : Total(chunks[i]) + box.size <= Threshold} IN
    IF fit = {} THEN Append(chunks, <<box>>)
                ELSE [chunks EXCEPT ![Min(fit)] = Append(@, box)]

\* First fit, in order: a box joins the first chunk it fits in, or opens one.
Place(chunks, box) ==
    LET fit == {i \in 1..Len(chunks) : Wrap + Total(chunks[i]) + box.size <= Threshold} IN
    IF fit = {} THEN Append(chunks, <<box>>)
                ELSE [chunks EXCEPT ![Min(fit)] = Append(@, box)]
Packed(boxes) ==
    LET f[i \in 0..Len(boxes)] == IF i = 0 THEN <<>> ELSE Place(f[i-1], boxes[i])
    IN f[Len(boxes)]
Chunks(boxes, kind) ==
    LET p == Packed(boxes) IN
    [i \in 1..Len(p) |-> Chunk(Merged(p[i]), kind, Len(p[i]))]

Final(f, t) == [f EXCEPT !.st = "final", !.req = Prepared(t), !.tries = 0]

-----------------------------------------------------------------------------
Running == result = Open

\* The whole bucket in one request, if it fits; in one shot or not at all.
CountWhole ==
    LET f == Top
        t == Rendered(f.node) IN
    /\ Running /\ f.st = "count"
    /\ Remember(t)
    /\ \/ Fits(t) /\ InTop(Final(f, t)) /\ UNCHANGED result
       \/ ~Fits(t) /\ mode = "single_shot" /\ Fails("overflow") /\ UNCHANGED stack
       \/ ~Fits(t) /\ mode = "best_effort" /\ InTop([f EXCEPT !.st = "memories"])
             /\ UNCHANGED result
    /\ UNCHANGED <<size, mode, work, moved>>

\* The memories of the bucket itself are one box that must fit.
BoxMemories ==
    LET f == Top
        t == Memories(f.node) IN
    /\ Running /\ f.st = "memories"
    /\ Remember(t)
    /\ \/ t.covers # {} /\ ~Fits(t) /\ Fails("memories") /\ UNCHANGED stack
       \/ t.covers # {} /\ Fits(t) /\ UNCHANGED result
             /\ InTop([f EXCEPT !.st = "children", !.boxes = <<t>>])
       \/ t.covers = {} /\ InTop([f EXCEPT !.st = "children"]) /\ UNCHANGED result
    /\ UNCHANGED <<size, mode, work, moved>>

\* A child that fits is a box; one that does not is first answered by itself.
BoxChild ==
    LET f == Top
        k == Head(f.todo)
        t == Rendered(k) IN
    /\ Running /\ f.st = "children" /\ f.todo # <<>>
    /\ Remember(t)
    /\ IF Fits(t)
       THEN InTop([f EXCEPT !.todo = Tail(@), !.boxes = Append(@, t)])
       ELSE stack' = Append(stack, Frame(k))
    /\ UNCHANGED <<size, mode, work, moved, result>>

Pack ==
    /\ Running /\ Top.st = "children" /\ Top.todo = <<>>
    /\ work' = Chunks(Top.boxes, "chunk")
    /\ InTop([Top EXCEPT !.st = "chunks"])
    /\ UNCHANGED <<size, mode, table, moved, result>>

\* Every chunk is a task of its own: encode, wait for one of Parallel slots,
\* ask, and ask once more if that fails.
PrepareChunk(i) ==
    /\ work[i].st = "prepare"
    /\ Remember(work[i].text)
    /\ work' = [work EXCEPT ![i].st = "wait", ![i].text = Prepared(@)]
    /\ UNCHANGED <<size, mode, stack, moved, result>>

\* A chunk that cannot be encoded fails the query; the others run on.
PrepareFails(i) ==
    /\ work[i].st = "prepare" /\ Running
    /\ Len(Fresh(table[Current], work[i].text.ids)) > 0
    /\ work' = [work EXCEPT ![i].st = "done"]
    /\ Fails("prepare")
    /\ UNCHANGED <<size, mode, stack, table, moved>>

Asking == {i \in DOMAIN work : work[i].st = "ask"}

AskChunk(i) ==
    /\ work[i].st = "wait" /\ Cardinality(Asking) < Parallel
    /\ work' = [work EXCEPT ![i].st = "ask", ![i].tries = 1]
    /\ UNCHANGED <<size, mode, stack, table, moved, result>>

ChunkReplies(i) ==
    /\ work[i].st = "ask"
    /\ \E n \in Replies :
          work' = [work EXCEPT ![i].st = "done", ![i].text.size = n]
    /\ UNCHANGED <<size, mode, stack, table, moved, result>>

\* Fault: a chunk that failed twice is left out.
ChunkFailsSilently(i) ==
    /\ work[i].st = "ask"
    /\ work' = IF work[i].tries < 2 THEN [work EXCEPT ![i].tries = 2]
               ELSE [work EXCEPT ![i].st = "done", ![i].text = Text(1, {}, {}, {})]
    /\ UNCHANGED <<size, mode, stack, table, moved, result>>

\* After the second failure a placeholder stands for what the chunk covered.
ChunkFails(i) ==
    /\ work[i].st = "ask"
    /\ work' = IF work[i].tries < 2 THEN [work EXCEPT ![i].tries = 2]
               ELSE [work EXCEPT ![i].st = "done",
                       ![i].text = Text(1, @.covers, {}, {})]
    /\ UNCHANGED <<size, mode, stack, table, moved, result>>

ChunksDone ==
    /\ Running /\ Top.st = "chunks"
    /\ \A i \in DOMAIN work : work[i].st = "done"
    /\ InTop([Top EXCEPT !.st = "reduce", !.boxes = [i \in 1..Len(work) |-> work[i].text]])
    /\ work' = <<>>
    /\ UNCHANGED <<size, mode, table, moved, result>>

\* Fault: the rounds are not counted.
ReduceEndlessly ==
    LET f == Top
        t == Merged(f.boxes) IN
    /\ Running /\ f.st = "reduce"
    /\ Remember(t)
    /\ \/ Fits(t) /\ InTop(Final(f, t)) /\ UNCHANGED work
       \/ ~Fits(t) /\ work' = Chunks(f.boxes, "results") /\ InTop([f EXCEPT !.st = "chunks"])
    /\ UNCHANGED <<size, mode, moved, result>>

\* The replies together, if they fit; otherwise chunks of replies, each reply
\* taken as it is, and no more than MaxReductions times.
Reduce ==
    LET f == Top
        t == Merged(f.boxes) IN
    /\ Running /\ f.st = "reduce"
    /\ \/ /\ f.round = MaxReductions
          /\ Fails("reductions") /\ UNCHANGED <<stack, work, table>>
       \/ /\ f.round < MaxReductions /\ Fits(t)
          /\ Remember(t) /\ InTop(Final(f, t)) /\ UNCHANGED <<work, result>>
       \/ /\ f.round < MaxReductions /\ ~Fits(t)
          /\ Remember(t) /\ work' = Chunks(f.boxes, "results")
          /\ InTop([f EXCEPT !.st = "chunks", !.round = @ + 1]) /\ UNCHANGED result
    /\ UNCHANGED <<size, mode, moved>>

AskFinal ==
    /\ Running /\ Top.st = "final" /\ Top.tries < 2
    /\ InTop([Top EXCEPT !.st = "asked", !.tries = @ + 1])
    /\ UNCHANGED <<size, mode, work, table, moved, result>>

\* The answer of the target ends the query; a child's is a box of its parent,
\* if it fits there.
FinalReplies ==
    /\ Running /\ Top.st = "asked"
    /\ \E n \in Replies :
         LET reply == [Top.req EXCEPT !.size = n]
             p == stack[Len(stack) - 1] IN
         \/ /\ Len(stack) = 1
            /\ result' = [st |-> "answered", text |-> reply] /\ UNCHANGED stack
         \/ /\ Len(stack) > 1 /\ ~Fits(reply)
            /\ Fails("child box") /\ UNCHANGED stack
         \/ /\ Len(stack) > 1 /\ Fits(reply) /\ UNCHANGED result
            /\ stack' = [SubSeq(stack, 1, Len(stack) - 1) EXCEPT ![Len(stack) - 1] =
                  [p EXCEPT !.todo = Tail(@), !.boxes = Append(@, reply)]]
    /\ UNCHANGED <<size, mode, work, table, moved>>

\* No placeholder here: the second failure fails the query, at any depth.
FinalFails ==
    /\ Running /\ Top.st = "asked"
    /\ IF Top.tries < 2 THEN InTop([Top EXCEPT !.st = "final"]) /\ UNCHANGED result
       ELSE Fails(IF Len(stack) = 1 THEN "final" ELSE "child") /\ UNCHANGED stack
    /\ UNCHANGED <<size, mode, work, table, moved>>

Steps ==
    \/ CountWhole \/ BoxMemories \/ BoxChild \/ Pack \/ ChunksDone \/ Reduce
    \/ AskFinal \/ FinalReplies \/ FinalFails
    \/ \E i \in DOMAIN work :
          PrepareChunk(i) \/ PrepareFails(i) \/ AskChunk(i) \/ ChunkReplies(i) \/ ChunkFails(i)

\* Somebody compresses, splits or optimizes the target to its end.
Rebuild ==
    /\ ~moved /\ Running
    /\ moved' = TRUE /\ table' = [table EXCEPT ![1] = Frozen(@)]
    /\ UNCHANGED <<size, mode, stack, work, result>>

Next == Steps \/ Rebuild

Spec == Init /\ [][Next]_vars /\ WF_vars(Steps)

-----------------------------------------------------------------------------
TypeOK ==
    /\ \A m \in AllMems : size[m] \in Sizes
    /\ Len(stack) \in 1..Len(Kids)
    /\ \A i \in DOMAIN stack :
          stack[i].st \in {"count", "memories", "children", "chunks", "reduce", "final", "asked"}
    /\ \A i \in DOMAIN work : work[i].st \in {"prepare", "wait", "ask", "done"}
    /\ \A b \in 1..2 : IsMap(table[b], AllMems)
    /\ result.st \in {"open", "answered", "failed"}

\* An answer rests on the whole snapshot: every memory went into it, through a
\* reply or as a placeholder that says it is missing, over any depth of
\* children, chunks and rounds (_advance_pack_boxes_first_fit,
\* _advance_execute_chunks, _advance_reduce_result_items).
NothingDropped == result.st = "answered" => result.text.covers = AllMems

\* No request is larger than the threshold, except one that carries a single
\* reply: a reply is never cut down (_advance_reduce_result_items).
RequestsFit ==
    /\ \A i \in Asking :
          Fits(work[i].text) \/ (work[i].kind = "results" /\ work[i].parts = 1)
    /\ Running /\ Top.st = "asked" => Fits(Top.req)

\* Whoever asks the handle of the bucket what an alias of the answer stands for
\* is told the memory it stood for (bucket_handle.py: resolve_alias follows the
\* bucket to its successor).
Readable(said) ==
    \A a \in said : /\ a[2] \in DOMAIN table[Current].ids
                    /\ table[Current].ids[a[2]] = table[a[1]].ids[a[2]]
AnswerReadable == result.st = "answered" => Readable(result.text.said)
=============================================================================
