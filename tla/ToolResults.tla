----------------------------- MODULE ToolResults -----------------------------
(* What the tools of the LLM pipeline return (memory/llm_pipeline.py): every *)
(* reply is normalised before anybody uses it, and when there is none, or    *)
(* none that can be used, a local result takes its place.  One step from a   *)
(* request and a reply to the result; NoReply is a call that gave up.        *)
(*                                                                           *)
(* The characters of a text to be cut are pairs of line and place, those of  *)
(* a text to be stored are left out: what it is, who wrote it and whether    *)
(* its blanks are squeezed is what the tools act on.                         *)
EXTENDS Integers, Sequences, FiniteSets, SequencesExt, FiniteSetsExt

CONSTANTS
    LineSizes,  \* lengths a line may have, 0 for a blank one
    NumLines,   \* lines of a text to be cut
    MaxChars,   \* chunk_max_chars, as it is used: the code raises it to 100
    Overlaps,   \* values of chunk_overlap_chars
    Cuts,       \* what a reply may say of one chunk: its ranges, in order
    Keys        \* keys of records

VARIABLES request, reply, result

vars == <<request, reply, result>>

NoReply == [none |-> TRUE]
Pending == [local |-> FALSE, pending |-> TRUE]

-----------------------------------------------------------------------------
\* text_chunk: a text of lines, cut where the reply says or by length.
Newline == <<0, 0>>
Line(sizes, i) == [p \in 1..sizes[i] |-> <<i, p>>]

Joined(lines) ==
    LET f[n \in 0..Len(lines)] ==
          IF n = 0 THEN <<>>
          ELSE IF n = 1 THEN lines[1] ELSE f[n-1] \o <<Newline>> \o lines[n]
    IN f[Len(lines)]
Lines(sizes, a, b) == Joined([i \in 1..(b - a + 1) |-> Line(sizes, a + i - 1)])

Strip(text) ==
    LET seen == {i \in DOMAIN text : text[i] # Newline} IN
    IF seen = {} THEN <<>> ELSE SubSeq(text, Min(seen), Max(seen))
NotBlank(texts) == SelectSeq(texts, LAMBDA t : t # <<>>)

\* Windows of MaxChars, each starting before the end of the one before it.
Windows(text, overlap) ==
    LET step == Max({1, MaxChars - overlap})
        last == ((Len(text) - MaxChars) + step - 1) \div step IN
    IF text = <<>> THEN <<>>
    ELSE IF Len(text) <= MaxChars THEN <<text>>
    ELSE NotBlank([k \in 1..(last + 1) |->
            Strip(SubSeq(text, (k-1) * step + 1, Min({Len(text), (k-1) * step + MaxChars})))])

\* An overlap as long as a window would never get on.
UsedOverlap(o) == IF o >= MaxChars THEN MaxChars \div 4 ELSE o

CutByLength(r) == Windows(Lines(r.sizes, 1, NumLines), UsedOverlap(r.overlap))

\* The lines a chunk names, in its order; a chunk that names none, one twice,
\* or one that is not there is invalid, and so is one that replaces a line it
\* does not name, or leaves no text.
Named(cut) ==
    FlattenSeq([i \in DOMAIN cut.ranges |->
        LET a == cut.ranges[i][1] IN
        [n \in 1..(cut.ranges[i][2] - a + 1) |-> a + n - 1]])
InRange(cut) ==
    /\ cut.ranges # <<>>
    /\ \A i \in DOMAIN cut.ranges :
          /\ cut.ranges[i][1] >= 1 /\ cut.ranges[i][2] <= NumLines
          /\ cut.ranges[i][1] <= cut.ranges[i][2]
CutText(sizes, cut) ==
    LET kept == SelectSeq(Named(cut), LAMBDA n : n \notin cut.drops) IN
    Strip(Joined([i \in DOMAIN kept |-> Line(sizes, kept[i])]))
Valid(sizes, cut) ==
    /\ InRange(cut) /\ IsInjective(Named(cut))
    /\ cut.drops \subseteq Range(Named(cut))
    /\ CutText(sizes, cut) # <<>>
Starts(cut) == Min({cut.ranges[i][1] : i \in DOMAIN cut.ranges})

\* Fault: a gap is closed by the next line that is covered, or not at all.
GapsInside(covered) ==
    {<<a, b>> \in (1..NumLines) \X (1..NumLines) :
        /\ a <= b /\ a..b \cap covered = {} /\ b + 1 \in covered
        /\ a = 1 \/ a - 1 \in covered}

\* The stretches of lines no valid chunk names.
Gaps(covered) ==
    {<<a, b>> \in (1..NumLines) \X (1..NumLines) :
        /\ a <= b /\ a..b \cap covered = {}
        /\ a = 1 \/ a - 1 \in covered
        /\ b = NumLines \/ b + 1 \in covered}

\* Valid chunks and the windows of the gaps, by the line they start at; a
\* reply with as many invalid chunks as valid ones is not used.
CutAsSaid(r, cuts) ==
    LET good == SelectSeq(cuts, LAMBDA c : Valid(r.sizes, c))
        covered == UNION {Range(Named(good[i])) : i \in DOMAIN good}
        at(line) ==
            [i \in DOMAIN SelectSeq(good, LAMBDA c : Starts(c) = line) |->
                CutText(r.sizes, SelectSeq(good, LAMBDA c : Starts(c) = line)[i])]
            \o FlattenSeq([b \in 1..NumLines |->
                  IF <<line, b>> \in Gaps(covered)
                  THEN Windows(Strip(Lines(r.sizes, line, b)), UsedOverlap(r.overlap))
                  ELSE <<>>])
        merged == FlattenSeq([line \in 1..NumLines |-> at(line)]) IN
    IF 2 * (Len(cuts) - Len(good)) >= Len(cuts) \/ merged = <<>>
    THEN NotBlank(CutByLength(r)) ELSE merged

TextChunk(r, said) ==
    IF said = NoReply \/ said.chunks = <<>>
    THEN [local |-> TRUE, chunks |-> CutByLength(r)]
    ELSE [local |-> FALSE, chunks |-> CutAsSaid(r, said.chunks)]

-----------------------------------------------------------------------------
\* clean and ingest: the text an add hands on.
User(is) == [is |-> is, by |-> "user", squeezed |-> FALSE]
Blank == User("blank")
Squeezed(t) == [t EXCEPT !.squeezed = TRUE]
IsNoise(t) == t.is \in {"noise", "blank"}
Types == {"plain", "source_code", "unheard_of"}
TypeOf(t) == IF t.is = "code" THEN "source_code" ELSE "plain"

FallbackClean(t) ==
    IF t.is = "code" THEN [accept |-> TRUE, text |-> t, skip |-> TRUE, literal |-> TRUE]
    ELSE [accept |-> ~IsNoise(t), text |-> Squeezed(t), skip |-> FALSE, literal |-> FALSE]

\* Fault: only what the reply calls literal is kept literally.
NormalizeCleanLoose(t, said) ==
    LET text == IF said.literal THEN t ELSE Squeezed(said.text) IN
    [accept |-> said.accept, text |-> text, skip |-> said.skip \/ said.literal,
     literal |-> said.literal]

\* Source code is literal, what is literal is not cleaned, an empty text is
\* replaced by the original, and noise is rejected unless it is literal.
NormalizeClean(t, said) ==
    LET type == IF said.type = "unheard_of" THEN TypeOf(t) ELSE said.type
        literal == said.literal \/ type = "source_code"
        skip == said.skip \/ literal
        text == IF skip THEN t
                ELSE IF said.text.is = "blank" THEN Squeezed(t) ELSE Squeezed(said.text) IN
    [accept |-> said.accept /\ (skip \/ ~IsNoise(text)), text |-> text,
     skip |-> skip, literal |-> literal]

\* The content is the text it was given, whatever the reply says of it.
NormalizeIngest(t, said) == t
FallbackIngest(t, asIs) ==
    IF asIs \/ t.is # "blank" THEN t ELSE [t EXCEPT !.is = "(empty)"]

\* Cleaning that is switched off accepts whatever it is given, blanks and noise
\* too, and only tells source code from the rest.
CleanNothing(t) ==
    [accept |-> TRUE, text |-> t, skip |-> t.is = "code", literal |-> t.is = "code"]

\* clean, then ingest (IngestService.add_memory).
Add(r, said) ==
    LET clean == IF ~r.cleaning THEN CleanNothing(r.text)
                 ELSE IF said.clean = NoReply THEN FallbackClean(r.text)
                 ELSE NormalizeClean(r.text, said.clean)
        asIs == clean.skip \/ clean.literal
        text == IF asIs \/ clean.text.is = "blank" THEN r.text ELSE clean.text IN
    [local |-> r.cleaning /\ said.clean = NoReply, accept |-> clean.accept, asIs |-> asIs,
     content |-> IF said.ingest = NoReply THEN FallbackIngest(text, asIs)
                 ELSE NormalizeIngest(text, said.ingest)]

-----------------------------------------------------------------------------
\* bucket_split: groups of keys.
WithKeys(groups) == SelectSeq(groups, LAMBDA g : g # <<>>)

\* Fault: one group too few is handed out to.
DealShort(keys, n) ==
    [g \in 1..n |-> SelectSeq(keys, LAMBDA k :
        \E i \in DOMAIN keys : keys[i] = k /\ i % (n + 1) = g)]

\* Round robin into between 2 and 4 groups.
Deal(keys, n) ==
    [g \in 1..n |-> SelectSeq(keys, LAMBDA k :
        \E i \in DOMAIN keys : keys[i] = k /\ (i - 1) % n = g - 1)]
FallbackSplit(r) == WithKeys(Deal(r.keys, Min({4, Max({2, r.groups})})))

BucketSplit(r, said) ==
    LET groups == IF said = NoReply THEN <<>> ELSE WithKeys(said.merge) \o WithKeys(said.keep)
        legacy == IF said = NoReply THEN <<>> ELSE WithKeys(said.groups) IN
    IF groups # <<>> THEN [local |-> FALSE, groups |-> groups]
    ELSE IF legacy # <<>> THEN [local |-> FALSE, groups |-> legacy]
    ELSE [local |-> TRUE, groups |-> FallbackSplit(r)]

\* Fault: whatever was sent is dropped.
FallbackCompressAll(r) == [local |-> TRUE, drop |-> Keys, updates |-> {}]

\* compress: keys to drop and contents to replace; an update without a key, a
\* content or a reason is left out.  gray are the keys of gray records.
FallbackCompress(r) == [local |-> TRUE, drop |-> r.gray, updates |-> {}]
Compress(r, said) ==
    IF said = NoReply THEN FallbackCompress(r)
    ELSE [local |-> FALSE, drop |-> said.drop,
          updates |-> {u.key : u \in {x \in said.updates : x.content /\ x.reason}}]

\* query: at most top_k of the candidates, as they were ranked; a reply is
\* taken as it is, but for matches without a key.
QueryTool(r, said) ==
    LET matches == IF said = NoReply THEN <<>> ELSE SelectSeq(said.matches, LAMBDA k : k # "") IN
    IF matches = <<>>
    THEN [local |-> TRUE, matches |-> SubSeq(r.candidates, 1, Min({Len(r.candidates), Max({1, r.top})}))]
    ELSE [local |-> FALSE, matches |-> matches]

\* optimize: without a reply nothing is changed.
FallbackOptimize(r) == [local |-> TRUE, skip |-> TRUE, groups |-> <<>>]
Optimize(r, said) ==
    IF said = NoReply THEN FallbackOptimize(r)
    ELSE [local |-> FALSE, skip |-> said.skip, groups |-> WithKeys(said.groups)]

-----------------------------------------------------------------------------
KeyLists == {<<>>} \cup {<<k>> : k \in Keys} \cup {SetToSeq(Keys)}
Groups == {<<>>} \cup {<<g>> : g \in KeyLists} \cup {<<g, h>> : g, h \in KeyLists}

\* What may be asked, and what an LLM may reply.
Requests(tool) ==
    CASE tool = "text_chunk" ->
           [tool : {tool}, sizes : [1..NumLines -> LineSizes], overlap : Overlaps]
      [] tool = "add" ->
           [tool : {tool}, cleaning : BOOLEAN,
            text : {User(k) : k \in {"code", "prose", "noise", "blank"}}]
      [] tool = "bucket_split" -> [tool : {tool}, keys : {SetToSeq(Keys)}, groups : 1..6]
      [] tool = "compress" -> [tool : {tool}, gray : SUBSET Keys]
      [] tool = "query" -> [tool : {tool}, candidates : KeyLists, top : 0..3]
      [] tool = "optimize" -> [tool : {tool}]

CleanReplies ==
    {NoReply} \cup
    [type : Types, skip : BOOLEAN, literal : BOOLEAN, accept : BOOLEAN,
     text : {Blank} \cup [is : {"prose", "noise"}, by : {"clean"}, squeezed : {FALSE}]]
IngestReplies == {NoReply, [is |-> "prose", by |-> "ingest", squeezed |-> FALSE]}

Replies(tool) ==
    CASE tool = "text_chunk" ->
           {NoReply} \cup [chunks : {<<c>> : c \in Cuts} \cup {<<c, d>> : c, d \in Cuts}]
      [] tool = "add" -> [clean : CleanReplies, ingest : IngestReplies]
      [] tool = "bucket_split" -> {NoReply} \cup [merge : Groups, keep : Groups, groups : {<<>>, <<SetToSeq(Keys)>>}]
      [] tool = "compress" ->
           {NoReply} \cup [drop : SUBSET Keys,
              updates : SUBSET [key : Keys, content : {TRUE}, reason : BOOLEAN]]
      [] tool = "query" -> {NoReply} \cup [matches : KeyLists \cup {<<"">>}]
      [] tool = "optimize" -> {NoReply} \cup [skip : BOOLEAN, groups : Groups]

Tools == {"text_chunk", "add", "bucket_split", "compress", "query", "optimize"}

Init ==
    /\ \E tool \in Tools :
          /\ request \in Requests(tool) /\ reply \in Replies(tool)
          /\ tool = "add" /\ ~request.cleaning => reply.clean = NoReply
    /\ result = Pending

Answer ==
    /\ result = Pending
    /\ result' = CASE request.tool = "text_chunk" -> TextChunk(request, reply)
                   [] request.tool = "add" -> Add(request, reply)
                   [] request.tool = "bucket_split" -> BucketSplit(request, reply)
                   [] request.tool = "compress" -> Compress(request, reply)
                   [] request.tool = "query" -> QueryTool(request, reply)
                   [] request.tool = "optimize" -> Optimize(request, reply)
    /\ UNCHANGED <<request, reply>>

Spec == Init /\ [][Answer]_vars

-----------------------------------------------------------------------------
Of(tool) == result # Pending /\ request.tool = tool

\* No line of a text is lost between the chunks it is cut into, however a reply
\* cuts it: what no valid chunk names is cut by length, and only lines a reply
\* drops are missing (_normalize_text_chunk_result, _window_split).
Dropped == IF reply = NoReply THEN {} ELSE UNION {c.drops : c \in Range(reply.chunks)}
NoTextLost ==
    Of("text_chunk") =>
        \A i \in 1..NumLines : i \notin Dropped =>
            Range(Line(request.sizes, i)) \subseteq UNION {Range(c) : c \in Range(result.chunks)}

\* A memory holds the text its user gave: unchanged where clean called it
\* literal or recognised source code, rewritten at most by clean, and never
\* empty or noise unless it is literal (_normalize_clean_result,
\* _normalize_ingest_result).  With cleaning switched off it is unchanged but
\* for the blanks around it, noise included; a blank one may be named (empty).
AddedTextKept ==
    Of("add") /\ result.accept =>
        /\ result.content.by # "ingest"
        /\ \/ result.asIs
           \/ reply.clean # NoReply /\ reply.clean.type = "source_code"
           => result.content = request.text
        /\ request.cleaning /\ ~result.asIs => ~IsNoise(result.content)
        /\ ~request.cleaning =>
              result.content = request.text \/ result.content.is = "(empty)"

\* The local split deals every record to exactly one group, and no group is
\* empty (_fallback_split).
LocalSplitDealsAll ==
    Of("bucket_split") /\ result.local =>
        \A k \in Keys :
            Cardinality({g \in DOMAIN result.groups : k \in Range(result.groups[g])}) = 1

\* Without a usable reply nothing that lives is dropped, rewritten or moved,
\* and a query still answers from its candidates (_fallback_compress,
\* _fallback_optimize, _fallback_query).
FallbacksHarmless ==
    /\ Of("compress") /\ result.local => result.drop \subseteq request.gray /\ result.updates = {}
    /\ Of("optimize") /\ result.local => result.skip
    /\ Of("query") /\ result.local =>
          /\ IsPrefix(result.matches, request.candidates)
          /\ request.candidates # <<>> => result.matches # <<>>
=============================================================================
