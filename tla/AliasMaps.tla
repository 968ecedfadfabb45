------------------------------ MODULE AliasMaps ------------------------------
(* Callers that share the alias maps of a chain of buckets                   *)
(* (memory/aliasing.py, memory/services/alias_service.py and the alias maps  *)
(* of memory/storage.py): each encodes a payload, waits for the LLM and      *)
(* decodes its answer, while rebuilds seal a bucket, switch to a successor   *)
(* with an empty map and freeze the old one.                                 *)
(*   write     holds the bucket (add, update, split plan, summary);          *)
(*   compress  holds the bucket and seals it once the plan is decoded;       *)
(*   optimize  holds nothing, and seals the bucket too;                      *)
(*   query     holds nothing, offers aliases of candidates that have one,    *)
(*             encodes its text, and decodes with the bucket it started at.  *)
(* Work on the maps runs in the one storage thread, in the order it was      *)
(* handed over (tasks); sessions end in the event loop.  A process may die   *)
(* between any two steps.                                                    *)
EXTENDS AliasTable

CONSTANTS
    Ids,        \* real ids, numbers
    Callers,    \* operations that may be in flight together
    MaxBuckets, \* buckets 1..MaxBuckets, each the successor of one before it
    MaxOps,     \* bound: operations started
    MaxCrashes  \* bound: restarts

ASSUME AliasMapsAssumption ==
    /\ Ids \subseteq Nat /\ IsFiniteSet(Ids) /\ IsFiniteSet(Callers)
    /\ MaxBuckets \in Nat \ {0} /\ MaxOps \in Nat /\ MaxCrashes \in Nat

VARIABLES
    cache,   \* the maps in memory
    disk,    \* alias_map.json of every bucket
    dirty,   \* buckets whose map waits for a flush
    depth,   \* open alias sessions
    sealedTo,\* where a sealed bucket leads, 0 if it is not sealed
    created, \* buckets 1..created exist
    tasks,   \* the storage thread's queue
    call,    \* the operation of each caller
    told,    \* every alias an LLM or a user was given, with its meaning (history)
    meddled, \* an optimize sealed a bucket, whoever held it (history)
    ops, crashes

mapVars == <<cache, disk, dirty, depth, sealedTo, created, tasks, call, told,
             meddled, ops, crashes>>

Buckets == 1..MaxBuckets
Kinds == {"write", "compress", "optimize", "query"}
Holding == {"write", "compress"}
Sealing == {"compress", "optimize"}
CallSteps == {"idle", "candidates", "prepare", "encode", "asking", "decode",
          "seal", "freeze", "done", "failed"}

NoCall == [kind |-> "query", bucket |-> 1, text |-> {}, st |-> "idle", to |-> 0,
           ver |-> 0, said |-> {}, meant |-> {}, got |-> {}, why |-> ""]
Task(c, what, b) == [by |-> c, what |-> what, on |-> b]

\* seal to successor, and again from there: bucket ids only grow.
Resolve(b) ==
    LET f[x \in Buckets] == IF sealedTo[x] = 0 THEN x ELSE f[sealedTo[x]] IN f[b]

Busy(c) == call[c].st \notin {"idle", "done", "failed"}
Locked(b) ==
    \E c \in Callers : Busy(c) /\ call[c].kind \in Holding /\ call[c].bucket = b
Step(c, st) == [call EXCEPT ![c].st = st]

MapsInit ==
    /\ cache = [b \in Buckets |-> EmptyMap] /\ disk = cache
    /\ dirty = {} /\ depth = 0
    /\ sealedTo = [b \in Buckets |-> 0] /\ created = 1
    /\ tasks = <<>> /\ call = [c \in Callers |-> NoCall]
    /\ told = {} /\ meddled = FALSE /\ ops = 0 /\ crashes = 0

-----------------------------------------------------------------------------
\* Fault: the rebuild takes no lock.
CanStartUnlocked(kind, b) == kind = "write" => ~Locked(b)

\* An operation resolves its bucket and takes its lock if it needs one; a
\* rebuild will also need a bucket to go to.
CanStart(kind, b) == kind \in Holding => ~Locked(b)

Start(c, kind, text) ==
    LET b == Resolve(1) IN
    /\ ~Busy(c) /\ ops < MaxOps
    /\ CanStart(kind, b)
    /\ kind \in Sealing => created < MaxBuckets
    /\ ops' = ops + 1
    /\ created' = IF kind \in Sealing THEN created + 1 ELSE created
    /\ depth' = IF kind \in Holding THEN depth + 1 ELSE depth
    /\ call' = [call EXCEPT ![c] =
          [NoCall EXCEPT !.kind = kind, !.bucket = b, !.text = text,
             !.to = IF kind \in Sealing THEN created' ELSE 0,
             !.st = IF kind = "query" THEN "candidates" ELSE "prepare"]]
    /\ UNCHANGED <<cache, disk, dirty, sealedTo, tasks, told, meddled, crashes>>

\* The table is opened in the event loop, for where the bucket leads now; the
\* work on it queues for the storage thread.
Queue(c, st, what) ==
    /\ call[c].st = st
    /\ tasks' = Append(tasks, Task(c, what, Resolve(call[c].bucket)))
    /\ call' = Step(c, "encode")
    /\ UNCHANGED <<cache, disk, dirty, depth, sealedTo, created, told, meddled, ops, crashes>>

Candidates(c) == Queue(c, "candidates", "candidates")
Prepare(c) == Queue(c, "prepare", "encode")

Head1(what) == tasks # <<>> /\ Head(tasks).what = what /\ tasks' = Tail(tasks)

\* Candidates without an alias are left out; nothing is allocated.
RunCandidates ==
    LET t == Head(tasks) IN
    /\ Head1("candidates")
    /\ call' = [call EXCEPT ![t.by].st = "prepare",
          ![t.by].said = Aliases(cache[t.on], call[t.by].text),
          ![t.by].meant = call[t.by].text \cap Mapped(cache[t.on])]
    /\ told' = told \cup {<<t.on, n, cache[t.on].ids[n]>> :
                            n \in Aliases(cache[t.on], call[t.by].text)}
    /\ UNCHANGED <<cache, disk, dirty, depth, sealedTo, created, meddled, ops, crashes>>

\* Fault: the map is published now and written with the next flush.
CommitLater(b, m) ==
    /\ cache' = [cache EXCEPT ![b] = m]
    /\ dirty' = dirty \cup {b} /\ UNCHANGED disk

\* A completed transaction is written to disk before it is published.
Commit(b, m) ==
    /\ disk' = [disk EXCEPT ![b] = m]
    /\ cache' = [cache EXCEPT ![b] = m]
    /\ dirty' = dirty \ {b}

Fail(c, why) == call' = [call EXCEPT ![c].st = "failed", ![c].why = why]

\* A session that ends last flushes every map a freeze left in memory only.
EndSession(c) ==
    LET last == call[c].kind \in Holding /\ depth = 1 IN
    /\ depth' = IF call[c].kind \in Holding THEN depth - 1 ELSE depth
    /\ disk' = IF last THEN [b \in Buckets |-> IF b \in dirty THEN cache[b] ELSE disk[b]]
                       ELSE disk
    /\ dirty' = IF last THEN {} ELSE dirty

\* The text of a query holds no id the map does not know, or one that it must
\* take in (ids are matched anywhere in a text); other payloads hold records.
RunEncode ==
    LET t == Head(tasks)
        c == t.by
        m == cache[t.on]
        e == Encoded(m, call[c].text) IN
    /\ Head1("encode")
    /\ Fresh(m, call[c].text) = <<>> \/ ~m.sealed
    /\ IF e = m THEN UNCHANGED <<cache, disk, dirty>> ELSE Commit(t.on, e)
    /\ call' = [call EXCEPT ![c].st = "asking", ![c].ver = e.ver,
          ![c].said = IF call[c].kind = "query" THEN @ ELSE Aliases(e, call[c].text),
          ![c].meant = IF call[c].kind = "query" THEN @ ELSE call[c].text]
    /\ told' = told \cup {<<t.on, n, e.ids[n]>> : n \in Aliases(e, call[c].text)}
    /\ UNCHANGED <<depth, sealedTo, created, meddled, ops, crashes>>

\* A frozen map takes no new id, and a disk that refuses the write leaves the
\* map as it was: the operation fails.
EncodeFails ==
    LET t == Head(tasks)
        m == cache[t.on] IN
    /\ Head1("encode")
    /\ Fresh(m, call[t.by].text) # <<>>
    /\ Fail(t.by, IF m.sealed THEN "sealed" ELSE "disk")
    /\ EndSession(t.by)
    /\ UNCHANGED <<cache, sealedTo, created, told, meddled, ops, crashes>>

\* The LLM answers with the aliases it was shown.  A query decodes with the
\* table of the bucket it started with, everyone else with the table the
\* bucket leads to now.
Answer(c) ==
    /\ call[c].st = "asking"
    /\ tasks' = Append(tasks, Task(c, "decode",
          IF call[c].kind = "query" THEN call[c].bucket ELSE Resolve(call[c].bucket)))
    /\ call' = Step(c, "decode")
    /\ UNCHANGED <<cache, disk, dirty, depth, sealedTo, created, told, meddled, ops, crashes>>

\* An answer is decoded by the map it was asked with: the version must be the
\* one the payload was encoded at (a query does not ask).
Accepts(m, k) == k.kind = "query" \/ (m.ver = k.ver /\ Known(m, k.said))

RunDecode ==
    LET t == Head(tasks)
        k == call[t.by]
        m == cache[t.on] IN
    /\ Head1("decode")
    /\ Accepts(m, k)
    /\ call' = [call EXCEPT ![t.by].got = Decoded(m, k.said),
          ![t.by].st = IF k.kind \in Sealing THEN "seal" ELSE "done"]
    /\ IF k.kind \in Sealing THEN UNCHANGED <<disk, dirty, depth>> ELSE EndSession(t.by)
    /\ UNCHANGED <<cache, sealedTo, created, told, meddled, ops, crashes>>

DecodeRefused ==
    LET t == Head(tasks) IN
    /\ Head1("decode")
    /\ ~Accepts(cache[t.on], call[t.by])
    /\ Fail(t.by, "version")
    /\ EndSession(t.by)
    /\ UNCHANGED <<cache, sealedTo, created, told, meddled, ops, crashes>>

\* Fault: the map is frozen while the topology switch is still to come.
SealFrozen(c) ==
    /\ call[c].st = "seal"
    /\ cache' = [cache EXCEPT ![call[c].bucket] = Frozen(@)]
    /\ tasks' = Append(tasks, Task(c, "seal", call[c].bucket))
    /\ call' = Step(c, "encode")
    /\ UNCHANGED <<disk, dirty, depth, sealedTo, created, told, meddled, ops, crashes>>

\* The rebuild ends: the topology switches, and only then the map is frozen.
Seal(c) ==
    /\ call[c].st = "seal"
    /\ tasks' = Append(tasks, Task(c, "seal", call[c].bucket))
    /\ call' = Step(c, "encode")
    /\ UNCHANGED <<cache, disk, dirty, depth, sealedTo, created, told, meddled, ops, crashes>>

RunSeal ==
    LET t == Head(tasks) IN
    /\ Head1("seal")
    /\ sealedTo' = [sealedTo EXCEPT ![t.on] = call[t.by].to]
    /\ call' = Step(t.by, "freeze")
    /\ meddled' = (meddled \/ call[t.by].kind = "optimize")
    /\ UNCHANGED <<cache, disk, dirty, depth, created, told, ops, crashes>>

Freeze(c) ==
    /\ call[c].st = "freeze"
    /\ tasks' = Append(tasks, Task(c, "freeze", call[c].bucket))
    /\ call' = Step(c, "encode")
    /\ UNCHANGED <<cache, disk, dirty, depth, sealedTo, created, told, meddled, ops, crashes>>

\* Inside a session the frozen map waits in memory for the flush.
RunFreeze ==
    LET t == Head(tasks)
        c == t.by
        m == Frozen(cache[t.on]) IN
    /\ Head1("freeze")
    /\ cache' = [cache EXCEPT ![t.on] = m]
    /\ depth' = IF call[c].kind \in Holding THEN depth - 1 ELSE depth
    /\ IF depth' = 0
       THEN /\ disk' = [b \in Buckets |-> IF b \in dirty \cup {t.on} THEN cache'[b] ELSE disk[b]]
            /\ dirty' = {}
       ELSE disk' = disk /\ dirty' = dirty \cup {t.on}
    /\ call' = Step(c, "done")
    /\ UNCHANGED <<sealedTo, created, told, meddled, ops, crashes>>

\* What was in memory is gone; the topology and the files remain.
Crash ==
    /\ crashes < MaxCrashes
    /\ crashes' = crashes + 1
    /\ cache' = disk /\ dirty' = {} /\ depth' = 0
    /\ tasks' = <<>> /\ call' = [c \in Callers |-> NoCall]
    /\ UNCHANGED <<disk, sealedTo, created, told, meddled, ops>>

Run == RunCandidates \/ RunEncode \/ EncodeFails \/ RunDecode \/ DecodeRefused
          \/ RunSeal \/ RunFreeze

MapsNext ==
    \/ \E c \in Callers :
          \/ \E kind \in Kinds, text \in SUBSET Ids \ {{}} : Start(c, kind, text)
          \/ Candidates(c) \/ Prepare(c) \/ Answer(c) \/ Seal(c) \/ Freeze(c)
    \/ Run
    \/ Crash

MapsSpec == MapsInit /\ [][MapsNext]_mapVars

-----------------------------------------------------------------------------
\* Types; a bucket only ever leads to one created after it.
MapsTypeOK ==
    /\ \A b \in Buckets : IsMap(cache[b], Ids) /\ IsMap(disk[b], Ids)
    /\ dirty \subseteq Buckets /\ depth \in 0..Cardinality(Callers)
    /\ \A b \in Buckets : sealedTo[b] \in {0} \cup (b+1)..created
    /\ created \in Buckets
    /\ \A i \in DOMAIN tasks : tasks[i].by \in Callers /\ tasks[i].on \in Buckets
    /\ \A c \in Callers : call[c].st \in CallSteps /\ call[c].text \subseteq Ids

\* An alias that left the process means the same id in its bucket's map for
\* ever, in memory and on disk, whatever is allocated, frozen, flushed, refused
\* by the disk or lost in a crash afterwards (aliasing.py: the delta
\* transaction; storage.py: commit_alias_map publishes what it has persisted).
AliasesStick ==
    \A x \in told : LET b == x[1] IN LET n == x[2] IN
        /\ n \in DOMAIN cache[b].ids /\ cache[b].ids[n] = x[3]
        /\ n \in DOMAIN disk[b].ids /\ disk[b].ids[n] = x[3]

\* An operation that holds its bucket gets back the very ids it sent, although
\* the table is looked up again when the LLM has answered - as long as no
\* optimize, which takes no lock, seals buckets: the successor's map may have
\* reached the same version with other ids (optimize_service.py:
\* _apply_optimize_plan).
HoldersDecodeOwn ==
    ~meddled => \A c \in Callers :
        call[c].kind \in Holding /\ call[c].st \in {"seal", "freeze", "done"}
            => call[c].got = call[c].meant

\* No operation ever finds its map frozen: a bucket leads on before its map is
\* frozen, and work queued earlier runs earlier (bucket_topology_service.py:
\* _seal_bucket_unlocked switches, then freezes).
NeverFrozenUnderway == \A c \in Callers : call[c].why # "sealed"

\* Operations that hold their bucket decode what they encoded, and none finds
\* its map frozen (the two above).
AnswersDecode == HoldersDecodeOwn /\ NeverFrozenUnderway
=============================================================================
