------------------------ MODULE AdvanceQuery_proofs ------------------------
(* Aliases keep their meaning and operations read what they wrote in them,   *)
(* for any ids, callers, buckets and crashes; an advance query drops nothing *)
(* of its snapshot and sends no request that does not fit, for any tree,     *)
(* sizes, replies and failures.                                              *)
EXTENDS AliasMaps, AdvanceQuery, FiniteSetTheorems, SequenceTheorems,
        WellFoundedInduction, TLAPS

----------------------------------------------------------------------------
(* Numbers and sequences.                                                    *)

\* A nonempty set of numbers has a least one.
LEMMA Least ==
    ASSUME NEW T \in SUBSET Nat, T # {}
    PROVE  \E x \in T : \A y \in T : x <= y
<1>1. PICK x \in T : \A y \in T : ~ (<<y, x>> \in OpToRel(<, Nat))
    BY NatLessThanWellFounded, WFMin
<1>2. \A y \in T : y < x => <<y, x>> \in OpToRel(<, Nat)
    BY DEF OpToRel
<1>3. \A y \in T : ~(y < x)
    BY <1>1, <1>2, Zenon
<1> QED BY <1>3

\* Induction, over the set of the numbers for which something is so.
LEMMA Counting ==
    ASSUME NEW T, 0 \in T, \A n \in Nat : n \in T => n + 1 \in T
    PROVE  \A n \in Nat : n \in T
<1> DEFINE U == {n \in Nat : n \notin T}
<1> SUFFICES ASSUME U # {} PROVE FALSE
    OBVIOUS
<1>1. PICK x \in U : \A y \in U : x <= y
    BY Least
<1>2. x # 0 /\ x - 1 \in Nat /\ x - 1 \notin U
    BY <1>1
<1>3. x - 1 \in T /\ (x - 1) + 1 = x
    BY <1>2
<1> QED BY <1>2, <1>3

\* s puts the numbers of S in their order.
Orders(s, S) ==
    /\ s \in [1..Cardinality(S) -> S]
    /\ \A i, j \in 1..Cardinality(S) : i < j => s[i] < s[j]

\* Every finite set of numbers can be ordered.
LEMMA OrderExists ==
    ASSUME NEW S \in SUBSET Nat, IsFiniteSet(S)
    PROVE  \E s : Orders(s, S)
<1> DEFINE P(n) == \A A \in SUBSET Nat : IsFiniteSet(A) /\ Cardinality(A) = n
                                            => \E s : Orders(s, A)
           T == {n \in Nat : P(n)}
<1>1. 0 \in T
    <2> SUFFICES ASSUME NEW A \in SUBSET Nat, IsFiniteSet(A), Cardinality(A) = 0
                 PROVE  Orders([i \in 1..0 |-> 0], A)
        OBVIOUS
    <2> QED BY DEF Orders
<1>2. ASSUME NEW n \in Nat, P(n) PROVE P(n + 1)
    <2> SUFFICES ASSUME NEW A \in SUBSET Nat, IsFiniteSet(A), Cardinality(A) = n + 1
                 PROVE  \E s : Orders(s, A)
        OBVIOUS
    <2>1. A # {}
        BY FS_EmptySet
    <2>2. PICK x \in A : \A y \in A : x <= y
        BY <2>1, Least
    <2> DEFINE B == A \ {x}
    <2>3. IsFiniteSet(B) /\ Cardinality(B) = n /\ B \in SUBSET Nat
        BY FS_RemoveElement
    <2>4. PICK s : Orders(s, B)
        BY <1>2, <2>3
    <2> DEFINE t == [i \in 1..n+1 |-> IF i = 1 THEN x ELSE s[i - 1]]
    <2>5. s \in [1..n -> B] /\ \A i, j \in 1..n : i < j => s[i] < s[j]
        BY <2>3, <2>4 DEF Orders
    <2>6. \A i \in 1..n+1 : i = 1 \/ (i - 1 \in 1..n /\ s[i - 1] \in B)
        BY <2>5
    <2>7. t \in [1..n+1 -> A]
        BY <2>6
    <2>8. ASSUME NEW i \in 1..n+1, NEW j \in 1..n+1, i < j PROVE t[i] < t[j]
        <3>1. j # 1 /\ s[j - 1] \in A /\ s[j - 1] # x
            BY <2>6, <2>8
        <3>2. CASE i = 1
            <4>1. x \in Nat /\ s[j - 1] \in Nat /\ x <= s[j - 1] /\ x # s[j - 1]
                BY <2>2, <3>1
            <4>2. t[i] = x /\ t[j] = s[j - 1]
                BY <3>1, <3>2
            <4> HIDE DEF t
            <4> QED BY <4>1, <4>2
        <3>3. CASE i # 1
            BY <2>5, <2>6, <2>8, <3>1, <3>3
        <3> QED BY <3>2, <3>3
    <2> HIDE DEF t
    <2>9. Orders(t, A)
        BY <2>7, <2>8 DEF Orders
    <2> QED BY <2>9
<1>3. \A n \in Nat : n \in T
    <2>1. \A n \in Nat : n \in T => n + 1 \in T
        BY <1>2
    <2> HIDE DEF T
    <2> QED BY <1>1, <2>1, Counting
<1>4. P(Cardinality(S))
    BY <1>3, FS_CardinalityType
<1> HIDE DEF P
<1> QED BY <1>4 DEF P

\* The ascending sequence of a finite set holds all of it, in order.
LEMMA AscendingSorts ==
    ASSUME NEW S \in SUBSET Nat, IsFiniteSet(S)
    PROVE  /\ Ascending(S) \in Seq(S) /\ Len(Ascending(S)) = Cardinality(S)
           /\ Range(Ascending(S)) = S
           /\ Ascending(S) = <<>> <=> S = {}
<1> DEFINE s == Ascending(S)
           n == Cardinality(S)
<1>1. n \in Nat
    BY FS_CardinalityType
<1>2. Orders(s, S)
    <2>1. \E f : Orders(f, S)
        BY OrderExists
    <2>2. \E f \in [1..n -> S] : \A i, j \in DOMAIN f : i < j => f[i] < f[j]
        BY <2>1 DEF Orders
    <2>3. s \in [1..n -> S] /\ \A i, j \in DOMAIN s : i < j => s[i] < s[j]
        BY <2>2 DEF Ascending
    <2> HIDE DEF s
    <2> QED BY <2>3 DEF Orders
<1> HIDE DEF s
<1>3. s \in Seq(S) /\ Len(s) = n /\ DOMAIN s = 1..n
    BY <1>1, <1>2 DEF Orders
<1>4. Range(s) \subseteq S
    BY <1>2 DEF Orders, Range
<1>5. ASSUME NEW y \in S, y \notin Range(s) PROVE FALSE
    <2> DEFINE B == S \ {y}
    <2>1. IsFiniteSet(B) /\ Cardinality(B) = n - 1
        BY FS_RemoveElement
    <2>2. IsFiniteSet(1..n) /\ Cardinality(1..n) = n
        BY <1>1, FS_Interval
    <2>3. s \in [1..n -> B]
        BY <1>2, <1>5 DEF Orders, Range
    <2>4. PICK i \in 1..n, j \in 1..n : i # j /\ s[i] = s[j]
        <3>1. Cardinality(B) < Cardinality(1..n)
            BY <1>1, <2>1, <2>2
        <3> HIDE DEF B
        <3> QED BY <2>1, <2>2, <2>3, <3>1, FS_PigeonHole
    <2>5. s[i] \in Nat /\ s[j] \in Nat
        BY <1>2 DEF Orders
    <2> QED BY <1>1, <1>2, <2>4, <2>5 DEF Orders
<1>6. s = <<>> <=> S = {}
    <2>1. n = 0 <=> S = {}
        BY FS_EmptySet
    <2>2. s = <<>> <=> Len(s) = 0
        BY <1>3, EmptySeq
    <2> QED BY <1>3, <2>1, <2>2
<1> QED BY <1>3, <1>4, <1>5, <1>6 DEF s

----------------------------------------------------------------------------
(* One alias map.                                                            *)

MapOf(I) == [ids: Seq(I), ver: Nat \ {0}, sealed: BOOLEAN]

\* n has what m has, and maybe more behind it.
Extends(m, n) ==
    /\ Len(m.ids) <= Len(n.ids)
    /\ \A i \in 1..Len(m.ids) : n.ids[i] = m.ids[i]

\* A transaction adds what the text has and the map has not, and nothing moves.
LEMMA EncodedExtends ==
    ASSUME NEW I \in SUBSET Nat, IsFiniteSet(I), NEW m \in MapOf(I), NEW text \in SUBSET I
    PROVE  /\ Encoded(m, text) \in MapOf(I) /\ Encoded(m, text).sealed = m.sealed
           /\ Extends(m, Encoded(m, text))
           /\ text \subseteq Mapped(Encoded(m, text))
           /\ Fresh(m, text) = <<>> <=> text \subseteq Mapped(m)
<1> DEFINE S == text \ Mapped(m)
           s == Fresh(m, text)
           e == Encoded(m, text)
<1>1. S \in SUBSET Nat /\ S \subseteq I /\ IsFiniteSet(S)
    BY FS_Subset
<1>2. s \in Seq(S) /\ Range(s) = S /\ (s = <<>> <=> S = {})
    BY <1>1, AscendingSorts DEF Fresh
<1>3. s \in Seq(I) /\ m.ids \in Seq(I) /\ m.ver \in Nat \ {0} /\ Len(s) \in Nat
    BY <1>1, <1>2 DEF MapOf
<1>4. e.ids = m.ids \o s /\ e.ver = m.ver + Len(s) /\ e.sealed = m.sealed
    BY DEF Encoded, MapOf
<1>5. e \in MapOf(I)
    <2>1. m.ids \o s \in Seq(I)
        BY <1>3, ConcatProperties
    <2>2. m.ver + Len(s) \in Nat \ {0}
        BY <1>3
    <2> HIDE DEF s
    <2> QED BY <2>1, <2>2 DEF Encoded, MapOf, s
<1> HIDE DEF s, e
<1>6. /\ Len(e.ids) = Len(m.ids) + Len(s)
      /\ \A i \in 1..Len(m.ids) + Len(s) :
            e.ids[i] = IF i <= Len(m.ids) THEN m.ids[i] ELSE s[i - Len(m.ids)]
      /\ Len(m.ids) \in Nat
    BY <1>3, <1>4, ConcatProperties
<1>7. Extends(m, e)
    BY <1>3, <1>6 DEF Extends
<1>8. ASSUME NEW x \in text PROVE x \in Mapped(e)
    <2>1. CASE x \in Mapped(m)
        <3>1. PICK i \in 1..Len(m.ids) : m.ids[i] = x
            BY <1>3, <2>1 DEF Mapped, Range
        <3>2. i \in 1..Len(e.ids) /\ e.ids[i] = x
            BY <1>3, <1>6, <3>1
        <3> QED BY <1>5, <3>2 DEF Mapped, Range, MapOf
    <2>2. CASE x \notin Mapped(m)
        <3>1. PICK i \in 1..Len(s) : s[i] = x
            BY <1>2, <2>2 DEF Range
        <3> DEFINE j == i + Len(m.ids)
        <3>0. j \in 1..Len(m.ids) + Len(s) /\ ~(j <= Len(m.ids)) /\ j - Len(m.ids) = i
            BY <1>3, <1>6, <3>1
        <3>2. j \in 1..Len(e.ids) /\ e.ids[j] = x
            BY <1>6, <3>0, <3>1
        <3> HIDE DEF j
        <3> QED BY <1>5, <3>2 DEF Mapped, Range, MapOf
    <2> QED BY <2>1, <2>2
<1>9. s = <<>> <=> text \subseteq Mapped(m)
    BY <1>2
<1> QED BY <1>4, <1>5, <1>7, <1>8, <1>9 DEF e, s

\* A map decodes the aliases it gives for what it knows.
LEMMA AliasesDecode ==
    ASSUME NEW I, NEW m \in MapOf(I), NEW text
    PROVE  /\ Aliases(m, text) \subseteq 1..Len(m.ids) /\ Aliases(m, text) \in SUBSET Nat
           /\ \A n \in Aliases(m, text) : m.ids[n] \in text
           /\ text \subseteq Mapped(m) => {m.ids[n] : n \in Aliases(m, text)} = text
<1>1. DOMAIN m.ids = 1..Len(m.ids)
    BY DEF MapOf
<1>2. ASSUME text \subseteq Mapped(m), NEW x \in text
      PROVE  \E n \in Aliases(m, text) : m.ids[n] = x
    BY <1>1, <1>2 DEF Mapped, Range, Aliases
<1> QED BY <1>2 DEF Aliases

\* A seal leaves the ids alone.
LEMMA FrozenIsMap ==
    ASSUME NEW I, NEW m \in MapOf(I)
    PROVE  Frozen(m) \in MapOf(I) /\ Frozen(m).ids = m.ids
<1>1. m.ver + 1 \in Nat \ {0}
    BY DEF MapOf
<1>2. CASE m.sealed
    BY <1>2 DEF Frozen
<1>3. CASE ~m.sealed
    BY <1>1, <1>3 DEF MapOf, Frozen
<1> QED BY <1>2, <1>3

----------------------------------------------------------------------------
(* Where buckets lead.                                                       *)

\* sealedTo leads to later buckets only.
LeadsOn ==
    /\ sealedTo \in [Buckets -> 0..MaxBuckets]
    /\ \A b \in Buckets : sealedTo[b] = 0 \/ sealedTo[b] > b

\* f follows the successors of the buckets in S.
Follows(f, S) == f = [x \in S |-> IF sealedTo[x] = 0 THEN x ELSE f[sealedTo[x]]]

LEMMA FollowsExists ==
    ASSUME LeadsOn
    PROVE  \E f : Follows(f, Buckets)
<1> DEFINE N == MaxBuckets
           Last(n) == {c \in Buckets : c > N - n}
           T == {n \in Nat : \E f : Follows(f, Last(n))}
<1>0. N \in Nat \ {0} /\ Buckets = 1..N
    BY AliasMapsAssumption DEF Buckets
<1>1. 0 \in T
    <2>1. Last(0) = {}
        BY <1>0
    <2>2. Follows([c \in {} |-> c], {})
        BY DEF Follows
    <2> QED BY <2>1, <2>2
<1>2. ASSUME NEW n \in Nat, n \in T PROVE n + 1 \in T
    <2> DEFINE S == Last(n)
               R == Last(n + 1)
               x == N - n
    <2>1. PICK f : f = [c \in S |-> IF sealedTo[c] = 0 THEN c ELSE f[sealedTo[c]]]
        BY <1>2 DEF Follows
    <2> DEFINE g == [c \in R |-> IF c = x THEN IF sealedTo[c] = 0 THEN c ELSE f[sealedTo[c]] ELSE f[c]]
    <2>2. x \notin S /\ S \subseteq R /\ \A c \in R : c = x \/ c \in S
        BY <1>0
    <2>3. \A c \in R : sealedTo[c] # 0 => sealedTo[c] \in S
        BY <1>0 DEF LeadsOn
    <2> HIDE DEF S, x, Last, R
    <2>4. \A c \in R : g[c] = IF sealedTo[c] = 0 THEN c ELSE g[sealedTo[c]]
        <3> SUFFICES ASSUME NEW c \in R PROVE g[c] = IF sealedTo[c] = 0 THEN c ELSE g[sealedTo[c]]
            OBVIOUS
        <3>1. sealedTo[c] # 0 => g[sealedTo[c]] = f[sealedTo[c]]
            BY <2>2, <2>3
        <3>2. c # x => f[c] = IF sealedTo[c] = 0 THEN c ELSE f[sealedTo[c]]
            BY <2>1, <2>2
        <3> QED BY <3>1, <3>2
    <2> HIDE DEF g
    <2>5. g = [c \in R |-> g[c]]
        BY DEF g
    <2>6. g = [c \in R |-> IF sealedTo[c] = 0 THEN c ELSE g[sealedTo[c]]]
        BY <2>4, <2>5
    <2>7. Follows(g, R)
        BY <2>6, Zenon DEF Follows
    <2> QED BY <2>7 DEF R
<1>3. \A n \in Nat : n \in T
    <2>1. \A n \in Nat : n \in T => n + 1 \in T
        BY <1>2
    <2> HIDE DEF T
    <2> QED BY <1>1, <2>1, Counting
<1>4. Last(N) = Buckets
    BY <1>0
<1>5. N \in T
    BY <1>0, <1>3
<1> QED BY <1>4, <1>5

\* A bucket leads to itself, or to what its successor leads to.
LEMMA ResolveStep ==
    ASSUME LeadsOn, NEW b \in Buckets
    PROVE  Resolve(b) = IF sealedTo[b] = 0 THEN b ELSE Resolve(sealedTo[b])
<1> DEFINE F == CHOOSE f : f = [x \in Buckets |-> IF sealedTo[x] = 0 THEN x ELSE f[sealedTo[x]]]
<1>1. \A c : Resolve(c) = F[c]
    BY DEF Resolve
<1>2. F = [x \in Buckets |-> IF sealedTo[x] = 0 THEN x ELSE F[sealedTo[x]]]
    BY FollowsExists DEF Follows
<1> HIDE DEF F
<1> QED BY <1>1, <1>2

LEMMA ResolveEnds ==
    ASSUME LeadsOn, NEW b \in Buckets
    PROVE  /\ Resolve(b) \in Buckets /\ sealedTo[Resolve(b)] = 0
           /\ sealedTo[b] = 0 => Resolve(b) = b
           /\ Resolve(b) = b \/ \E c \in Buckets : Resolve(b) = sealedTo[c]
<1> DEFINE N == MaxBuckets
           Ends(c) == /\ Resolve(c) \in Buckets /\ sealedTo[Resolve(c)] = 0
                      /\ Resolve(c) = c \/ \E d \in Buckets : Resolve(c) = sealedTo[d]
           T == {n \in Nat : \A c \in Buckets : c > N - n => Ends(c)}
<1>0. N \in Nat \ {0} /\ Buckets = 1..N
    BY AliasMapsAssumption DEF Buckets
<1>1. 0 \in T
    BY <1>0
<1>2. ASSUME NEW n \in Nat, n \in T PROVE n + 1 \in T
    <2> SUFFICES ASSUME NEW c \in Buckets, c > N - (n + 1) PROVE Ends(c)
        OBVIOUS
    <2>1. CASE sealedTo[c] = 0
        BY <2>1, ResolveStep
    <2>2. CASE sealedTo[c] # 0
        <3>1. sealedTo[c] \in Buckets /\ sealedTo[c] > N - n
            BY <1>0, <2>2 DEF LeadsOn
        <3>2. Ends(sealedTo[c])
            BY <1>2, <3>1
        <3> QED BY <2>2, <3>2, ResolveStep
    <2> QED BY <2>1, <2>2
<1>3. \A n \in Nat : n \in T
    <2>1. \A n \in Nat : n \in T => n + 1 \in T
        BY <1>2
    <2> HIDE DEF T
    <2> QED BY <1>1, <2>1, Counting
<1>4. b > N - N
    BY <1>0
<1>5. Ends(b)
    BY <1>0, <1>3, <1>4
<1> QED BY <1>5, ResolveStep

----------------------------------------------------------------------------
(* The invariant of the alias maps.                                          *)

Work == {"candidates", "encode", "decode", "seal", "freeze"}
TaskRecord == [by: Callers, what: Work, on: Buckets]
CallRecord == [kind: Kinds, bucket: Buckets, text: SUBSET Ids, st: CallSteps, to: 0..MaxBuckets,
               ver: Nat, said: SUBSET Nat, meant: SUBSET Ids, got: SUBSET Ids,
               why: {"", "sealed", "disk", "version"}]

Holders == {c \in Callers : Busy(c) /\ call[c].kind \in Holding}

MapsTyped ==
    /\ cache \in [Buckets -> MapOf(Ids)] /\ disk \in [Buckets -> MapOf(Ids)]
    /\ dirty \subseteq Buckets /\ LeadsOn
    /\ created \in Buckets /\ \A b \in Buckets : sealedTo[b] <= created
    /\ tasks \in Seq(TaskRecord) /\ call \in [Callers -> CallRecord]
    /\ told \subseteq Buckets \X Nat \X Ids
    /\ meddled \in BOOLEAN /\ ops \in Nat /\ crashes \in Nat

\* Every open session is that of an operation that holds its bucket.
Sessions == depth = Cardinality(Holders)

\* The file of a map holds the ids the memory holds: what waits for a flush is
\* a seal.
SameIds == \A b \in Buckets : disk[b].ids = cache[b].ids

\* What was told is in the map.
ToldIn(x, m) == x[2] \in 1..Len(m.ids) /\ m.ids[x[2]] = x[3]
ToldKept == \A x \in told : ToldIn(x, cache[x[1]])

\* A caller has at most one task in the queue, and waits for it; a rebuild
\* leads on to a later bucket, and freezes only what leads on; candidates are
\* of queries.  (s and n are sealedTo and created.)
Waiting(t, k, s) ==
    /\ k.st = IF t.what = "decode" THEN "decode" ELSE "encode"
    /\ t.what \in {"seal", "freeze"} => k.kind \in Sealing /\ t.on = k.bucket
    /\ t.what = "freeze" => s[t.on] # 0
    /\ t.what = "candidates" => k.kind = "query"
Proper(k, s, n) ==
    /\ k.kind \in Sealing => k.to > k.bucket /\ k.to <= n
    /\ k.st \in {"seal", "freeze"} => k.kind \in Sealing
    /\ k.st = "freeze" => s[k.bucket] # 0
    /\ k.st = "candidates" => k.kind = "query"
TasksFit ==
    /\ \A i \in 1..Len(tasks) : Waiting(tasks[i], call[tasks[i].by], sealedTo)
    /\ \A i, j \in 1..Len(tasks) : tasks[i].by = tasks[j].by => i = j
    /\ \A c \in Callers : Proper(call[c], sealedTo, created)

\* A frozen bucket leads on, and no text waits to be encoded by a map that is
\* frozen or will be by then.
Freezes(t, b) == t.what = "freeze" /\ t.on = b
ThawedAhead ==
    /\ \A b \in Buckets : cache[b].sealed \/ disk[b].sealed => sealedTo[b] # 0
    /\ \A i \in 1..Len(tasks) : tasks[i].what = "encode" =>
          /\ ~cache[tasks[i].on].sealed
          /\ \A j \in 1..Len(tasks) : j < i => ~Freezes(tasks[j], tasks[i].on)
    /\ \A c \in Callers : call[c].why # "sealed"

\* Two operations that hold a bucket hold different ones.
Apart == \A c, d \in Holders : call[c].bucket = call[d].bucket => c = d

\* Until an optimize meddles, what an operation holds leads nowhere before it
\* seals it itself, and it works on its map: with what the map knows, and it
\* was given what it meant.  (s and m are sealedTo and the cached map.)
InHand(k, s, m) ==
    /\ k.st \in {"prepare", "asking", "decode", "seal"} => s[k.bucket] = 0
    /\ k.st \in {"asking", "decode"} =>
          k.said \subseteq 1..Len(m.ids) /\ {m.ids[n] : n \in k.said} = k.meant
    /\ k.st \in {"seal", "freeze", "done"} => k.got = k.meant
TaskInHand(t, k, s) ==
    /\ t.what \in {"encode", "decode", "seal"} => s[k.bucket] = 0 /\ t.on = k.bucket
    /\ t.what \in {"seal", "freeze"} => k.got = k.meant
Owned ==
    ~meddled =>
       /\ \A c \in Callers : call[c].kind \in Holding =>
             InHand(call[c], sealedTo, cache[call[c].bucket])
       /\ \A i \in 1..Len(tasks) : call[tasks[i].by].kind \in Holding =>
             TaskInHand(tasks[i], call[tasks[i].by], sealedTo)

MapsInv ==
    /\ MapsTyped /\ Sessions /\ SameIds /\ ToldKept /\ TasksFit /\ ThawedAhead
    /\ Apart /\ Owned

LEMMA NoCallFits ==
    /\ NoCall \in CallRecord /\ NoCall.st = "idle" /\ NoCall.kind = "query" /\ NoCall.why = ""
    /\ NoCall.bucket = 1 /\ NoCall.to = 0
<1>1. 1 \in Buckets /\ 0 \in 0..MaxBuckets
    BY AliasMapsAssumption DEF Buckets
<1>2. "query" \in Kinds /\ "idle" \in CallSteps
    BY DEF Kinds, CallSteps
<1> QED BY <1>1, <1>2 DEF NoCall, CallRecord

LEMMA MapsStart == MapsInit => MapsInv
<1> SUFFICES ASSUME MapsInit PROVE MapsInv
    OBVIOUS
<1>0. MaxBuckets \in Nat \ {0} /\ Buckets = 1..MaxBuckets /\ 1 \in Buckets
    BY AliasMapsAssumption DEF Buckets
<1>1. EmptyMap \in MapOf(Ids) /\ ~EmptyMap.sealed
    <2>1. <<>> \in Seq(Ids)
        OBVIOUS
    <2> QED BY <2>1 DEF EmptyMap, MapOf
<1>2. NoCall \in CallRecord /\ NoCall.st = "idle" /\ NoCall.kind = "query" /\ NoCall.why = ""
    BY <1>0, NoCallFits
<1>3. /\ cache = [b \in Buckets |-> EmptyMap] /\ disk = [b \in Buckets |-> EmptyMap]
      /\ dirty = {} /\ depth = 0 /\ sealedTo = [b \in Buckets |-> 0] /\ created = 1
      /\ tasks = <<>> /\ call = [c \in Callers |-> NoCall]
      /\ told = {} /\ meddled = FALSE /\ ops = 0 /\ crashes = 0
    BY DEF MapsInit
<1>4. tasks \in Seq(TaskRecord) /\ 1..Len(tasks) = {}
    BY <1>3
<1>5. /\ \A c \in Callers : call[c] = NoCall
      /\ \A c \in Callers : call[c].st = "idle" /\ call[c].kind = "query" /\ call[c].why = ""
    BY <1>2, <1>3
<1>6. MapsTyped
    <2>1. LeadsOn /\ \A b \in Buckets : sealedTo[b] <= created
        BY <1>0, <1>3 DEF LeadsOn
    <2>2. cache \in [Buckets -> MapOf(Ids)] /\ disk \in [Buckets -> MapOf(Ids)]
        BY <1>1, <1>3
    <2>3. call \in [Callers -> CallRecord]
        BY <1>2, <1>3
    <2> QED BY <1>0, <1>3, <1>4, <2>1, <2>2, <2>3 DEF MapsTyped
<1>7. Holders = {}
    <2>1. \A c \in Callers : call[c].st = "idle"
        BY <1>2, <1>5
    <2> QED BY <2>1 DEF Holders, Busy
<1>8. Sessions /\ Apart
    <2>1. depth = 0 /\ Cardinality({}) = 0
        BY <1>3, FS_EmptySet
    <2> QED BY <1>7, <2>1 DEF Sessions, Apart
<1>9. SameIds /\ ToldKept
    BY <1>3 DEF SameIds, ToldKept
<1>10. TasksFit
    BY <1>4, <1>5 DEF TasksFit, Proper, Sealing
<1>11. ThawedAhead
    <2>1. \A b \in Buckets : ~cache[b].sealed /\ ~disk[b].sealed
        BY <1>1, <1>3
    <2> QED BY <2>1, <1>4, <1>5 DEF ThawedAhead
<1>12. Owned
    BY <1>4, <1>5 DEF Owned, Holding
<1> QED BY <1>6, <1>8, <1>9, <1>10, <1>11, <1>12 DEF MapsInv

----------------------------------------------------------------------------
(* A caller hands a task to the storage thread.                              *)

\* One call changes its step, and nothing else of it.
LEMMA StepFits ==
    ASSUME call \in [Callers -> CallRecord], NEW c \in Callers, NEW st \in CallSteps,
           call' = Step(c, st)
    PROVE  /\ call' \in [Callers -> CallRecord]
           /\ \A d \in Callers : d # c => call'[d] = call[d]
           /\ LET k == call'[c] IN
              /\ k.st = st /\ k.kind = call[c].kind /\ k.bucket = call[c].bucket
              /\ k.text = call[c].text /\ k.to = call[c].to /\ k.ver = call[c].ver
              /\ k.said = call[c].said /\ k.meant = call[c].meant /\ k.got = call[c].got
              /\ k.why = call[c].why
<1>1. call[c] \in CallRecord
    OBVIOUS
<1>2. call'[c] = [call[c] EXCEPT !.st = st]
    BY DEF Step
<1>3. call'[c] \in CallRecord
    BY <1>1, <1>2 DEF CallRecord
<1>4. call' \in [Callers -> CallRecord] /\ \A d \in Callers : d # c => call'[d] = call[d]
    BY <1>2, <1>3 DEF Step
<1> QED BY <1>1, <1>2, <1>4 DEF CallRecord

LEMMA Enqueues ==
    ASSUME MapsInv, NEW c \in Callers, NEW what \in Work, NEW b \in Buckets,
           call[c].st \in {"candidates", "prepare", "asking", "seal", "freeze"},
           tasks' = Append(tasks, Task(c, what, b)),
           call' = Step(c, IF what = "decode" THEN "decode" ELSE "encode"),
           UNCHANGED <<cache, disk, dirty, depth, sealedTo, created, told, meddled, ops, crashes>>,
           what \in {"seal", "freeze"} => call[c].kind \in Sealing /\ b = call[c].bucket,
           what = "freeze" => sealedTo[b] # 0,
           what = "encode" => sealedTo[b] = 0,
           what = "decode" => call[c].st = "asking",
           what = "candidates" => call[c].kind = "query",
           ~meddled /\ call[c].kind \in Holding => TaskInHand(Task(c, what, b), call[c], sealedTo)
    PROVE  MapsInv'
<1> DEFINE t == Task(c, what, b)
           n == Len(tasks)
           st == IF what = "decode" THEN "decode" ELSE "encode"
<1>0. /\ MapsTyped /\ Sessions /\ SameIds /\ ToldKept /\ TasksFit /\ ThawedAhead /\ Apart /\ Owned
    BY DEF MapsInv
<1>1. t \in TaskRecord /\ t.by = c /\ t.what = what /\ t.on = b
    BY DEF Task, TaskRecord
<1> HIDE DEF t
<1>2. /\ tasks' \in Seq(TaskRecord) /\ Len(tasks') = n + 1 /\ n \in Nat
      /\ \A i \in 1..n : tasks'[i] = tasks[i] /\ tasks[i] \in TaskRecord
      /\ tasks'[n+1] = t /\ \A i \in 1..n+1 : i \in 1..n \/ i = n + 1
    <2>1. tasks \in Seq(TaskRecord) /\ tasks' = Append(tasks, t)
        BY <1>0 DEF MapsTyped, t
    <2> QED BY <1>1, <2>1, AppendProperties, ElementOfSeq, LenProperties
<1> HIDE DEF n
<1>3. /\ call' \in [Callers -> CallRecord] /\ \A d \in Callers : d # c => call'[d] = call[d]
      /\ call'[c].st = st /\ call'[c].kind = call[c].kind /\ call'[c].bucket = call[c].bucket
      /\ call'[c].said = call[c].said /\ call'[c].meant = call[c].meant
      /\ call'[c].got = call[c].got /\ call'[c].why = call[c].why /\ call'[c].to = call[c].to
    <2>1. st \in CallSteps /\ call \in [Callers -> CallRecord] /\ call' = Step(c, st)
        BY <1>0 DEF MapsTyped, CallSteps
    <2> QED BY <2>1, StepFits
<1>4. \A i \in 1..n : tasks[i].by # c /\ tasks[i].by \in Callers
    BY <1>0, <1>2 DEF TasksFit, Waiting, TaskRecord, n
<1>5. MapsTyped'
    BY <1>0, <1>2, <1>3 DEF MapsTyped, LeadsOn
<1>6. Holders' = Holders
    <2>1. \A d \in Callers : Busy(d)' <=> Busy(d)
        BY <1>3 DEF Busy
    <2>2. \A d \in Callers : call'[d].kind = call[d].kind
        BY <1>3
    <2> QED BY <2>1, <2>2 DEF Holders
<1>7. Sessions' /\ SameIds' /\ ToldKept'
    BY <1>0, <1>6 DEF Sessions, SameIds, ToldKept
<1>8. Apart'
    <2>1. \A d \in Callers : call'[d].bucket = call[d].bucket
        BY <1>3
    <2> QED BY <1>0, <1>6, <2>1 DEF Apart, Holders
<1>9. TasksFit'
    <2>1. ASSUME NEW i \in 1..n+1
          PROVE  Waiting(tasks'[i], call'[tasks'[i].by], sealedTo')
        <3>1. CASE i \in 1..n
            <4>1. tasks'[i] = tasks[i] /\ call'[tasks[i].by] = call[tasks[i].by]
                BY <1>2, <1>3, <1>4, <3>1
            <4> QED BY <1>0, <3>1, <4>1 DEF TasksFit, n
        <3>2. CASE i = n + 1
            BY <1>1, <1>2, <1>3, <3>2 DEF Waiting
        <3> QED BY <1>2, <3>1, <3>2
    <2>2. \A i, j \in 1..n+1 : tasks'[i].by = tasks'[j].by => i = j
        <3>1. \A i, j \in 1..n : tasks[i].by = tasks[j].by => i = j
            BY <1>0 DEF TasksFit, n
        <3> QED BY <1>1, <1>2, <1>4, <3>1
    <2>3. \A d \in Callers : Proper(call'[d], sealedTo', created')
        <3>1. Proper(call[c], sealedTo, created)
            BY <1>0 DEF TasksFit
        <3>2. Proper(call'[c], sealedTo', created')
            BY <1>3, <3>1 DEF Proper
        <3> QED BY <1>0, <1>3, <3>2 DEF TasksFit
    <2> QED BY <1>2, <2>1, <2>2, <2>3 DEF TasksFit
<1>10. ThawedAhead'
    <2>1. ASSUME NEW i \in 1..n+1, tasks'[i].what = "encode"
          PROVE  /\ ~cache[tasks'[i].on].sealed
                 /\ \A j \in 1..n+1 : j < i => ~Freezes(tasks'[j], tasks'[i].on)
        <3>1. CASE i \in 1..n
            <4>1. \A j \in 1..n+1 : j < i => j \in 1..n
                BY <1>2, <3>1
            <4> QED BY <1>0, <1>2, <2>1, <3>1, <4>1 DEF ThawedAhead, n
        <3>2. CASE i = n + 1
            <4>1. what = "encode" /\ tasks'[i].on = b
                BY <1>1, <1>2, <2>1, <3>2
            <4>2. ~cache[b].sealed
                BY <1>0, <4>1 DEF ThawedAhead
            <4>3. \A j \in 1..n : ~Freezes(tasks[j], b)
                BY <1>0, <4>1 DEF TasksFit, Waiting, Freezes, n
            <4> QED BY <1>2, <3>2, <4>1, <4>2, <4>3
        <3> QED BY <1>2, <3>1, <3>2
    <2>2. \A d \in Callers : call'[d].why # "sealed"
        BY <1>0, <1>3 DEF ThawedAhead
    <2>3. \A d \in Buckets : cache[d].sealed \/ disk[d].sealed => sealedTo[d] # 0
        BY <1>0 DEF ThawedAhead
    <2> QED BY <1>2, <2>1, <2>2, <2>3 DEF ThawedAhead
<1>11. Owned'
    <2> SUFFICES ASSUME ~meddled PROVE
              /\ \A d \in Callers : call'[d].kind \in Holding =>
                    InHand(call'[d], sealedTo', cache'[call'[d].bucket])
              /\ \A i \in 1..n+1 : call'[tasks'[i].by].kind \in Holding =>
                    TaskInHand(tasks'[i], call'[tasks'[i].by], sealedTo')
        BY <1>2 DEF Owned
    <2>1. /\ \A d \in Callers : call[d].kind \in Holding =>
                 InHand(call[d], sealedTo, cache[call[d].bucket])
          /\ \A i \in 1..n : call[tasks[i].by].kind \in Holding =>
                    TaskInHand(tasks[i], call[tasks[i].by], sealedTo)
        BY <1>0 DEF Owned, n
    <2>2. ASSUME call[c].kind \in Holding
          PROVE  InHand(call'[c], sealedTo', cache'[call'[c].bucket])
        <3>1. TaskInHand(t, call[c], sealedTo) /\ InHand(call[c], sealedTo, cache[call[c].bucket])
            BY <2>1, <2>2 DEF t
        <3> QED BY <1>1, <1>3, <3>1 DEF InHand, TaskInHand
    <2>3. ASSUME NEW i \in 1..n+1, call'[tasks'[i].by].kind \in Holding
          PROVE  TaskInHand(tasks'[i], call'[tasks'[i].by], sealedTo')
        <3>1. CASE i \in 1..n
            <4>1. tasks'[i] = tasks[i] /\ call'[tasks[i].by] = call[tasks[i].by]
                BY <1>2, <1>3, <1>4, <3>1
            <4> QED BY <2>1, <2>3, <3>1, <4>1
        <3>2. CASE i = n + 1
            <4>1. tasks'[i] = t /\ call[c].kind \in Holding
                BY <1>1, <1>2, <1>3, <2>3, <3>2
            <4>2. TaskInHand(t, call[c], sealedTo)
                BY <4>1 DEF t
            <4> QED BY <1>1, <1>3, <4>1, <4>2 DEF TaskInHand
        <3> QED BY <1>2, <3>1, <3>2
    <2> QED BY <1>3, <2>1, <2>2, <2>3
<1> QED BY <1>5, <1>7, <1>8, <1>9, <1>10, <1>11 DEF MapsInv

----------------------------------------------------------------------------
(* The storage thread runs the first task: k is what becomes of its caller.  *)

LEMMA Dequeues ==
    ASSUME MapsInv, tasks # <<>>, tasks' = Tail(tasks), NEW k \in CallRecord,
           call' = [call EXCEPT ![Head(tasks).by] = k],
           k.kind = call[Head(tasks).by].kind, k.bucket = call[Head(tasks).by].bucket,
           Proper(k, sealedTo', created), k.why # "sealed",
           cache' \in [Buckets -> MapOf(Ids)], disk' \in [Buckets -> MapOf(Ids)],
           dirty' \subseteq Buckets, LeadsOn', \A b \in Buckets : sealedTo'[b] <= created,
           created' = created, told' \subseteq Buckets \X Nat \X Ids,
           meddled' \in BOOLEAN, ops' = ops, crashes' = crashes, SameIds', Sessions',
           \A b \in Buckets : Extends(cache[b], cache'[b]),
           \A x \in told' : x \in told \/ ToldIn(x, cache'[x[1]]),
           \A b \in Buckets : sealedTo[b] # 0 => sealedTo'[b] # 0,
           \A b \in Buckets : cache'[b].sealed => cache[b].sealed \/ Freezes(Head(tasks), b),
           \A b \in Buckets : disk'[b].sealed => \/ disk[b].sealed \/ cache[b].sealed
                                                 \/ Freezes(Head(tasks), b),
           meddled => meddled',
           ~meddled' => \A b \in Buckets : \/ sealedTo'[b] = sealedTo[b]
                                           \/ /\ Head(tasks).by \in Holders
                                              /\ call[Head(tasks).by].bucket = b,
           ~meddled' /\ k.kind \in Holding => InHand(k, sealedTo', cache'[k.bucket])
    PROVE  MapsInv'
<1> DEFINE t == Head(tasks)
           c == t.by
           n == Len(tasks)
<1>0. /\ MapsTyped /\ Sessions /\ SameIds /\ ToldKept /\ TasksFit /\ ThawedAhead /\ Apart /\ Owned
    BY DEF MapsInv
<1>1. tasks \in Seq(TaskRecord) /\ call \in [Callers -> CallRecord]
    BY <1>0 DEF MapsTyped
<1>2. /\ t \in TaskRecord /\ t = tasks[1] /\ n \in Nat /\ n >= 1
      /\ tasks' \in Seq(TaskRecord) /\ Len(tasks') = n - 1
      /\ \A i \in 1..n-1 : tasks'[i] = tasks[i+1] /\ i + 1 \in 1..n /\ tasks[i+1] \in TaskRecord
    <2>1. n \in Nat /\ n # 0
        BY <1>1
    <2>2. /\ t = tasks[1] /\ 1 \in 1..n /\ tasks' \in Seq(TaskRecord) /\ Len(tasks') = n - 1
          /\ \A i \in 1..n-1 : tasks'[i] = tasks[i+1] /\ i + 1 \in 1..n
        BY <1>1, <2>1, HeadTailProperties
    <2>3. \A i \in 1..n : tasks[i] \in TaskRecord
        BY <1>1, ElementOfSeq
    <2> QED BY <2>1, <2>2, <2>3
<1> HIDE DEF t, n
<1>3. c \in Callers /\ t.on \in Buckets /\ 1 \in 1..n
    BY <1>2 DEF TaskRecord
<1>4. /\ call' \in [Callers -> CallRecord] /\ call'[c] = k
      /\ \A d \in Callers : d # c => call'[d] = call[d]
    BY <1>1, <1>3 DEF t
<1>5. Waiting(t, call[c], sealedTo) /\ call[c].st \in {"encode", "decode"} /\ Busy(c)
    <2>1. Waiting(t, call[c], sealedTo)
        BY <1>0, <1>2, <1>3 DEF TasksFit, n
    <2>2. call[c].st \in {"encode", "decode"}
        BY <2>1 DEF Waiting
    <2> QED BY <2>1, <2>2 DEF Busy
<1>6. \A i \in 1..n-1 : tasks'[i].by # c /\ tasks'[i].by \in Callers
                        /\ call'[tasks'[i].by] = call[tasks[i+1].by]
    <2>1. \A i \in 1..n-1 : tasks[i+1].by # tasks[1].by
        BY <1>0, <1>2, <1>3 DEF TasksFit, n
    <2> QED BY <1>2, <1>4, <2>1 DEF TaskRecord
<1>7. MapsTyped'
    BY <1>0, <1>2, <1>4 DEF MapsTyped
<1>8. Holders' \subseteq Holders /\ \A d \in Callers : call'[d].bucket = call[d].bucket
                                       /\ call'[d].kind = call[d].kind
    <2>1. \A d \in Callers : call'[d].bucket = call[d].bucket /\ call'[d].kind = call[d].kind
        BY <1>4 DEF t
    <2>2. \A d \in Callers : d # c => (Busy(d)' <=> Busy(d))
        BY <1>4 DEF Busy
    <2> QED BY <1>5, <2>1, <2>2 DEF Holders
<1>9. Apart'
    BY <1>0, <1>8 DEF Apart, Holders
<1>10. ToldKept'
    <2>1. ASSUME NEW x \in told PROVE ToldIn(x, cache'[x[1]])
        <3>1. x[1] \in Buckets /\ ToldIn(x, cache[x[1]])
            BY <1>0 DEF MapsTyped, ToldKept
        <3>2. cache[x[1]] \in MapOf(Ids) /\ cache'[x[1]] \in MapOf(Ids)
            BY <1>0, <3>1 DEF MapsTyped
        <3> QED BY <3>1, <3>2 DEF ToldIn, Extends, MapOf
    <2> QED BY <2>1 DEF ToldKept
<1>11. TasksFit'
    <2>1. ASSUME NEW i \in 1..n-1
          PROVE  Waiting(tasks'[i], call'[tasks'[i].by], sealedTo')
        <3>1. Waiting(tasks[i+1], call[tasks[i+1].by], sealedTo) /\ tasks[i+1].on \in Buckets
            BY <1>0, <1>2 DEF TasksFit, TaskRecord, n
        <3> QED BY <1>2, <1>6, <3>1 DEF Waiting
    <2>2. \A i, j \in 1..n-1 : tasks'[i].by = tasks'[j].by => i = j
        <3>1. \A i, j \in 1..n : tasks[i].by = tasks[j].by => i = j
            BY <1>0 DEF TasksFit, n
        <3> QED BY <1>2, <3>1
    <2>3. ASSUME NEW d \in Callers PROVE Proper(call'[d], sealedTo', created')
        <3>1. CASE d = c
            BY <1>4, <3>1
        <3>2. CASE d # c
            <4>1. Proper(call[d], sealedTo, created) /\ call[d].bucket \in Buckets
                BY <1>0, <1>1 DEF TasksFit, CallRecord
            <4> QED BY <1>4, <3>2, <4>1 DEF Proper
        <3> QED BY <3>1, <3>2
    <2> QED BY <1>2, <2>1, <2>2, <2>3 DEF TasksFit
<1>12. ThawedAhead'
    <2>1. ASSUME NEW b \in Buckets, cache'[b].sealed \/ disk'[b].sealed PROVE sealedTo'[b] # 0
        <3>1. CASE Freezes(t, b)
            BY <1>5, <3>1 DEF Freezes, Waiting
        <3>2. CASE ~Freezes(t, b)
            BY <1>0, <2>1, <3>2 DEF ThawedAhead, t
        <3> QED BY <3>1, <3>2
    <2>2. ASSUME NEW i \in 1..n-1, tasks'[i].what = "encode"
          PROVE  /\ ~cache'[tasks'[i].on].sealed
                 /\ \A j \in 1..n-1 : j < i => ~Freezes(tasks'[j], tasks'[i].on)
        <3>1. /\ tasks[i+1].what = "encode" /\ i + 1 \in 1..n /\ tasks[i+1].on \in Buckets
              /\ tasks'[i].on = tasks[i+1].on
            BY <1>2, <2>2 DEF TaskRecord
        <3>2. /\ ~cache[tasks[i+1].on].sealed
              /\ \A j \in 1..n : j < i + 1 => ~Freezes(tasks[j], tasks[i+1].on)
            BY <1>0, <3>1 DEF ThawedAhead, n
        <3>3. ~Freezes(t, tasks[i+1].on)
            BY <1>2, <1>3, <3>2
        <3>4. \A j \in 1..n-1 : j < i => ~Freezes(tasks'[j], tasks[i+1].on)
            BY <1>2, <3>2
        <3> QED BY <3>1, <3>2, <3>3, <3>4 DEF t
    <2>3. \A d \in Callers : call'[d].why # "sealed"
        BY <1>0, <1>4 DEF ThawedAhead
    <2> QED BY <1>2, <2>1, <2>2, <2>3 DEF ThawedAhead
<1>13. Owned'
    <2> SUFFICES ASSUME ~meddled' PROVE
              /\ \A d \in Callers : call'[d].kind \in Holding =>
                    InHand(call'[d], sealedTo', cache'[call'[d].bucket])
              /\ \A i \in 1..n-1 : call'[tasks'[i].by].kind \in Holding =>
                    TaskInHand(tasks'[i], call'[tasks'[i].by], sealedTo')
        BY <1>2 DEF Owned
    <2>1. /\ \A d \in Callers : call[d].kind \in Holding =>
                 InHand(call[d], sealedTo, cache[call[d].bucket])
          /\ \A i \in 1..n : call[tasks[i].by].kind \in Holding =>
                    TaskInHand(tasks[i], call[tasks[i].by], sealedTo)
        BY <1>0 DEF Owned, n
    <2>2. ASSUME NEW d \in Holders, d # c
          PROVE  sealedTo'[call[d].bucket] = sealedTo[call[d].bucket]
        <3>1. call[d].bucket \in Buckets
            BY <1>1 DEF Holders, CallRecord
        <3>2. ~(c \in Holders /\ call[c].bucket = call[d].bucket)
            BY <1>0, <2>2 DEF Apart
        <3> QED BY <3>1, <3>2 DEF t
    <2>3. ASSUME NEW d \in Callers, d # c, call[d].kind \in Holding
          PROVE  InHand(call'[d], sealedTo', cache'[call'[d].bucket])
        <3> DEFINE q == call[d]
                   m == cache[q.bucket]
                   m2 == cache'[q.bucket]
        <3>0. q \in CallRecord /\ q.bucket \in Buckets /\ call'[d] = q
            BY <1>1, <1>4, <2>3 DEF CallRecord
        <3>1. InHand(q, sealedTo, m)
            BY <2>1, <2>3
        <3>2. q.st \in {"prepare", "asking", "decode", "seal"} => sealedTo'[q.bucket] = 0
            <4>1. q.st \in {"prepare", "asking", "decode", "seal"} => d \in Holders
                BY <2>3 DEF Holders, Busy
            <4> QED BY <2>2, <2>3, <3>1, <4>1 DEF InHand
        <3>3. Extends(m, m2) /\ m \in MapOf(Ids) /\ m2 \in MapOf(Ids)
            BY <1>0, <3>0 DEF MapsTyped
        <3> HIDE DEF m, m2, q
        <3>4. q.st \in {"asking", "decode"} =>
                  q.said \subseteq 1..Len(m2.ids) /\ {m2.ids[j] : j \in q.said} = q.meant
            <4> SUFFICES ASSUME q.st \in {"asking", "decode"}
                         PROVE  q.said \subseteq 1..Len(m2.ids) /\ {m2.ids[j] : j \in q.said} = q.meant
                OBVIOUS
            <4>1. q.said \subseteq 1..Len(m.ids) /\ {m.ids[j] : j \in q.said} = q.meant
                BY <3>1 DEF InHand
            <4>2. Len(m.ids) \in Nat /\ Len(m2.ids) \in Nat
                BY <3>3 DEF MapOf
            <4>3. \A j \in q.said : m2.ids[j] = m.ids[j] /\ j \in 1..Len(m2.ids)
                BY <3>3, <4>1, <4>2 DEF Extends
            <4> QED BY <4>1, <4>3
        <3>5. InHand(q, sealedTo', m2)
            BY <3>1, <3>2, <3>4 DEF InHand
        <3> QED BY <3>0, <3>5 DEF q, m2
    <2>4. ASSUME NEW i \in 1..n-1, call'[tasks'[i].by].kind \in Holding
          PROVE  TaskInHand(tasks'[i], call'[tasks'[i].by], sealedTo')
        <3> DEFINE d == tasks[i+1].by
        <3>1. /\ d \in Callers /\ d # c /\ tasks'[i] = tasks[i+1] /\ call'[d] = call[d]
              /\ i + 1 \in 1..n
            BY <1>2, <1>4, <1>6
        <3>2. TaskInHand(tasks[i+1], call[d], sealedTo) /\ call[d].kind \in Holding
            BY <2>1, <2>4, <3>1
        <3>3. Waiting(tasks[i+1], call[d], sealedTo)
            BY <1>0, <3>1 DEF TasksFit, n
        <3>4. d \in Holders
            BY <3>1, <3>2, <3>3 DEF Holders, Busy, Waiting
        <3>5. sealedTo'[call[d].bucket] = sealedTo[call[d].bucket]
            BY <2>2, <3>1, <3>4
        <3> QED BY <3>1, <3>2, <3>5 DEF TaskInHand
    <2>5. k.kind \in Holding => InHand(call'[c], sealedTo', cache'[call'[c].bucket])
        BY <1>4
    <2> QED BY <1>4, <1>8, <2>3, <2>4, <2>5
<1> QED BY <1>7, <1>9, <1>10, <1>11, <1>12, <1>13 DEF MapsInv

\* The caller of the first task waits for it.
LEMMA HeadWaits ==
    ASSUME MapsInv, tasks # <<>>
    PROVE  LET t == Head(tasks) IN LET k == call[t.by] IN
           /\ t = tasks[1] /\ 1 \in 1..Len(tasks)
           /\ t \in TaskRecord /\ t.by \in Callers /\ t.on \in Buckets /\ k \in CallRecord
           /\ k.bucket \in Buckets /\ Waiting(t, k, sealedTo) /\ Busy(t.by)
           /\ Proper(k, sealedTo, created) /\ k.why # "sealed"
           /\ k.kind \in Holding => t.by \in Holders
<1> DEFINE t == Head(tasks)
<1>1. tasks \in Seq(TaskRecord) /\ call \in [Callers -> CallRecord] /\ TasksFit /\ ThawedAhead
    BY DEF MapsInv, MapsTyped
<1>2. t = tasks[1] /\ 1 \in 1..Len(tasks) /\ t \in TaskRecord
    BY <1>1
<1> HIDE DEF t
<1>3. t.by \in Callers /\ t.on \in Buckets /\ call[t.by] \in CallRecord /\ call[t.by].bucket \in Buckets
    BY <1>1, <1>2 DEF TaskRecord, CallRecord
<1>4. Waiting(t, call[t.by], sealedTo) /\ Proper(call[t.by], sealedTo, created)
      /\ call[t.by].why # "sealed"
    BY <1>1, <1>2, <1>3 DEF TasksFit, ThawedAhead
<1>5. Busy(t.by)
    BY <1>4 DEF Waiting, Busy
<1> QED BY <1>2, <1>3, <1>4, <1>5 DEF t, Holders

\* An operation that stays busy, or is ended, keeps count of the sessions.
LEMMA SessionsCounted ==
    ASSUME Sessions, NEW c \in Callers, Busy(c), NEW k,
           call' = [call EXCEPT ![c] = k], call \in [Callers -> CallRecord],
           k.kind = call[c].kind,
           \/ k.st \notin {"idle", "done", "failed"} /\ depth' = depth
           \/ /\ k.st \in {"done", "failed"}
              /\ depth' = IF call[c].kind \in Holding THEN depth - 1 ELSE depth
    PROVE  Sessions'
<1>1. call'[c] = k /\ \A d \in Callers : d # c => call'[d] = call[d]
    OBVIOUS
<1>2. \A d \in Callers : d # c => (Busy(d)' <=> Busy(d))
    BY <1>1 DEF Busy
<1>3. IsFiniteSet(Holders)
    BY AliasMapsAssumption, FS_Subset DEF Holders
<1>4. CASE k.st \notin {"idle", "done", "failed"} /\ depth' = depth
    <2>1. Busy(c)'
        BY <1>1, <1>4 DEF Busy
    <2>2. Holders' = Holders
        BY <1>1, <1>2, <2>1 DEF Holders
    <2> QED BY <1>4, <2>2 DEF Sessions
<1>5. CASE /\ k.st \in {"done", "failed"}
           /\ depth' = IF call[c].kind \in Holding THEN depth - 1 ELSE depth
    <2>1. ~Busy(c)'
        BY <1>1, <1>5 DEF Busy
    <2>2. Holders' = Holders \ {c}
        BY <1>1, <1>2, <2>1 DEF Holders
    <2>3. c \in Holders <=> call[c].kind \in Holding
        BY DEF Holders
    <2> QED BY <1>3, <1>5, <2>2, <2>3, FS_RemoveElement DEF Sessions
<1> QED BY <1>4, <1>5

\* What a session that ends leaves on disk.
LEMMA SessionEnds ==
    ASSUME MapsInv, NEW c \in Callers, EndSession(c), cache' = cache
    PROVE  /\ disk' \in [Buckets -> MapOf(Ids)] /\ dirty' \subseteq Buckets /\ SameIds'
           /\ \A b \in Buckets : disk'[b].sealed => disk[b].sealed \/ cache[b].sealed
           /\ depth' = IF call[c].kind \in Holding THEN depth - 1 ELSE depth
<1>1. /\ cache \in [Buckets -> MapOf(Ids)] /\ disk \in [Buckets -> MapOf(Ids)]
      /\ dirty \subseteq Buckets /\ SameIds
    BY DEF MapsInv, MapsTyped
<1>2. disk' = disk \/ disk' = [b \in Buckets |-> IF b \in dirty THEN cache[b] ELSE disk[b]]
    BY DEF EndSession
<1>3. \A b \in Buckets : disk'[b] = disk[b] \/ disk'[b] = cache[b]
    BY <1>2
<1>4. disk' \in [Buckets -> MapOf(Ids)]
    BY <1>1, <1>2
<1>5. SameIds'
    BY <1>1, <1>3 DEF SameIds
<1>6. dirty' \subseteq Buckets /\ depth' = IF call[c].kind \in Holding THEN depth - 1 ELSE depth
    BY <1>1 DEF EndSession
<1> QED BY <1>3, <1>4, <1>5, <1>6

\* A map extends itself.
LEMMA SameExtends ==
    ASSUME cache \in [Buckets -> MapOf(Ids)], cache' = cache
    PROVE  \A b \in Buckets : Extends(cache[b], cache'[b])
<1>1. \A b \in Buckets : Len(cache[b].ids) \in Nat
    BY DEF MapOf
<1> QED BY <1>1 DEF Extends

LEMMA CallParts ==
    ASSUME NEW q \in CallRecord
    PROVE  /\ q.kind \in Kinds /\ q.bucket \in Buckets /\ q.text \in SUBSET Ids
           /\ q.st \in CallSteps /\ q.to \in 0..MaxBuckets /\ q.ver \in Nat
           /\ q.said \in SUBSET Nat /\ q.meant \in SUBSET Ids /\ q.got \in SUBSET Ids
           /\ q.why \in {"", "sealed", "disk", "version"}
    BY DEF CallRecord

\* What the storage thread may change of a call keeps its type.
LEMMA CallFits ==
    ASSUME NEW q \in CallRecord, NEW st \in CallSteps, NEW ver \in Nat, NEW said \in SUBSET Nat,
           NEW meant \in SUBSET Ids, NEW got \in SUBSET Ids,
           NEW why \in {"", "sealed", "disk", "version"}
    PROVE  /\ [q EXCEPT !.st = st, !.said = said, !.meant = meant] \in CallRecord
           /\ [q EXCEPT !.st = st, !.ver = ver, !.said = said, !.meant = meant] \in CallRecord
           /\ [q EXCEPT !.st = st, !.why = why] \in CallRecord
           /\ [q EXCEPT !.st = st, !.got = got] \in CallRecord
           /\ [q EXCEPT !.got = got, !.st = st] \in CallRecord
           /\ [q EXCEPT !.st = st] \in CallRecord
    BY DEF CallRecord

LEMMA RunCandidatesKeeps == MapsInv /\ RunCandidates => MapsInv'
<1> SUFFICES ASSUME MapsInv, RunCandidates PROVE MapsInv'
    OBVIOUS
<1> DEFINE t == Head(tasks)
           q == call[t.by]
           m == cache[t.on]
           k == [q EXCEPT !.st = "prepare", !.said = Aliases(m, q.text),
                          !.meant = q.text \cap Mapped(m)]
<1>1. /\ tasks # <<>> /\ t.what = "candidates" /\ tasks' = Tail(tasks)
      /\ UNCHANGED <<cache, disk, dirty, depth, sealedTo, created, meddled, ops, crashes>>
      /\ told' = told \cup {<<t.on, n, m.ids[n]>> : n \in Aliases(m, q.text)}
    BY DEF RunCandidates, Head1
<1>2. MapsTyped /\ Sessions /\ SameIds /\ call \in [Callers -> CallRecord]
    BY DEF MapsInv, MapsTyped
<1>3. /\ t.by \in Callers /\ t.on \in Buckets /\ q \in CallRecord /\ Waiting(t, q, sealedTo)
      /\ Busy(t.by) /\ Proper(q, sealedTo, created) /\ q.why # "sealed"
    BY <1>1, HeadWaits
<1>4. m \in MapOf(Ids)
    BY <1>2, <1>3 DEF MapsTyped
<1>5. call' = [call EXCEPT ![t.by] = k]
    BY <1>2, <1>3 DEF RunCandidates
<1>6. /\ Aliases(m, q.text) \subseteq 1..Len(m.ids) /\ Len(m.ids) \in Nat
      /\ Aliases(m, q.text) \in SUBSET Nat
      /\ \A n \in Aliases(m, q.text) : m.ids[n] \in Ids
    <2>1. Aliases(m, q.text) \subseteq 1..Len(m.ids) /\ Aliases(m, q.text) \in SUBSET Nat
        BY <1>4, AliasesDecode
    <2> QED BY <1>4, <2>1 DEF MapOf
<1> HIDE DEF t, q, m
<1>7. k.st = "prepare" /\ k.kind = q.kind /\ k.bucket = q.bucket /\ k.why = q.why /\ k.to = q.to
    BY <1>3 DEF CallRecord
<1>8. k \in CallRecord
    <2>1. "prepare" \in CallSteps
        BY DEF CallSteps
    <2>2. q.text \cap Mapped(m) \in SUBSET Ids
        BY <1>3, CallParts
    <2>3. q.ver \in Nat /\ q.got \in SUBSET Ids /\ q.why \in {"", "sealed", "disk", "version"}
        BY <1>3, CallParts
    <2> QED BY <1>3, <1>6, <2>1, <2>2, <2>3, CallFits
<1> HIDE DEF k
<1>9. /\ \A x \in told' : x \in told \/ ToldIn(x, cache'[x[1]])
      /\ told' \subseteq Buckets \X Nat \X Ids
    <2>1. told \subseteq Buckets \X Nat \X Ids
        BY <1>2 DEF MapsTyped
    <2>2. ASSUME NEW n \in Aliases(m, q.text)
          PROVE  /\ <<t.on, n, m.ids[n]>> \in Buckets \X Nat \X Ids
                 /\ ToldIn(<<t.on, n, m.ids[n]>>, cache'[t.on])
        BY <1>1, <1>3, <1>6, <2>2 DEF ToldIn, m
    <2> QED BY <1>1, <2>1, <2>2
<1>10. Sessions'
    BY <1>1, <1>2, <1>3, <1>5, <1>7, SessionsCounted DEF q
<1>11. k.kind \notin Holding
    BY <1>1, <1>3, <1>7 DEF Waiting, Holding
<1>12. Proper(k, sealedTo', created)
    BY <1>1, <1>3, <1>7 DEF Proper
<1>13. \A b \in Buckets : Extends(cache[b], cache'[b])
    BY <1>1, <1>2, SameExtends DEF MapsTyped
<1>14. LeadsOn' /\ SameIds' /\ meddled' \in BOOLEAN
    BY <1>1, <1>2 DEF MapsTyped, LeadsOn, SameIds
<1> QED BY <1>1, <1>2, <1>3, <1>5, <1>7, <1>8, <1>9, <1>10, <1>11, <1>12, <1>13, <1>14, Dequeues
        DEF t, q, MapsTyped

LEMMA RunEncodeKeeps == MapsInv /\ RunEncode => MapsInv'
<1> SUFFICES ASSUME MapsInv, RunEncode PROVE MapsInv'
    OBVIOUS
<1> DEFINE t == Head(tasks)
           q == call[t.by]
           m == cache[t.on]
           e == Encoded(m, q.text)
           said == IF q.kind = "query" THEN q.said ELSE Aliases(e, q.text)
           meant == IF q.kind = "query" THEN q.meant ELSE q.text
           k == [q EXCEPT !.st = "asking", !.ver = e.ver, !.said = said, !.meant = meant]
<1>1. /\ tasks # <<>> /\ t.what = "encode" /\ tasks' = Tail(tasks)
      /\ UNCHANGED <<depth, sealedTo, created, meddled, ops, crashes>>
      /\ told' = told \cup {<<t.on, n, e.ids[n]>> : n \in Aliases(e, q.text)}
      /\ IF e = m THEN UNCHANGED <<cache, disk, dirty>> ELSE Commit(t.on, e)
    BY DEF RunEncode, Head1
<1>2. MapsTyped /\ Sessions /\ SameIds /\ Owned /\ call \in [Callers -> CallRecord]
    BY DEF MapsInv, MapsTyped
<1>3. /\ t = tasks[1] /\ 1 \in 1..Len(tasks)
      /\ t.by \in Callers /\ t.on \in Buckets /\ q \in CallRecord /\ Waiting(t, q, sealedTo)
      /\ Busy(t.by) /\ Proper(q, sealedTo, created) /\ q.why # "sealed"
    BY <1>1, HeadWaits
<1>4. m \in MapOf(Ids)
    BY <1>2, <1>3 DEF MapsTyped
<1>5. call' = [call EXCEPT ![t.by] = k]
    BY <1>2, <1>3 DEF RunEncode
<1>6. e \in MapOf(Ids) /\ e.sealed = m.sealed /\ Extends(m, e) /\ q.text \subseteq Mapped(e)
    <2>1. q.text \in SUBSET Ids /\ Ids \in SUBSET Nat /\ IsFiniteSet(Ids)
        BY <1>3, CallParts, AliasMapsAssumption
    <2> QED BY <1>4, <2>1, EncodedExtends
<1>7. /\ cache' = [cache EXCEPT ![t.on] = e]
      /\ \A b \in Buckets : disk'[b] = disk[b] \/ (b = t.on /\ disk'[b] = e)
      /\ disk' \in [Buckets -> MapOf(Ids)] /\ dirty' \subseteq Buckets
      /\ (e = m /\ disk'[t.on] = disk[t.on]) \/ disk'[t.on] = e
    <2>1. /\ cache \in [Buckets -> MapOf(Ids)] /\ disk \in [Buckets -> MapOf(Ids)]
          /\ dirty \subseteq Buckets
        BY <1>2 DEF MapsTyped
    <2> HIDE DEF t, e
    <2>2. CASE e = m
        BY <1>1, <1>3, <2>1, <2>2
    <2>3. CASE e # m
        BY <1>1, <1>3, <1>6, <2>1, <2>3 DEF Commit
    <2> QED BY <2>2, <2>3
<1> HIDE DEF t, q, m, e
<1>8. /\ Aliases(e, q.text) \subseteq 1..Len(e.ids) /\ Len(e.ids) \in Nat
      /\ Aliases(e, q.text) \in SUBSET Nat
      /\ \A n \in Aliases(e, q.text) : e.ids[n] \in Ids
      /\ {e.ids[n] : n \in Aliases(e, q.text)} = q.text
    <2>1. /\ Aliases(e, q.text) \subseteq 1..Len(e.ids) /\ Aliases(e, q.text) \in SUBSET Nat
          /\ {e.ids[n] : n \in Aliases(e, q.text)} = q.text
        BY <1>6, AliasesDecode
    <2> QED BY <1>6, <2>1 DEF MapOf
<1>9. said \in SUBSET Nat /\ meant \in SUBSET Ids
    BY <1>3, <1>8, CallParts
<1> HIDE DEF said, meant
<1>10. /\ k.st = "asking" /\ k.kind = q.kind /\ k.bucket = q.bucket /\ k.why = q.why
       /\ k.to = q.to /\ k.said = said /\ k.meant = meant
    BY <1>3 DEF CallRecord
<1>11. k \in CallRecord
    <2>1. "asking" \in CallSteps /\ e.ver \in Nat
        BY <1>6 DEF CallSteps, MapOf
    <2>2. q.got \in SUBSET Ids /\ q.why \in {"", "sealed", "disk", "version"}
        BY <1>3, CallParts
    <2> QED BY <1>3, <1>9, <2>1, <2>2, CallFits
<1> HIDE DEF k
<1>12. /\ cache' \in [Buckets -> MapOf(Ids)] /\ cache'[t.on] = e
       /\ \A b \in Buckets : b # t.on => cache'[b] = cache[b]
    BY <1>2, <1>3, <1>6, <1>7 DEF MapsTyped
<1>13. \A b \in Buckets : Extends(cache[b], cache'[b])
    <2>1. \A b \in Buckets : Len(cache[b].ids) \in Nat
        BY <1>2 DEF MapsTyped, MapOf
    <2> QED BY <1>6, <1>12, <2>1 DEF Extends, m
<1>14. SameIds'
    <2>1. ASSUME NEW b \in Buckets PROVE disk'[b].ids = cache'[b].ids
        <3>1. CASE b # t.on
            BY <1>2, <1>7, <1>12, <3>1 DEF SameIds
        <3>2. CASE b = t.on
            <4>1. disk[t.on].ids = m.ids
                BY <1>2, <1>3 DEF SameIds, m
            <4> QED BY <1>7, <1>12, <3>2, <4>1
        <3> QED BY <3>1, <3>2
    <2> QED BY <2>1 DEF SameIds
<1>15. \A b \in Buckets : /\ cache'[b].sealed => cache[b].sealed
                          /\ disk'[b].sealed => disk[b].sealed \/ cache[b].sealed
    <2>1. e.sealed = cache[t.on].sealed
        BY <1>6 DEF m
    <2> QED BY <1>7, <1>12, <2>1
<1>16. /\ \A x \in told' : x \in told \/ ToldIn(x, cache'[x[1]])
       /\ told' \subseteq Buckets \X Nat \X Ids
    <2>1. told \subseteq Buckets \X Nat \X Ids
        BY <1>2 DEF MapsTyped
    <2>2. ASSUME NEW n \in Aliases(e, q.text)
          PROVE  /\ <<t.on, n, e.ids[n]>> \in Buckets \X Nat \X Ids
                 /\ ToldIn(<<t.on, n, e.ids[n]>>, cache'[t.on])
        BY <1>3, <1>8, <1>12, <2>2 DEF ToldIn
    <2> QED BY <1>1, <2>1, <2>2
<1>17. Sessions'
    BY <1>1, <1>2, <1>3, <1>5, <1>10, SessionsCounted DEF q
<1>18. ~meddled' /\ k.kind \in Holding => InHand(k, sealedTo', cache'[k.bucket])
    <2> SUFFICES ASSUME ~meddled, q.kind \in Holding
                 PROVE  InHand(k, sealedTo', cache'[q.bucket])
        BY <1>1, <1>10
    <2>1. TaskInHand(t, q, sealedTo)
        BY <1>2, <1>3 DEF Owned, q
    <2>2. sealedTo[q.bucket] = 0 /\ t.on = q.bucket
        BY <1>1, <2>1 DEF TaskInHand
    <2>3. said = Aliases(e, q.text) /\ meant = q.text
        BY DEF said, meant, Holding
    <2> QED BY <1>1, <1>8, <1>10, <1>12, <2>2, <2>3 DEF InHand
<1>19. Proper(k, sealedTo', created) /\ LeadsOn' /\ meddled' \in BOOLEAN
    BY <1>1, <1>2, <1>3, <1>10 DEF Proper, MapsTyped, LeadsOn
<1> QED BY <1>1, <1>2, <1>3, <1>5, <1>7, <1>10, <1>11, <1>12, <1>13, <1>14, <1>15, <1>16, <1>17,
           <1>18, <1>19, Dequeues DEF t, q, MapsTyped

LEMMA EncodeFailsKeeps == MapsInv /\ EncodeFails => MapsInv'
<1> SUFFICES ASSUME MapsInv, EncodeFails PROVE MapsInv'
    OBVIOUS
<1> DEFINE t == Head(tasks)
           q == call[t.by]
           why == IF cache[t.on].sealed THEN "sealed" ELSE "disk"
           k == [q EXCEPT !.st = "failed", !.why = why]
<1>1. /\ tasks # <<>> /\ t.what = "encode" /\ tasks' = Tail(tasks)
      /\ UNCHANGED <<cache, sealedTo, created, told, meddled, ops, crashes>>
      /\ EndSession(t.by)
    BY DEF EncodeFails, Head1
<1>2. MapsTyped /\ Sessions /\ SameIds /\ ThawedAhead /\ call \in [Callers -> CallRecord]
    BY DEF MapsInv, MapsTyped
<1>3. /\ t = tasks[1] /\ 1 \in 1..Len(tasks)
      /\ t.by \in Callers /\ t.on \in Buckets /\ q \in CallRecord
      /\ Busy(t.by) /\ Proper(q, sealedTo, created)
    BY <1>1, HeadWaits
<1>4. call' = [call EXCEPT ![t.by] = k]
    BY <1>2, <1>3 DEF EncodeFails, Fail
<1>5. why = "disk"
    BY <1>1, <1>2, <1>3 DEF ThawedAhead
<1> HIDE DEF t, q, why
<1>6. k \in CallRecord
    <2>1. "failed" \in CallSteps
        BY DEF CallSteps
    <2>2. q.ver \in Nat /\ q.said \in SUBSET Nat /\ q.meant \in SUBSET Ids /\ q.got \in SUBSET Ids
        BY <1>3, CallParts
    <2> QED BY <1>3, <1>5, <2>1, <2>2, CallFits
<1>7. /\ k.st = "failed" /\ k.kind = q.kind /\ k.bucket = q.bucket /\ k.why = "disk" /\ k.to = q.to
    BY <1>3, <1>5 DEF CallRecord
<1> HIDE DEF k
<1>8. /\ disk' \in [Buckets -> MapOf(Ids)] /\ dirty' \subseteq Buckets /\ SameIds'
      /\ \A b \in Buckets : disk'[b].sealed => disk[b].sealed \/ cache[b].sealed
      /\ depth' = IF q.kind \in Holding THEN depth - 1 ELSE depth
    BY <1>1, <1>3, SessionEnds DEF q
<1>9. Sessions'
    BY <1>2, <1>3, <1>4, <1>7, <1>8, SessionsCounted DEF q
<1>10. \A b \in Buckets : Extends(cache[b], cache'[b])
    BY <1>1, <1>2, SameExtends DEF MapsTyped
<1>11. InHand(k, sealedTo', cache'[k.bucket]) /\ Proper(k, sealedTo', created)
    BY <1>1, <1>3, <1>7 DEF InHand, Proper
<1>12. LeadsOn' /\ meddled' \in BOOLEAN
    BY <1>1, <1>2 DEF MapsTyped, LeadsOn
<1> QED BY <1>1, <1>2, <1>3, <1>4, <1>6, <1>7, <1>8, <1>9, <1>10, <1>11, <1>12, Dequeues
        DEF t, q, MapsTyped

LEMMA RunDecodeKeeps == MapsInv /\ RunDecode => MapsInv'
<1> SUFFICES ASSUME MapsInv, RunDecode PROVE MapsInv'
    OBVIOUS
<1> DEFINE t == Head(tasks)
           q == call[t.by]
           m == cache[t.on]
           st == IF q.kind \in Sealing THEN "seal" ELSE "done"
           k == [q EXCEPT !.got = Decoded(m, q.said), !.st = st]
<1>1. /\ tasks # <<>> /\ t.what = "decode" /\ tasks' = Tail(tasks)
      /\ UNCHANGED <<cache, sealedTo, created, told, meddled, ops, crashes>>
      /\ IF q.kind \in Sealing THEN UNCHANGED <<disk, dirty, depth>> ELSE EndSession(t.by)
    BY DEF RunDecode, Head1
<1>2. MapsTyped /\ Sessions /\ SameIds /\ Owned /\ call \in [Callers -> CallRecord]
    BY DEF MapsInv, MapsTyped
<1>3. /\ t = tasks[1] /\ 1 \in 1..Len(tasks)
      /\ t.by \in Callers /\ t.on \in Buckets /\ q \in CallRecord /\ Waiting(t, q, sealedTo)
      /\ Busy(t.by) /\ Proper(q, sealedTo, created) /\ q.why # "sealed"
    BY <1>1, HeadWaits
<1>4. m \in MapOf(Ids)
    BY <1>2, <1>3 DEF MapsTyped
<1>5. call' = [call EXCEPT ![t.by] = k]
    BY <1>2, <1>3 DEF RunDecode
<1> HIDE DEF t, q, m
<1>6. Decoded(m, q.said) \in SUBSET Ids
    BY <1>4 DEF Decoded, MapOf
<1>7. k \in CallRecord
    <2>1. st \in CallSteps
        BY DEF CallSteps
    <2>2. /\ q.ver \in Nat /\ q.said \in SUBSET Nat /\ q.meant \in SUBSET Ids
          /\ q.why \in {"", "sealed", "disk", "version"}
        BY <1>3, CallParts
    <2> HIDE DEF st
    <2> QED BY <1>3, <1>6, <2>1, <2>2, CallFits
<1>8. /\ k.st = st /\ k.kind = q.kind /\ k.bucket = q.bucket /\ k.why = q.why /\ k.to = q.to
      /\ k.got = Decoded(m, q.said) /\ k.meant = q.meant
    BY <1>3 DEF CallRecord
<1> HIDE DEF k
<1>9. /\ disk' \in [Buckets -> MapOf(Ids)] /\ dirty' \subseteq Buckets /\ SameIds'
      /\ \A b \in Buckets : disk'[b].sealed => disk[b].sealed \/ cache[b].sealed
    <2>1. CASE q.kind \in Sealing
        BY <1>1, <1>2, <2>1 DEF MapsTyped, SameIds
    <2>2. CASE q.kind \notin Sealing
        BY <1>1, <1>3, <2>2, SessionEnds
    <2> QED BY <2>1, <2>2
<1>10. Sessions'
    <2>1. CASE q.kind \in Sealing
        BY <1>1, <1>2, <1>3, <1>5, <1>8, <2>1, SessionsCounted DEF q
    <2>2. CASE q.kind \notin Sealing
        <3>1. depth' = IF q.kind \in Holding THEN depth - 1 ELSE depth
            BY <1>1, <1>3, <2>2, SessionEnds DEF q
        <3> QED BY <1>1, <1>2, <1>3, <1>5, <1>8, <2>2, <3>1, SessionsCounted DEF q
    <2> QED BY <2>1, <2>2
<1>11. \A b \in Buckets : Extends(cache[b], cache'[b])
    BY <1>1, <1>2, SameExtends DEF MapsTyped
<1>12. ~meddled' /\ k.kind \in Holding => InHand(k, sealedTo', cache'[k.bucket])
    <2> SUFFICES ASSUME ~meddled, q.kind \in Holding
                 PROVE  InHand(k, sealedTo', cache'[q.bucket])
        BY <1>1, <1>8
    <2>1. TaskInHand(t, q, sealedTo) /\ InHand(q, sealedTo, cache[q.bucket])
        BY <1>2, <1>3 DEF Owned, q
    <2>2. sealedTo[q.bucket] = 0 /\ cache[q.bucket] = m
        BY <1>1, <2>1 DEF TaskInHand, m
    <2>3. q.st = "decode"
        BY <1>1, <1>3 DEF Waiting
    <2>4. q.said \subseteq 1..Len(m.ids) /\ {m.ids[n] : n \in q.said} = q.meant
        BY <2>1, <2>2, <2>3 DEF InHand
    <2>5. Decoded(m, q.said) = q.meant
        BY <2>4 DEF Decoded
    <2> QED BY <1>1, <1>8, <2>2, <2>5 DEF InHand
<1>13. LeadsOn' /\ meddled' \in BOOLEAN /\ Proper(k, sealedTo', created)
    BY <1>1, <1>2, <1>3, <1>8 DEF MapsTyped, LeadsOn, Proper
<1> QED BY <1>1, <1>2, <1>3, <1>5, <1>7, <1>8, <1>9, <1>10, <1>11, <1>12, <1>13, Dequeues
        DEF t, q, MapsTyped

LEMMA DecodeRefusedKeeps == MapsInv /\ DecodeRefused => MapsInv'
<1> SUFFICES ASSUME MapsInv, DecodeRefused PROVE MapsInv'
    OBVIOUS
<1> DEFINE t == Head(tasks)
           q == call[t.by]
           k == [q EXCEPT !.st = "failed", !.why = "version"]
<1>1. /\ tasks # <<>> /\ tasks' = Tail(tasks)
      /\ UNCHANGED <<cache, sealedTo, created, told, meddled, ops, crashes>>
      /\ EndSession(t.by)
    BY DEF DecodeRefused, Head1
<1>2. MapsTyped /\ Sessions /\ SameIds /\ call \in [Callers -> CallRecord]
    BY DEF MapsInv, MapsTyped
<1>3. /\ t.by \in Callers /\ t.on \in Buckets /\ q \in CallRecord
      /\ Busy(t.by) /\ Proper(q, sealedTo, created)
    BY <1>1, HeadWaits
<1>4. call' = [call EXCEPT ![t.by] = k]
    BY <1>2, <1>3 DEF DecodeRefused, Fail
<1> HIDE DEF t, q
<1>6. k \in CallRecord
    <2>1. "failed" \in CallSteps
        BY DEF CallSteps
    <2>2. q.ver \in Nat /\ q.said \in SUBSET Nat /\ q.meant \in SUBSET Ids /\ q.got \in SUBSET Ids
        BY <1>3, CallParts
    <2> QED BY <1>3, <2>1, <2>2, CallFits
<1>7. /\ k.st = "failed" /\ k.kind = q.kind /\ k.bucket = q.bucket /\ k.why = "version"
      /\ k.to = q.to
    BY <1>3 DEF CallRecord
<1> HIDE DEF k
<1>8. /\ disk' \in [Buckets -> MapOf(Ids)] /\ dirty' \subseteq Buckets /\ SameIds'
      /\ \A b \in Buckets : disk'[b].sealed => disk[b].sealed \/ cache[b].sealed
      /\ depth' = IF q.kind \in Holding THEN depth - 1 ELSE depth
    BY <1>1, <1>3, SessionEnds DEF q
<1>9. Sessions'
    BY <1>2, <1>3, <1>4, <1>7, <1>8, SessionsCounted DEF q
<1>10. \A b \in Buckets : Extends(cache[b], cache'[b])
    BY <1>1, <1>2, SameExtends DEF MapsTyped
<1>11. InHand(k, sealedTo', cache'[k.bucket]) /\ Proper(k, sealedTo', created)
    BY <1>1, <1>3, <1>7 DEF InHand, Proper
<1>12. LeadsOn' /\ meddled' \in BOOLEAN
    BY <1>1, <1>2 DEF MapsTyped, LeadsOn
<1> QED BY <1>1, <1>2, <1>3, <1>4, <1>6, <1>7, <1>8, <1>9, <1>10, <1>11, <1>12, Dequeues
        DEF t, q, MapsTyped

LEMMA RunSealKeeps == MapsInv /\ RunSeal => MapsInv'
<1> SUFFICES ASSUME MapsInv, RunSeal PROVE MapsInv'
    OBVIOUS
<1> DEFINE t == Head(tasks)
           q == call[t.by]
           k == [q EXCEPT !.st = "freeze"]
<1>1. /\ tasks # <<>> /\ t.what = "seal" /\ tasks' = Tail(tasks)
      /\ UNCHANGED <<cache, disk, dirty, depth, created, told, ops, crashes>>
      /\ sealedTo' = [sealedTo EXCEPT ![t.on] = q.to]
      /\ meddled' = (meddled \/ q.kind = "optimize")
    BY DEF RunSeal, Head1
<1>2. /\ MapsTyped /\ Sessions /\ SameIds /\ Owned /\ call \in [Callers -> CallRecord] /\ LeadsOn
      /\ meddled \in BOOLEAN
    BY DEF MapsInv, MapsTyped
<1>3. /\ t = tasks[1] /\ 1 \in 1..Len(tasks)
      /\ t.by \in Callers /\ t.on \in Buckets /\ q \in CallRecord /\ Waiting(t, q, sealedTo)
      /\ Busy(t.by) /\ Proper(q, sealedTo, created) /\ q.why # "sealed"
      /\ (q.kind \in Holding => t.by \in Holders)
    BY <1>1, HeadWaits
<1>4. call' = [call EXCEPT ![t.by] = k]
    BY <1>2, <1>3 DEF RunSeal, Step
<1> HIDE DEF t, q
<1>5. k \in CallRecord
    <2>1. "freeze" \in CallSteps
        BY DEF CallSteps
    <2> QED BY <1>3, <2>1 DEF CallRecord
<1>6. /\ k.st = "freeze" /\ k.kind = q.kind /\ k.bucket = q.bucket /\ k.why = q.why
      /\ k.to = q.to /\ k.got = q.got /\ k.meant = q.meant
    BY <1>3 DEF CallRecord
<1> HIDE DEF k
<1>7. /\ q.kind \in Sealing /\ t.on = q.bucket /\ q.to > t.on /\ q.to <= created
      /\ q.to \in 0..MaxBuckets /\ t.on \in Nat /\ t.on >= 1
    <2>1. q.kind \in Sealing /\ t.on = q.bucket
        BY <1>1, <1>3 DEF Waiting
    <2>2. q.to > t.on /\ q.to <= created
        BY <1>3, <2>1 DEF Proper
    <2>3. q.to \in 0..MaxBuckets
        BY <1>3, CallParts
    <2>4. t.on \in Nat /\ t.on >= 1
        BY <1>3, AliasMapsAssumption DEF Buckets
    <2> QED BY <2>1, <2>2, <2>3, <2>4
<1>8. /\ sealedTo' \in [Buckets -> 0..MaxBuckets] /\ sealedTo'[t.on] = q.to
      /\ \A b \in Buckets : b # t.on => sealedTo'[b] = sealedTo[b]
    BY <1>1, <1>2, <1>3, <1>7 DEF LeadsOn
<1>9. LeadsOn' /\ \A b \in Buckets : sealedTo'[b] <= created
    BY <1>2, <1>7, <1>8 DEF LeadsOn, MapsTyped
<1>10. \A b \in Buckets : sealedTo[b] # 0 => sealedTo'[b] # 0
    BY <1>7, <1>8
<1>11. Sessions'
    BY <1>1, <1>2, <1>3, <1>4, <1>6, SessionsCounted DEF q
<1>12. \A b \in Buckets : Extends(cache[b], cache'[b])
    BY <1>1, <1>2, SameExtends DEF MapsTyped
<1>13. ~meddled' => \A b \in Buckets : \/ sealedTo'[b] = sealedTo[b]
                                       \/ t.by \in Holders /\ q.bucket = b
    BY <1>1, <1>3, <1>7, <1>8 DEF Sealing, Holding
<1>14. ~meddled' /\ k.kind \in Holding => InHand(k, sealedTo', cache'[k.bucket])
    <2> SUFFICES ASSUME ~meddled, q.kind \in Holding
                 PROVE  InHand(k, sealedTo', cache'[k.bucket])
        BY <1>1, <1>6
    <2>1. TaskInHand(t, q, sealedTo)
        BY <1>2, <1>3 DEF Owned, q
    <2> QED BY <1>1, <1>6, <2>1 DEF InHand, TaskInHand
<1>15. Proper(k, sealedTo', created)
    BY <1>3, <1>6, <1>7, <1>8 DEF Proper
<1>16. SameIds' /\ meddled' \in BOOLEAN
    BY <1>1, <1>2 DEF SameIds
<1> QED BY <1>1, <1>2, <1>3, <1>4, <1>5, <1>6, <1>9, <1>10, <1>11, <1>12, <1>13, <1>14, <1>15,
           <1>16, Dequeues DEF t, q, MapsTyped

LEMMA RunFreezeKeeps == MapsInv /\ RunFreeze => MapsInv'
<1> SUFFICES ASSUME MapsInv, RunFreeze PROVE MapsInv'
    OBVIOUS
<1> DEFINE t == Head(tasks)
           q == call[t.by]
           m == Frozen(cache[t.on])
           k == [q EXCEPT !.st = "done"]
<1>1. /\ tasks # <<>> /\ t.what = "freeze" /\ tasks' = Tail(tasks)
      /\ UNCHANGED <<sealedTo, created, told, meddled, ops, crashes>>
      /\ cache' = [cache EXCEPT ![t.on] = m]
      /\ depth' = IF q.kind \in Holding THEN depth - 1 ELSE depth
      /\ IF depth' = 0
         THEN /\ disk' = [b \in Buckets |-> IF b \in dirty \cup {t.on} THEN cache'[b] ELSE disk[b]]
              /\ dirty' = {}
         ELSE disk' = disk /\ dirty' = dirty \cup {t.on}
    BY DEF RunFreeze, Head1
<1>2. MapsTyped /\ Sessions /\ SameIds /\ Owned /\ call \in [Callers -> CallRecord]
    BY DEF MapsInv, MapsTyped
<1>3. /\ t = tasks[1] /\ 1 \in 1..Len(tasks)
      /\ t.by \in Callers /\ t.on \in Buckets /\ q \in CallRecord /\ Waiting(t, q, sealedTo)
      /\ Busy(t.by) /\ Proper(q, sealedTo, created) /\ q.why # "sealed"
    BY <1>1, HeadWaits
<1>4. call' = [call EXCEPT ![t.by] = k]
    BY <1>2, <1>3 DEF RunFreeze, Step
<1>5. m \in MapOf(Ids) /\ m.ids = cache[t.on].ids
    <2>1. cache[t.on] \in MapOf(Ids)
        BY <1>2, <1>3 DEF MapsTyped
    <2> QED BY <2>1, FrozenIsMap
<1> HIDE DEF t, q, m
<1>6. k \in CallRecord
    <2>1. "done" \in CallSteps
        BY DEF CallSteps
    <2> QED BY <1>3, <2>1 DEF CallRecord
<1>7. /\ k.st = "done" /\ k.kind = q.kind /\ k.bucket = q.bucket /\ k.why = q.why
      /\ k.to = q.to /\ k.got = q.got /\ k.meant = q.meant
    BY <1>3 DEF CallRecord
<1> HIDE DEF k
<1>8. /\ cache' \in [Buckets -> MapOf(Ids)] /\ cache'[t.on] = m
      /\ \A b \in Buckets : b # t.on => cache'[b] = cache[b]
    BY <1>1, <1>2, <1>3, <1>5 DEF MapsTyped
<1>9. /\ disk' \in [Buckets -> MapOf(Ids)] /\ dirty' \subseteq Buckets
      /\ \A b \in Buckets : disk'[b] = disk[b] \/ disk'[b] = cache'[b]
    <2>1. disk \in [Buckets -> MapOf(Ids)] /\ dirty \subseteq Buckets
        BY <1>2 DEF MapsTyped
    <2>2. CASE depth' = 0
        BY <1>1, <1>8, <2>1, <2>2
    <2>3. CASE depth' # 0
        BY <1>1, <1>3, <2>1, <2>3
    <2> QED BY <2>2, <2>3
<1>10. \A b \in Buckets : cache'[b].ids = cache[b].ids
    BY <1>5, <1>8
<1>11. SameIds'
    BY <1>2, <1>9, <1>10 DEF SameIds
<1>12. \A b \in Buckets : Extends(cache[b], cache'[b])
    <2>1. \A b \in Buckets : Len(cache[b].ids) \in Nat
        BY <1>2 DEF MapsTyped, MapOf
    <2> QED BY <1>10, <2>1 DEF Extends
<1>13. \A b \in Buckets : /\ cache'[b].sealed => cache[b].sealed \/ Freezes(t, b)
                          /\ disk'[b].sealed => \/ disk[b].sealed \/ cache[b].sealed
                                                \/ Freezes(t, b)
    BY <1>1, <1>8, <1>9 DEF Freezes
<1>14. Sessions'
    BY <1>1, <1>2, <1>3, <1>4, <1>7, SessionsCounted DEF q
<1>15. ~meddled' /\ k.kind \in Holding => InHand(k, sealedTo', cache'[k.bucket])
    <2> SUFFICES ASSUME ~meddled, q.kind \in Holding
                 PROVE  InHand(k, sealedTo', cache'[k.bucket])
        BY <1>1, <1>7
    <2>1. TaskInHand(t, q, sealedTo)
        BY <1>2, <1>3 DEF Owned, q
    <2> QED BY <1>1, <1>7, <2>1 DEF InHand, TaskInHand
<1>16. LeadsOn' /\ meddled' \in BOOLEAN /\ Proper(k, sealedTo', created)
    BY <1>1, <1>2, <1>3, <1>7 DEF MapsTyped, LeadsOn, Proper
<1> QED BY <1>1, <1>2, <1>3, <1>4, <1>6, <1>7, <1>8, <1>9, <1>11, <1>12, <1>13, <1>14, <1>15,
           <1>16, Dequeues DEF t, q, MapsTyped

----------------------------------------------------------------------------
(* What callers do, and a crash.                                             *)

LEMMA CallersKeep ==
    ASSUME MapsInv, NEW c \in Callers,
           Candidates(c) \/ Prepare(c) \/ Answer(c) \/ Seal(c) \/ Freeze(c)
    PROVE  MapsInv'
<1> DEFINE q == call[c]
<1>0. /\ LeadsOn /\ call \in [Callers -> CallRecord] /\ Owned /\ TasksFit
    BY DEF MapsInv, MapsTyped
<1>1. q \in CallRecord /\ q.bucket \in Buckets /\ Proper(q, sealedTo, created)
      /\ (~meddled /\ q.kind \in Holding => InHand(q, sealedTo, cache[q.bucket]))
    BY <1>0 DEF CallRecord, TasksFit, Owned
<1>2. /\ Resolve(q.bucket) \in Buckets /\ sealedTo[Resolve(q.bucket)] = 0
      /\ sealedTo[q.bucket] = 0 => Resolve(q.bucket) = q.bucket
    BY <1>0, <1>1, ResolveEnds
<1>3. CASE Candidates(c)
    <2>1. q.kind = "query" /\ q.st = "candidates"
        BY <1>1, <1>3 DEF Candidates, Queue, Proper
    <2>2. q.kind \notin Holding
        BY <2>1 DEF Holding
    <2> QED BY <1>2, <1>3, <2>1, <2>2, Enqueues DEF Candidates, Queue, Work
<1>4. CASE Prepare(c)
    <2>1. q.st = "prepare"
        BY <1>4 DEF Prepare, Queue
    <2>2. ~meddled /\ q.kind \in Holding => TaskInHand(Task(c, "encode", Resolve(q.bucket)), q, sealedTo)
        BY <1>1, <1>2, <2>1 DEF InHand, TaskInHand, Task
    <2> QED BY <1>2, <1>4, <2>1, <2>2, Enqueues DEF Prepare, Queue, Work
<1>5. CASE Answer(c)
    <2> DEFINE b == IF q.kind = "query" THEN q.bucket ELSE Resolve(q.bucket)
    <2>1. q.st = "asking" /\ b \in Buckets
        BY <1>1, <1>2, <1>5 DEF Answer
    <2>2. ~meddled /\ q.kind \in Holding => TaskInHand(Task(c, "decode", b), q, sealedTo)
        BY <1>1, <1>2, <2>1 DEF InHand, TaskInHand, Task
    <2>3. tasks' = Append(tasks, Task(c, "decode", b))
        BY <1>5 DEF Answer
    <2> HIDE DEF b
    <2> QED BY <1>5, <2>1, <2>2, <2>3, Enqueues DEF Answer, Work
<1>6. CASE Seal(c)
    <2>1. q.st = "seal" /\ q.kind \in Sealing
        BY <1>1, <1>6 DEF Seal, Proper
    <2>2. ~meddled /\ q.kind \in Holding => TaskInHand(Task(c, "seal", q.bucket), q, sealedTo)
        BY <1>1, <2>1 DEF InHand, TaskInHand, Task
    <2> QED BY <1>1, <1>6, <2>1, <2>2, Enqueues DEF Seal, Work
<1>7. CASE Freeze(c)
    <2>1. q.st = "freeze" /\ q.kind \in Sealing /\ sealedTo[q.bucket] # 0
        BY <1>1, <1>7 DEF Freeze, Proper
    <2>2. ~meddled /\ q.kind \in Holding => TaskInHand(Task(c, "freeze", q.bucket), q, sealedTo)
        BY <1>1, <2>1 DEF InHand, TaskInHand, Task
    <2> QED BY <1>1, <1>7, <2>1, <2>2, Enqueues DEF Freeze, Work
<1> QED BY <1>3, <1>4, <1>5, <1>6, <1>7

LEMMA StartKeeps ==
    ASSUME MapsInv, NEW c \in Callers, NEW kind \in Kinds, NEW text \in SUBSET Ids,
           Start(c, kind, text)
    PROVE  MapsInv'
<1> DEFINE b == Resolve(1)
           n == created + 1
           to == IF kind \in Sealing THEN created' ELSE 0
           st == IF kind = "query" THEN "candidates" ELSE "prepare"
           k == [NoCall EXCEPT !.kind = kind, !.bucket = b, !.text = text, !.to = to, !.st = st]
<1>0. /\ MapsTyped /\ Sessions /\ SameIds /\ ToldKept /\ TasksFit /\ ThawedAhead /\ Apart /\ Owned
      /\ LeadsOn /\ call \in [Callers -> CallRecord] /\ tasks \in Seq(TaskRecord)
    BY DEF MapsInv, MapsTyped
<1>1. /\ ~Busy(c) /\ CanStart(kind, b) /\ ops' = ops + 1
      /\ kind \in Sealing => created < MaxBuckets /\ created' = created + 1
      /\ kind \notin Sealing => created' = created
      /\ depth' = IF kind \in Holding THEN depth + 1 ELSE depth
      /\ call' = [call EXCEPT ![c] = k]
      /\ UNCHANGED <<cache, disk, dirty, sealedTo, tasks, told, meddled, crashes>>
    BY DEF Start
<1>2. MaxBuckets \in Nat \ {0} /\ Buckets = 1..MaxBuckets /\ 1 \in Buckets
    BY AliasMapsAssumption DEF Buckets
<1>3. b \in Buckets /\ sealedTo[b] = 0
    BY <1>0, <1>2, ResolveEnds
<1>4. created' \in Buckets /\ created \in Buckets /\ created <= created' /\ to \in 0..MaxBuckets
    BY <1>0, <1>1, <1>2 DEF MapsTyped
<1>5. k \in CallRecord
    <2>1. st \in CallSteps
        BY DEF CallSteps
    <2> HIDE DEF st, b, to
    <2> QED BY <1>3, <1>4, <2>1, NoCallFits DEF CallRecord
<1>6. /\ k.kind = kind /\ k.bucket = b /\ k.to = to /\ k.st = st /\ k.why # "sealed"
    BY NoCallFits DEF CallRecord
<1> HIDE DEF k
<1>7. call' \in [Callers -> CallRecord] /\ call'[c] = k
      /\ \A d \in Callers : d # c => call'[d] = call[d]
    BY <1>0, <1>1, <1>5
<1>8. MapsTyped'
    <2>1. \A x \in Buckets : sealedTo[x] <= created /\ sealedTo[x] \in Nat
        BY <1>0, <1>2 DEF MapsTyped, LeadsOn
    <2>2. \A x \in Buckets : sealedTo'[x] <= created'
        BY <1>1, <1>2, <1>4, <2>1
    <2> QED BY <1>0, <1>1, <1>4, <1>7, <2>2 DEF MapsTyped, LeadsOn
<1>9. Busy(c)' /\ \A d \in Callers : d # c => (Busy(d)' <=> Busy(d))
    BY <1>6, <1>7 DEF Busy
<1>10. /\ kind \in Holding => Holders' = Holders \cup {c}
       /\ kind \notin Holding => Holders' = Holders
       /\ c \notin Holders
    <2>1. c \notin Holders
        BY <1>1 DEF Holders
    <2>2. \A d \in Callers : d # c => (d \in Holders' <=> d \in Holders)
        BY <1>7, <1>9 DEF Holders
    <2>3. c \in Holders' <=> kind \in Holding
        BY <1>6, <1>7, <1>9 DEF Holders
    <2>4. Holders \subseteq Callers /\ Holders' \subseteq Callers
        BY DEF Holders
    <2> QED BY <2>1, <2>2, <2>3, <2>4
<1>11. Sessions'
    <2>1. IsFiniteSet(Holders)
        BY AliasMapsAssumption, FS_Subset DEF Holders
    <2> QED BY <1>0, <1>1, <1>10, <2>1, FS_AddElement DEF Sessions
<1>12. SameIds' /\ ToldKept'
    BY <1>0, <1>1 DEF SameIds, ToldKept
<1>13. Apart'
    <2>1. kind \in Holding => \A d \in Holders : call[d].bucket # b
        BY <1>1 DEF CanStart, Locked, Holders
    <2>2. \A d \in Holders : d # c /\ call'[d].bucket = call[d].bucket
        BY <1>7, <1>10 DEF Holders
    <2>3. \A d, x \in Holders : call[d].bucket = call[x].bucket => d = x
        BY <1>0 DEF Apart
    <2>4. call'[c].bucket = b
        BY <1>6, <1>7
    <2> QED BY <1>10, <2>1, <2>2, <2>3, <2>4 DEF Apart
<1>14. \A i \in 1..Len(tasks) : /\ tasks[i].by \in Callers /\ tasks[i].by # c
                                /\ call'[tasks[i].by] = call[tasks[i].by]
    <2>1. ASSUME NEW i \in 1..Len(tasks)
          PROVE  tasks[i].by \in Callers /\ call[tasks[i].by].st \in {"encode", "decode"}
        <3>1. tasks[i] \in TaskRecord
            BY <1>0, ElementOfSeq
        <3>2. Waiting(tasks[i], call[tasks[i].by], sealedTo)
            BY <1>0 DEF TasksFit
        <3> QED BY <3>1, <3>2 DEF Waiting, TaskRecord
    <2>2. call[c].st \notin {"encode", "decode"}
        BY <1>1 DEF Busy
    <2> QED BY <1>7, <2>1, <2>2
<1>15. TasksFit'
    <2>1. \A i \in 1..Len(tasks) : Waiting(tasks[i], call'[tasks[i].by], sealedTo)
        BY <1>0, <1>14 DEF TasksFit
    <2>2. ASSUME NEW d \in Callers PROVE Proper(call'[d], sealedTo, created')
        <3>1. CASE d = c
            <4>1. kind \in Sealing => to > b /\ to <= created'
                <5>1. b <= created
                    <6>1. \A x \in Buckets : sealedTo[x] <= created
                        BY <1>0 DEF MapsTyped
                    <6>2. b = 1 \/ \E x \in Buckets : b = sealedTo[x]
                        BY <1>0, <1>2, ResolveEnds
                    <6> QED BY <1>2, <1>4, <6>1, <6>2
                <5> QED BY <1>1, <1>2, <1>3, <1>4, <5>1
            <4>2. k.st \notin {"seal", "freeze"} /\ (k.st = "candidates" => kind = "query")
                BY <1>6
            <4> QED BY <1>6, <1>7, <3>1, <4>1, <4>2 DEF Proper
        <3>2. CASE d # c
            <4>1. Proper(call[d], sealedTo, created) /\ call[d].to \in 0..MaxBuckets
                BY <1>0, CallParts DEF TasksFit
            <4> QED BY <1>2, <1>4, <1>7, <3>2, <4>1 DEF Proper
        <3> QED BY <3>1, <3>2
    <2> QED BY <1>0, <1>1, <2>1, <2>2 DEF TasksFit
<1>16. ThawedAhead'
    <2>1. \A d \in Callers : call'[d].why # "sealed"
        BY <1>0, <1>6, <1>7 DEF ThawedAhead
    <2> QED BY <1>0, <1>1, <2>1 DEF ThawedAhead
<1>17. Owned'
    <2> SUFFICES ASSUME ~meddled PROVE
              /\ \A d \in Callers : call'[d].kind \in Holding =>
                    InHand(call'[d], sealedTo', cache'[call'[d].bucket])
              /\ \A i \in 1..Len(tasks) : call'[tasks[i].by].kind \in Holding =>
                    TaskInHand(tasks[i], call'[tasks[i].by], sealedTo')
        BY <1>1 DEF Owned
    <2>1. /\ \A d \in Callers : call[d].kind \in Holding =>
                 InHand(call[d], sealedTo, cache[call[d].bucket])
          /\ \A i \in 1..Len(tasks) : call[tasks[i].by].kind \in Holding =>
                    TaskInHand(tasks[i], call[tasks[i].by], sealedTo)
        BY <1>0 DEF Owned
    <2>2. InHand(k, sealedTo, cache[b])
        BY <1>3, <1>6 DEF InHand
    <2> QED BY <1>1, <1>6, <1>7, <1>14, <2>1, <2>2
<1> QED BY <1>8, <1>11, <1>12, <1>13, <1>15, <1>16, <1>17 DEF MapsInv

LEMMA CrashKeeps == MapsInv /\ Crash => MapsInv'
<1> SUFFICES ASSUME MapsInv, Crash PROVE MapsInv'
    OBVIOUS
<1>0. /\ MapsTyped /\ SameIds /\ ToldKept /\ ThawedAhead
    BY DEF MapsInv
<1>1. /\ cache' = disk /\ dirty' = {} /\ depth' = 0 /\ crashes' = crashes + 1
      /\ tasks' = <<>> /\ call' = [c \in Callers |-> NoCall]
      /\ UNCHANGED <<disk, sealedTo, created, told, meddled, ops>>
    BY DEF Crash
<1>2. /\ call' \in [Callers -> CallRecord]
      /\ \A c \in Callers : call'[c].st = "idle" /\ call'[c].kind = "query" /\ call'[c].why = ""
    BY <1>1, NoCallFits
<1>3. tasks' \in Seq(TaskRecord) /\ 1..Len(tasks') = {}
    BY <1>1
<1>4. MapsTyped'
    <2>1. /\ disk \in [Buckets -> MapOf(Ids)] /\ LeadsOn /\ created \in Buckets
          /\ \A b \in Buckets : sealedTo[b] <= created
          /\ told \subseteq Buckets \X Nat \X Ids /\ meddled \in BOOLEAN
          /\ ops \in Nat /\ crashes \in Nat
        BY <1>0 DEF MapsTyped
    <2>2. LeadsOn' /\ crashes' \in Nat
        BY <1>1, <2>1 DEF LeadsOn
    <2> QED BY <1>1, <1>2, <1>3, <2>1, <2>2 DEF MapsTyped
<1>5. Holders' = {}
    <2>1. \A c \in Callers : ~Busy(c)'
        BY <1>2 DEF Busy
    <2> QED BY <2>1 DEF Holders
<1>6. Sessions' /\ Apart'
    <2>1. Cardinality({}) = 0
        BY FS_EmptySet
    <2> QED BY <1>1, <1>5, <2>1 DEF Sessions, Apart
<1>7. SameIds'
    BY <1>0, <1>1 DEF SameIds
<1>8. ToldKept'
    <2>1. \A x \in told : x[1] \in Buckets
        BY <1>0 DEF MapsTyped
    <2>2. \A x \in told : ToldIn(x, cache'[x[1]])
        BY <1>0, <1>1, <2>1 DEF ToldKept, ToldIn, SameIds
    <2> QED BY <1>1, <2>2 DEF ToldKept
<1>9. TasksFit'
    BY <1>2, <1>3 DEF TasksFit, Proper, Sealing
<1>10. ThawedAhead'
    BY <1>0, <1>1, <1>2, <1>3 DEF ThawedAhead
<1>11. Owned'
    BY <1>2, <1>3 DEF Owned, Holding
<1> QED BY <1>4, <1>6, <1>7, <1>8, <1>9, <1>10, <1>11 DEF MapsInv

LEMMA MapsStep == MapsInv /\ [MapsNext]_mapVars => MapsInv'
<1> SUFFICES ASSUME MapsInv, [MapsNext]_mapVars PROVE MapsInv'
    OBVIOUS
<1>1. CASE UNCHANGED mapVars
    <2>1. /\ UNCHANGED <<cache, disk, dirty, depth, sealedTo, created>>
          /\ UNCHANGED <<tasks, call, told, meddled, ops, crashes>>
        BY <1>1 DEF mapVars
    <2> QED BY <2>1 DEF MapsInv, MapsTyped, LeadsOn, Sessions, Holders, Busy, SameIds, ToldKept,
                        TasksFit, ThawedAhead, Apart, Owned
<1>2. CASE Run
    BY <1>2, RunCandidatesKeeps, RunEncodeKeeps, EncodeFailsKeeps, RunDecodeKeeps,
       DecodeRefusedKeeps, RunSealKeeps, RunFreezeKeeps DEF Run
<1>3. CASE Crash
    BY <1>3, CrashKeeps
<1>4. CASE \E c \in Callers :
              \/ \E kind \in Kinds, text \in SUBSET Ids \ {{}} : Start(c, kind, text)
              \/ Candidates(c) \/ Prepare(c) \/ Answer(c) \/ Seal(c) \/ Freeze(c)
    BY <1>4, StartKeeps, CallersKeep
<1> QED BY <1>1, <1>2, <1>3, <1>4 DEF MapsNext

LEMMA MapsInvariance == MapsSpec => []MapsInv
    BY MapsStart, MapsStep, PTL DEF MapsSpec

\* An alias that was told keeps its meaning, in memory and on disk, through any
\* transactions, seals, flushes, refused writes and crashes, for any ids,
\* callers and chains of buckets (AliasTable.encode_tree_with_version,
\* JsonlStorage.commit_alias_map).
THEOREM AliasesSettled == MapsSpec => []AliasesStick
<1>1. MapsInv => AliasesStick
    <2> SUFFICES ASSUME MapsInv, NEW x \in told
                 PROVE  /\ x[2] \in DOMAIN cache[x[1]].ids /\ cache[x[1]].ids[x[2]] = x[3]
                        /\ x[2] \in DOMAIN disk[x[1]].ids /\ disk[x[1]].ids[x[2]] = x[3]
        BY DEF AliasesStick
    <2>1. x[1] \in Buckets /\ ToldIn(x, cache[x[1]]) /\ disk[x[1]].ids = cache[x[1]].ids
        BY DEF MapsInv, MapsTyped, ToldKept, SameIds
    <2>2. DOMAIN cache[x[1]].ids = 1..Len(cache[x[1]].ids)
        BY <2>1 DEF MapsInv, MapsTyped, MapOf
    <2> QED BY <2>1, <2>2 DEF ToldIn
<1> QED BY <1>1, MapsInvariance, PTL

\* Whatever the other callers do meanwhile: an operation that holds its bucket
\* is given the ids it meant, until an optimize seals a bucket that others
\* hold; and none finds its map frozen (BucketTopologyService.
\* _seal_bucket_unlocked switches first and freezes then).
THEOREM AnswersMeant == MapsSpec => []AnswersDecode
<1>1. MapsInv => AnswersDecode
    <2>1. MapsInv => NeverFrozenUnderway
        BY DEF MapsInv, ThawedAhead, NeverFrozenUnderway
    <2>2. MapsInv => HoldersDecodeOwn
        BY DEF MapsInv, Owned, InHand, HoldersDecodeOwn
    <2> QED BY <2>1, <2>2 DEF AnswersDecode
<1> QED BY <1>1, MapsInvariance, PTL

----------------------------------------------------------------------------
(* Texts: what they add up to, and how they are packed.                      *)

Texts == [size: Nat, covers: SUBSET AllMems, ids: SUBSET AllMems, said: SUBSET ({1, 2} \X Nat)]

\* What texts cover between them.
Covered(texts) == UNION {t.covers : t \in Range(texts)}

\* f adds the sizes of the texts up.
Adds(f, texts) == f = [i \in 0..Len(texts) |-> IF i = 0 THEN 0 ELSE f[i-1] + texts[i].size]

LEMMA AddsExists ==
    ASSUME NEW s \in Seq(Texts)
    PROVE  \E f : Adds(f, s)
<1> DEFINE Upto(f, n) == f = [i \in 0..n |-> IF i = 0 THEN 0 ELSE f[i-1] + s[i].size]
           T == {n \in Nat : \E f : Upto(f, n)}
<1>1. 0 \in T
    <2>1. Upto([i \in 0..0 |-> 0], 0)
        OBVIOUS
    <2> QED BY <2>1
<1>2. ASSUME NEW n \in Nat, n \in T PROVE n + 1 \in T
    <2>1. PICK f : Upto(f, n)
        BY <1>2
    <2> DEFINE g == [i \in 0..n+1 |-> IF i = n + 1 THEN f[n] + s[n+1].size ELSE f[i]]
    <2>2. \A i \in 0..n+1 : g[i] = IF i = 0 THEN 0 ELSE g[i-1] + s[i].size
        BY <2>1
    <2>3. g = [i \in 0..n+1 |-> g[i]]
        OBVIOUS
    <2> HIDE DEF g
    <2>4. g = [i \in 0..n+1 |-> IF i = 0 THEN 0 ELSE g[i-1] + s[i].size]
        BY <2>2, <2>3
    <2>5. Upto(g, n + 1)
        BY <2>4, Zenon
    <2> HIDE DEF Upto
    <2> QED BY <2>5
<1>3. \A n \in Nat : n \in T
    <2> HIDE DEF T
    <2> QED BY <1>1, <1>2, Counting
<1>4. Len(s) \in T
    BY <1>3
<1> QED BY <1>4 DEF Adds

LEMMA TotalAdds ==
    ASSUME NEW s \in Seq(Texts)
    PROVE  \E f : Adds(f, s) /\ Total(s) = f[Len(s)]
<1> DEFINE F == CHOOSE f : f = [i \in 0..Len(s) |-> IF i = 0 THEN 0 ELSE f[i-1] + s[i].size]
<1>1. Total(s) = F[Len(s)]
    BY DEF Total
<1>2. F = [i \in 0..Len(s) |-> IF i = 0 THEN 0 ELSE F[i-1] + s[i].size]
    BY AddsExists DEF Adds
<1> HIDE DEF F
<1> QED BY <1>1, <1>2 DEF Adds

\* Sums are numbers, and those of two sequences agree as far as these do.
LEMMA SumsAgree ==
    ASSUME NEW s \in Seq(Texts), NEW t \in Seq(Texts), NEW f, NEW g, Adds(f, s), Adds(g, t),
           Len(s) <= Len(t), \A i \in 1..Len(s) : t[i] = s[i]
    PROVE  \A n \in 0..Len(s) : f[n] \in Nat /\ g[n] = f[n]
<1> DEFINE T == {n \in Nat : n <= Len(s) => f[n] \in Nat /\ g[n] = f[n]}
<1>1. 0 \in T
    <2>1. 0 \in 0..Len(s) /\ 0 \in 0..Len(t)
        OBVIOUS
    <2>2. f[0] = 0 /\ g[0] = 0
        BY <2>1 DEF Adds
    <2> QED BY <2>2
<1>2. ASSUME NEW n \in Nat, n \in T PROVE n + 1 \in T
    <2> SUFFICES ASSUME n + 1 <= Len(s) PROVE f[n+1] \in Nat /\ g[n+1] = f[n+1]
        OBVIOUS
    <2>0. Len(s) \in Nat /\ n <= Len(s)
        OBVIOUS
    <2>1. f[n] \in Nat /\ g[n] = f[n]
        BY <1>2, <2>0, SMT
    <2>2. s[n+1] \in Texts /\ t[n+1] = s[n+1]
        BY <2>0
    <2>a. s[n+1].size \in Nat
        BY <2>2 DEF Texts
    <2>3. n + 1 \in 0..Len(s) /\ n + 1 \in 0..Len(t) /\ n + 1 # 0 /\ (n + 1) - 1 = n
        OBVIOUS
    <2>4. f[n+1] = f[n] + s[n+1].size
        BY <2>3 DEF Adds
    <2>5. g[n+1] = g[n] + t[n+1].size
        BY <2>3 DEF Adds
    <2> QED BY <2>1, <2>2, <2>a, <2>4, <2>5
<1>3. \A n \in Nat : n \in T
    <2> HIDE DEF T
    <2> QED BY <1>1, <1>2, Counting
<1> QED BY <1>3

LEMMA TotalCounts ==
    /\ \A s \in Seq(Texts) : Total(s) \in Nat
    /\ \A b \in Texts : Total(<<b>>) = b.size
    /\ \A s \in Seq(Texts), b \in Texts : Total(Append(s, b)) = Total(s) + b.size
<1>1. ASSUME NEW s \in Seq(Texts) PROVE Total(s) \in Nat
    <2>1. PICK f : Adds(f, s) /\ Total(s) = f[Len(s)]
        BY TotalAdds
    <2> QED BY <2>1, SumsAgree
<1>2. ASSUME NEW b \in Texts PROVE Total(<<b>>) = b.size
    <2> DEFINE s == <<b>>
    <2>1. s \in Seq(Texts) /\ Len(s) = 1 /\ s[1] = b /\ b.size \in Nat
        BY DEF Texts
    <2> HIDE DEF s
    <2>2. PICK f : Adds(f, s) /\ Total(s) = f[1]
        BY <2>1, TotalAdds
    <2>3. f[0] = 0 /\ f[1] = f[0] + s[1].size
        BY <2>1, <2>2 DEF Adds
    <2>4. Total(s) = b.size
        BY <2>1, <2>2, <2>3
    <2> QED BY <2>4 DEF s
<1>3. ASSUME NEW s \in Seq(Texts), NEW b \in Texts PROVE Total(Append(s, b)) = Total(s) + b.size
    <2> DEFINE t == Append(s, b)
               n == Len(s)
    <2>1. t \in Seq(Texts) /\ Len(t) = n + 1 /\ t[n+1] = b /\ \A i \in 1..n : t[i] = s[i]
        OBVIOUS
    <2>2. PICK f : Adds(f, s) /\ Total(s) = f[n]
        BY TotalAdds
    <2> HIDE DEF t
    <2>3. PICK g : Adds(g, t) /\ Total(t) = g[n+1]
        BY <2>1, TotalAdds
    <2>4. n \in Nat /\ n <= Len(t)
        BY <2>1
    <2>5. g[n] = f[n]
        BY <2>1, <2>2, <2>3, <2>4, SumsAgree
    <2>6. g[n+1] = g[n] + t[n+1].size
        <3>1. n + 1 \in 0..Len(t) /\ n + 1 # 0 /\ (n + 1) - 1 = n
            BY <2>1, <2>4
        <3> QED BY <2>3, <3>1 DEF Adds
    <2>7. Total(t) = Total(s) + b.size
        BY <2>1, <2>2, <2>3, <2>5, <2>6
    <2> QED BY <2>7 DEF t
<1> QED BY <1>1, <1>2, <1>3

LEMMA MergedIsText ==
    ASSUME NEW s \in Seq(Texts)
    PROVE  Merged(s) \in Texts /\ Merged(s).size = Total(s) /\ Merged(s).covers = Covered(s)
<1>1. Total(s) \in Nat
    BY TotalCounts
<1>2. \A t \in Range(s) : t \in Texts
    BY DEF Range
<1>3. UNION {t.covers : t \in Range(s)} \subseteq AllMems
    BY <1>2 DEF Texts
<1>4. UNION {t.ids : t \in Range(s)} \subseteq AllMems
    BY <1>2 DEF Texts
<1>5. UNION {t.said : t \in Range(s)} \subseteq {1, 2} \X Nat
    BY <1>2 DEF Texts
<1> QED BY <1>1, <1>3, <1>4, <1>5 DEF Merged, Text, Texts, Covered

\* What one more text adds.
LEMMA CoveredGrows ==
    ASSUME NEW s \in Seq(Texts), NEW b \in Texts
    PROVE  /\ Covered(<<>>) = {} /\ Covered(<<b>>) = b.covers
           /\ Covered(Append(s, b)) = Covered(s) \cup b.covers
<1>1. Covered(<<>>) = {}
    BY DEF Covered, Range
<1>2. Range(<<b>>) = {b}
    BY DEF Range
<1>3. Range(Append(s, b)) = Range(s) \cup {b}
    <2> DEFINE t == Append(s, b)
    <2>1. DOMAIN t = 1..Len(s)+1 /\ t[Len(s)+1] = b /\ \A i \in 1..Len(s) : t[i] = s[i]
        OBVIOUS
    <2>2. DOMAIN s = 1..Len(s) /\ Len(s) \in Nat
        OBVIOUS
    <2> HIDE DEF t
    <2>3. \A i \in 1..Len(s)+1 : i \in 1..Len(s) \/ i = Len(s)+1
        BY <2>2
    <2>4. 1..Len(s) \subseteq 1..Len(s)+1 /\ Len(s)+1 \in 1..Len(s)+1
        BY <2>2
    <2>5. Range(t) = Range(s) \cup {b}
        BY <2>1, <2>2, <2>3, <2>4 DEF Range
    <2> QED BY <2>5 DEF t
<1> QED BY <1>1, <1>2, <1>3 DEF Covered

\* Chunks of the texts in S: each fits or is a single text.
Piled(c, S) ==
    /\ c \in Seq(Seq(Texts))
    /\ \A j \in 1..Len(c) : Wrap + Total(c[j]) <= Threshold \/ \E b \in S : c[j] = <<b>>
Within(c) == UNION {Covered(c[j]) : j \in 1..Len(c)}

\* Placing one more text keeps every chunk within the threshold, or single.
LEMMA PlaceKeeps ==
    ASSUME NEW S \in SUBSET Texts, NEW c, Piled(c, S), NEW b \in S
    PROVE  Piled(Place(c, b), S) /\ Within(Place(c, b)) = Within(c) \cup b.covers
<1> DEFINE fit == {i \in 1..Len(c) : Wrap + Total(c[i]) + b.size <= Threshold}
           k == Min(fit)
           d == Place(c, b)
<1>0. c \in Seq(Seq(Texts)) /\ Len(c) \in Nat /\ b \in Texts /\ b.size \in Nat
    BY DEF Piled, Texts
<1>1. \A j \in 1..Len(c) : c[j] \in Seq(Texts) /\ Total(c[j]) \in Nat
    BY <1>0, TotalCounts
<1>2. CASE fit = {}
    <2>1. d = Append(c, <<b>>)
        BY <1>2 DEF Place
    <2>2. <<b>> \in Seq(Texts)
        BY <1>0
    <2> HIDE DEF d
    <2>3. d \in Seq(Seq(Texts)) /\ Len(d) = Len(c) + 1 /\ d[Len(c)+1] = <<b>>
          /\ \A j \in 1..Len(c) : d[j] = c[j]
        BY <1>0, <2>1, <2>2
    <2>5. 1..Len(d) = 1..Len(c) \cup {Len(c)+1} /\ Len(c)+1 \notin 1..Len(c)
        BY <1>0, <2>3
    <2>4. Piled(d, S)
        BY <2>3, <2>5, Zenon DEF Piled
    <2>6. Covered(<<b>>) = b.covers
        BY <1>0, <2>2, CoveredGrows, EmptySeq
    <2>7. Within(d) = Within(c) \cup b.covers
        BY <2>3, <2>5, <2>6, Zenon DEF Within
    <2> QED BY <2>4, <2>7 DEF d
<1>3. CASE fit # {}
    <2>1. k \in fit
        <3>1. fit \in SUBSET Nat
            OBVIOUS
        <3>2. \E x \in fit : \A y \in fit : x <= y
            BY <1>3, <3>1, Least
        <3> QED BY <3>2 DEF Min
    <2>2. d = [c EXCEPT ![k] = Append(@, b)]
        BY <1>3 DEF Place
    <2>3. k \in 1..Len(c) /\ Wrap + Total(c[k]) + b.size <= Threshold
        BY <2>1
    <2> HIDE DEF d, k, fit
    <2>4. Append(c[k], b) \in Seq(Texts)
        BY <1>0, <1>1, <2>3
    <2>5. d \in Seq(Seq(Texts)) /\ Len(d) = Len(c) /\ d[k] = Append(c[k], b)
          /\ \A j \in 1..Len(c) : j # k => d[j] = c[j]
        BY <1>0, <2>2, <2>3, <2>4
    <2>6. Total(d[k]) = Total(c[k]) + b.size
        BY <1>0, <1>1, <2>3, <2>5, TotalCounts
    <2>7. Wrap + Total(d[k]) <= Threshold
        BY <1>0, <1>1, <2>3, <2>6, AdvanceConstants
    <2>8. Piled(d, S)
        BY <1>0, <2>5, <2>7 DEF Piled
    <2>9. Covered(d[k]) = Covered(c[k]) \cup b.covers
        BY <1>0, <1>1, <2>3, <2>5, CoveredGrows
    <2>10. Within(d) = Within(c) \cup b.covers
        <3>1. \A j \in 1..Len(c) : Covered(c[j]) \subseteq Covered(d[j])
            BY <2>5, <2>9
        <3>2. \A j \in 1..Len(c) : Covered(d[j]) \subseteq Covered(c[j]) \cup b.covers
            BY <2>5, <2>9
        <3> QED BY <2>3, <2>5, <2>9, <3>1, <3>2, Zenon DEF Within
    <2> QED BY <2>8, <2>10 DEF d
<1> QED BY <1>2, <1>3

\* f packs the boxes one by one.
Packs(f, boxes) ==
    f = [i \in 0..Len(boxes) |-> IF i = 0 THEN <<>> ELSE Place(f[i-1], boxes[i])]

LEMMA PacksExists ==
    ASSUME NEW s \in Seq(Texts)
    PROVE  \E f : Packs(f, s)
<1> DEFINE Upto(f, n) == f = [i \in 0..n |-> IF i = 0 THEN <<>> ELSE Place(f[i-1], s[i])]
           T == {n \in Nat : \E f : Upto(f, n)}
<1>1. 0 \in T
    <2>1. Upto([i \in 0..0 |-> <<>>], 0)
        OBVIOUS
    <2> QED BY <2>1
<1>2. ASSUME NEW n \in Nat, n \in T PROVE n + 1 \in T
    <2>1. PICK f : Upto(f, n)
        BY <1>2
    <2> DEFINE g == [i \in 0..n+1 |-> IF i = n + 1 THEN Place(f[n], s[n+1]) ELSE f[i]]
    <2>2. \A i \in 0..n+1 : g[i] = IF i = 0 THEN <<>> ELSE Place(g[i-1], s[i])
        BY <2>1
    <2>3. g = [i \in 0..n+1 |-> g[i]]
        OBVIOUS
    <2> HIDE DEF g
    <2>4. g = [i \in 0..n+1 |-> IF i = 0 THEN <<>> ELSE Place(g[i-1], s[i])]
        BY <2>2, <2>3
    <2>5. Upto(g, n + 1)
        BY <2>4, Zenon
    <2> HIDE DEF Upto
    <2> QED BY <2>5
<1>3. \A n \in Nat : n \in T
    <2> HIDE DEF T
    <2> QED BY <1>1, <1>2, Counting
<1>4. Len(s) \in T
    BY <1>3
<1> QED BY <1>4 DEF Packs

\* Packing loses nothing, and every chunk fits or is a single box.
LEMMA PackedKeeps ==
    ASSUME NEW s \in Seq(Texts)
    PROVE  Piled(Packed(s), Range(s)) /\ Within(Packed(s)) = Covered(s)
<1> DEFINE F == CHOOSE f : f = [i \in 0..Len(s) |-> IF i = 0 THEN <<>> ELSE Place(f[i-1], s[i])]
           S == Range(s)
           Upto(n) == UNION {s[i].covers : i \in 1..n}
           T == {n \in Nat : n <= Len(s) => Piled(F[n], S) /\ Within(F[n]) = Upto(n)}
<1>0. S \in SUBSET Texts /\ Len(s) \in Nat /\ \A i \in 1..Len(s) : s[i] \in S
    BY DEF Range
<1>1. Packed(s) = F[Len(s)]
    BY DEF Packed
<1>2. F = [i \in 0..Len(s) |-> IF i = 0 THEN <<>> ELSE Place(F[i-1], s[i])]
    BY PacksExists DEF Packs
<1> HIDE DEF F, S
<1>3. 0 \in T
    <2>1. F[0] = <<>>
        BY <1>0, <1>2
    <2>2. Piled(<<>>, S)
        BY DEF Piled
    <2>3. 1..Len(<<>>) = {} /\ 1..0 = {}
        OBVIOUS
    <2>4. Within(<<>>) = {} /\ Upto(0) = {}
        BY <2>3 DEF Within
    <2> HIDE DEF Upto
    <2> QED BY <2>1, <2>2, <2>4
<1>4. ASSUME NEW n \in Nat, n \in T PROVE n + 1 \in T
    <2> SUFFICES ASSUME n + 1 <= Len(s)
                 PROVE  Piled(F[n+1], S) /\ Within(F[n+1]) = Upto(n + 1)
        OBVIOUS
    <2>1. n <= Len(s) /\ n + 1 \in 1..Len(s) /\ n + 1 \in 0..Len(s) /\ n + 1 # 0 /\ (n + 1) - 1 = n
        BY <1>0
    <2>2. Piled(F[n], S) /\ Within(F[n]) = Upto(n)
        BY <1>4, <2>1
    <2>3. F[n+1] = Place(F[n], s[n+1])
        BY <1>2, <2>1
    <2>4. s[n+1] \in S
        BY <1>0, <2>1
    <2>5. Piled(F[n+1], S) /\ Within(F[n+1]) = Within(F[n]) \cup s[n+1].covers
        <3> HIDE DEF Upto
        <3>1. Piled(F[n], S) /\ S \in SUBSET Texts
            BY <1>0, <2>2
        <3>2. /\ Piled(Place(F[n], s[n+1]), S)
              /\ Within(Place(F[n], s[n+1])) = Within(F[n]) \cup s[n+1].covers
            BY <2>4, <3>1, PlaceKeeps, Zenon
        <3> QED BY <2>3, <3>2, Zenon
    <2>6. 1..n+1 = 1..n \cup {n+1}
        BY <1>4
    <2>7. Upto(n + 1) = Upto(n) \cup s[n+1].covers
        BY <2>6, Zenon
    <2> QED BY <2>2, <2>5, <2>7
<1>5. \A n \in Nat : n \in T
    <2> HIDE DEF T
    <2> QED BY <1>3, <1>4, Counting
<1>6. Piled(F[Len(s)], S) /\ Within(F[Len(s)]) = Upto(Len(s))
    BY <1>0, <1>5
<1>7. Upto(Len(s)) = Covered(s)
    BY <1>0 DEF Covered, Range
<1> QED BY <1>1, <1>6, <1>7 DEF S

----------------------------------------------------------------------------
(* The snapshot rendered.                                                    *)

Sized == size \in [AllMems -> Sizes]

LEMMA KidsFollow ==
    /\ Len(Kids) \in Nat \ {0} /\ Nodes = 1..Len(Kids) /\ 1 \in Nodes
    /\ \A n \in Nodes : Kids[n] \in Seq(Nodes) /\ \A k \in Range(Kids[n]) : k \in Nodes /\ k > n
<1>1. Len(Kids) \in Nat \ {0} /\ Nodes = 1..Len(Kids) /\ 1 \in Nodes
    BY AdvanceConstants DEF Nodes
<1>2. ASSUME NEW n \in Nodes
      PROVE  Kids[n] \in Seq(Nodes) /\ \A k \in Range(Kids[n]) : k \in Nodes /\ k > n
    <2>1. n \in 1..Len(Kids) /\ Kids \in Seq(Seq(Nat))
        BY <1>2, AdvanceConstants DEF Nodes
    <2>2. Kids[n] \in Seq(Nat) /\ Range(Kids[n]) \subseteq n+1..Len(Kids)
        BY <2>1, AdvanceConstants
    <2>3. \A k \in Range(Kids[n]) : k \in Nodes /\ k > n
        BY <1>1, <2>1, <2>2
    <2>4. \A i \in 1..Len(Kids[n]) : Kids[n][i] \in Range(Kids[n])
        BY <2>2 DEF Range
    <2> DEFINE s == Kids[n]
    <2>5. s \in Seq(Nat) /\ \A i \in 1..Len(s) : s[i] \in Nodes
        BY <2>2, <2>3, <2>4
    <2> HIDE DEF s
    <2>6. s \in Seq(Nodes)
        BY <2>5
    <2> QED BY <2>3, <2>6 DEF s
<1> QED BY <1>1, <1>2

LEMMA MemoriesIsText ==
    ASSUME Sized, NEW n \in Nodes
    PROVE  Memories(n) \in Texts /\ Memories(n).covers = Range(Mems[n])
<1> DEFINE m == Mems[n]
           s == [i \in 1..Len(m) |-> Text(size[m[i]], {m[i]}, {m[i]}, {})]
<1>1. m \in Seq(Nat) /\ Len(m) \in Nat
    BY AdvanceConstants DEF Nodes
<1> HIDE DEF m
<1>2. \A i \in 1..Len(m) : m[i] \in Range(m)
    BY <1>1 DEF Range
<1>3. Range(m) \subseteq AllMems
    BY DEF AllMems, m
<1>4. ASSUME NEW i \in 1..Len(m) PROVE s[i] \in Texts /\ s[i].covers = {m[i]}
    <2>1. m[i] \in AllMems
        BY <1>2, <1>3
    <2>2. size[m[i]] \in Nat
        BY <2>1, AdvanceConstants DEF Sized
    <2> QED BY <2>1, <2>2 DEF Text, Texts
<1>5. Memories(n) = Merged(s)
    BY DEF Memories, m
<1>6. Len(s) = Len(m) /\ DOMAIN s = 1..Len(m) /\ s \in Seq(Texts)
    <2>1. Len(s) = Len(m) /\ DOMAIN s = 1..Len(m)
        BY <1>1
    <2>2. \A i \in 1..Len(m) : s[i] \in Texts
        BY <1>4
    <2>3. s = [i \in 1..Len(m) |-> s[i]]
        OBVIOUS
    <2> HIDE DEF s
    <2> QED BY <1>1, <2>1, <2>2, <2>3
<1> HIDE DEF s
<1>7. Covered(s) = Range(m)
    <2>1. DOMAIN m = 1..Len(m)
        BY <1>1
    <2>2. Range(s) = {s[i] : i \in 1..Len(m)} /\ Range(m) = {m[i] : i \in 1..Len(m)}
        BY <1>6, <2>1, Zenon DEF Range
    <2>3. \A x : x \in Covered(s) <=> \E i \in 1..Len(m) : x \in s[i].covers
        BY <2>2 DEF Covered
    <2>4. \A x : x \in Covered(s) <=> \E i \in 1..Len(m) : x = m[i]
        BY <1>4, <2>3
    <2> QED BY <2>2, <2>4
<1> QED BY <1>5, <1>6, <1>7, MergedIsText DEF m

\* f renders the buckets in S.
Renders(f, S) ==
    f = [n \in S |-> Merged(<<Memories(n)>> \o [i \in 1..Len(Kids[n]) |-> f[Kids[n][i]]])]

LEMMA RendersExists ==
    \E f : Renders(f, Nodes)
<1> DEFINE N == Len(Kids)
           Last(n) == {c \in Nodes : c > N - n}
           T == {n \in Nat : \E f : Renders(f, Last(n))}
<1>0. N \in Nat \ {0} /\ Nodes = 1..N
    BY KidsFollow
<1>1. 0 \in T
    <2>1. Last(0) = {}
        BY <1>0
    <2>2. Renders([c \in {} |-> c], {})
        BY Zenon DEF Renders
    <2> QED BY <2>1, <2>2
<1>2. ASSUME NEW n \in Nat, n \in T PROVE n + 1 \in T
    <2> DEFINE S == Last(n)
               R == Last(n + 1)
               x == N - n
    <2>1. PICK f : Renders(f, S)
        BY <1>2
    <2> DEFINE Node(h, c) == Merged(<<Memories(c)>> \o [i \in 1..Len(Kids[c]) |-> h[Kids[c][i]]])
               g == [c \in R |-> IF c = x THEN Node(f, c) ELSE f[c]]
    <2>2. x \notin S /\ S \subseteq R /\ \A c \in R : c \in Nodes /\ (c = x \/ c \in S)
        BY <1>0
    <2>3. \A c \in R : \A i \in 1..Len(Kids[c]) : Kids[c][i] \in S
        <3> SUFFICES ASSUME NEW c \in R, NEW i \in 1..Len(Kids[c]) PROVE Kids[c][i] \in S
            OBVIOUS
        <3>1. Kids[c][i] \in Nodes /\ Kids[c][i] > c
            BY <2>2, KidsFollow DEF Range
        <3>2. c >= x
            BY <1>0
        <3> QED BY <1>0, <3>1, <3>2
    <2>4. \A c \in S : f[c] = Node(f, c)
        BY <2>1 DEF Renders
    <2> HIDE DEF S, x, Last, R
    <2>5. \A c \in R : [i \in 1..Len(Kids[c]) |-> g[Kids[c][i]]] = [i \in 1..Len(Kids[c]) |-> f[Kids[c][i]]]
        <3>1. \A y \in S : g[y] = f[y]
            BY <2>2
        <3> HIDE DEF g
        <3> QED BY <2>3, <3>1
    <2>6. \A c \in R : Node(g, c) = Node(f, c)
        <3> HIDE DEF g
        <3> QED BY <2>5, Zenon
    <2>7. \A c \in R : g[c] = Node(f, c)
        <3> HIDE DEF Node
        <3> QED BY <2>2, <2>4
    <2>8. \A c \in R : g[c] = Node(g, c)
        BY <2>6, <2>7, Zenon
    <2>9. g = [c \in R |-> g[c]]
        OBVIOUS
    <2> HIDE DEF g
    <2>10. g = [c \in R |-> Node(g, c)]
        <3> HIDE DEF Node
        <3> QED BY <2>8, <2>9
    <2>11. Renders(g, R)
        BY <2>10, Zenon DEF Renders
    <2> QED BY <2>11 DEF R
<1>3. \A n \in Nat : n \in T
    <2>1. \A n \in Nat : n \in T => n + 1 \in T
        BY <1>2
    <2> HIDE DEF T
    <2> QED BY <1>1, <2>1, Counting
<1>4. Last(N) = Nodes
    BY <1>0
<1>5. N \in T
    BY <1>0, <1>3
<1> QED BY <1>4, <1>5

\* A bucket is its memories and then its children.
LEMMA RenderedStep ==
    ASSUME NEW n \in Nodes
    PROVE  Rendered(n) = Merged(<<Memories(n)>> \o [i \in 1..Len(Kids[n]) |-> Rendered(Kids[n][i])])
<1> DEFINE F == CHOOSE f : f = [c \in Nodes |->
                    Merged(<<Memories(c)>> \o [i \in 1..Len(Kids[c]) |-> f[Kids[c][i]]])]
<1>1. \A c : Rendered(c) = F[c]
    BY DEF Rendered
<1>2. F = [c \in Nodes |-> Merged(<<Memories(c)>> \o [i \in 1..Len(Kids[c]) |-> F[Kids[c][i]]])]
    BY RendersExists, Zenon DEF Renders
<1> HIDE DEF F
<1>3. F[n] = Merged(<<Memories(n)>> \o [i \in 1..Len(Kids[n]) |-> F[Kids[n][i]]])
    BY <1>2
<1> QED BY <1>1, <1>3, Zenon

\* What the buckets of a list render to covers.
Below(todo) == UNION {Rendered(k).covers : k \in Range(todo)}

LEMMA RenderedCovers ==
    ASSUME Sized
    PROVE  \A n \in Nodes : /\ Rendered(n) \in Texts
                            /\ Rendered(n).covers = Range(Mems[n]) \cup Below(Kids[n])
<1> DEFINE N == Len(Kids)
           Good(c) == /\ Rendered(c) \in Texts
                      /\ Rendered(c).covers = Range(Mems[c]) \cup Below(Kids[c])
           T == {n \in Nat : \A c \in Nodes : c > N - n => Good(c)}
<1>0. N \in Nat \ {0} /\ Nodes = 1..N
    BY KidsFollow
<1>1. 0 \in T
    <2> HIDE DEF Good
    <2> QED BY <1>0
<1>2. ASSUME NEW n \in Nat, n \in T PROVE n + 1 \in T
    <2> SUFFICES ASSUME NEW c \in Nodes, c > N - (n + 1) PROVE Good(c)
        OBVIOUS
    <2> DEFINE K == Kids[c]
               s == [i \in 1..Len(K) |-> Rendered(K[i])]
               t == <<Memories(c)>> \o s
    <2>1. K \in Seq(Nodes) /\ Len(K) \in Nat /\ DOMAIN K = 1..Len(K)
        BY KidsFollow
    <2>2. \A i \in 1..Len(K) : K[i] \in Nodes /\ K[i] > c
        BY <2>1, KidsFollow DEF Range
    <2>3. \A i \in 1..Len(K) : K[i] > N - n
        BY <1>0, <2>2
    <2>4. \A i \in 1..Len(K) : Rendered(K[i]) \in Texts
        <3> HIDE DEF K
        <3> QED BY <1>2, <2>2, <2>3
    <2>5. Rendered(c) = Merged(t)
        BY RenderedStep
    <2> HIDE DEF K
    <2>6. s \in Seq(Texts) /\ Len(s) = Len(K) /\ \A i \in 1..Len(K) : s[i] = Rendered(K[i])
        BY <2>1, <2>4
    <2> HIDE DEF s
    <2>7. Memories(c) \in Texts /\ Memories(c).covers = Range(Mems[c])
        BY MemoriesIsText
    <2>8. t \in Seq(Texts) /\ Len(t) = Len(K) + 1 /\ t[1] = Memories(c)
          /\ \A i \in 1..Len(K) : t[i+1] = Rendered(K[i])
        BY <2>1, <2>6, <2>7
    <2>9. \A i \in 2..Len(K)+1 : t[i] = Rendered(K[i-1]) /\ i-1 \in 1..Len(K)
        <3>1. \A i \in 2..Len(K)+1 : i-1 \in 1..Len(K) /\ (i-1)+1 = i
            BY <2>1
        <3> QED BY <2>8, <3>1
    <2> HIDE DEF t
    <2>10. Range(t) = {Memories(c)} \cup {Rendered(k) : k \in Range(K)}
        <3>1. DOMAIN t = 1..Len(K)+1
            BY <2>8
        <3>2. ASSUME NEW y \in Range(t) PROVE y \in {Memories(c)} \cup {Rendered(k) : k \in Range(K)}
            <4>1. PICK i \in 1..Len(K)+1 : y = t[i]
                BY <3>1, <3>2 DEF Range
            <4>2. i = 1 \/ i \in 2..Len(K)+1
                BY <2>1
            <4> QED BY <2>1, <2>8, <2>9, <4>1, <4>2 DEF Range
        <3>3. Memories(c) \in Range(t)
            BY <2>1, <2>8, <3>1 DEF Range
        <3>4. ASSUME NEW i \in 1..Len(K) PROVE Rendered(K[i]) \in Range(t)
            <4>1. i+1 \in 1..Len(K)+1 /\ t[i+1] = Rendered(K[i])
                BY <2>1, <2>8
            <4> QED BY <3>1, <4>1 DEF Range
        <3>5. \A k \in Range(K) : \E i \in 1..Len(K) : k = K[i]
            BY <2>1 DEF Range
        <3> QED BY <3>2, <3>3, <3>4, <3>5
    <2>11. Covered(t) = Range(Mems[c]) \cup Below(K)
        BY <2>7, <2>10, Zenon DEF Covered, Below
    <2> QED BY <2>5, <2>8, <2>11, MergedIsText DEF K
<1>3. \A n \in Nat : n \in T
    <2>1. \A n \in Nat : n \in T => n + 1 \in T
        BY <1>2
    <2> HIDE DEF T
    <2> QED BY <1>1, <2>1, Counting
<1>4. N \in T /\ \A n \in Nodes : n > N - N
    <2>1. \A n \in Nodes : n > N - N
        BY <1>0
    <2> HIDE DEF T
    <2> QED BY <1>0, <1>3, <2>1
<1>5. \A c \in Nodes : Good(c)
    <2> HIDE DEF Good
    <2> QED BY <1>4
<1> QED BY <1>5

\* Everything is under bucket 1.
LEMMA RootCovers ==
    ASSUME Sized
    PROVE  Rendered(1).covers = AllMems
<1> DEFINE N == Len(Kids)
           T == {n \in Nat : \A c \in Nodes : c <= n => Rendered(c).covers \subseteq Rendered(1).covers}
<1>0. N \in Nat \ {0} /\ Nodes = 1..N
    BY KidsFollow
<1>1. 0 \in T
    BY <1>0
<1>2. ASSUME NEW n \in Nat, n \in T PROVE n + 1 \in T
    <2> SUFFICES ASSUME NEW c \in Nodes, c <= n + 1, c # 1
                 PROVE  Rendered(c).covers \subseteq Rendered(1).covers
        OBVIOUS
    <2>1. PICK p \in 1..c-1 : c \in Range(Kids[p])
        <3>1. c \in 2..Len(Kids)
            BY <1>0
        <3> QED BY <3>1, AdvanceConstants
    <2>2. p \in Nodes /\ p <= n
        BY <1>0
    <2>3. Rendered(p).covers \subseteq Rendered(1).covers
        BY <1>2, <2>2
    <2>4. Rendered(c).covers \subseteq Below(Kids[p])
        BY <2>1 DEF Below
    <2>5. Below(Kids[p]) \subseteq Rendered(p).covers
        BY <2>2, RenderedCovers
    <2> QED BY <2>3, <2>4, <2>5
<1>3. \A n \in Nat : n \in T
    <2>1. \A n \in Nat : n \in T => n + 1 \in T
        BY <1>2
    <2> HIDE DEF T
    <2> QED BY <1>1, <2>1, Counting
<1>4. N \in T /\ \A c \in Nodes : c <= N
    BY <1>0, <1>3
<1>5. \A c \in Nodes : Range(Mems[c]) \subseteq Rendered(1).covers
    BY <1>4, RenderedCovers
<1>6. AllMems \subseteq Rendered(1).covers
    BY <1>5 DEF AllMems
<1>7. Rendered(1) \in Texts
    BY RenderedCovers, KidsFollow
<1>8. Rendered(1).covers \subseteq AllMems
    BY <1>7 DEF Texts
<1> QED BY <1>6, <1>8

----------------------------------------------------------------------------
(* The invariant of the advance query.                                       *)

\* What every bucket covers with everything under it.
Shown == [n \in Nodes |-> Rendered(n).covers]

LEMMA ShownStays ==
    ASSUME size' = size
    PROVE  Shown' = Shown
<1>1. ASSUME NEW n PROVE Rendered(n)' = Rendered(n)
    BY SMT DEF Rendered, Memories, Text, Merged, Total
<1>2. \A n \in Nodes : Rendered(n)'.covers = Rendered(n).covers
    BY <1>1
<1> QED BY <1>2, Zenon DEF Shown

LEMMA ShownCovers ==
    ASSUME Sized
    PROVE  /\ Shown \in [Nodes -> SUBSET AllMems] /\ Shown[1] = AllMems
           /\ \A n \in Nodes :
                 /\ Rendered(n) \in Texts /\ Rendered(n).covers = Shown[n]
                 /\ Shown[n] = Range(Mems[n]) \cup UNION {Shown[k] : k \in Range(Kids[n])}
<1>1. \A n \in Nodes : Rendered(n) \in Texts /\ Rendered(n).covers \in SUBSET AllMems
    BY RenderedCovers DEF Texts
<1>2. Shown \in [Nodes -> SUBSET AllMems] /\ \A n \in Nodes : Rendered(n).covers = Shown[n]
    BY <1>1 DEF Shown
<1>3. Shown[1] = AllMems
    BY <1>2, RootCovers, KidsFollow
<1>4. ASSUME NEW n \in Nodes
      PROVE  Shown[n] = Range(Mems[n]) \cup UNION {Shown[k] : k \in Range(Kids[n])}
    <2>1. \A k \in Range(Kids[n]) : k \in Nodes /\ Rendered(k).covers = Shown[k]
        BY <1>2, KidsFollow
    <2>2. Below(Kids[n]) = UNION {Shown[k] : k \in Range(Kids[n])}
        BY <2>1 DEF Below
    <2> QED BY <1>2, <2>2, RenderedCovers
<1> QED BY <1>1, <1>2, <1>3, <1>4

FrameStates == {"count", "memories", "children", "chunks", "reduce", "final", "asked"}
FrameRecord ==
    [node: Nodes, st: FrameStates, todo: Seq(Nodes), boxes: Seq(Texts), round: Nat,
     req: Texts, tries: Nat]
ChunkRecord ==
    [text: Texts, kind: {"chunk", "results"}, parts: Nat, st: {"prepare", "wait", "ask", "done"},
     tries: Nat]

QueryTyped ==
    /\ Sized
    /\ table \in [1..2 -> MapOf(AllMems)] /\ moved \in BOOLEAN
    /\ stack \in Seq(FrameRecord) /\ stack # <<>>
    /\ work \in Seq(ChunkRecord)

\* What the buckets of a list cover, given by r.
Ahead(todo, r) == UNION {r[k] : k \in Range(todo)}

\* In a frame, what its boxes cover and what is still to do is what its bucket
\* covers, given by r; boxes of children and the final request fit.
FrameFits(f, r) ==
    /\ f.st \in {"count", "memories"} => f.boxes = <<>> /\ f.todo = Kids[f.node]
    /\ f.st = "children" =>
          /\ Covered(f.boxes) \cup Ahead(f.todo, r) = r[f.node]
          /\ \A t \in Range(f.boxes) : Fits(t)
    /\ f.st = "reduce" => Covered(f.boxes) = r[f.node]
    /\ f.st \in {"final", "asked"} => f.req.covers = r[f.node] /\ Fits(f.req)

\* A frame below another waits for the child the other works on.
Waits(f, g) == f.st = "children" /\ f.todo # <<>> /\ Head(f.todo) = g.node

Frames(s, r) ==
    /\ s[1].node = 1
    /\ \A i \in 1..Len(s) : FrameFits(s[i], r)
    /\ \A i \in 1..Len(s)-1 : Waits(s[i], s[i+1])

\* A chunk that may still go out fits, or is a single reply.
ChunkSmall(c) == c.st # "done" => Fits(c.text) \/ (c.kind = "results" /\ c.parts = 1)

Gathered(w) == UNION {w[i].text.covers : i \in 1..Len(w)}
InChunks(f, w, r) == f.st = "chunks" => Gathered(w) = r[f.node]

QueryInv ==
    /\ QueryTyped
    /\ Frames(stack, Shown)
    /\ \A i \in 1..Len(work) : ChunkSmall(work[i])
    /\ InChunks(Top, work, Shown)
    /\ result.st = "answered" => result.text.covers = AllMems

----------------------------------------------------------------------------
(* What its steps are made of.                                               *)

LEMMA AllMemsFinite ==
    AllMems \in SUBSET Nat /\ IsFiniteSet(AllMems)
<1>1. \A n \in Nodes : Mems[n] \in Seq(Nat)
    BY AdvanceConstants DEF Nodes
<1>2. AllMems \in SUBSET Nat
    BY <1>1 DEF AllMems, Range
<1>3. ASSUME NEW n \in Nodes PROVE IsFiniteSet(Range(Mems[n]))
    <2> DEFINE m == Mems[n]
    <2>1. m \in Seq(Nat) /\ IsFiniteSet(1..Len(m))
        BY <1>1, FS_Interval
    <2>2. Range(m) = {m[i] : i \in 1..Len(m)}
        BY <2>1 DEF Range
    <2> HIDE DEF m
    <2>3. Range(m) \subseteq {m[i] : i \in 1..Len(m)}
        BY <2>2
    <2>4. m \in [1..Len(m) -> Range(m)]
        BY <2>1 DEF Range
    <2>5. m \in Surjection(1..Len(m), Range(m))
        BY <2>2, <2>4 DEF Surjection
    <2> QED BY <2>1, <2>5, FS_Surjection DEF m
<1>4. IsFiniteSet(Nodes)
    BY KidsFollow, FS_Interval
<1> DEFINE P == {Range(Mems[n]) : n \in Nodes}
<1>5. IsFiniteSet(P)
    <2> DEFINE h == [n \in Nodes |-> Range(Mems[n])]
    <2>1. h \in Surjection(Nodes, P)
        BY DEF Surjection
    <2> QED BY <1>4, <2>1, FS_Surjection
<1>6. \A T \in P : IsFiniteSet(T)
    BY <1>3
<1>7. IsFiniteSet(UNION P)
    <2> HIDE DEF P
    <2> QED BY <1>5, <1>6, FS_UNION
<1> QED BY <1>2, <1>7 DEF AllMems

\* Encoding a text leaves its size and what it covers alone.
LEMMA PreparedIsText ==
    ASSUME QueryTyped, NEW t \in Texts
    PROVE  /\ Prepared(t) \in Texts /\ Prepared(t).size = t.size /\ Prepared(t).covers = t.covers
           /\ Remember(t) => table' \in [1..2 -> MapOf(AllMems)]
<1> DEFINE b == Current
           m == Encoded(table[b], t.ids)
           A == {<<b, n>> : n \in Aliases(m, t.ids)}
<1>1. b \in {1, 2} /\ b \in 1..2 /\ table[b] \in MapOf(AllMems)
    BY DEF QueryTyped, Current
<1>2. t.size \in Nat /\ t.covers \in SUBSET AllMems /\ t.ids \in SUBSET AllMems
      /\ t.said \in SUBSET ({1, 2} \X Nat)
    BY DEF Texts
<1>3. IsFiniteSet(t.ids) /\ AllMems \in SUBSET Nat
    BY <1>2, AllMemsFinite, FS_Subset
<1> HIDE DEF b
<1>4. m \in MapOf(AllMems)
    <2> DEFINE i == t.ids
               n == table[b]
    <2>1. i \in SUBSET AllMems /\ n \in MapOf(AllMems) /\ IsFiniteSet(AllMems)
        BY <1>1, <1>2, AllMemsFinite
    <2> HIDE DEF i, n
    <2>2. Encoded(n, i) \in MapOf(AllMems)
        BY <1>3, <2>1, EncodedExtends
    <2> QED BY <2>2 DEF i, n
<1> HIDE DEF m
<1>5. Aliases(m, t.ids) \in SUBSET Nat
    BY <1>4, AliasesDecode
<1>6. A \in SUBSET ({1, 2} \X Nat)
    BY <1>1, <1>5
<1>7. Prepared(t) = Text(t.size, t.covers, {}, t.said \cup A)
    BY DEF Prepared, b, m
<1> HIDE DEF A
<1>8. Prepared(t) \in Texts /\ Prepared(t).size = t.size /\ Prepared(t).covers = t.covers
    BY <1>2, <1>6, <1>7 DEF Text, Texts
<1>9. ASSUME Remember(t) PROVE table' \in [1..2 -> MapOf(AllMems)]
    <2>1. table' = [table EXCEPT ![b] = m]
        BY <1>9 DEF Remember, b, m
    <2> QED BY <1>1, <1>4, <2>1 DEF QueryTyped
<1> QED BY <1>8, <1>9

\* The innermost frame replaced by another of the same bucket.
Replaces(z, s, g) == z = [s EXCEPT ![Len(s)] = g]

LEMMA TopReplaced ==
    ASSUME NEW r, NEW s \in Seq(FrameRecord), s # <<>>, Frames(s, r), NEW g \in FrameRecord,
           g.node = s[Len(s)].node, FrameFits(g, r), NEW z, Replaces(z, s, g)
    PROVE  z \in Seq(FrameRecord) /\ z # <<>> /\ Frames(z, r) /\ Len(z) = Len(s) /\ z[Len(z)] = g
<1>1. Len(s) \in Nat \ {0} /\ Len(s) \in 1..Len(s) /\ 1 \in 1..Len(s)
    BY EmptySeq
<1>2. z \in Seq(FrameRecord) /\ Len(z) = Len(s) /\ z[Len(z)] = g
      /\ \A i \in 1..Len(s) : i # Len(s) => z[i] = s[i]
    BY <1>1 DEF Replaces
<1>3. z # <<>>
    BY <1>1, <1>2
<1>4. \A i \in 1..Len(s) : FrameFits(z[i], r) /\ z[i].node = s[i].node
    BY <1>1, <1>2 DEF Frames
<1>5. ASSUME NEW i \in 1..Len(s)-1 PROVE Waits(z[i], z[i+1])
    <2>1. i \in 1..Len(s) /\ i # Len(s) /\ i+1 \in 1..Len(s)
        BY <1>1
    <2>2. z[i] = s[i] /\ z[i+1].node = s[i+1].node /\ Waits(s[i], s[i+1])
        BY <1>2, <1>4, <2>1 DEF Frames
    <2> QED BY <2>2 DEF Waits
<1>6. z[1].node = 1
    BY <1>1, <1>4 DEF Frames
<1> QED BY <1>2, <1>3, <1>4, <1>5, <1>6, Zenon DEF Frames

\* A frame for the next child put on top.
LEMMA TopPushed ==
    ASSUME NEW r, NEW s \in Seq(FrameRecord), s # <<>>, Frames(s, r), NEW g \in FrameRecord,
           Waits(s[Len(s)], g), FrameFits(g, r)
    PROVE  LET z == Append(s, g) IN
           z \in Seq(FrameRecord) /\ z # <<>> /\ Frames(z, r) /\ z[Len(z)] = g
<1> DEFINE z == Append(s, g)
<1>1. Len(s) \in Nat \ {0} /\ 1 \in 1..Len(s)
    BY EmptySeq
<1>2. z \in Seq(FrameRecord) /\ Len(z) = Len(s) + 1 /\ z[Len(s)+1] = g
      /\ \A i \in 1..Len(s) : z[i] = s[i]
    OBVIOUS
<1> HIDE DEF z
<1>3. z # <<>>
    BY <1>1, <1>2
<1>4. ASSUME NEW i \in 1..Len(z) PROVE FrameFits(z[i], r)
    <2>1. i \in 1..Len(s) \/ i = Len(s)+1
        BY <1>1, <1>2
    <2> QED BY <1>2, <2>1 DEF Frames
<1>5. ASSUME NEW i \in 1..Len(z)-1 PROVE Waits(z[i], z[i+1])
    <2>1. i \in 1..Len(s)
        BY <1>1, <1>2
    <2>2. CASE i = Len(s)
        BY <1>2, <2>1, <2>2
    <2>3. CASE i # Len(s)
        <3>1. i \in 1..Len(s)-1 /\ i+1 \in 1..Len(s)
            BY <1>1, <2>1, <2>3
        <3> QED BY <1>2, <2>1, <3>1 DEF Frames
    <2> QED BY <2>2, <2>3
<1>6. z[1].node = 1
    BY <1>1, <1>2 DEF Frames
<1> QED BY <1>2, <1>3, <1>4, <1>5, <1>6, Zenon DEF Frames, z

\* The frame on top taken off and the one below replaced.
LEMMA TopPopped ==
    ASSUME NEW r, NEW s \in Seq(FrameRecord), Len(s) > 1, Frames(s, r), NEW g \in FrameRecord,
           g.node = s[Len(s)-1].node, FrameFits(g, r)
    PROVE  LET z == [SubSeq(s, 1, Len(s) - 1) EXCEPT ![Len(s) - 1] = g] IN
           z \in Seq(FrameRecord) /\ z # <<>> /\ Frames(z, r) /\ z[Len(z)] = g
<1> DEFINE n == Len(s) - 1
           y == SubSeq(s, 1, n)
           z == [y EXCEPT ![n] = g]
<1>1. n \in Nat \ {0} /\ n \in 1..Len(s) /\ 1 \in 1..n
    <2>1. \A L \in Nat : L > 1 => L - 1 \in Nat \ {0} /\ L - 1 \in 1..L /\ 1 \in 1..L - 1
        BY SMT
    <2>2. Len(s) \in Nat
        OBVIOUS
    <2> QED BY <2>1, <2>2, Zenon
<1>2. y \in Seq(FrameRecord) /\ Len(y) = n /\ \A i \in 1..n : y[i] = s[i]
    BY <1>1
<1> HIDE DEF y
<1>3. y # <<>> /\ \A i \in 1..n : i \in 1..Len(s)
    BY <1>1, <1>2
<1>4. Frames(y, r)
    <2>1. y[1].node = 1
        BY <1>1, <1>2 DEF Frames
    <2>2. \A i \in 1..n : FrameFits(y[i], r)
        BY <1>2, <1>3 DEF Frames
    <2>3. ASSUME NEW i \in 1..n-1 PROVE Waits(y[i], y[i+1])
        <3>1. i \in 1..n /\ i+1 \in 1..n /\ i \in 1..Len(s)-1
            BY <1>1
        <3> QED BY <1>2, <3>1 DEF Frames
    <2> QED BY <1>2, <2>1, <2>2, <2>3, Zenon DEF Frames
<1>5. g.node = y[Len(y)].node /\ Replaces(z, y, g)
    BY <1>1, <1>2 DEF Replaces
<1> HIDE DEF z
<1>6. z \in Seq(FrameRecord) /\ z # <<>> /\ Frames(z, r) /\ z[Len(z)] = g
    <2>1. y \in Seq(FrameRecord) /\ y # <<>>
        BY <1>2, <1>3
    <2> HIDE DEF n
    <2>2. g \in FrameRecord /\ FrameFits(g, r)
        OBVIOUS
    <2> QED BY <1>4, <1>5, <2>1, <2>2, TopReplaced, SMTT(20)
<1> QED BY <1>6 DEF z, y

\* Packing makes chunks that fit, or of single replies, and loses nothing.
LEMMA ChunksGather ==
    ASSUME NEW s \in Seq(Texts), NEW kind \in {"chunk", "results"},
           kind = "results" \/ \A t \in Range(s) : Fits(t)
    PROVE  LET w == Chunks(s, kind) IN
           /\ w \in Seq(ChunkRecord) /\ Gathered(w) = Covered(s)
           /\ \A i \in 1..Len(w) : ChunkSmall(w[i])
<1> DEFINE p == Packed(s)
           w == Chunks(s, kind)
<1>1. Piled(p, Range(s)) /\ Within(p) = Covered(s)
    BY PackedKeeps
<1>2. w = [i \in 1..Len(p) |-> Chunk(Merged(p[i]), kind, Len(p[i]))]
    BY DEF Chunks
<1> HIDE DEF p, w
<1>3. p \in Seq(Seq(Texts)) /\ Len(p) \in Nat /\ \A i \in 1..Len(p) : p[i] \in Seq(Texts)
    BY <1>1 DEF Piled
<1>4. ASSUME NEW i \in 1..Len(p)
      PROVE  /\ w[i] = Chunk(Merged(p[i]), kind, Len(p[i]))
             /\ w[i] \in ChunkRecord /\ w[i].text = Merged(p[i]) /\ ChunkSmall(w[i])
    <2> DEFINE t == Merged(p[i])
    <2>1. p[i] \in Seq(Texts) /\ Len(p[i]) \in Nat
        BY <1>3
    <2>2. t \in Texts /\ t.size = Total(p[i])
        BY <2>1, MergedIsText
    <2>3. w[i] = Chunk(t, kind, Len(p[i]))
        BY <1>2
    <2>4. Fits(t) \/ (kind = "results" /\ Len(p[i]) = 1)
        <3>1. CASE Wrap + Total(p[i]) <= Threshold
            BY <2>2, <3>1 DEF Fits, Tokens
        <3>2. CASE \E b \in Range(s) : p[i] = <<b>>
            <4>1. PICK b \in Range(s) : p[i] = <<b>>
                BY <3>2
            <4>2. Len(p[i]) = 1
                BY <4>1
            <4>3. b \in Texts
                BY DEF Range
            <4>4. Total(p[i]) = b.size
                BY <4>1, <4>3, TotalCounts
            <4>5. Fits(b) => Fits(t)
                BY <2>2, <4>4 DEF Fits, Tokens
            <4> QED BY <4>2, <4>5
        <3> QED BY <1>1, <3>1, <3>2 DEF Piled
    <2> HIDE DEF t
    <2>5. w[i] \in ChunkRecord /\ w[i].text = t /\ w[i].kind = kind /\ w[i].parts = Len(p[i])
        BY <2>1, <2>2, <2>3 DEF Chunk, ChunkRecord
    <2>6. ChunkSmall(w[i])
        BY <2>4, <2>5 DEF ChunkSmall
    <2> QED BY <2>3, <2>5, <2>6 DEF t
<1>5. w \in Seq(ChunkRecord) /\ Len(w) = Len(p)
    <2>1. w = [i \in 1..Len(p) |-> w[i]]
        BY <1>2
    <2> QED BY <1>3, <1>4, <2>1
<1>6. Gathered(w) = Covered(s)
    <2>1. \A i \in 1..Len(p) : w[i].text.covers = Covered(p[i])
        BY <1>3, <1>4, MergedIsText
    <2>2. Gathered(w) = Within(p)
        BY <1>5, <2>1 DEF Gathered, Within
    <2> QED BY <1>1, <2>2
<1> QED BY <1>4, <1>5, <1>6 DEF w

\* A chunk replaced by one that covers the same.
LEMMA ChunkReplaced ==
    ASSUME NEW w \in Seq(ChunkRecord), NEW i \in 1..Len(w), NEW c \in ChunkRecord,
           \A j \in 1..Len(w) : ChunkSmall(w[j]), ChunkSmall(c),
           c.text.covers = w[i].text.covers, NEW v, v = [w EXCEPT ![i] = c]
    PROVE  /\ v \in Seq(ChunkRecord) /\ Gathered(v) = Gathered(w)
           /\ \A j \in 1..Len(v) : ChunkSmall(v[j])
<1>1. v \in Seq(ChunkRecord) /\ Len(v) = Len(w) /\ v[i] = c /\ \A j \in 1..Len(w) : j # i => v[j] = w[j]
    OBVIOUS
<1>2. \A j \in 1..Len(w) : v[j].text.covers = w[j].text.covers
    BY <1>1
<1>3. Gathered(v) = Gathered(w)
    BY <1>1, <1>2, Zenon DEF Gathered
<1>4. \A j \in 1..Len(w) : ChunkSmall(v[j])
    BY <1>1
<1> QED BY <1>1, <1>3, <1>4

LEMMA QueryKeeps ==
    ASSUME QueryInv, size' = size, table' \in [1..2 -> MapOf(AllMems)], moved' \in BOOLEAN,
           stack' \in Seq(FrameRecord), stack' # <<>>, Frames(stack', Shown),
           work' \in Seq(ChunkRecord), \A i \in 1..Len(work') : ChunkSmall(work'[i]),
           InChunks(stack'[Len(stack')], work', Shown),
           result'.st = "answered" => result'.text.covers = AllMems
    PROVE  QueryInv'
<1>1. Shown' = Shown
    BY ShownStays
<1>2. QueryTyped'
    BY DEF QueryInv, QueryTyped, Sized
<1>3. Frames(stack, Shown)'
    BY <1>1
<1>4. InChunks(Top, work, Shown)'
    BY <1>1 DEF Top
<1> QED BY <1>2, <1>3, <1>4 DEF QueryInv

\* The innermost frame moves on.
LEMMA TopMoves ==
    ASSUME QueryInv, size' = size, table' \in [1..2 -> MapOf(AllMems)], moved' = moved,
           NEW g \in FrameRecord, g.node = Top.node, FrameFits(g, Shown), InTop(g),
           work' \in Seq(ChunkRecord), \A i \in 1..Len(work') : ChunkSmall(work'[i]),
           InChunks(g, work', Shown), result' = result
    PROVE  QueryInv'
<1> DEFINE z == stack'
<1>1. stack \in Seq(FrameRecord) /\ stack # <<>> /\ Frames(stack, Shown)
    BY DEF QueryInv, QueryTyped
<1>2. Replaces(z, stack, g) /\ g.node = stack[Len(stack)].node
    BY DEF InTop, Replaces, Top
<1> HIDE DEF z
<1>3. z \in Seq(FrameRecord) /\ z # <<>> /\ Frames(z, Shown) /\ z[Len(z)] = g
    BY <1>1, <1>2, TopReplaced, SMTT(20)
<1>4. moved' \in BOOLEAN /\ (result'.st = "answered" => result'.text.covers = AllMems)
    BY DEF QueryInv, QueryTyped
<1>5. InChunks(z[Len(z)], work', Shown)
    BY <1>3
<1> QED BY <1>3, <1>4, <1>5, QueryKeeps DEF z

\* The frames stay; the query may fail.
LEMMA StackStays ==
    ASSUME QueryInv, size' = size, table' \in [1..2 -> MapOf(AllMems)], moved' \in BOOLEAN,
           stack' = stack, work' \in Seq(ChunkRecord), Gathered(work') = Gathered(work),
           \A i \in 1..Len(work') : ChunkSmall(work'[i]),
           result' = result \/ \E why : Fails(why)
    PROVE  QueryInv'
<1>1. stack' \in Seq(FrameRecord) /\ stack' # <<>> /\ Frames(stack', Shown)
    BY DEF QueryInv, QueryTyped
<1>2. result'.st = "answered" => result'.text.covers = AllMems
    BY DEF Fails, QueryInv
<1>3. InChunks(stack'[Len(stack')], work', Shown)
    BY DEF QueryInv, InChunks, Top
<1> QED BY <1>1, <1>2, <1>3, QueryKeeps

\* What the invariant says of the innermost frame and its work.
LEMMA TopFits ==
    ASSUME QueryInv
    PROVE  /\ Top \in FrameRecord /\ FrameFits(Top, Shown) /\ Len(stack) \in 1..Len(stack)
           /\ table \in [1..2 -> MapOf(AllMems)] /\ moved \in BOOLEAN /\ Sized /\ QueryTyped
           /\ stack \in Seq(FrameRecord) /\ stack # <<>> /\ Frames(stack, Shown)
           /\ work \in Seq(ChunkRecord) /\ \A i \in 1..Len(work) : ChunkSmall(work[i])
<1>1. stack \in Seq(FrameRecord) /\ stack # <<>>
    BY DEF QueryInv, QueryTyped
<1>2. Len(stack) \in 1..Len(stack)
    BY <1>1, EmptySeq
<1>3. Top \in FrameRecord
    BY <1>1, <1>2 DEF Top
<1>4. FrameFits(Top, Shown)
    BY <1>2 DEF Top, QueryInv, Frames
<1> QED BY <1>1, <1>2, <1>3, <1>4 DEF QueryInv, QueryTyped

----------------------------------------------------------------------------
(* Every step keeps the invariant.                                           *)

LEMMA FrameParts ==
    ASSUME NEW f \in FrameRecord
    PROVE  /\ f.node \in Nodes /\ f.st \in FrameStates /\ f.todo \in Seq(Nodes)
           /\ f.boxes \in Seq(Texts) /\ f.round \in Nat /\ f.req \in Texts /\ f.tries \in Nat
BY DEF FrameRecord

\* A frame whose request is what its bucket covers, and fits.
LEMMA FinalFits ==
    ASSUME QueryTyped, NEW f \in FrameRecord, NEW r, NEW t \in Texts, t.covers = r[f.node], Fits(t)
    PROVE  LET g == Final(f, t) IN
           g \in FrameRecord /\ g.node = f.node /\ g.st = "final" /\ FrameFits(g, r)
<1> DEFINE q == Prepared(t)
           g == Final(f, t)
<1>1. q \in Texts /\ q.size = t.size /\ q.covers = t.covers
    BY PreparedIsText
<1>2. g = [f EXCEPT !.st = "final", !.req = q, !.tries = 0]
    BY DEF Final
<1> HIDE DEF q, g
<1>3. g \in FrameRecord /\ g.node = f.node /\ g.st = "final" /\ g.req = q
    BY <1>1, <1>2 DEF FrameRecord, FrameStates
<1>4. Fits(q)
    BY <1>1 DEF Fits, Tokens
<1>5. FrameFits(g, r)
    BY <1>1, <1>3, <1>4 DEF FrameFits
<1> QED BY <1>3, <1>5 DEF g

LEMMA CountWholeKeeps == QueryInv /\ CountWhole => QueryInv'
<1> SUFFICES ASSUME QueryInv, CountWhole PROVE QueryInv'
    OBVIOUS
<1> DEFINE f == Top
           t == Rendered(f.node)
<1>0. /\ f \in FrameRecord /\ FrameFits(f, Shown) /\ Sized /\ QueryTyped
      /\ work \in Seq(ChunkRecord) /\ \A i \in 1..Len(work) : ChunkSmall(work[i])
    BY TopFits
<1>1. f.st = "count" /\ Remember(t) /\ size' = size /\ work' = work /\ moved' = moved
    BY DEF CountWhole
<1>2. t \in Texts /\ t.covers = Shown[f.node]
    BY <1>0, FrameParts, ShownCovers
<1>3. table' \in [1..2 -> MapOf(AllMems)]
    BY <1>0, <1>1, <1>2, PreparedIsText
<1>4. \/ Fits(t) /\ InTop(Final(f, t)) /\ result' = result
      \/ stack' = stack /\ Fails("overflow")
      \/ InTop([f EXCEPT !.st = "memories"]) /\ result' = result
    BY DEF CountWhole
<1> HIDE DEF t
<1>5. CASE Fits(t) /\ InTop(Final(f, t)) /\ result' = result
    <2> DEFINE g == Final(f, t)
    <2>1. g \in FrameRecord /\ g.node = f.node /\ g.st = "final" /\ FrameFits(g, Shown)
        BY <1>0, <1>2, <1>5, FinalFits
    <2> HIDE DEF g
    <2>2. InChunks(g, work', Shown)
        BY <2>1 DEF InChunks
    <2>3. InTop(g)
        BY <1>5 DEF g
    <2> QED BY <1>0, <1>1, <1>3, <1>5, <2>1, <2>2, <2>3, TopMoves
<1>6. CASE stack' = stack /\ Fails("overflow")
    BY <1>0, <1>1, <1>3, <1>6, StackStays DEF QueryTyped
<1>7. CASE InTop([f EXCEPT !.st = "memories"]) /\ result' = result
    <2> DEFINE g == [f EXCEPT !.st = "memories"]
    <2>1. g \in FrameRecord /\ g.node = f.node /\ g.st = "memories" /\ g.boxes = f.boxes /\ g.todo = f.todo
        BY <1>0 DEF FrameRecord, FrameStates
    <2>2. InTop(g)
        BY <1>7
    <2> HIDE DEF g
    <2>3. FrameFits(g, Shown)
        BY <1>0, <1>1, <2>1 DEF FrameFits
    <2>4. InChunks(g, work', Shown)
        BY <2>1 DEF InChunks
    <2> QED BY <1>0, <1>1, <1>3, <1>7, <2>1, <2>2, <2>3, <2>4, TopMoves
<1> QED BY <1>4, <1>5, <1>6, <1>7

LEMMA BoxMemoriesKeeps == QueryInv /\ BoxMemories => QueryInv'
<1> SUFFICES ASSUME QueryInv, BoxMemories PROVE QueryInv'
    OBVIOUS
<1> DEFINE f == Top
           t == Memories(f.node)
<1>0. /\ f \in FrameRecord /\ FrameFits(f, Shown) /\ Sized /\ QueryTyped
      /\ work \in Seq(ChunkRecord) /\ \A i \in 1..Len(work) : ChunkSmall(work[i])
    BY TopFits
<1>1. f.st = "memories" /\ Remember(t) /\ size' = size /\ work' = work /\ moved' = moved
    BY DEF BoxMemories
<1>2. t \in Texts /\ t.covers = Range(Mems[f.node])
    BY <1>0, FrameParts, MemoriesIsText
<1>3. table' \in [1..2 -> MapOf(AllMems)]
    BY <1>0, <1>1, <1>2, PreparedIsText
<1>4. \/ stack' = stack /\ Fails("memories")
      \/ Fits(t) /\ InTop([f EXCEPT !.st = "children", !.boxes = <<t>>]) /\ result' = result
      \/ t.covers = {} /\ InTop([f EXCEPT !.st = "children"]) /\ result' = result
    BY DEF BoxMemories
<1>5. /\ f.boxes = <<>> /\ f.todo = Kids[f.node]
      /\ Shown[f.node] = t.covers \cup Ahead(f.todo, Shown)
    BY <1>0, <1>1, <1>2, FrameParts, ShownCovers DEF FrameFits, Ahead
<1> HIDE DEF t
<1>6. CASE stack' = stack /\ Fails("memories")
    BY <1>0, <1>1, <1>3, <1>6, StackStays DEF QueryTyped
<1>7. CASE Fits(t) /\ InTop([f EXCEPT !.st = "children", !.boxes = <<t>>]) /\ result' = result
    <2> DEFINE b == <<t>>
               g == [f EXCEPT !.st = "children", !.boxes = b]
    <2>1. b \in Seq(Texts) /\ Covered(b) = t.covers /\ \A x \in Range(b) : x = t
        <3>1. b \in Seq(Texts)
            BY <1>2
        <3>2. \A x \in Range(b) : x = t
            BY DEF Range
        <3>3. Covered(b) = t.covers
            BY <1>2, <3>1, CoveredGrows
        <3> QED BY <3>1, <3>2, <3>3
    <2>2. InTop(g)
        BY <1>7
    <2> HIDE DEF b
    <2>3. g \in FrameRecord /\ g.node = f.node /\ g.st = "children" /\ g.boxes = b /\ g.todo = f.todo
        BY <1>0, <2>1 DEF FrameRecord, FrameStates
    <2> HIDE DEF g
    <2>4. \A x \in Range(b) : Fits(x)
        BY <1>7, <2>1
    <2>5. FrameFits(g, Shown)
        BY <1>5, <2>1, <2>3, <2>4 DEF FrameFits
    <2>6. InChunks(g, work', Shown)
        BY <2>3 DEF InChunks
    <2> QED BY <1>0, <1>1, <1>3, <1>7, <2>2, <2>3, <2>5, <2>6, TopMoves
<1>8. CASE t.covers = {} /\ InTop([f EXCEPT !.st = "children"]) /\ result' = result
    <2> DEFINE g == [f EXCEPT !.st = "children"]
    <2>1. g \in FrameRecord /\ g.node = f.node /\ g.st = "children" /\ g.boxes = <<>> /\ g.todo = f.todo
        BY <1>0, <1>5 DEF FrameRecord, FrameStates
    <2>2. InTop(g)
        BY <1>8
    <2> HIDE DEF g
    <2>3. Covered(<<>>) = {} /\ \A x \in Range(<<>>) : FALSE
        BY DEF Covered, Range
    <2>4. FrameFits(g, Shown)
        <3>1. Covered(g.boxes) \cup Ahead(g.todo, Shown) = Shown[g.node]
            BY <1>5, <1>8, <2>1, <2>3, Zenon
        <3>2. \A x \in Range(g.boxes) : Fits(x)
            BY <2>1, <2>3, Zenon
        <3> QED BY <2>1, <3>1, <3>2 DEF FrameFits
    <2>5. InChunks(g, work', Shown)
        BY <2>1 DEF InChunks
    <2> QED BY <1>0, <1>1, <1>3, <1>8, <2>1, <2>2, <2>4, <2>5, TopMoves
<1> QED BY <1>4, <1>6, <1>7, <1>8

\* What a list of children covers, its first and the others.
LEMMA HeadCovers ==
    ASSUME NEW r, NEW todo \in Seq(Nodes), todo # <<>>
    PROVE  /\ Head(todo) \in Nodes /\ Head(todo) \in Range(todo) /\ Tail(todo) \in Seq(Nodes)
           /\ Ahead(todo, r) = r[Head(todo)] \cup Ahead(Tail(todo), r)
<1> DEFINE z == Tail(todo)
<1>1. Len(todo) \in Nat \ {0} /\ DOMAIN todo = 1..Len(todo) /\ Head(todo) = todo[1]
    BY EmptySeq
<1>2. z \in Seq(Nodes) /\ Len(z) = Len(todo) - 1 /\ DOMAIN z = 1..Len(todo)-1
      /\ \A i \in 1..Len(todo)-1 : z[i] = todo[i+1]
    BY <1>1
<1> HIDE DEF z
<1>3. Head(todo) \in Nodes /\ Head(todo) \in Range(todo)
    BY <1>1 DEF Range
<1>4. ASSUME NEW k \in Range(todo) PROVE k = Head(todo) \/ k \in Range(z)
    <2>1. PICK i \in 1..Len(todo) : k = todo[i]
        BY <1>1 DEF Range
    <2>2. i = 1 \/ (i - 1 \in 1..Len(todo)-1 /\ (i - 1) + 1 = i)
        BY <1>1
    <2>3. CASE i = 1
        BY <1>1, <2>1, <2>3
    <2>4. CASE i - 1 \in 1..Len(todo)-1 /\ (i - 1) + 1 = i
        BY <1>2, <2>1, <2>4 DEF Range
    <2> QED BY <2>2, <2>3, <2>4
<1>5. ASSUME NEW k \in Range(z) PROVE k \in Range(todo)
    <2>1. PICK i \in 1..Len(todo)-1 : k = z[i]
        BY <1>2 DEF Range
    <2>2. i + 1 \in 1..Len(todo)
        BY <1>1
    <2> QED BY <1>1, <1>2, <2>1, <2>2 DEF Range
<1>6. Range(todo) = {Head(todo)} \cup Range(z)
    BY <1>3, <1>4, <1>5
<1>7. Ahead(todo, r) = r[Head(todo)] \cup Ahead(z, r)
    BY <1>6, Zenon DEF Ahead
<1> QED BY <1>2, <1>3, <1>7 DEF z

\* A child's answer or rendering becomes a box of its parent.
LEMMA BoxAdded ==
    ASSUME NEW r, NEW f \in FrameRecord, f.st = "children", f.todo # <<>>, FrameFits(f, r),
           NEW t \in Texts, t.covers = r[Head(f.todo)], Fits(t)
    PROVE  LET g == [f EXCEPT !.todo = Tail(@), !.boxes = Append(@, t)] IN
           g \in FrameRecord /\ g.node = f.node /\ g.st = "children" /\ FrameFits(g, r)
<1> DEFINE z == Tail(f.todo)
           b == Append(f.boxes, t)
           g == [f EXCEPT !.todo = Tail(@), !.boxes = Append(@, t)]
<1>1. f.todo \in Seq(Nodes) /\ f.boxes \in Seq(Texts)
    BY FrameParts
<1>2. /\ z \in Seq(Nodes)
      /\ Ahead(f.todo, r) = r[Head(f.todo)] \cup Ahead(z, r)
    <2> DEFINE y == f.todo
    <2>1. y \in Seq(Nodes) /\ y # <<>>
        BY <1>1
    <2> HIDE DEF y
    <2>2. /\ Tail(y) \in Seq(Nodes)
          /\ Ahead(y, r) = r[Head(y)] \cup Ahead(Tail(y), r)
        BY <2>1, HeadCovers, Zenon
    <2> QED BY <2>2 DEF y
<1>3. b \in Seq(Texts) /\ Covered(b) = Covered(f.boxes) \cup t.covers
    <2> DEFINE y == f.boxes
    <2>1. y \in Seq(Texts)
        BY <1>1
    <2> HIDE DEF y
    <2>2. Append(y, t) \in Seq(Texts)
        BY <2>1
    <2>3. Covered(Append(y, t)) = Covered(y) \cup t.covers
        BY <2>1, CoveredGrows, Zenon
    <2> QED BY <2>2, <2>3 DEF y
<1>4. \A x \in Range(b) : x \in Range(f.boxes) \/ x = t
    <2>1. Len(b) = Len(f.boxes) + 1 /\ b[Len(f.boxes)+1] = t /\ \A i \in 1..Len(f.boxes) : b[i] = f.boxes[i]
        BY <1>1
    <2>2. DOMAIN b = 1..Len(b) /\ DOMAIN f.boxes = 1..Len(f.boxes) /\ Len(f.boxes) \in Nat
        BY <1>1, <1>3
    <2> HIDE DEF b
    <2>3. \A i \in 1..Len(b) : i \in 1..Len(f.boxes) \/ i = Len(f.boxes)+1
        BY <2>1, <2>2
    <2> QED BY <2>1, <2>2, <2>3 DEF Range
<1>5. g = [f EXCEPT !.todo = z, !.boxes = b]
    BY DEF FrameRecord
<1> HIDE DEF z, b, g
<1>6. g \in FrameRecord /\ g.node = f.node /\ g.st = "children" /\ g.boxes = b /\ g.todo = z
    BY <1>2, <1>3, <1>5 DEF FrameRecord, FrameStates
<1>7. Covered(f.boxes) \cup Ahead(f.todo, r) = r[f.node]
      /\ \A x \in Range(f.boxes) : Fits(x)
    BY DEF FrameFits
<1>8. Covered(b) \cup Ahead(z, r) = r[f.node]
    BY <1>2, <1>3, <1>7
<1>9. FrameFits(g, r)
    BY <1>4, <1>6, <1>7, <1>8 DEF FrameFits
<1> QED BY <1>6, <1>9 DEF g

LEMMA BoxChildKeeps == QueryInv /\ BoxChild => QueryInv'
<1> SUFFICES ASSUME QueryInv, BoxChild PROVE QueryInv'
    OBVIOUS
<1> DEFINE f == Top
           k == Head(f.todo)
           t == Rendered(k)
<1>0. /\ f \in FrameRecord /\ FrameFits(f, Shown) /\ Sized /\ QueryTyped
      /\ work \in Seq(ChunkRecord) /\ \A i \in 1..Len(work) : ChunkSmall(work[i])
      /\ stack \in Seq(FrameRecord) /\ stack # <<>> /\ Frames(stack, Shown)
    BY TopFits
<1>1. /\ f.st = "children" /\ f.todo # <<>> /\ Remember(t)
      /\ size' = size /\ work' = work /\ moved' = moved /\ result' = result
    BY DEF BoxChild
<1>2. \/ Fits(t) /\ InTop([f EXCEPT !.todo = Tail(@), !.boxes = Append(@, t)])
      \/ stack' = Append(stack, Frame(k))
    BY DEF BoxChild
<1>3. f.todo \in Seq(Nodes)
    BY <1>0, FrameParts
<1>4. k \in Nodes
    BY <1>1, <1>3, HeadCovers
<1>5. t \in Texts /\ t.covers = Shown[k]
    BY <1>0, <1>4, ShownCovers
<1>6. table' \in [1..2 -> MapOf(AllMems)]
    BY <1>0, <1>1, <1>5, PreparedIsText
<1> HIDE DEF t
<1>7. CASE Fits(t) /\ InTop([f EXCEPT !.todo = Tail(@), !.boxes = Append(@, t)])
    <2> DEFINE g == [f EXCEPT !.todo = Tail(@), !.boxes = Append(@, t)]
    <2>1. g \in FrameRecord /\ g.node = f.node /\ g.st = "children" /\ FrameFits(g, Shown)
        BY <1>0, <1>1, <1>5, <1>7, BoxAdded
    <2>2. InTop(g)
        BY <1>7
    <2> HIDE DEF g
    <2>3. InChunks(g, work', Shown)
        BY <2>1 DEF InChunks
    <2> QED BY <1>0, <1>1, <1>6, <2>1, <2>2, <2>3, TopMoves
<1>8. CASE stack' = Append(stack, Frame(k))
    <2> DEFINE g == Frame(k)
               z == stack'
    <2>1. Text(0, {}, {}, {}) \in Texts /\ <<>> \in Seq(Texts) /\ Kids[k] \in Seq(Nodes)
        BY <1>4, KidsFollow DEF Text, Texts
    <2>2. g \in FrameRecord /\ g.node = k /\ g.st = "count" /\ g.boxes = <<>> /\ g.todo = Kids[k]
        BY <1>4, <2>1 DEF Frame, FrameRecord, FrameStates
    <2> HIDE DEF g
    <2>3. FrameFits(g, Shown)
        BY <2>2 DEF FrameFits
    <2>4. Waits(stack[Len(stack)], g)
        BY <1>1, <2>2 DEF Waits, Top
    <2>5. z = Append(stack, g)
        BY <1>8 DEF g
    <2> HIDE DEF z, k, f
    <2>6. z \in Seq(FrameRecord) /\ z # <<>> /\ Frames(z, Shown) /\ z[Len(z)] = g
        BY <1>0, <2>2, <2>3, <2>4, <2>5, TopPushed
    <2>7. InChunks(z[Len(z)], work', Shown)
        BY <2>2, <2>6 DEF InChunks
    <2>8. moved' \in BOOLEAN /\ (result'.st = "answered" => result'.text.covers = AllMems)
        BY <1>1 DEF QueryInv, QueryTyped
    <2> QED BY <1>0, <1>1, <1>6, <2>6, <2>7, <2>8, QueryKeeps DEF z
<1> QED BY <1>2, <1>7, <1>8

LEMMA PackKeeps == QueryInv /\ Pack => QueryInv'
<1> SUFFICES ASSUME QueryInv, Pack PROVE QueryInv'
    OBVIOUS
<1> DEFINE f == Top
           s == f.boxes
           w == work'
           g == [f EXCEPT !.st = "chunks"]
<1>0. f \in FrameRecord /\ FrameFits(f, Shown) /\ table \in [1..2 -> MapOf(AllMems)]
    BY TopFits
<1>1. /\ f.st = "children" /\ f.todo = <<>> /\ w = Chunks(s, "chunk") /\ InTop(g)
      /\ size' = size /\ table' = table /\ moved' = moved /\ result' = result
    BY DEF Pack
<1>2. s \in Seq(Texts)
    BY <1>0, FrameParts
<1>3. Covered(s) = Shown[f.node] /\ \A x \in Range(s) : Fits(x)
    <2>1. Ahead(<<>>, Shown) = {}
        BY DEF Ahead, Range
    <2> QED BY <1>0, <1>1, <2>1 DEF FrameFits
<1>4. g \in FrameRecord /\ g.node = f.node /\ g.st = "chunks"
    BY <1>0 DEF FrameRecord, FrameStates
<1> HIDE DEF g, s, w
<1>5. w \in Seq(ChunkRecord) /\ Gathered(w) = Covered(s) /\ \A i \in 1..Len(w) : ChunkSmall(w[i])
    BY <1>1, <1>2, <1>3, ChunksGather
<1>6. FrameFits(g, Shown)
    BY <1>4 DEF FrameFits
<1>7. InChunks(g, w, Shown)
    BY <1>3, <1>4, <1>5 DEF InChunks
<1> QED BY <1>0, <1>1, <1>4, <1>5, <1>6, <1>7, TopMoves DEF w

\* A step of one chunk, on whatever frame.
LEMMA ChunkSteps ==
    ASSUME QueryInv, NEW i \in DOMAIN work,
           size' = size, table' \in [1..2 -> MapOf(AllMems)], moved' = moved, stack' = stack,
           result' = result \/ \E why : Fails(why),
           NEW c \in ChunkRecord, ChunkSmall(c), c.text.covers = work[i].text.covers,
           work' = [work EXCEPT ![i] = c]
    PROVE  QueryInv'
<1> DEFINE v == work'
<1>1. work \in Seq(ChunkRecord) /\ \A j \in 1..Len(work) : ChunkSmall(work[j])
    BY TopFits
<1>2. i \in 1..Len(work) /\ v = [work EXCEPT ![i] = c]
    BY <1>1
<1> HIDE DEF v
<1>3. v \in Seq(ChunkRecord) /\ Gathered(v) = Gathered(work) /\ \A j \in 1..Len(v) : ChunkSmall(v[j])
    BY <1>1, <1>2, ChunkReplaced
<1>4. moved' \in BOOLEAN
    BY TopFits
<1> QED BY <1>3, <1>4, StackStays DEF v

\* A chunk put together from its parts.
LEMMA ChunkParts ==
    ASSUME QueryInv, NEW i \in DOMAIN work
    PROVE  /\ work[i] \in ChunkRecord /\ ChunkSmall(work[i]) /\ work[i].text \in Texts
           /\ table \in [1..2 -> MapOf(AllMems)]
<1>1. work \in Seq(ChunkRecord) /\ \A j \in 1..Len(work) : ChunkSmall(work[j])
    BY TopFits
<1>2. i \in 1..Len(work) /\ work[i] \in ChunkRecord
    BY <1>1
<1> QED BY <1>1, <1>2, TopFits DEF ChunkRecord

LEMMA PrepareChunkKeeps ==
    ASSUME QueryInv, NEW i \in DOMAIN work, PrepareChunk(i) PROVE QueryInv'
<1> DEFINE t == work[i].text
           q == Prepared(t)
           c == [work[i] EXCEPT !.st = "wait", !.text = q]
<1>0. /\ work[i] \in ChunkRecord /\ ChunkSmall(work[i]) /\ t \in Texts /\ QueryTyped
    BY ChunkParts, TopFits
<1>1. /\ work[i].st = "prepare" /\ Remember(t)
      /\ size' = size /\ stack' = stack /\ moved' = moved /\ result' = result
    BY DEF PrepareChunk
<1>2. q \in Texts /\ q.size = t.size /\ q.covers = t.covers
    BY <1>0, PreparedIsText
<1>3. table' \in [1..2 -> MapOf(AllMems)]
    BY <1>0, <1>1, PreparedIsText
<1>4. work' = [work EXCEPT ![i].st = "wait", ![i].text = q]
    BY DEF PrepareChunk
<1> HIDE DEF q
<1>5. c \in ChunkRecord /\ c.st = "wait" /\ c.text = q /\ c.kind = work[i].kind /\ c.parts = work[i].parts
    BY <1>0, <1>2 DEF ChunkRecord
<1>6. work' = [work EXCEPT ![i] = c]
    BY <1>4
<1> HIDE DEF c
<1>7. ChunkSmall(c)
    BY <1>0, <1>1, <1>2, <1>5 DEF ChunkSmall, Fits, Tokens
<1> QED BY <1>1, <1>2, <1>3, <1>5, <1>6, <1>7, ChunkSteps

LEMMA PrepareFailsKeeps ==
    ASSUME QueryInv, NEW i \in DOMAIN work, PrepareFails(i) PROVE QueryInv'
<1> DEFINE c == [work[i] EXCEPT !.st = "done"]
<1>0. work[i] \in ChunkRecord /\ table \in [1..2 -> MapOf(AllMems)]
    BY ChunkParts
<1>1. /\ work' = [work EXCEPT ![i].st = "done"] /\ Fails("prepare")
      /\ size' = size /\ stack' = stack /\ moved' = moved /\ table' = table
    BY DEF PrepareFails
<1>2. c \in ChunkRecord /\ c.st = "done" /\ c.text = work[i].text
    BY <1>0 DEF ChunkRecord
<1>3. work' = [work EXCEPT ![i] = c]
    BY <1>1
<1> HIDE DEF c
<1>4. ChunkSmall(c) /\ c.text.covers = work[i].text.covers
    BY <1>2 DEF ChunkSmall
<1> QED BY <1>0, <1>1, <1>2, <1>3, <1>4, ChunkSteps

LEMMA AskChunkKeeps ==
    ASSUME QueryInv, NEW i \in DOMAIN work, AskChunk(i) PROVE QueryInv'
<1> DEFINE c == [work[i] EXCEPT !.st = "ask", !.tries = 1]
<1>0. work[i] \in ChunkRecord /\ ChunkSmall(work[i]) /\ table \in [1..2 -> MapOf(AllMems)]
    BY ChunkParts
<1>1. /\ work' = [work EXCEPT ![i].st = "ask", ![i].tries = 1] /\ work[i].st = "wait"
      /\ size' = size /\ stack' = stack /\ moved' = moved /\ table' = table /\ result' = result
    BY DEF AskChunk
<1>2. /\ c \in ChunkRecord /\ c.st = "ask" /\ c.text = work[i].text /\ c.kind = work[i].kind
      /\ c.parts = work[i].parts
    BY <1>0 DEF ChunkRecord
<1>3. work' = [work EXCEPT ![i] = c]
    BY <1>1
<1> HIDE DEF c
<1>4. ChunkSmall(c) /\ c.text.covers = work[i].text.covers
    BY <1>0, <1>1, <1>2 DEF ChunkSmall
<1> QED BY <1>0, <1>1, <1>2, <1>3, <1>4, ChunkSteps

LEMMA ChunkRepliesKeeps ==
    ASSUME QueryInv, NEW i \in DOMAIN work, ChunkReplies(i) PROVE QueryInv'
<1>0. /\ work[i] \in ChunkRecord /\ work[i].text \in Texts
      /\ table \in [1..2 -> MapOf(AllMems)]
    BY ChunkParts
<1>1. PICK n \in Replies : work' = [work EXCEPT ![i].st = "done", ![i].text.size = n]
    BY DEF ChunkReplies
<1>2. size' = size /\ stack' = stack /\ moved' = moved /\ table' = table /\ result' = result
    BY DEF ChunkReplies
<1> DEFINE t == [work[i].text EXCEPT !.size = n]
           c == [work[i] EXCEPT !.st = "done", !.text = t]
<1>3. t \in Texts /\ t.covers = work[i].text.covers
    <2>1. n \in Nat
        BY AdvanceConstants
    <2> QED BY <1>0, <2>1 DEF Texts
<1>4. work' = [work EXCEPT ![i] = c]
    BY <1>1
<1> HIDE DEF t
<1>5. c \in ChunkRecord /\ c.st = "done" /\ c.text = t
    BY <1>0, <1>3 DEF ChunkRecord
<1> HIDE DEF c
<1>6. ChunkSmall(c)
    BY <1>5 DEF ChunkSmall
<1> QED BY <1>0, <1>2, <1>3, <1>4, <1>5, <1>6, ChunkSteps

LEMMA ChunkFailsKeeps ==
    ASSUME QueryInv, NEW i \in DOMAIN work, ChunkFails(i) PROVE QueryInv'
<1>0. /\ work[i] \in ChunkRecord /\ work[i].text \in Texts /\ ChunkSmall(work[i])
      /\ table \in [1..2 -> MapOf(AllMems)]
    BY ChunkParts
<1>1. /\ size' = size /\ stack' = stack /\ moved' = moved /\ table' = table /\ result' = result
      /\ work[i].st = "ask"
    BY DEF ChunkFails
<1>2. CASE work' = [work EXCEPT ![i].tries = 2]
    <2> DEFINE c == [work[i] EXCEPT !.tries = 2]
    <2>1. /\ c \in ChunkRecord /\ c.st = "ask" /\ c.text = work[i].text /\ c.kind = work[i].kind
          /\ c.parts = work[i].parts
        BY <1>0, <1>1 DEF ChunkRecord
    <2>2. work' = [work EXCEPT ![i] = c]
        BY <1>2
    <2> HIDE DEF c
    <2>3. ChunkSmall(c) /\ c.text.covers = work[i].text.covers
        BY <1>0, <1>1, <2>1 DEF ChunkSmall
    <2> QED BY <1>0, <1>1, <2>1, <2>2, <2>3, ChunkSteps
<1>3. CASE work' = [work EXCEPT ![i].st = "done", ![i].text = Text(1, @.covers, {}, {})]
    <2> DEFINE t == Text(1, work[i].text.covers, {}, {})
               c == [work[i] EXCEPT !.st = "done", !.text = t]
    <2>1. t \in Texts /\ t.covers = work[i].text.covers
        BY <1>0 DEF Text, Texts
    <2>2. work' = [work EXCEPT ![i] = c]
        BY <1>3
    <2> HIDE DEF t
    <2>3. c \in ChunkRecord /\ c.st = "done" /\ c.text = t
        BY <1>0, <2>1 DEF ChunkRecord
    <2> HIDE DEF c
    <2>4. ChunkSmall(c)
        BY <2>3 DEF ChunkSmall
    <2> QED BY <1>0, <1>1, <2>1, <2>2, <2>3, <2>4, ChunkSteps
<1> QED BY <1>2, <1>3 DEF ChunkFails

LEMMA ChunksDoneKeeps == QueryInv /\ ChunksDone => QueryInv'
<1> SUFFICES ASSUME QueryInv, ChunksDone PROVE QueryInv'
    OBVIOUS
<1> DEFINE f == Top
           b == [i \in 1..Len(work) |-> work[i].text]
           g == [f EXCEPT !.st = "reduce", !.boxes = b]
<1>0. /\ f \in FrameRecord /\ table \in [1..2 -> MapOf(AllMems)]
      /\ work \in Seq(ChunkRecord)
    BY TopFits
<1>1. /\ f.st = "chunks" /\ InTop(g) /\ work' = <<>>
      /\ size' = size /\ table' = table /\ moved' = moved /\ result' = result
    BY DEF ChunksDone
<1>2. \A i \in 1..Len(work) : work[i].text \in Texts
    <2>1. \A i \in 1..Len(work) : work[i] \in ChunkRecord
        BY <1>0
    <2>2. \A c \in ChunkRecord : c.text \in Texts
        BY DEF ChunkRecord
    <2> QED BY <2>1, <2>2
<1>3. b \in Seq(Texts) /\ DOMAIN b = 1..Len(work) /\ \A i \in 1..Len(work) : b[i] = work[i].text
    BY <1>0, <1>2
<1> HIDE DEF b
<1>4. Covered(b) = Gathered(work)
    BY <1>3 DEF Covered, Gathered, Range
<1>5. Gathered(work) = Shown[f.node]
    BY <1>1 DEF QueryInv, InChunks
<1>6. g \in FrameRecord /\ g.node = f.node /\ g.st = "reduce" /\ g.boxes = b
    BY <1>0, <1>3 DEF FrameRecord, FrameStates
<1> HIDE DEF g
<1>7. FrameFits(g, Shown)
    BY <1>4, <1>5, <1>6 DEF FrameFits
<1>8. InChunks(g, work', Shown)
    BY <1>6 DEF InChunks
<1>9. work' \in Seq(ChunkRecord) /\ \A i \in 1..Len(work') : ChunkSmall(work'[i])
    BY <1>1
<1> QED BY <1>0, <1>1, <1>6, <1>7, <1>8, <1>9, TopMoves

LEMMA ReduceKeeps == QueryInv /\ Reduce => QueryInv'
<1> SUFFICES ASSUME QueryInv, Reduce PROVE QueryInv'
    OBVIOUS
<1> DEFINE f == Top
           s == f.boxes
           t == Merged(s)
<1>0. /\ f \in FrameRecord /\ FrameFits(f, Shown) /\ table \in [1..2 -> MapOf(AllMems)]
      /\ work \in Seq(ChunkRecord) /\ \A i \in 1..Len(work) : ChunkSmall(work[i])
      /\ QueryTyped /\ moved \in BOOLEAN
    BY TopFits
<1>1. f.st = "reduce" /\ size' = size /\ moved' = moved
    BY DEF Reduce
<1>2. \/ Fails("reductions") /\ stack' = stack /\ work' = work /\ table' = table
      \/ Fits(t) /\ Remember(t) /\ InTop(Final(f, t)) /\ work' = work /\ result' = result
      \/ /\ Remember(t) /\ work' = Chunks(s, "results") /\ result' = result
         /\ InTop([f EXCEPT !.st = "chunks", !.round = @ + 1])
    BY DEF Reduce
<1>3. s \in Seq(Texts)
    BY <1>0, FrameParts
<1>4. Covered(s) = Shown[f.node]
    BY <1>0, <1>1 DEF FrameFits
<1> HIDE DEF s
<1>5. t \in Texts /\ t.covers = Shown[f.node]
    BY <1>3, <1>4, MergedIsText
<1>6. Remember(t) => table' \in [1..2 -> MapOf(AllMems)]
    BY <1>0, <1>5, PreparedIsText
<1> HIDE DEF t
<1>7. CASE Fails("reductions") /\ stack' = stack /\ work' = work /\ table' = table
    BY <1>0, <1>1, <1>7, StackStays
<1>8. CASE Fits(t) /\ Remember(t) /\ InTop(Final(f, t)) /\ work' = work /\ result' = result
    <2> DEFINE g == Final(f, t)
    <2>1. g \in FrameRecord /\ g.node = f.node /\ g.st = "final" /\ FrameFits(g, Shown)
        BY <1>0, <1>5, <1>8, FinalFits
    <2> HIDE DEF g
    <2>2. InChunks(g, work', Shown)
        BY <2>1 DEF InChunks
    <2>3. InTop(g)
        BY <1>8 DEF g
    <2> QED BY <1>0, <1>1, <1>6, <1>8, <2>1, <2>2, <2>3, TopMoves
<1>9. CASE /\ Remember(t) /\ work' = Chunks(s, "results") /\ result' = result
           /\ InTop([f EXCEPT !.st = "chunks", !.round = @ + 1])
    <2> DEFINE g == [f EXCEPT !.st = "chunks", !.round = @ + 1]
               w == work'
    <2>1. g \in FrameRecord /\ g.node = f.node /\ g.st = "chunks"
        <3>1. f.round + 1 \in Nat
            BY <1>0, FrameParts
        <3> QED BY <1>0, <3>1 DEF FrameRecord, FrameStates
    <2>2. InTop(g)
        BY <1>9
    <2>3. w = Chunks(s, "results")
        BY <1>9
    <2> HIDE DEF g, w
    <2>4. w \in Seq(ChunkRecord) /\ Gathered(w) = Covered(s) /\ \A i \in 1..Len(w) : ChunkSmall(w[i])
        BY <1>3, <2>3, ChunksGather
    <2>5. FrameFits(g, Shown)
        BY <2>1 DEF FrameFits
    <2>6. InChunks(g, w, Shown)
        BY <1>4, <2>1, <2>4 DEF InChunks
    <2> QED BY <1>1, <1>6, <1>9, <2>1, <2>2, <2>4, <2>5, <2>6, TopMoves DEF w
<1> QED BY <1>2, <1>7, <1>8, <1>9

LEMMA AskFinalKeeps == QueryInv /\ AskFinal => QueryInv'
<1> SUFFICES ASSUME QueryInv, AskFinal PROVE QueryInv'
    OBVIOUS
<1> DEFINE f == Top
           g == [f EXCEPT !.st = "asked", !.tries = @ + 1]
<1>0. /\ f \in FrameRecord /\ FrameFits(f, Shown) /\ table \in [1..2 -> MapOf(AllMems)]
      /\ work \in Seq(ChunkRecord) /\ \A i \in 1..Len(work) : ChunkSmall(work[i])
    BY TopFits
<1>1. /\ f.st = "final" /\ InTop(g) /\ work' = work
      /\ size' = size /\ table' = table /\ moved' = moved /\ result' = result
    BY DEF AskFinal
<1>2. g \in FrameRecord /\ g.node = f.node /\ g.st = "asked" /\ g.req = f.req
    <2>1. f.tries + 1 \in Nat
        BY <1>0, FrameParts
    <2> QED BY <1>0, <2>1 DEF FrameRecord, FrameStates
<1> HIDE DEF g
<1>3. FrameFits(g, Shown)
    BY <1>0, <1>1, <1>2 DEF FrameFits
<1>4. InChunks(g, work', Shown)
    BY <1>2 DEF InChunks
<1> QED BY <1>0, <1>1, <1>2, <1>3, <1>4, TopMoves

LEMMA FinalRepliesKeeps == QueryInv /\ FinalReplies => QueryInv'
<1> SUFFICES ASSUME QueryInv, FinalReplies PROVE QueryInv'
    OBVIOUS
<1> DEFINE f == Top
           p == stack[Len(stack) - 1]
<1>0. /\ f \in FrameRecord /\ FrameFits(f, Shown) /\ table \in [1..2 -> MapOf(AllMems)]
      /\ work \in Seq(ChunkRecord) /\ \A i \in 1..Len(work) : ChunkSmall(work[i])
      /\ stack \in Seq(FrameRecord) /\ Len(stack) \in 1..Len(stack) /\ Frames(stack, Shown)
      /\ moved \in BOOLEAN /\ Sized /\ stack # <<>>
    BY TopFits
<1>1. /\ f.st = "asked" /\ work' = work
      /\ size' = size /\ table' = table /\ moved' = moved
    BY DEF FinalReplies
<1>2. PICK n \in Replies :
        \/ /\ Len(stack) = 1 /\ stack' = stack
           /\ result' = [st |-> "answered", text |-> [f.req EXCEPT !.size = n]]
        \/ Fails("child box") /\ stack' = stack
        \/ /\ Len(stack) > 1 /\ Fits([f.req EXCEPT !.size = n]) /\ result' = result
           /\ stack' = [SubSeq(stack, 1, Len(stack) - 1) EXCEPT ![Len(stack) - 1] =
                 [p EXCEPT !.todo = Tail(@), !.boxes = Append(@, [f.req EXCEPT !.size = n])]]
    BY DEF FinalReplies
<1> DEFINE t == [f.req EXCEPT !.size = n]
<1>3. t \in Texts /\ t.covers = Shown[f.node]
    <2>1. n \in Nat
        BY AdvanceConstants
    <2>2. f.req \in Texts
        BY <1>0, FrameParts
    <2>3. f.req.covers = Shown[f.node]
        BY <1>0, <1>1 DEF FrameFits
    <2> QED BY <2>1, <2>2, <2>3 DEF Texts
<1> HIDE DEF t
<1>4. CASE Len(stack) = 1 /\ stack' = stack /\ result' = [st |-> "answered", text |-> t]
    <2>1. f.node = 1
        BY <1>4 DEF QueryInv, Frames, Top
    <2>2. t.covers = AllMems
        BY <1>0, <1>3, <2>1, ShownCovers
    <2>3. result'.st = "answered" => result'.text.covers = AllMems
        BY <1>4, <2>2
    <2>4. InChunks(stack'[Len(stack')], work', Shown)
        BY <1>1, <1>4 DEF InChunks, Top
    <2> QED BY <1>0, <1>1, <1>4, <2>3, <2>4, QueryKeeps
<1>5. CASE Fails("child box") /\ stack' = stack
    BY <1>0, <1>1, <1>5, StackStays
<1>6. CASE /\ Len(stack) > 1 /\ Fits(t) /\ result' = result
           /\ stack' = [SubSeq(stack, 1, Len(stack) - 1) EXCEPT ![Len(stack) - 1] =
                 [p EXCEPT !.todo = Tail(@), !.boxes = Append(@, t)]]
    <2> DEFINE g == [p EXCEPT !.todo = Tail(@), !.boxes = Append(@, t)]
               z == stack'
    <2>1. \A L \in Nat : L > 1 => L - 1 \in 1..L /\ L - 1 \in 1..L-1 /\ (L - 1) + 1 = L
        BY SMT
    <2>2. /\ Len(stack) - 1 \in 1..Len(stack) /\ Len(stack) - 1 \in 1..Len(stack)-1
          /\ (Len(stack) - 1) + 1 = Len(stack)
        <3>1. Len(stack) \in Nat
            BY <1>0
        <3> QED BY <1>6, <2>1, <3>1, Zenon
    <2>3. p \in FrameRecord /\ FrameFits(p, Shown) /\ Waits(p, f)
        <3>1. p \in FrameRecord
            BY <1>0, <2>2
        <3>2. FrameFits(p, Shown)
            BY <1>0, <2>2 DEF Frames
        <3>3. Waits(p, f)
            <4> DEFINE m == Len(stack) - 1
            <4>1. m \in 1..Len(stack)-1 /\ m + 1 = Len(stack)
                BY <2>2
            <4> HIDE DEF m
            <4>2. Waits(stack[m], stack[m+1])
                BY <1>0, <4>1 DEF Frames
            <4> QED BY <4>1, <4>2 DEF m, Top
        <3> QED BY <3>1, <3>2, <3>3
    <2>4. z = [SubSeq(stack, 1, Len(stack) - 1) EXCEPT ![Len(stack) - 1] = g]
        BY <1>6
    <2>5. g \in FrameRecord /\ g.node = p.node /\ g.st = "children" /\ FrameFits(g, Shown)
        <3> HIDE DEF p, f
        <3>1. p.st = "children" /\ p.todo # <<>> /\ t.covers = Shown[Head(p.todo)]
            BY <1>3, <2>3 DEF Waits
        <3> QED BY <1>3, <1>6, <2>3, <3>1, BoxAdded
    <2> HIDE DEF g, z
    <2>6. z \in Seq(FrameRecord) /\ z # <<>> /\ Frames(z, Shown) /\ z[Len(z)] = g
        BY <1>0, <1>6, <2>4, <2>5, TopPopped
    <2>7. InChunks(z[Len(z)], work', Shown)
        BY <2>5, <2>6 DEF InChunks
    <2>8. moved' \in BOOLEAN /\ (result'.st = "answered" => result'.text.covers = AllMems)
        BY <1>1, <1>6 DEF QueryInv, QueryTyped
    <2> QED BY <1>0, <1>1, <2>6, <2>7, <2>8, QueryKeeps DEF z
<1> QED BY <1>2, <1>4, <1>5, <1>6 DEF t

LEMMA FinalFailsKeeps == QueryInv /\ FinalFails => QueryInv'
<1> SUFFICES ASSUME QueryInv, FinalFails PROVE QueryInv'
    OBVIOUS
<1> DEFINE f == Top
           g == [f EXCEPT !.st = "final"]
<1>0. /\ f \in FrameRecord /\ FrameFits(f, Shown) /\ table \in [1..2 -> MapOf(AllMems)]
      /\ work \in Seq(ChunkRecord) /\ \A i \in 1..Len(work) : ChunkSmall(work[i])
      /\ moved \in BOOLEAN
    BY TopFits
<1>1. /\ f.st = "asked" /\ work' = work
      /\ size' = size /\ table' = table /\ moved' = moved
    BY DEF FinalFails
<1>2. CASE InTop(g) /\ result' = result
    <2>1. g \in FrameRecord /\ g.node = f.node /\ g.st = "final" /\ g.req = f.req
        BY <1>0 DEF FrameRecord, FrameStates
    <2>2. InTop(g)
        BY <1>2
    <2> HIDE DEF g
    <2>3. FrameFits(g, Shown)
        BY <1>0, <1>1, <2>1 DEF FrameFits
    <2>4. InChunks(g, work', Shown)
        BY <2>1 DEF InChunks
    <2> QED BY <1>0, <1>1, <1>2, <2>1, <2>2, <2>3, <2>4, TopMoves
<1>3. CASE stack' = stack /\ \E why : Fails(why)
    BY <1>0, <1>1, <1>3, StackStays
<1>4. (InTop(g) /\ result' = result) \/ (stack' = stack /\ \E why : Fails(why))
    <2>1. CASE f.tries < 2
        BY <2>1 DEF FinalFails
    <2>2. CASE ~(f.tries < 2)
        BY <2>2 DEF FinalFails
    <2> QED BY <2>1, <2>2
<1> QED BY <1>2, <1>3, <1>4

LEMMA RebuildKeeps == QueryInv /\ Rebuild => QueryInv'
<1> SUFFICES ASSUME QueryInv, Rebuild PROVE QueryInv'
    OBVIOUS
<1>0. /\ table \in [1..2 -> MapOf(AllMems)] /\ work \in Seq(ChunkRecord)
      /\ \A i \in 1..Len(work) : ChunkSmall(work[i])
    BY TopFits
<1>1. /\ moved' = TRUE /\ table' = [table EXCEPT ![1] = Frozen(@)]
      /\ size' = size /\ stack' = stack /\ work' = work /\ result' = result
    BY DEF Rebuild
<1>2. table[1] \in MapOf(AllMems)
    BY <1>0
<1>3. Frozen(table[1]) \in MapOf(AllMems)
    BY <1>2, FrozenIsMap
<1>4. table' \in [1..2 -> MapOf(AllMems)]
    BY <1>0, <1>1, <1>3
<1> QED BY <1>0, <1>1, <1>4, StackStays

LEMMA QueryStarts == Init => QueryInv
<1> SUFFICES ASSUME Init PROVE QueryInv
    OBVIOUS
<1>1. /\ Sized /\ stack = <<Frame(1)>> /\ work = <<>> /\ table = <<EmptyMap, EmptyMap>>
      /\ moved = FALSE /\ result = Open
    BY DEF Init, Sized
<1> DEFINE g == Frame(1)
<1>2. Text(0, {}, {}, {}) \in Texts /\ <<>> \in Seq(Texts) /\ Kids[1] \in Seq(Nodes) /\ 1 \in Nodes
    BY KidsFollow DEF Text, Texts
<1>3. g \in FrameRecord /\ g.node = 1 /\ g.st = "count" /\ g.boxes = <<>> /\ g.todo = Kids[1]
    BY <1>2 DEF Frame, FrameRecord, FrameStates
<1> HIDE DEF g
<1>4. stack \in Seq(FrameRecord) /\ stack # <<>> /\ Len(stack) = 1 /\ stack[1] = g
    BY <1>1, <1>3 DEF g
<1>5. EmptyMap \in MapOf(AllMems)
    BY DEF EmptyMap, MapOf
<1>6. QueryTyped
    <2>1. table \in [1..2 -> MapOf(AllMems)]
        <3>1. \A S, m : m \in S => <<m, m>> \in [1..2 -> S]
            OBVIOUS
        <3> QED BY <1>1, <1>5, <3>1, Zenon
    <2>2. moved \in BOOLEAN
        BY <1>1, Zenon
    <2>3. work \in Seq(ChunkRecord)
        <3>1. <<>> \in Seq(ChunkRecord)
            OBVIOUS
        <3> QED BY <1>1, <3>1, Zenon
    <2> QED BY <1>1, <1>4, <2>1, <2>2, <2>3, Zenon DEF QueryTyped
<1>7. Frames(stack, Shown)
    BY <1>3, <1>4 DEF Frames, FrameFits
<1>8. InChunks(Top, work, Shown)
    BY <1>3, <1>4 DEF InChunks, Top
<1>9. \A i \in 1..Len(work) : ChunkSmall(work[i])
    BY <1>1
<1>10. result.st # "answered"
    BY <1>1 DEF Open
<1> QED BY <1>6, <1>7, <1>8, <1>9, <1>10 DEF QueryInv

LEMMA QueryStep == QueryInv /\ [Next]_vars => QueryInv'
<1> SUFFICES ASSUME QueryInv, [Next]_vars PROVE QueryInv'
    OBVIOUS
<1>1. ASSUME NEW i \in DOMAIN work,
             PrepareChunk(i) \/ PrepareFails(i) \/ AskChunk(i) \/ ChunkReplies(i) \/ ChunkFails(i)
      PROVE  QueryInv'
    BY <1>1, PrepareChunkKeeps, PrepareFailsKeeps, AskChunkKeeps, ChunkRepliesKeeps, ChunkFailsKeeps
<1>2. CASE Steps
    BY <1>1, <1>2, CountWholeKeeps, BoxMemoriesKeeps, BoxChildKeeps, PackKeeps, ChunksDoneKeeps,
       ReduceKeeps, AskFinalKeeps, FinalRepliesKeeps, FinalFailsKeeps DEF Steps
<1>3. CASE Rebuild
    BY <1>3, RebuildKeeps
<1>4. CASE UNCHANGED vars
    <2>1. /\ size' = size /\ stack' = stack /\ work' = work /\ table' = table /\ moved' = moved
          /\ result' = result
        BY <1>4 DEF vars
    <2> QED BY <2>1, TopFits, StackStays
<1> QED BY <1>2, <1>3, <1>4 DEF Next

LEMMA QueryInvariance == Spec => []QueryInv
<1> QED BY QueryStarts, QueryStep, PTL DEF Spec

\* An answer rests on the whole snapshot, whatever was split, packed and
\* reduced on the way and whatever failed.
THEOREM AnswersComplete == Spec => []NothingDropped
<1>1. QueryInv => NothingDropped
    BY DEF QueryInv, NothingDropped
<1> QED BY <1>1, QueryInvariance, PTL

\* No request is larger than the threshold, but one that carries one reply.
THEOREM RequestsBounded == Spec => []RequestsFit
<1>1. QueryInv => RequestsFit
    <2> SUFFICES ASSUME QueryInv PROVE RequestsFit
        OBVIOUS
    <2>1. work \in Seq(ChunkRecord) /\ \A i \in 1..Len(work) : ChunkSmall(work[i])
        BY TopFits
    <2>2. ASSUME NEW i \in Asking PROVE Fits(work[i].text) \/ (work[i].kind = "results" /\ work[i].parts = 1)
        BY <2>1 DEF Asking, ChunkSmall
    <2>3. Top.st = "asked" => Fits(Top.req)
        BY TopFits DEF FrameFits
    <2> QED BY <2>2, <2>3 DEF RequestsFit
<1> QED BY <1>1, QueryInvariance, PTL
=============================================================================
