------------------------ MODULE BucketServices_proofs ------------------------
(* A bucket handle, however old, leads to a bucket that can be written, no   *)
(* memory is stranded in a sealed bucket, titles lead to children, one per   *)
(* title, the records of buckets agree with the tree, and an optimize leaves *)
(* no record in limbo, for any number of tasks, buckets, memories, titles.   *)
EXTENDS TreeInvariants, WellFoundedInduction, FiniteSetTheorems, TLAPS

\* A nonempty set of numbers has a least one: what inductions below rest on.
LEMMA Least ==
    ASSUME NEW T \in SUBSET Nat, T # {}
    PROVE  \E x \in T : \A y \in T : x <= y
<1>1. PICK x \in T : \A y \in T : ~ (<<y, x>> \in OpToRel(<, Nat))
  BY NatLessThanWellFounded, WFMin
<1>2. \A y \in T : y < x => <<y, x>> \in OpToRel(<, Nat)
  BY DEF OpToRel
<1>3. \A y \in T : ~(y < x)
  BY <1>1, <1>2, Zenon
<1>4. \A y \in T : x <= y
  BY <1>3
<1> QED BY <1>4

----------------------------------------------------------------------------
(* Following redirects.                                                      *)

\* f follows the redirects of the buckets in S.
Follows(f, S) == f = [c \in S |-> IF Leads(c) THEN f[info[c].to] ELSE c]

\* A redirect leads to a later bucket, so there is a function that follows them all.
LEMMA FollowsExists ==
    ASSUME made \in Buckets
    PROVE  \E f : Follows(f, Buckets)
<1> DEFINE N == MaxBuckets
           Last(n) == {c \in Buckets : c > N - n}
           Done(n) == \E f : Follows(f, Last(n))
           T == {n \in 0..N : ~Done(n)}
<1>0. N \in Nat \ {0} /\ Buckets = 1..N /\ made \in 1..N
  BY TreeAssumption DEF TreeAssumption, Buckets
<1>1. Done(0)
    <2>1. Last(0) = {}
      BY <1>0
    <2>2. Follows([c \in {} |-> c], {})
      BY DEF Follows
    <2> QED BY <2>1, <2>2
<1>2. ASSUME NEW n \in 0..N, n # 0, Done(n - 1) PROVE Done(n)
    <2> DEFINE S == Last(n - 1)
               x == N - n + 1
    <2>1. PICK f : f = [c \in S |-> IF Leads(c) THEN f[info[c].to] ELSE c]
      BY <1>2 DEF Follows
    <2> DEFINE g == [c \in Last(n) |-> IF c = x THEN IF Leads(c) THEN f[info[c].to] ELSE c ELSE f[c]]
    <2>2. /\ x \in Last(n) /\ x \notin S /\ \A c \in Last(n) : c = x \/ (c \in S /\ c > x)
          /\ S \subseteq Last(n)
      BY <1>0, <1>2
    <2>3. \A c \in Last(n) : Leads(c) => info[c].to \in S /\ info[c].to \in Last(n) /\ info[c].to # x
      BY <1>0, <1>2 DEF Leads, Made
    <2> HIDE DEF S, x, Last
    <2>4. \A c \in Last(n) : g[c] = IF Leads(c) THEN g[info[c].to] ELSE c
        <3> SUFFICES ASSUME NEW c \in Last(n) PROVE g[c] = IF Leads(c) THEN g[info[c].to] ELSE c
            OBVIOUS
        <3>1. Leads(c) => g[info[c].to] = f[info[c].to]
          BY <2>3
        <3>2. CASE c = x
          BY <3>1, <3>2
        <3>3. CASE c # x
            <4>1. c \in S /\ g[c] = f[c]
              BY <2>2, <3>3
            <4>2. f[c] = IF Leads(c) THEN f[info[c].to] ELSE c
              BY <2>1, <4>1
            <4> QED BY <3>1, <4>1, <4>2
        <3> QED BY <3>2, <3>3
    <2>5. g = [c \in Last(n) |-> IF Leads(c) THEN g[info[c].to] ELSE c]
      BY <2>4
    <2> HIDE DEF g
    <2> QED BY <2>5 DEF Follows
<1>3. T = {}
    <2> SUFFICES ASSUME T # {} PROVE FALSE
        OBVIOUS
    <2>1. T \in SUBSET Nat
      BY <1>0
    <2>2. PICK n \in T : \A k \in T : n <= k
      BY <2>1, Least
    <2>3. n \in 0..N /\ ~Done(n)
        OBVIOUS
    <2> HIDE DEF Done
    <2>4. n # 0
      BY <1>1, <2>3
    <2>5. n - 1 \in 0..N /\ n - 1 \notin T
      BY <1>0, <2>2, <2>3, <2>4
    <2>6. Done(n - 1)
      BY <2>5
    <2> QED BY <1>2, <2>3, <2>4, <2>6
<1>4. Done(N)
    <2> HIDE DEF Done
    <2> QED BY <1>0, <1>3
<1>5. Last(N) = Buckets
  BY <1>0
<1> QED BY <1>4, <1>5

\* _resolve_bucket_redirect_chain, one step at a time.
LEMMA ResolveStep ==
    ASSUME made \in Buckets, NEW b \in Buckets
    PROVE  Resolve(b) = IF Leads(b) THEN Resolve(info[b].to) ELSE b
<1> DEFINE F == CHOOSE f : f = [c \in Buckets |->
                    IF info[c].sealed /\ Made(info[c].to) /\ info[c].to > c
                    THEN f[info[c].to] ELSE c]
<1>1. \A c : Resolve(c) = F[c]
  BY DEF Resolve
<1>2. F = [c \in Buckets |-> IF Leads(c) THEN F[info[c].to] ELSE c]
    <2>1. \E f : f = [c \in Buckets |->
                    IF info[c].sealed /\ Made(info[c].to) /\ info[c].to > c
                    THEN f[info[c].to] ELSE c]
      BY FollowsExists DEF Follows, Leads
    <2>2. F = [c \in Buckets |->
                    IF info[c].sealed /\ Made(info[c].to) /\ info[c].to > c
                    THEN F[info[c].to] ELSE c]
      BY <2>1
    <2> HIDE DEF F
    <2> QED BY <2>2 DEF Leads
<1> HIDE DEF F
<1> QED BY <1>1, <1>2

\* What a handle leads to: itself, or the end of a redirect, and it is no redirect.
LEMMA ResolveEnds ==
    ASSUME made \in Buckets, NEW b \in Buckets
    PROVE  /\ Resolve(b) \in Buckets /\ Resolve(b) >= b /\ ~Leads(Resolve(b))
           /\ Resolve(b) = b \/ \E c \in Buckets : Leads(c) /\ info[c].to = Resolve(b)
<1> DEFINE Ends(c) == /\ Resolve(c) \in Buckets /\ Resolve(c) >= c /\ ~Leads(Resolve(c))
                      /\ Resolve(c) = c \/ \E d \in Buckets : Leads(d) /\ info[d].to = Resolve(c)
           N == MaxBuckets
           T == {n \in Nat : n < N /\ ~Ends(N - n)}
<1>0. N \in Nat \ {0} /\ Buckets = 1..N /\ made \in 1..N
  BY TreeAssumption DEF TreeAssumption, Buckets
<1>1. ASSUME NEW c \in Buckets, \A d \in Buckets : d > c => Ends(d) PROVE Ends(c)
    <2>1. CASE ~Leads(c)
      BY <1>0, <2>1, ResolveStep
    <2>2. CASE Leads(c)
        <3>1. info[c].to \in Buckets /\ info[c].to > c
          BY <1>0, <2>2 DEF Leads, Made
        <3>2. Resolve(c) = Resolve(info[c].to)
          BY <2>2, ResolveStep
        <3>3. Ends(info[c].to)
          BY <1>1, <3>1
        <3>4. Resolve(info[c].to) >= c
          BY <1>0, <3>1, <3>3
        <3> QED BY <2>2, <3>2, <3>3, <3>4
    <2> QED BY <2>1, <2>2
<1> HIDE DEF Ends
<1>2. T = {}
    <2> SUFFICES ASSUME T # {} PROVE FALSE
        OBVIOUS
    <2>1. PICK n \in T : \A k \in T : n <= k
      BY Least
    <2>2. N - n \in Buckets
      BY <1>0
    <2>3. \A d \in Buckets : d > N - n => Ends(d)
        <3> SUFFICES ASSUME NEW d \in Buckets, d > N - n PROVE Ends(d)
            OBVIOUS
        <3>1. N - d \in Nat /\ N - d < n /\ N - d < N /\ N - (N - d) = d
          BY <1>0
        <3>2. N - d \notin T
          BY <2>1, <3>1
        <3> QED BY <3>1, <3>2
    <2> QED BY <1>1, <2>2, <2>3
<1>3. N - b \in Nat /\ N - b < N /\ N - (N - b) = b
  BY <1>0
<1>4. Ends(b)
  BY <1>2, <1>3
<1> QED BY <1>4 DEF Ends

----------------------------------------------------------------------------
(* The rows of the tree.                                                     *)

LEMMA Numbers ==
    /\ MaxBuckets \in Nat \ {0} /\ Buckets = 1..MaxBuckets /\ MaxDepth \in Nat \ {0}
    /\ None = 0 /\ None \notin Buckets /\ Buckets \subseteq Keys /\ Mems \subseteq Keys
    /\ \A k \in Mems : k \notin Buckets
    /\ 0..MaxBuckets = Buckets \cup {None}
  BY TreeAssumption DEF TreeAssumption, Buckets, None, Keys

LEMMA CreateKeeps ==
    ASSUME TreeTypeOK, Rows, NEW p \in Buckets \cup {None}, NEW lvl \in 1..MaxDepth,
           NEW s \in Titles \cup {None}, CreateBucket(p, lvl, s)
    PROVE  TreeKept /\ made' = made + 1 /\ made + 1 \in Buckets
<1>1. /\ made + 1 \in Buckets /\ made' = made + 1 /\ root' = root /\ rec' = rec
      /\ info' = [x \in Buckets |->
                       IF x = made + 1 THEN Row(p, lvl)
                       ELSE IF x = p
                            THEN [info[x] EXCEPT !.children = @ \cup {made + 1}]
                            ELSE info[x]]
      /\ titleOf' = IF s = None \/ p = None THEN titleOf
                    ELSE [titleOf EXCEPT ![p] = [@ EXCEPT ![s] = made + 1]]
  BY DEF CreateBucket
<1>2. Row(p, lvl) \in BucketInfo
  BY DEF Row, BucketInfo, None
<1>3. info' \in [Buckets -> BucketInfo]
  BY <1>1, <1>2 DEF TreeTypeOK, BucketInfo
<1>4. titleOf' \in [Buckets -> [Titles -> Buckets \cup {None}]]
  BY <1>1 DEF TreeTypeOK
<1>5. \A b \in Buckets : b # made + 1 =>
         /\ info'[b].level = info[b].level /\ info'[b].sealed = info[b].sealed /\ info'[b].to = info[b].to
  BY <1>1 DEF TreeTypeOK, BucketInfo
<1>6. ~info'[made + 1].sealed
  BY <1>1 DEF Row
<1>7. Rows'
  BY <1>1, <1>5, <1>6, Numbers DEF Rows, Forward, TreeTypeOK
<1>8. \A b \in 1..made : info'[b].level = info[b].level
  BY <1>1, <1>5, Numbers DEF TreeTypeOK
<1> QED BY <1>1, <1>3, <1>4, <1>7, <1>8 DEF TreeKept, TreeTypeOK

LEMMA ReparentKeeps ==
    ASSUME TreeTypeOK, Rows, NEW c \in Buckets, NEW p \in Buckets, NEW preserve \in BOOLEAN,
           Reparent(c, p, preserve)
    PROVE  TreeKept /\ made' = made
<1>1. made' = made /\ root' = root /\ rec' = rec /\ DOMAIN info' = Buckets
  BY DEF Reparent
<1>2. titleOf' \in [Buckets -> [Titles -> Buckets \cup {None}]]
  BY DEF Reparent, TreeTypeOK
<1>3. ASSUME NEW x \in Buckets
      PROVE  /\ info'[x] \in BucketInfo
             /\ info'[x].level = info[x].level
             /\ info'[x].sealed = info[x].sealed /\ info'[x].to = info[x].to
    <2> DEFINE q == IF x = c THEN p ELSE info[x].parent
               C == IF x = p THEN info[x].children \cup {c}
                    ELSE IF x = info[c].parent THEN Without(info[x].children, c)
                    ELSE info[x].children
    <2>1. info[x] \in BucketInfo
      BY DEF TreeTypeOK
    <2>2. info'[x] = [info[x] EXCEPT !.parent = q, !.children = C]
      BY <2>1 DEF Reparent, BucketInfo
    <2>3. q \in Buckets \cup {None} /\ C \in SUBSET Buckets
      BY <2>1 DEF BucketInfo, Without
    <2> HIDE DEF q, C
    <2> QED BY <2>1, <2>2, <2>3 DEF BucketInfo
<1>4. info' = [x \in Buckets |-> info'[x]]
  BY DEF Reparent
<1>5. info' \in [Buckets -> BucketInfo]
  BY <1>3, <1>4
<1>6. Rows'
  BY <1>1, <1>3 DEF Rows, Forward
<1>7. \A x \in 1..made : info'[x].level = info[x].level
  BY <1>3, Numbers DEF TreeTypeOK
<1> QED BY <1>1, <1>2, <1>5, <1>6, <1>7 DEF TreeKept, TreeTypeOK

LEMMA SealKeeps ==
    ASSUME TreeTypeOK, Rows, NEW src \in Buckets, NEW dst \in (src + 1)..made, Seal(src, dst)
    PROVE  TreeKept /\ made' = made
<1>0. dst \in Buckets
  BY Numbers DEF TreeTypeOK
<1>1. made' = made /\ root' = root /\ rec' = rec
  BY DEF Seal
<1>2. titleOf' \in [Buckets -> [Titles -> Buckets \cup {None}]]
    <2> DEFINE V(x, s) == IF x = dst /\ s \in Inherited(src, dst) THEN titleOf[src][s]
                          ELSE IF x = info[src].parent /\ titleOf[x][s] = src THEN dst
                          ELSE titleOf[x][s]
    <2>1. titleOf' = [x \in Buckets |-> [s \in Titles |-> V(x, s)]]
      BY DEF Seal
    <2>2. \A x \in Buckets, s \in Titles : V(x, s) \in Buckets \cup {None}
      BY <1>0 DEF TreeTypeOK
    <2> HIDE DEF V
    <2> QED BY <2>1, <2>2
<1>3. ASSUME NEW x \in Buckets
      PROVE  /\ info'[x] \in BucketInfo
             /\ info'[x].level = info[x].level
             /\ Forward(info'[x], x, made)
    <2>1. info[x] \in BucketInfo /\ Forward(info[x], x, made)
      BY DEF TreeTypeOK, Rows
    <2>2. CASE x = src
        <3>1. info'[x] = [info[x] EXCEPT !.sealed = TRUE, !.to = dst]
          BY <2>2 DEF Seal
        <3>2. info'[x] \in BucketInfo /\ info'[x].level = info[x].level /\ info'[x].to = dst
          BY <1>0, <2>1, <3>1 DEF BucketInfo
        <3>3. src \in 1..made
          BY Numbers DEF TreeTypeOK
        <3> QED BY <2>2, <3>2, <3>3 DEF Forward
    <2>3. CASE x # src /\ x = info[src].parent
        <3> DEFINE C == Without(info[x].children, src) \cup {dst}
        <3>1. info'[x] = [info[x] EXCEPT !.children = C]
          BY <2>1, <2>3 DEF Seal, BucketInfo
        <3>2. C \in SUBSET Buckets
          BY <1>0, <2>1 DEF BucketInfo, Without
        <3> HIDE DEF C
        <3> QED BY <2>1, <3>1, <3>2 DEF BucketInfo, Forward
    <2>4. CASE x # src /\ x # info[src].parent
      BY <2>1, <2>4 DEF Seal
    <2> QED BY <2>2, <2>3, <2>4
<1>4. info' = [x \in Buckets |-> info'[x]]
  BY DEF Seal
<1>5. info' \in [Buckets -> BucketInfo]
  BY <1>3, <1>4
<1> QED BY <1>1, <1>2, <1>3, <1>5, Numbers DEF TreeKept, TreeTypeOK, Rows

LEMMA SaveKeeps ==
    ASSUME TreeTypeOK, Rows, NEW b \in 1..made, NEW row \in BucketInfo, Forward(row, b, made),
           row.level = info[b].level, SaveInfo(b, row)
    PROVE  TreeKept /\ made' = made
<1>1. b \in Buckets
  BY Numbers DEF TreeTypeOK
<1> QED BY <1>1, Numbers DEF SaveInfo, TreeKept, TreeTypeOK, Rows, Forward

LEMMA OthersKeep ==
    ASSUME TreeTypeOK, Rows,
           \/ UNCHANGED treeVars
           \/ \E p \in Buckets, s \in Titles \cup {None}, c \in Buckets \cup {None} : SetTitle(p, s, c)
           \/ \E p, c \in Buckets \cup {None} : RemoveTitleRefs(p, c)
           \/ \E b \in Buckets : SetRoot(b)
    PROVE  TreeKept /\ made' = made
<1>0. info' = info /\ made' = made /\ rec' = rec
  BY DEF treeVars, SetTitle, RemoveTitleRefs, SetRoot
<1>1. Rows' /\ \A b \in 1..made : info'[b].level = info[b].level
  BY <1>0 DEF Rows
<1>2. titleOf' \in [Buckets -> [Titles -> Buckets \cup {None}]]
    <2>1. CASE titleOf' = titleOf
      BY <2>1 DEF TreeTypeOK
    <2>2. CASE \E p \in Buckets, s \in Titles \cup {None}, c \in Buckets \cup {None} : SetTitle(p, s, c)
        <3>1. PICK p \in Buckets, s \in Titles \cup {None}, c \in Buckets \cup {None} :
                 titleOf' = [titleOf EXCEPT ![p] = [titleOf[p] EXCEPT ![s] = c]]
          BY <2>2 DEF SetTitle, TreeTypeOK
        <3>2. [titleOf[p] EXCEPT ![s] = c] \in [Titles -> Buckets \cup {None}]
          BY DEF TreeTypeOK
        <3> QED BY <3>1, <3>2 DEF TreeTypeOK
    <2>3. CASE \E p, c \in Buckets \cup {None} : RemoveTitleRefs(p, c)
        <3>1. PICK p, c \in Buckets \cup {None} :
                 titleOf' = [titleOf EXCEPT ![p] =
                     [s \in Titles |-> IF titleOf[p][s] = c THEN None ELSE titleOf[p][s]]]
          BY <2>3 DEF RemoveTitleRefs, TreeTypeOK
        <3>2. p \in Buckets =>
                 [s \in Titles |-> IF titleOf[p][s] = c THEN None ELSE titleOf[p][s]]
                     \in [Titles -> Buckets \cup {None}]
          BY DEF TreeTypeOK
        <3> QED BY <3>1, <3>2, Numbers DEF TreeTypeOK
    <2> QED BY <2>1, <2>2, <2>3 DEF treeVars, SetRoot
<1>3. root' \in Buckets
  BY DEF treeVars, SetTitle, RemoveTitleRefs, SetRoot, TreeTypeOK
<1> QED BY <1>0, <1>1, <1>2, <1>3 DEF TreeKept, TreeTypeOK

LEMMA WriteKeeps ==
    ASSUME TreeTypeOK, Rows, NEW k \in Keys \cup {None}, NEW r,
           k \in Keys => r \in MemoryRecord, Write(k, r)
    PROVE  TreeKept /\ made' = made
<1>0. info' = info /\ made' = made /\ titleOf' = titleOf /\ root' = root
  BY DEF Write
<1>1. Rows' /\ \A b \in 1..made : info'[b].level = info[b].level
  BY <1>0 DEF Rows
<1>2. rec' \in [Keys -> MemoryRecord]
  BY DEF Write, TreeTypeOK
<1> QED BY <1>0, <1>1, <1>2 DEF TreeKept, TreeTypeOK

----------------------------------------------------------------------------
(* What a task holds, as long as it may use it: read against the rows f of n *)
(* buckets.                                                                  *)

LEMMA SoundHolds ==
    ASSUME NEW n \in Buckets, NEW n2 \in {n, n + 1}, n2 \in Buckets,
           NEW f \in [Buckets -> BucketInfo], NEW f2 \in [Buckets -> BucketInfo],
           \A b \in 1..n : f2[b].level = f[b].level,
           NEW r \in TaskRecord, Sound(r, n, f)
    PROVE  Sound(r, n2, f2)
<1>1. 1..n \subseteq 1..n2 /\ 0..n \subseteq 0..n2 /\ n \in Nat /\ n2 \in Nat /\ n2 >= n
  BY Numbers
<1>2. InPlace(r)
  BY DEF Sound
<1>3. Sources(r, n2)
    <2>1. r.dst \in (r.b + 1)..n => r.dst \in (r.b + 1)..n2
      BY <1>1, Numbers DEF TaskRecord
    <2> QED BY <1>1, <2>1 DEF Sound, Sources
<1>4. Children(r, n2, f2)
    <2>1. r.pc = "make" => f2[r.b].level = f[r.b].level
      BY DEF Sound, Sources
    <2>2. r.up \in 1..n => f2[r.up].level = f[r.up].level
        OBVIOUS
    <2> QED BY <1>1, <2>1, <2>2 DEF Sound, Children
<1>5. Records(r, n2)
  BY <1>1 DEF Sound, Records
<1>6. Summaries(r, n2, f2)
    <2>1. \A q \in Seq(1..n) : q # <<>> => Head(q) \in 1..n
        OBVIOUS
    <2>2. \A q \in Seq(1..n) : q \in Seq(1..n2)
      BY <1>1
    <2>3. ASSUME r.pc = "save"
          PROVE  r.old.level = f2[Head(r.sums)].level /\ Forward(r.old, Head(r.sums), n2)
        <3>1. Head(r.sums) \in 1..n
          BY <2>1, <2>3 DEF Sound, Summaries, Summing
        <3>2. r.old.level = f[Head(r.sums)].level /\ Forward(r.old, Head(r.sums), n)
          BY <2>3 DEF Sound, Summaries
        <3>3. r.old.to \in Nat
          BY Numbers DEF TaskRecord, BucketInfo
        <3> QED BY <1>1, <3>1, <3>2, <3>3 DEF Forward
    <2> QED BY <2>2, <2>3 DEF Sound, Summaries
<1> QED BY <1>2, <1>3, <1>4, <1>5, <1>6 DEF Sound

\* A step that moves task t to a sound record and keeps the tree keeps all of it.
LEMMA Advances ==
    ASSUME HInv, NEW t \in Tasks, NEW r \in TaskRecord, Become(t, r), TreeKept,
           Sound(r, made', info'), ops' \in 0..MaxOps,
           asked' \in [Buckets -> Titles \cup {None}], forgone' \in SUBSET Keys
    PROVE  HInv'
<1>1. /\ task \in [Tasks -> TaskRecord] /\ task' = [task EXCEPT ![t] = r]
      /\ task' \in [Tasks -> TaskRecord]
  BY DEF HInv, TypeOK, TaskTypeOK, TaskRecord, Become
<1>2. TypeOK'
  BY <1>1 DEF TypeOK, TaskTypeOK, TaskRecord, TreeKept
<1>3. ASSUME NEW u \in Tasks PROVE Sound(task'[u], made', info')
    <2>1. CASE u = t
      BY <1>1, <2>1
    <2>2. CASE u # t
        <3>1. task'[u] = task[u] /\ task[u] \in TaskRecord /\ Sound(task[u], made, info)
          BY <1>1, <2>2 DEF HInv
        <3>2. /\ made \in Buckets /\ made' \in Buckets /\ made' \in {made, made + 1}
              /\ info \in [Buckets -> BucketInfo] /\ info' \in [Buckets -> BucketInfo]
              /\ \A b \in 1..made : info'[b].level = info[b].level
          BY DEF HInv, TypeOK, TreeTypeOK, TreeKept
        <3> HIDE DEF Sound, TaskRecord, BucketInfo, Buckets
        <3> QED BY <3>1, <3>2, SoundHolds
    <2> QED BY <2>1, <2>2
<1> QED BY <1>2, <1>3 DEF HInv, TreeKept

\* Most steps change nothing but the task's own record.
LEMMA Moves ==
    ASSUME HInv, NEW t \in Tasks, NEW r \in TaskRecord, Become(t, r), UNCHANGED treeVars,
           Sound(r, made, info), ops' \in 0..MaxOps, UNCHANGED asked,
           forgone' \in SUBSET Keys
    PROVE  HInv'
<1>1. TreeKept /\ made' = made /\ info' = info
  BY OthersKeep DEF HInv, TypeOK, treeVars
<1>2. Sound(r, made', info')
  BY <1>1
<1>3. asked' \in [Buckets -> Titles \cup {None}]
  BY DEF HInv, TypeOK, TaskTypeOK
<1> QED BY <1>1, <1>2, <1>3, Advances

LEMMA TreeMoves ==
    ASSUME HInv, NEW t \in Tasks, NEW r \in TaskRecord, Become(t, r), TreeKept,
           Sound(r, made, info), UNCHANGED <<ops, asked>>, forgone' \in SUBSET Keys
    PROVE  HInv'
<1>1. /\ made \in Buckets /\ made' \in Buckets /\ made' \in {made, made + 1}
      /\ info \in [Buckets -> BucketInfo] /\ info' \in [Buckets -> BucketInfo]
      /\ \A b \in 1..made : info'[b].level = info[b].level
  BY DEF HInv, TypeOK, TreeTypeOK, TreeKept
<1>2. Sound(r, made', info')
    <2> HIDE DEF Sound, TaskRecord, BucketInfo, Buckets
    <2> QED BY <1>1, SoundHolds
<1>3. asked' \in [Buckets -> Titles \cup {None}] /\ ops' \in 0..MaxOps
  BY DEF HInv, TypeOK, TaskTypeOK
<1> QED BY <1>2, <1>3, Advances

LEMMA IdleIsSound ==
    ASSUME NEW n, NEW f
    PROVE  Idle \in TaskRecord /\ Sound(Idle, n, f)
<1>1. /\ Idle.op = "idle" /\ Idle.pc = "done" /\ Idle.child = None
  BY DEF Idle
<1>2. Row(None, 1) \in BucketInfo /\ [k \in Keys |-> NoRecord] \in [Keys -> MemoryRecord]
  BY Numbers DEF Row, BucketInfo, NoRecord, MemoryRecord
<1>3. <<>> \in Seq(Buckets) /\ "done" \in Places
  BY DEF Places
<1>6. None \in 0..MaxBuckets
  BY Numbers
<1>4. Idle \in TaskRecord
  BY <1>2, <1>3, <1>6 DEF Idle, TaskRecord
<1>5. Sound(Idle, n, f)
  BY <1>1 DEF Sound, InPlace, Sources, Children, Records, Summaries, Compressing, Splitting,
    Summing, Carrying, Succeeding, Grouped, KeyOps
<1> QED BY <1>4, <1>5

LEMMA GivesUp ==
    ASSUME HInv, NEW t \in Tasks, Quit(t), UNCHANGED treeVars,
           ops' \in 0..MaxOps, UNCHANGED asked, forgone' \in SUBSET Keys
    PROVE  HInv'
<1>1. Idle \in TaskRecord /\ Sound(Idle, made, info)
  BY IdleIsSound
<1> QED BY <1>1, Moves DEF Quit

LEMMA PutKeeps ==
    ASSUME HInv, NEW t \in Tasks, NEW k \in Keys \cup {None}, NEW r,
           k \in Keys => r \in MemoryRecord,
           NEW q \in TaskRecord, Sound(q, made, info), Put(t, k, r, q)
    PROVE  HInv'
<1>1. forgone \in SUBSET Keys /\ ops \in 0..MaxOps /\ TreeTypeOK /\ Rows
  BY DEF HInv, TypeOK, TaskTypeOK
<1>2. CASE Write(k, r) /\ Become(t, q) /\ Unobserved
    <2>1. TreeKept
      BY <1>1, <1>2, WriteKeeps
    <2> QED BY <1>1, <1>2, <2>1, TreeMoves DEF Unobserved
<1>3. CASE GiveUp(t)
  BY <1>1, <1>3, GivesUp DEF GiveUp, LocalStep
<1> QED BY <1>2, <1>3 DEF Put

LEMMA RehangKeeps ==
    ASSUME HInv, NEW t \in Tasks, NEW c \in Buckets, NEW p \in Buckets, NEW preserve \in BOOLEAN,
           NEW r \in TaskRecord, Sound(r, made, info),
           \/ Reparent(c, p, preserve) /\ Become(t, r) /\ Unobserved
           \/ GiveUp(t)
    PROVE  HInv'
<1>1. forgone \in SUBSET Keys /\ ops \in 0..MaxOps /\ TreeTypeOK /\ Rows
  BY DEF HInv, TypeOK, TaskTypeOK
<1>2. CASE Reparent(c, p, preserve) /\ Become(t, r) /\ Unobserved
    <2>1. TreeKept
      BY <1>1, <1>2, ReparentKeeps
    <2> QED BY <1>1, <1>2, <2>1, TreeMoves DEF Unobserved
<1>3. CASE GiveUp(t)
  BY <1>1, <1>3, GivesUp DEF GiveUp, LocalStep
<1> QED BY <1>2, <1>3

----------------------------------------------------------------------------
(* One lemma per group of actions.                                           *)

LEMMA Known ==
    ASSUME HInv, NEW t \in Tasks
    PROVE  /\ TreeTypeOK /\ Rows /\ task[t] \in TaskRecord /\ Sound(task[t], made, info)
           /\ ops \in 0..MaxOps /\ asked \in [Buckets -> Titles \cup {None}]
           /\ forgone \in SUBSET Keys
           /\ made \in Buckets /\ made \in Nat /\ 1..made \subseteq Buckets
           /\ Buckets \subseteq 0..MaxBuckets /\ None \in 0..MaxBuckets
  BY Numbers DEF HInv, TypeOK, TaskTypeOK, TreeTypeOK

LEMMA StartKeeps ==
    ASSUME HInv, NEW t \in Tasks, NEW o, Starting(t, o),
           NEW r \in TaskRecord, Become(t, r), r.pc = "ask", r.op = o, r.into = None,
           o = "set" => r.title \in Titles, o \in KeyOps \cup {"add"} => r.key \in Keys, o = "split" => r.child = None, r.dst = None
    PROVE  HInv'
<1>0. None \in 0..made /\ o # "idle"
  BY Known, ServicesAssumption DEF None, Starting, ServicesAssumption, OpNames
<1>1. Sound(r, made, info)
  BY <1>0 DEF Sound, InPlace, Sources, Children, Records, Summaries, Compressing, Splitting,
    Summing, Carrying, Succeeding, Grouped, KeyOps
<1>2. UNCHANGED treeVars /\ asked' = asked /\ forgone' \in SUBSET Keys /\ ops' \in 0..MaxOps
  BY Known, ServicesAssumption DEF Starting, ServicesAssumption
<1> QED BY <1>1, <1>2, Moves

LEMMA BeginKeeps ==
    ASSUME HInv, NEW t \in Tasks, BeginOnBucket(t) \/ BeginAdd(t) \/ BeginOnKey(t)
    PROVE  HInv'
<1>0. Handles \subseteq 0..MaxBuckets /\ Idle \in TaskRecord
  BY Known, IdleIsSound DEF Handles
<1>1. Idle.into = None /\ Idle.child = None /\ Idle.dst = None
  BY DEF Idle
<1>2. CASE BeginOnBucket(t)
    <2>1. PICK o \in {"set", "create", "compress", "split", "refresh"}, b \in Handles,
              s \in Titles \cup {None} :
           /\ Starting(t, o) /\ (o = "set" => s # None)
           /\ Become(t, [Idle EXCEPT !.op = o, !.pc = "ask", !.b = b, !.title = s])
      BY <1>2 DEF BeginOnBucket
    <2> DEFINE r == [Idle EXCEPT !.op = o, !.pc = "ask", !.b = b, !.title = s]
    <2>2. r \in TaskRecord /\ r.pc = "ask" /\ r.op = o /\ r.into = None /\ r.child = None
          /\ r.title = s /\ r.dst = None
        <3>1. b \in 0..MaxBuckets /\ o \in OpNames /\ "ask" \in Places
          BY <1>0 DEF OpNames, Places
        <3>2. r \in TaskRecord
          BY <1>0, <3>1 DEF TaskRecord
        <3> QED BY <1>0, <1>1, <3>2 DEF TaskRecord
    <2>3. Become(t, r)
      BY <2>1
    <2> HIDE DEF r
    <2> QED BY <2>1, <2>2, <2>3, StartKeeps DEF KeyOps
<1>3. CASE BeginAdd(t)
    <2>1. PICK b \in Handles, m \in Mems :
           /\ Starting(t, "add")
           /\ Become(t, [Idle EXCEPT !.op = "add", !.pc = "ask", !.b = b, !.key = m])
      BY <1>3 DEF BeginAdd
    <2> DEFINE r == [Idle EXCEPT !.op = "add", !.pc = "ask", !.b = b, !.key = m]
    <2>2. r \in TaskRecord /\ r.pc = "ask" /\ r.op = "add" /\ r.into = None /\ r.dst = None
          /\ r.key = m /\ m \in Keys
        <3>1. b \in 0..MaxBuckets /\ "add" \in OpNames /\ "ask" \in Places /\ m \in Keys
          BY <1>0, Numbers DEF OpNames, Places
        <3>2. r \in TaskRecord
          BY <1>0, <3>1 DEF TaskRecord
        <3> QED BY <1>0, <1>1, <3>1, <3>2 DEF TaskRecord
    <2>3. Become(t, r)
      BY <2>1
    <2> HIDE DEF r
    <2> QED BY <2>1, <2>2, <2>3, StartKeeps DEF KeyOps
<1>4. CASE BeginOnKey(t)
    <2>1. PICK o \in {"edit", "gray", "ungray", "delete", "move"}, k \in Keys,
              g \in Handles \cup {None} :
           /\ Starting(t, o)
           /\ Become(t, [Idle EXCEPT !.op = o, !.pc = "ask", !.b = rec[k].bucket,
                                  !.key = k, !.child = rec[k].child,
                                  !.goal = IF o = "delete" /\ rec[k].child # None
                                           THEN info[rec[k].child].parent ELSE g])
      BY <1>4 DEF BeginOnKey
    <2> DEFINE h == IF o = "delete" /\ rec[k].child # None
                    THEN info[rec[k].child].parent ELSE g
    <2>2. h \in 0..MaxBuckets /\ rec[k].bucket \in 0..MaxBuckets /\ rec[k].child \in 0..MaxBuckets
      BY <1>0, Known, Numbers DEF TreeTypeOK, MemoryRecord, BucketInfo
    <2> HIDE DEF h
    <2> DEFINE r == [Idle EXCEPT !.op = o, !.pc = "ask", !.b = rec[k].bucket,
                                  !.key = k, !.child = rec[k].child, !.goal = h]
    <2>3. r \in TaskRecord /\ r.pc = "ask" /\ r.op = o /\ r.into = None /\ r.key = k /\ r.dst = None
        <3>1. o \in OpNames /\ "ask" \in Places
          BY DEF OpNames, Places
        <3>2. r \in TaskRecord
          BY <1>0, <2>2, <3>1 DEF TaskRecord
        <3> QED BY <1>0, <1>1, <3>2 DEF TaskRecord
    <2>4. Become(t, r)
      BY <2>1 DEF h
    <2> HIDE DEF r
    <2> QED BY <2>1, <2>3, <2>4, StartKeeps DEF KeyOps
<1> QED BY <1>2, <1>3, <1>4

\* What an operation begins with.
LEMMA BeginsAs ==
    ASSUME NEW x \in TaskRecord
    PROVE  /\ Begins(x) \in {"look", "aim", "plan", "summary", "write", "first", "check", "reread"}
           /\ Begins(x) = "look" <=> x.op = "set"
           /\ Begins(x) = "aim" <=> x.op = "create"
           /\ Begins(x) = "plan" <=> x.op \in {"compress", "split"}
           /\ Begins(x) = "summary" <=> x.op = "refresh"
           /\ Begins(x) \in {"write", "first"} <=> x.op = "add"
           /\ Begins(x) = "check" <=> x.op = "move"
           /\ Begins(x) = "reread" => x.op \in KeyOps \cup {"idle"}
<1>1. x.op \in OpNames \cup {"idle"}
  BY DEF TaskRecord
<1> DEFINE first == Snapshot(x.b) \cap Mems = {}
<1>2. Begins(x) = CASE x.op = "set" -> "look"
                   [] x.op = "create" -> "aim"
                   [] x.op \in {"compress", "split"} -> "plan"
                   [] x.op = "refresh" -> "summary"
                   [] x.op = "add" -> IF first THEN "first" ELSE "write"
                   [] x.op = "move" -> "check"
                   [] OTHER -> "reread"
  BY DEF Begins
<1> HIDE DEF first
<1> QED BY <1>1, <1>2 DEF OpNames, KeyOps

LEMMA LockKeeps ==
    ASSUME HInv, NEW t \in Tasks, Ask(t) \/ Enter(t)
    PROVE  HInv'
<1> DEFINE x == task[t]
<1>0. x \in TaskRecord /\ Sound(x, made, info)
  BY Known
<1>1. CASE Ask(t)
    <2>1. PICK b \in 1..made, g \in {{}} \cup {{c} : c \in 1..made} :
            Become(t, [x EXCEPT !.pc = "wait", !.b = b,
                             !.want = {b} \cup g \cup
                                 (IF x.op \in {"set", "create"} THEN {Meta}
                                  ELSE {})])
      BY <1>1 DEF Ask
    <2> DEFINE w == {b} \cup g \cup (IF x.op \in {"set", "create"} THEN {Meta} ELSE {})
    <2>2. w \in SUBSET (0..MaxBuckets)
      BY Known DEF Meta, None
    <2>3. /\ x.pc = "ask" /\ x.into = None
          /\ UNCHANGED treeVars /\ UNCHANGED <<ops, asked, forgone>>
      BY <1>0, <1>1 DEF Sound, Summaries, Ask, At, LocalStep
    <2> HIDE DEF w
    <2> DEFINE r == [x EXCEPT !.pc = "wait", !.b = b, !.want = w]
    <2>4. r \in TaskRecord
      BY <1>0, <2>2, Known DEF TaskRecord, Places
    <2>5. Sound(r, made, info)
      BY <1>0, <2>3 DEF TaskRecord, Sound, InPlace, Sources, Children, Records, Summaries,
        Compressing, Splitting, Summing, Carrying, Succeeding, Grouped, KeyOps
    <2>6. Become(t, r)
      BY <2>1 DEF w
    <2> HIDE DEF r, x
    <2> QED BY <2>3, <2>4, <2>5, <2>6, Known, Moves
<1>2. CASE Enter(t)
    <2> DEFINE q == Begins(x)
    <2>1. x.pc = "wait" /\ LocalStep /\ Become(t, [x EXCEPT !.held = x.want, !.want = {}, !.sums = <<x.b>>, !.pc = q])
      BY <1>2 DEF Enter, At
    <2>2. /\ q \in {"look", "aim", "plan", "summary", "write", "first", "check", "reread"}
          /\ q \in {"write", "first"} => x.op = "add"
          /\ q = "look" => x.op = "set"
          /\ q = "check" => x.op = "move"
          /\ q = "reread" /\ x.op # "idle" => x.op \in KeyOps
          /\ q = "summary" => x.op = "refresh"
      BY <1>0, BeginsAs
    <2>3. /\ x.pc = "wait" /\ x.op # "idle" /\ x.into = None /\ x.b \in 1..made
          /\ UNCHANGED treeVars /\ UNCHANGED <<ops, asked, forgone>>
      BY <1>0, <2>1 DEF Sound, InPlace, Summaries, Sources, LocalStep
    <2>4. <<x.b>> \in Seq(1..made) /\ <<x.b>> \in Seq(Buckets) /\ <<x.b>> # <<>>
      BY <2>3, Known
    <2> HIDE DEF q
    <2> DEFINE r == [x EXCEPT !.held = x.want, !.want = {}, !.sums = <<x.b>>, !.pc = q]
    <2>5. r \in TaskRecord
      BY <1>0, <2>2, <2>4 DEF TaskRecord, Places
    <2>6. Sound(r, made, info)
      BY <1>0, <2>2, <2>3, <2>4 DEF TaskRecord, Sound, InPlace, Sources, Children, Records, Summaries,
        Compressing, Splitting, Summing, Carrying, Succeeding, Grouped, KeyOps
    <2>7. Become(t, r)
      BY <2>1
    <2> HIDE DEF r, x
    <2> QED BY <2>3, <2>5, <2>6, <2>7, Known, Moves
<1> QED BY <1>1, <1>2

LEMMA LookKeeps ==
    ASSUME HInv, NEW t \in Tasks, Look(t)
    PROVE  HInv'
<1> DEFINE x == task[t]
<1>0. x \in TaskRecord /\ Sound(x, made, info)
  BY Known
<1>1. x.pc = "look" /\ UNCHANGED treeVars /\ UNCHANGED <<ops, asked, forgone>> /\ x.op = "set"
  BY <1>0 DEF Look, At, LocalStep, Sound, InPlace
<1>2. CASE Quit(t)
  BY <1>1, <1>2, Known, GivesUp
<1>3. ASSUME NEW q \in {"aim", "retitle", "untitle"}, NEW c \in 0..MaxBuckets,
             Become(t, [x EXCEPT !.pc = q, !.child = c])
      PROVE  HInv'
    <2> DEFINE r == [x EXCEPT !.pc = q, !.child = c]
    <2>1. r \in TaskRecord
      BY <1>0 DEF TaskRecord, Places
    <2>2. Sound(r, made, info)
      BY <1>0, <1>1 DEF TaskRecord, Sound, InPlace, Sources, Children, Records, Summaries,
        Compressing, Splitting, Summing, Carrying, Succeeding, Grouped, KeyOps
    <2>3. Become(t, r)
      BY <1>3
    <2> HIDE DEF r, x
    <2> QED BY <1>1, <2>1, <2>2, <2>3, Known, Moves
<1>6. titleOf[x.b][x.title] \in 0..MaxBuckets
  BY <1>0, <1>1, Known, Numbers DEF TreeTypeOK, Sound, Sources, Records
<1>4. \/ Quit(t)
      \/ Step(t, "aim")
      \/ \E c \in 1..made, q \in {"retitle", "untitle"} :
            Become(t, [x EXCEPT !.pc = q, !.child = c])
      \/ Become(t, [x EXCEPT !.pc = "untitle", !.child = titleOf[x.b][x.title]])
  BY DEF Look
<1>5. CASE Step(t, "aim")
    <2>1. [x EXCEPT !.pc = "aim"] = [x EXCEPT !.pc = "aim", !.child = x.child] /\ x.child \in 0..MaxBuckets
      BY <1>0 DEF TaskRecord
    <2> HIDE DEF x
    <2> QED BY <1>3, <1>5, <2>1 DEF Step, x
<1>7. \A c \in 1..made : c \in 0..MaxBuckets
  BY Known
<1> QED BY <1>2, <1>3, <1>4, <1>5, <1>6, <1>7

LEMMA FixTitleKeeps ==
    ASSUME HInv, NEW t \in Tasks, FixTitle(t)
    PROVE  HInv'
<1> DEFINE x == task[t]
<1>0. x \in TaskRecord /\ Sound(x, made, info)
  BY Known
<1>1. x.pc \in {"retitle", "untitle"} /\ UNCHANGED <<ops, asked, forgone>>
  BY DEF FixTitle, At, Unobserved
<1>2. x.b \in Buckets /\ x.child \in Buckets \cup {None} /\ x.title \in Titles \cup {None} /\ x.op = "set"
  BY <1>0, <1>1, Known, Numbers DEF Sound, Sources, InPlace, TaskRecord
<1>3. TreeKept
    <2>1. \/ SetTitle(x.b, x.title, x.child)
          \/ UNCHANGED treeVars
          \/ RemoveTitleRefs(x.b, x.child)
      BY DEF FixTitle
    <2> HIDE DEF x
    <2> QED BY <1>2, <2>1, Known, OthersKeep
<1>4. Become(t, Idle) \/ Become(t, [x EXCEPT !.pc = "aim"])
  BY DEF FixTitle, Quit, Step
<1>5. CASE Become(t, Idle)
  BY <1>1, <1>3, <1>5, Known, IdleIsSound, TreeMoves
<1>6. CASE Become(t, [x EXCEPT !.pc = "aim"])
    <2> DEFINE r == [x EXCEPT !.pc = "aim"]
    <2>1. r \in TaskRecord
      BY <1>0 DEF TaskRecord, Places
    <2>2. Sound(r, made, info)
      BY <1>0, <1>1, <1>2 DEF TaskRecord, Sound, InPlace, Sources, Children, Records, Summaries,
        Compressing, Splitting, Summing, Carrying, Succeeding, Grouped, KeyOps
    <2>3. Become(t, r)
      BY <1>6
    <2> HIDE DEF r, x
    <2> QED BY <1>1, <1>3, <2>1, <2>2, <2>3, Known, TreeMoves
<1> QED BY <1>4, <1>5, <1>6

LEMMA AimKeeps ==
    ASSUME HInv, NEW t \in Tasks, Aim(t)
    PROVE  HInv'
<1> DEFINE x == task[t]
<1>0. x \in TaskRecord /\ Sound(x, made, info)
  BY Known
<1>1. x.pc = "aim" /\ UNCHANGED treeVars /\ UNCHANGED <<ops, asked, forgone>>
  BY DEF Aim, At, LocalStep
<1>2. CASE Quit(t)
  BY <1>1, <1>2, Known, GivesUp
<1>3. ASSUME NEW p \in {None} \cup 1..made, Become(t, [x EXCEPT !.pc = "make", !.up = p]),
             ForChild(t) => p # None /\ ~Deepest(p)
      PROVE  HInv'
    <2> DEFINE r == [x EXCEPT !.pc = "make", !.up = p]
    <2>0. p \in 0..MaxBuckets
      BY Known
    <2>1. r \in TaskRecord
      BY <1>0, <2>0 DEF TaskRecord, Places
    <2>2. info[x.b].level \in Nat /\ (p # None => p \in 1..made /\ info[p].level \in Nat)
        <3>1. x.b \in Buckets /\ (p # None => p \in 1..made /\ p \in Buckets)
          BY <1>0, <1>1, Known DEF Sound, Sources
        <3>2. \A b \in Buckets : info[b].level \in Nat
          BY Known, Numbers DEF TreeTypeOK, BucketInfo
        <3> QED BY <3>1, <3>2
    <2>4. \/ x.op \in {"set", "create"}
          \/ x.op = "split" /\ x.child = None /\ info[x.b].level < MaxDepth
          => p \in 1..made /\ info[p].level < MaxDepth
      BY <1>3, <2>2, Numbers DEF ForChild, Deepest
    <2>5. Sound(r, made, info)
      BY <1>0, <1>1, <2>4 DEF TaskRecord, Sound, InPlace, Sources, Children, Records, Summaries,
        Compressing, Splitting, Summing, Carrying, Succeeding, Grouped, KeyOps
    <2>3. Become(t, r)
      BY <1>3
    <2> HIDE DEF r, x
    <2> QED BY <1>1, <2>1, <2>5, <2>3, Known, Moves
<1>4. PICK p \in {None} \cup 1..made :
        /\ p = IF ForChild(t) THEN Resolve(x.b) ELSE info[x.b].parent
        /\ IF \/ ForChild(t) /\ Deepest(p)
              \/ x.op = "split" /\ x.child = None /\ p = None
           THEN Quit(t)
           ELSE Become(t, [x EXCEPT !.pc = "make", !.up = p])
  BY DEF Aim
<1>5. ForChild(t) => p # None
    <2>1. x.b \in Buckets /\ made \in Buckets
      BY <1>0, <1>1, Known DEF Sound, Sources
    <2>2. Resolve(x.b) \in Buckets
      BY <2>1, ResolveEnds
    <2> QED BY <1>4, <2>2, Numbers
<1> QED BY <1>2, <1>3, <1>4, <1>5

LEMMA Makes ==
    ASSUME HInv, NEW t \in Tasks, Make(t)
    PROVE  TreeKept /\ made' = made + 1 /\ made + 1 \in Buckets
<1> DEFINE x == task[t]
           lvl == IF ForChild(t) THEN info[x.up].level + 1 ELSE info[x.b].level
<1>0. x \in TaskRecord /\ Sound(x, made, info) /\ x.pc = "make" /\ TreeTypeOK /\ Rows /\ made \in Buckets /\ made \in Nat
  BY Known DEF Make, At
<1>1. CreateBucket(x.up, lvl, x.title)
  BY DEF Make
<1>2. x.up \in Buckets \cup {None} /\ x.title \in Titles \cup {None} /\ x.b \in 1..made /\ x.b \in Buckets
  BY <1>0, Numbers, Known DEF TaskRecord, Sound, Sources
<1>3. lvl \in 1..MaxDepth
    <2>1. info[x.b].level \in 1..MaxDepth
      BY <1>0, <1>2 DEF TreeTypeOK, BucketInfo
    <2>2. CASE ForChild(t)
        <3>1. info[x.b].level \in 1..MaxDepth /\ MaxDepth \in Nat
          BY <2>1, Numbers
        <3>2. \/ x.op \in {"set", "create"}
              \/ x.op = "split" /\ x.child = None /\ info[x.b].level < MaxDepth
          BY <2>2, <3>1 DEF ForChild, Deepest
        <3>3. x.up \in 1..made /\ info[x.up].level < MaxDepth
          BY <1>0, <3>2 DEF Sound, Children
        <3>4. info[x.up].level \in 1..MaxDepth
          BY <1>0, <3>3, Known DEF TreeTypeOK, BucketInfo
        <3> QED BY <2>2, <3>1, <3>3, <3>4
    <2>3. CASE ~ForChild(t)
      BY <2>1, <2>3
    <2> QED BY <2>2, <2>3
<1> HIDE DEF lvl
<1> HIDE DEF x
<1> QED BY <1>0, <1>1, <1>2, <1>3, CreateKeeps

LEMMA MakeKeeps ==
    ASSUME HInv, NEW t \in Tasks, Make(t)
    PROVE  HInv'
<1> DEFINE x == task[t]
<1>0. x \in TaskRecord /\ Sound(x, made, info) /\ x.pc = "make" /\ TreeTypeOK /\ Rows /\ made \in Buckets /\ made \in Nat
  BY Known DEF Make, At
<1>1. UNCHANGED <<ops, forgone>> /\ asked' = [asked EXCEPT ![made + 1] = x.title]
  BY DEF Make
<1>2. x.title \in Titles \cup {None} /\ x.b \in 1..made
  BY <1>0, Known DEF TaskRecord, Sound, Sources
<1>4. TreeKept /\ made' = made + 1 /\ made + 1 \in Buckets
  BY Makes
<1>5. asked' \in [Buckets -> Titles \cup {None}] /\ ops' \in 0..MaxOps /\ forgone' \in SUBSET Keys
  BY <1>1, <1>2, Known
<1>6. Sound(x, made', info')
    <2>1. /\ made' \in Buckets /\ made' \in {made, made + 1}
          /\ info \in [Buckets -> BucketInfo] /\ info' \in [Buckets -> BucketInfo]
          /\ \A b \in 1..made : info'[b].level = info[b].level
      BY <1>0, <1>4 DEF TreeTypeOK, TreeKept
    <2> HIDE DEF x, Sound, TaskRecord, BucketInfo, Buckets
    <2> QED BY <1>0, <2>1, SoundHolds
<1>7. made + 1 \in 1..made' /\ made + 1 \in (x.b + 1)..made' /\ made + 1 \in 0..MaxBuckets /\ made + 1 # None
  BY <1>0, <1>2, <1>4, Numbers
<1>8. CASE IsSuccessor(t)
    <2> DEFINE q == IF x.op = "split" THEN "adopt" ELSE "carry"
               r == [x EXCEPT !.dst = made + 1, !.into = made + 1, !.pc = q]
    <2>1. /\ q \in {"adopt", "carry"}
          /\ q = "adopt" => x.op = "split" /\ x.child # None
          /\ q = "carry" => x.op = "compress"
      BY <1>8 DEF IsSuccessor
    <2>2. Become(t, r)
      BY <1>8 DEF Make
    <2> HIDE DEF q
    <2>3. r \in TaskRecord
      BY <1>0, <1>7, <2>1 DEF TaskRecord, Places
    <2>4. Sound(r, made', info')
      BY <1>0, <1>6, <1>7, <2>1 DEF TaskRecord, Sound, InPlace, Sources, Children, Records, Summaries,
        Compressing, Splitting, Summing, Carrying, Succeeding, Grouped, KeyOps
    <2> HIDE DEF r, x
    <2> QED BY <1>4, <1>5, <2>2, <2>3, <2>4, Advances
<1>9. CASE ~IsSuccessor(t)
    <2> DEFINE r == [x EXCEPT !.child = made + 1, !.pc = "node"]
    <2>2. Become(t, r)
      BY <1>9 DEF Make
    <2>3. r \in TaskRecord
      BY <1>0, <1>7 DEF TaskRecord, Places
    <2>5. made + 1 \in 0..made'
      BY <1>7
    <2>6. x.op = "split" => x.child = None /\ x.dst = None
      BY <1>0, <1>9 DEF IsSuccessor, Sound, Children
    <2>4. Sound(r, made', info')
      BY <1>0, <1>6, <1>7, <2>5, <2>6 DEF TaskRecord, Sound, InPlace, Sources, Children, Records, Summaries,
        Compressing, Splitting, Summing, Carrying, Succeeding, Grouped, KeyOps
    <2> HIDE DEF r, x
    <2> QED BY <1>4, <1>5, <2>2, <2>3, <2>4, Advances
<1> QED BY <1>8, <1>9

LEMMA NodeKeeps ==
    ASSUME HInv, NEW t \in Tasks, Node(t)
    PROVE  HInv'
<1> DEFINE x == task[t]
           w == [bucket |-> x.up, gray |-> FALSE, child |-> x.child]
           q == IF x.op = "split" THEN [x EXCEPT !.pc = "fetch", !.into = x.child] ELSE Idle
<1>0. x \in TaskRecord /\ Sound(x, made, info) /\ x.pc = "node" /\ Put(t, x.child, w, q)
  BY Known DEF Node, At
<1>1. x.child \in Keys \cup {None} /\ w \in MemoryRecord
  BY <1>0, Numbers DEF TaskRecord, MemoryRecord
<1>2. CASE x.op = "split"
    <2> DEFINE r == [x EXCEPT !.pc = "fetch", !.into = x.child]
    <2>1. x.child \in 1..made
      BY <1>0, <1>2, Known DEF Sound, Children, Grouped, None
    <2>4. x.child # None /\ x.dst = None
      BY <1>0, <1>2, <2>1, Known, Numbers DEF Sound, Children
    <2>2. r \in TaskRecord
      BY <1>0 DEF TaskRecord, Places
    <2>3. Sound(r, made, info)
      BY <1>0, <1>2, <2>1, <2>4 DEF TaskRecord, Sound, InPlace, Sources, Children, Records, Summaries,
        Compressing, Splitting, Summing, Carrying, Succeeding, Grouped, KeyOps
    <2>5. q = r
      BY <1>2
    <2> HIDE DEF x, q, r, w
    <2> QED BY <1>0, <1>1, <2>2, <2>3, <2>5, PutKeeps
<1>3. CASE x.op # "split"
    <2>1. q = Idle
      BY <1>3
    <2> HIDE DEF x, q, w
    <2> QED BY <1>0, <1>1, <2>1, IdleIsSound, PutKeeps
<1> QED BY <1>2, <1>3

\* A snapshot of records.
LEMMA CapturedTyped ==
    ASSUME TreeTypeOK, NEW S
    PROVE  Captured(S) \in [Keys -> MemoryRecord]
<1>1. NoRecord \in MemoryRecord
  BY DEF NoRecord, MemoryRecord, None
<1> QED BY <1>1 DEF Captured, TreeTypeOK

LEMMA PlanKeeps ==
    ASSUME HInv, NEW t \in Tasks, PlanCompress(t) \/ PlanSplit(t)
    PROVE  HInv'
<1> DEFINE x == task[t]
<1>0. /\ x \in TaskRecord /\ Sound(x, made, info) /\ x.pc = "plan"
      /\ UNCHANGED treeVars /\ UNCHANGED <<ops, asked, forgone>>
  BY Known DEF PlanCompress, PlanSplit, At, LocalStep
<1>1. CASE Quit(t)
  BY <1>0, <1>1, Known, GivesUp
<1>2. ASSUME NEW f \in [Keys -> MemoryRecord], NEW S \in SUBSET Keys, NEW d \in SUBSET Keys,
             Become(t, [x EXCEPT !.pc = "aim", !.was = f, !.keys = S, !.drop = d])
      PROVE  HInv'
    <2> DEFINE r == [x EXCEPT !.pc = "aim", !.was = f, !.keys = S, !.drop = d]
    <2>1. r \in TaskRecord
      BY <1>0 DEF TaskRecord, Places
    <2>2. Sound(r, made, info)
        <3>1. /\ r.pc = "aim" /\ r.op = x.op /\ r.b = x.b /\ r.child = x.child
              /\ r.key = x.key /\ r.title = x.title /\ r.dst = x.dst
          BY <1>0 DEF TaskRecord
        <3> HIDE DEF r
        <3> QED BY <1>0, <3>1 DEF Sound, InPlace, Sources, Children, Records, Summaries,
          Compressing, Splitting, Summing, Carrying, Succeeding, Grouped, KeyOps
    <2>3. Become(t, r)
      BY <1>2
    <2> HIDE DEF x, r
    <2> QED BY <1>0, <2>1, <2>2, <2>3, Known, Moves
<1>3. ASSUME NEW S \in SUBSET Keys, NEW d \in SUBSET Keys,
             Become(t, [x EXCEPT !.pc = "aim", !.keys = S, !.rest = d])
      PROVE  HInv'
    <2> DEFINE r == [x EXCEPT !.pc = "aim", !.keys = S, !.rest = d]
    <2>1. r \in TaskRecord
      BY <1>0 DEF TaskRecord, Places
    <2>2. Sound(r, made, info)
        <3>1. /\ r.pc = "aim" /\ r.op = x.op /\ r.b = x.b /\ r.child = x.child
              /\ r.key = x.key /\ r.title = x.title /\ r.dst = x.dst
          BY <1>0 DEF TaskRecord
        <3> HIDE DEF r
        <3> QED BY <1>0, <3>1 DEF Sound, InPlace, Sources, Children, Records, Summaries,
          Compressing, Splitting, Summing, Carrying, Succeeding, Grouped, KeyOps
    <2>3. Become(t, r)
      BY <1>3
    <2> HIDE DEF x, r
    <2> QED BY <1>0, <2>1, <2>2, <2>3, Known, Moves
<1> DEFINE S == Snapshot(x.b)
<1>4. S \in SUBSET Keys /\ Captured(S) \in [Keys -> MemoryRecord]
  BY Known, CapturedTyped DEF Snapshot
<1>5. CASE PlanCompress(t)
    <2>1. \/ Quit(t)
          \/ \E d \in SUBSET (S \cap Droppable) :
                Become(t, [x EXCEPT !.pc = "aim", !.was = Captured(S), !.keys = S \ d, !.drop = d])
      BY <1>5 DEF PlanCompress
    <2> HIDE DEF S, x
    <2>2. \A d \in SUBSET (S \cap Droppable) : d \in SUBSET Keys /\ S \ d \in SUBSET Keys
      BY <1>4
    <2> QED BY <1>1, <1>2, <1>4, <2>1, <2>2
<1>6. CASE PlanSplit(t)
    <2>1. \/ Quit(t)
          \/ \E g \in (SUBSET S) \ {{}} :
                Become(t, [x EXCEPT !.pc = "aim", !.keys = g, !.rest = S \ g])
      BY <1>6 DEF PlanSplit
    <2> HIDE DEF S, x
    <2>2. \A g \in SUBSET S : g \in SUBSET Keys /\ S \ g \in SUBSET Keys
      BY <1>4
    <2> QED BY <1>1, <1>3, <1>4, <2>1, <2>2
<1> QED BY <1>5, <1>6

LEMMA CarryKeeps ==
    ASSUME HInv, NEW t \in Tasks, Carry(t)
    PROVE  HInv'
<1> DEFINE x == task[t]
<1>0. /\ x \in TaskRecord /\ Sound(x, made, info) /\ x.pc = "carry"
      /\ UNCHANGED treeVars /\ UNCHANGED <<ops, asked, forgone>>
  BY Known DEF Carry, At, LocalStep
<1>4. x.op = "compress" /\ x.dst \in (x.b + 1)..made
  BY <1>0 DEF Sound, InPlace, Sources, Compressing, Succeeding
<1>1. ASSUME NEW q \in {"merge", "seal"}, Step(t, q)
      PROVE  HInv'
    <2> DEFINE r == [x EXCEPT !.pc = q]
    <2>1. r \in TaskRecord
      BY <1>0 DEF TaskRecord, Places
    <2>2. Sound(r, made, info)
      BY <1>0, <1>4 DEF TaskRecord, Sound, InPlace, Sources, Children, Records, Summaries,
        Compressing, Splitting, Summing, Carrying, Succeeding, Grouped, KeyOps
    <2>3. Become(t, r)
      BY <1>1 DEF Step
    <2> HIDE DEF x, r
    <2> QED BY <1>0, <2>1, <2>2, <2>3, Known, Moves
<1>2. ASSUME NEW k \in x.keys,
             Become(t, [x EXCEPT !.key = k, !.keys = Without(x.keys, k),
                    !.pc = IF x.was[k].child # None THEN "rehang" ELSE "place"])
      PROVE  HInv'
    <2> DEFINE q == IF x.was[k].child # None THEN "rehang" ELSE "place"
               K == Without(x.keys, k)
               r == [x EXCEPT !.key = k, !.keys = K, !.pc = q]
    <2>1. k \in Keys /\ x.was[k].child \in Buckets \cup {None} /\ K \in SUBSET Keys
      BY <1>0 DEF TaskRecord, MemoryRecord, Without
    <2>4. q \in {"rehang", "place"} /\ (q = "rehang" => x.was[k].child \in Buckets)
      BY <2>1
    <2>3. Become(t, r)
      BY <1>2
    <2> HIDE DEF q, K
    <2>5. r \in TaskRecord
      BY <1>0, <2>1, <2>4 DEF TaskRecord, Places
    <2>2. Sound(r, made, info)
      BY <1>0, <1>4, <2>1, <2>4 DEF TaskRecord, Sound, InPlace, Sources, Children, Records, Summaries,
        Compressing, Splitting, Summing, Carrying, Succeeding, Grouped, KeyOps
    <2> HIDE DEF x, r
    <2> QED BY <1>0, <2>5, <2>2, <2>3, Known, Moves
<1>3. \/ Step(t, "merge") \/ Step(t, "seal")
      \/ \E k \in x.keys : Become(t, [x EXCEPT !.key = k, !.keys = Without(x.keys, k),
                    !.pc = IF x.was[k].child # None THEN "rehang" ELSE "place"])
  BY <1>0 DEF Carry, TaskRecord
<1> HIDE DEF x
<1> QED BY <1>1, <1>2, <1>3

LEMMA RecordsCarried ==
    ASSUME HInv, NEW t \in Tasks, RehangCarried(t) \/ RehomeSplit(t) \/ RehomeMove(t)
    PROVE  HInv'
<1> DEFINE x == task[t]
           c == x.was[x.key].child
<1>0. x \in TaskRecord /\ Sound(x, made, info)
  BY Known
<1>1. x.pc \in {"rehang", "rehome"} /\ c \in Buckets
  BY <1>0 DEF RehangCarried, RehomeSplit, RehomeMove, At, Sound, Records
<1>2. ASSUME NEW q \in {"place", "out"},
             q = "place" => x.pc = "rehang", q = "out" => x.pc = "rehome"
      PROVE  [x EXCEPT !.pc = q] \in TaskRecord /\ Sound([x EXCEPT !.pc = q], made, info)
    <2> DEFINE r == [x EXCEPT !.pc = q]
    <2>1. r \in TaskRecord
      BY <1>0 DEF TaskRecord, Places
    <2>2. Sound(r, made, info)
      BY <1>0, <1>2 DEF TaskRecord, Sound, InPlace, Sources, Children, Records, Summaries,
        Compressing, Splitting, Summing, Carrying, Succeeding, Grouped, KeyOps
    <2> QED BY <2>1, <2>2
<1>3. CASE RehangCarried(t)
    <2>1. x.pc = "rehang" /\ Rehang(t, c, x.dst, TRUE, "place")
      BY <1>3 DEF RehangCarried, At
    <2>2. x.dst \in Buckets
      BY <1>0, <2>1, Known DEF Sound, Sources, Succeeding, Compressing, TaskRecord
    <2> DEFINE r == [x EXCEPT !.pc = "place"]
    <2>3. r \in TaskRecord /\ Sound(r, made, info)
      BY <1>2, <2>1
    <2>4. \/ Reparent(c, x.dst, TRUE) /\ Become(t, r) /\ Unobserved
          \/ GiveUp(t)
      BY <2>1 DEF Rehang, Step
    <2> HIDE DEF r, c, x
    <2> QED BY <1>1, <2>2, <2>3, <2>4, RehangKeeps
<1>4. CASE RehomeSplit(t)
    <2>1. x.pc = "rehome" /\ Rehang(t, c, x.into, x.into = x.dst, "out")
      BY <1>4 DEF RehomeSplit, At
    <2>2. x.into \in Buckets
      BY <1>0, <2>1, Known DEF Sound, Records, Carrying, TaskRecord
    <2> DEFINE r == [x EXCEPT !.pc = "out"]
    <2>3. r \in TaskRecord /\ Sound(r, made, info)
      BY <1>2, <2>1
    <2>4. \/ Reparent(c, x.into, x.into = x.dst) /\ Become(t, r) /\ Unobserved
          \/ GiveUp(t)
      BY <2>1 DEF Rehang, Step
    <2>5. (x.into = x.dst) \in BOOLEAN
        OBVIOUS
    <2> HIDE DEF r, c, x
    <2> QED BY <1>1, <2>2, <2>3, <2>4, <2>5, RehangKeeps
<1>5. CASE RehomeMove(t)
    <2>1. x.pc = "rehome" /\ x.into \in Buckets
      BY <1>0, <1>5, Known DEF RehomeMove, At, Sound, Records, Carrying, TaskRecord
    <2> DEFINE r == [x EXCEPT !.pc = "out"]
    <2>2. r \in TaskRecord /\ Sound(r, made, info)
      BY <1>2, <2>1
    <2>3. \/ Reparent(c, x.into, FALSE) /\ Become(t, r) /\ Unobserved
          \/ Reparent(c, x.into, FALSE) /\ Become(t, Idle) /\ Unobserved
          \/ GiveUp(t)
      BY <1>5 DEF RehomeMove, Step, Quit
    <2> HIDE DEF r, c, x
    <2> QED BY <1>1, <2>1, <2>2, <2>3, IdleIsSound, RehangKeeps
<1> QED BY <1>3, <1>4, <1>5

LEMMA RecordsPut ==
    ASSUME HInv, NEW t \in Tasks, Place(t) \/ Out(t) \/ In(t)
    PROVE  HInv'
<1> DEFINE x == task[t]
           k == x.key
<1>0. x \in TaskRecord /\ Sound(x, made, info) /\ x.pc \in {"place", "out", "in"}
  BY Known DEF Place, Out, In, At
<1>1. k \in Keys \cup {None} /\ (k \in Keys => x.was[k] \in MemoryRecord)
  BY <1>0 DEF TaskRecord
<1>2. CASE Place(t)
    <2> DEFINE w == [x.was[k] EXCEPT !.bucket = x.dst, !.gray = FALSE]
               r == [x EXCEPT !.pc = "carry"]
    <2>1. x.pc = "place" /\ Put(t, k, w, r)
      BY <1>2 DEF Place, At
    <2>2. k \in Keys => w \in MemoryRecord
      BY <1>0, <1>1, Numbers DEF MemoryRecord, TaskRecord
    <2>3. r \in TaskRecord
      BY <1>0 DEF TaskRecord, Places
    <2>4. Sound(r, made, info)
      BY <1>0, <2>1 DEF TaskRecord, Sound, InPlace, Sources, Children, Records, Summaries,
        Compressing, Splitting, Summing, Carrying, Succeeding, Grouped, KeyOps
    <2> HIDE DEF r, w, k, x
    <2> QED BY <1>1, <2>1, <2>2, <2>3, <2>4, PutKeeps
<1>3. CASE Out(t)
    <2> DEFINE w == [x.was[k] EXCEPT !.gray = TRUE]
               r == [x EXCEPT !.pc = "in"]
    <2>1. x.pc = "out" /\ Put(t, k, w, r)
      BY <1>3 DEF Out, At
    <2>2. k \in Keys => w \in MemoryRecord
      BY <1>0, <1>1, Numbers DEF MemoryRecord, TaskRecord
    <2>3. r \in TaskRecord
      BY <1>0 DEF TaskRecord, Places
    <2>4. Sound(r, made, info)
      BY <1>0, <2>1 DEF TaskRecord, Sound, InPlace, Sources, Children, Records, Summaries,
        Compressing, Splitting, Summing, Carrying, Succeeding, Grouped, KeyOps
    <2> HIDE DEF r, w, k, x
    <2> QED BY <1>1, <2>1, <2>2, <2>3, <2>4, PutKeeps
<1>4. CASE In(t)
    <2> DEFINE w == [x.was[k] EXCEPT !.bucket = x.into]
               r == [x EXCEPT !.pc = "fetch"]
               q == IF x.op = "split" THEN r ELSE Idle
    <2>1. x.pc = "in" /\ Put(t, k, w, q)
      BY <1>4 DEF In, At
    <2>2. k \in Keys => w \in MemoryRecord
      BY <1>0, <1>1, Numbers DEF MemoryRecord, TaskRecord
    <2>3. r \in TaskRecord
      BY <1>0 DEF TaskRecord, Places
    <2>4. x.op = "split" => Sound(r, made, info)
      BY <1>0, <2>1 DEF TaskRecord, Sound, InPlace, Sources, Children, Records, Summaries,
        Compressing, Splitting, Summing, Carrying, Succeeding, Grouped, KeyOps
    <2>5. q \in TaskRecord /\ Sound(q, made, info)
        <3> HIDE DEF r
        <3> QED BY <2>3, <2>4, IdleIsSound
    <2> HIDE DEF q, w, k, x
    <2> QED BY <1>1, <2>1, <2>2, <2>5, PutKeeps
<1> QED BY <1>2, <1>3, <1>4

LEMMA MergeKeeps ==
    ASSUME HInv, NEW t \in Tasks, Merge(t)
    PROVE  HInv'
<1> DEFINE x == task[t]
           r == [x EXCEPT !.pc = "save", !.old = info[x.dst], !.sums = <<x.dst>>]
<1>0. /\ x \in TaskRecord /\ Sound(x, made, info) /\ x.pc = "merge" /\ Become(t, r)
      /\ UNCHANGED treeVars /\ UNCHANGED <<ops, asked, forgone>>
  BY Known DEF Merge, At, LocalStep
<1>1. x.op = "compress" /\ x.dst \in (x.b + 1)..made /\ x.b \in 1..made
  BY <1>0 DEF Sound, InPlace, Sources, Compressing, Succeeding
<1>2. x.dst \in 1..made /\ x.dst \in Buckets /\ info[x.dst] \in BucketInfo /\ Forward(info[x.dst], x.dst, made)
  BY <1>1, Known DEF Rows, TreeTypeOK
<1>3. <<x.dst>> \in Seq(1..made) /\ <<x.dst>> \in Seq(Buckets) /\ <<x.dst>> # <<>> /\ Head(<<x.dst>>) = x.dst
  BY <1>2
<1>4. r \in TaskRecord
  BY <1>0, <1>2, <1>3 DEF TaskRecord, Places
<1>5. Sound(r, made, info)
  BY <1>0, <1>1, <1>2, <1>3 DEF TaskRecord, Sound, InPlace, Sources, Children, Records, Summaries,
    Compressing, Splitting, Summing, Carrying, Succeeding, Grouped, KeyOps
<1> HIDE DEF r, x
<1> QED BY <1>0, <1>4, <1>5, Known, Moves

LEMMA AdoptKeeps ==
    ASSUME HInv, NEW t \in Tasks, Adopt(t)
    PROVE  HInv'
<1> DEFINE x == task[t]
           K == x.rest \cup {x.child}
           r == [x EXCEPT !.pc = "fetch", !.keys = K]
<1>0. x \in TaskRecord /\ Sound(x, made, info) /\ x.pc = "adopt"
  BY Known DEF Adopt, At
<1>1. /\ x.op = "split" /\ x.dst \in (x.b + 1)..made /\ x.child \in 1..made /\ x.b \in 1..made
      /\ x.child \in Buckets /\ x.dst \in Buckets /\ x.child \in Keys
  BY <1>0, Known, Numbers DEF Sound, InPlace, Sources, Children, Splitting, Succeeding, Grouped, KeyOps
<1>2. \/ Reparent(x.child, x.dst, TRUE) /\ Become(t, r) /\ Unobserved
      \/ GiveUp(t)
  BY DEF Adopt
<1>3. K \in SUBSET Keys
  BY <1>0, <1>1 DEF TaskRecord
<1> HIDE DEF K
<1>4. r \in TaskRecord
  BY <1>0, <1>3 DEF TaskRecord, Places
<1>5. Sound(r, made, info)
    <2>1. /\ r.pc = "fetch" /\ r.op = x.op /\ r.b = x.b /\ r.child = x.child /\ r.dst = x.dst
          /\ r.into = x.into /\ r.title = x.title
      BY <1>0 DEF TaskRecord
    <2>2. x.child # None
      BY <1>1, Numbers
    <2>3. InPlace(r) /\ Sources(r, made)
      BY <1>0, <1>1, <2>1 DEF Sound, InPlace, Sources, Compressing, Splitting, Summing,
        Carrying, Succeeding
    <2>4. Children(r, made, info)
      BY <1>0, <1>1, <2>1, <2>2, Known DEF Sound, Children
    <2>5. Records(r, made) /\ Summaries(r, made, info)
      BY <1>0, <2>1 DEF Sound, Records, Summaries, Carrying, Summing
    <2> QED BY <2>3, <2>4, <2>5 DEF Sound
<1> HIDE DEF r, x
<1> QED BY <1>1, <1>2, <1>4, <1>5, RehangKeeps

LEMMA FetchKeeps ==
    ASSUME HInv, NEW t \in Tasks, Fetch(t)
    PROVE  HInv'
<1> DEFINE x == task[t]
<1>0. /\ x \in TaskRecord /\ Sound(x, made, info) /\ x.pc = "fetch" /\ x.op = "split"
      /\ UNCHANGED treeVars /\ UNCHANGED <<ops, asked, forgone>>
  BY Known DEF Fetch, At, LocalStep, Sound, InPlace, Splitting
<1>1. ASSUME NEW q \in {"seal", "aim"}, q = "seal" => x.into = x.dst, Step(t, q)
      PROVE  HInv'
    <2> DEFINE r == [x EXCEPT !.pc = q]
    <2>1. r \in TaskRecord
      BY <1>0 DEF TaskRecord, Places
    <2>2. Sound(r, made, info)
      BY <1>0, <1>1 DEF TaskRecord, Sound, InPlace, Sources, Children, Records, Summaries,
        Compressing, Splitting, Summing, Carrying, Succeeding, Grouped, KeyOps
    <2>3. Become(t, r)
      BY <1>1 DEF Step
    <2> HIDE DEF x, r
    <2> QED BY <1>0, <2>1, <2>2, <2>3, Known, Moves
<1>2. ASSUME NEW k \in x.keys, Become(t, [x EXCEPT !.keys = Without(x.keys, k)])
      PROVE  HInv'
    <2> DEFINE K == Without(x.keys, k)
               r == [x EXCEPT !.keys = K]
    <2>0. K \in SUBSET Keys
      BY <1>0 DEF TaskRecord, Without
    <2>3. Become(t, r)
      BY <1>2
    <2> HIDE DEF K
    <2>1. r \in TaskRecord
      BY <1>0, <2>0 DEF TaskRecord
    <2>2. Sound(r, made, info)
      BY <1>0 DEF TaskRecord, Sound, InPlace, Sources, Children, Records, Summaries,
        Compressing, Splitting, Summing, Carrying, Succeeding, Grouped, KeyOps
    <2> HIDE DEF x, r
    <2> QED BY <1>0, <2>1, <2>2, <2>3, Known, Moves
<1>3. ASSUME NEW k \in x.keys,
             Become(t, [x EXCEPT !.key = k, !.keys = Without(x.keys, k), !.was = Captured({k}),
                    !.pc = IF rec[k].child # None THEN "rehome" ELSE "out"])
      PROVE  HInv'
    <2> DEFINE q == IF rec[k].child # None THEN "rehome" ELSE "out"
               K == Without(x.keys, k)
               w == Captured({k})
               r == [x EXCEPT !.key = k, !.keys = K, !.was = w, !.pc = q]
    <2>0. k \in Keys /\ K \in SUBSET Keys /\ w \in [Keys -> MemoryRecord]
      BY <1>0, Known, CapturedTyped DEF TaskRecord, Without
    <2>1. q \in {"rehome", "out"} /\ (q = "rehome" => w[k].child \in Buckets)
      BY <2>0, Known DEF Captured, TreeTypeOK, MemoryRecord
    <2>2. Become(t, r)
      BY <1>3
    <2> HIDE DEF q, K, w
    <2>3. r \in TaskRecord
      BY <1>0, <2>0, <2>1 DEF TaskRecord, Places
    <2>4. Sound(r, made, info)
        <3>1. /\ r.pc = q /\ r.op = x.op /\ r.b = x.b /\ r.child = x.child /\ r.dst = x.dst
              /\ r.into = x.into /\ r.title = x.title /\ r.key = k /\ r.was = w
          BY <1>0 DEF TaskRecord
        <3>2. InPlace(r) /\ Sources(r, made)
          BY <1>0, <2>1, <3>1 DEF Sound, InPlace, Sources, Compressing, Splitting, Summing,
            Carrying, Succeeding
        <3>3. Children(r, made, info)
          BY <1>0, <2>1, <3>1 DEF Sound, Children, Grouped
        <3>4. Records(r, made) /\ Summaries(r, made, info)
          BY <1>0, <2>0, <2>1, <3>1 DEF Sound, Records, Summaries, Carrying, Summing
        <3> QED BY <3>2, <3>3, <3>4 DEF Sound
    <2> HIDE DEF x, r
    <2> QED BY <1>0, <2>2, <2>3, <2>4, Known, Moves
<1>4. \/ Step(t, "seal") /\ x.into = x.dst
      \/ Step(t, "aim")
      \/ \E k \in x.keys :
            \/ Become(t, [x EXCEPT !.keys = Without(x.keys, k)])
            \/ Become(t, [x EXCEPT !.key = k, !.keys = Without(x.keys, k), !.was = Captured({k}),
                    !.pc = IF rec[k].child # None THEN "rehome" ELSE "out"])
  BY <1>0 DEF Fetch, TaskRecord
<1> HIDE DEF x
<1> QED BY <1>1, <1>2, <1>3, <1>4

LEMMA SealSourceKeeps ==
    ASSUME HInv, NEW t \in Tasks, SealSource(t)
    PROVE  HInv'
<1> DEFINE x == task[t]
           r == [x EXCEPT !.pc = "switch"]
<1>0. x \in TaskRecord /\ Sound(x, made, info) /\ x.pc = "seal"
  BY Known DEF SealSource, At
<1>1. x.b \in Buckets /\ x.dst \in (x.b + 1)..made
  BY <1>0, Known DEF Sound, Sources, Succeeding
<1>2. r \in TaskRecord
  BY <1>0 DEF TaskRecord, Places
<1>3. Sound(r, made, info)
  BY <1>0 DEF TaskRecord, Sound, InPlace, Sources, Children, Records, Summaries,
    Compressing, Splitting, Summing, Carrying, Succeeding, Grouped, KeyOps
<1>4. CASE /\ Seal(x.b, x.dst) /\ Step(t, "switch") /\ forgone' = forgone \cup x.drop
           /\ UNCHANGED <<ops, asked>>
    <2>1. Become(t, r) /\ forgone' \in SUBSET Keys
      BY <1>0, <1>4, Known DEF Step, TaskRecord
    <2> HIDE DEF x, r
    <2>2. TreeKept
      BY <1>1, <1>4, Known, SealKeeps
    <2> QED BY <1>2, <1>3, <1>4, <2>1, <2>2, TreeMoves
<1>5. CASE GiveUp(t)
  BY <1>5, Known, GivesUp DEF GiveUp, LocalStep
<1> QED BY <1>4, <1>5 DEF SealSource

LEMMA SwitchKeeps ==
    ASSUME HInv, NEW t \in Tasks, Switch(t)
    PROVE  HInv'
<1> DEFINE x == task[t]
           q == IF x.op = "split" THEN <<x.child, x.dst>> ELSE <<x.dst>>
           r == [x EXCEPT !.pc = "summary", !.into = None, !.sums = q]
<1>0. /\ x \in TaskRecord /\ Sound(x, made, info) /\ x.pc = "switch" /\ Become(t, r)
      /\ UNCHANGED <<ops, asked, forgone>>
      /\ IF root = x.b THEN SetRoot(x.dst) ELSE UNCHANGED treeVars
  BY Known DEF Switch, At, Unobserved
<1>1. x.dst \in 1..made /\ x.dst \in Buckets
    <2>1. x.b \in 1..made /\ x.dst \in (x.b + 1)..made
      BY <1>0 DEF Sound, Sources, Succeeding
    <2> QED BY <2>1, Known
<1>2. x.op = "split" => x.child \in 1..made /\ x.child \in Buckets
  BY <1>0, Known, Numbers DEF Sound, Children, Grouped
<1>3. q \in Seq(1..made) /\ q \in Seq(Buckets) /\ q # <<>>
    <2>1. CASE x.op = "split"
        <3>1. q = <<x.child, x.dst>>
          BY <2>1
        <3> HIDE DEF q
        <3> QED BY <1>1, <1>2, <2>1, <3>1
    <2>2. CASE x.op # "split"
        <3>1. q = <<x.dst>>
          BY <2>2
        <3> HIDE DEF q
        <3> QED BY <1>1, <2>2, <3>1
    <2> QED BY <2>1, <2>2
<1> HIDE DEF q
<1>4. r \in TaskRecord
  BY <1>0, <1>3, Known DEF TaskRecord, Places
<1>5. Sound(r, made, info)
    <2>1. /\ r.pc = "summary" /\ r.op = x.op /\ r.b = x.b /\ r.child = x.child /\ r.dst = x.dst
          /\ r.into = None /\ r.title = x.title /\ r.key = x.key /\ r.sums = q
      BY <1>0 DEF TaskRecord
    <2>2. InPlace(r) /\ Sources(r, made)
      BY <1>0, <2>1 DEF Sound, InPlace, Sources, Compressing, Splitting, Summing,
        Carrying, Succeeding
    <2>3. Children(r, made, info)
      BY <1>0, <2>1 DEF Sound, Children, Grouped
    <2>4. Records(r, made) /\ Summaries(r, made, info)
      BY <1>0, <1>3, <2>1 DEF Sound, Records, Summaries, Carrying, Summing
    <2> QED BY <2>2, <2>3, <2>4 DEF Sound
<1>6. TreeKept
    <2> HIDE DEF x, r
    <2> QED BY <1>0, <1>1, Known, OthersKeep
<1> HIDE DEF r, x
<1> QED BY <1>0, <1>4, <1>5, <1>6, Known, TreeMoves

LEMMA AfterSummarySound ==
    ASSUME NEW n \in Buckets, NEW f \in [Buckets -> BucketInfo], NEW x \in TaskRecord,
           Sound(x, n, f), x.pc \in Summing
    PROVE  AfterSummary(x) \in TaskRecord /\ Sound(AfterSummary(x), n, f)
<1>1. x.sums \in Seq(1..n) /\ x.sums \in Seq(Buckets) /\ x.sums # <<>>
  BY DEF Sound, Summaries, TaskRecord
<1>2. CASE Len(x.sums) > 1
    <2> DEFINE q == Tail(x.sums)
               r == [x EXCEPT !.pc = "summary", !.sums = q]
    <2>1. q \in Seq(1..n) /\ q \in Seq(Buckets) /\ q # <<>>
        <3>1. \A S : \A s \in Seq(S) : Len(s) > 1 => Tail(s) \in Seq(S) /\ Tail(s) # <<>>
            OBVIOUS
        <3> QED BY <1>1, <1>2, <3>1
    <2>2. AfterSummary(x) = r
      BY <1>2 DEF AfterSummary
    <2> HIDE DEF q
    <2>3. r \in TaskRecord
      BY <2>1 DEF TaskRecord, Places
    <2>4. Sound(r, n, f)
        <3>1. /\ r.pc = "summary" /\ r.op = x.op /\ r.b = x.b /\ r.child = x.child /\ r.dst = x.dst
              /\ r.into = x.into /\ r.title = x.title /\ r.key = x.key /\ r.sums = q
          BY DEF TaskRecord
        <3>2. InPlace(r) /\ Sources(r, n)
          BY <3>1 DEF Sound, InPlace, Sources, Compressing, Splitting, Summing,
            Carrying, Succeeding
        <3>3. Children(r, n, f)
          BY <3>1 DEF Sound, Children, Grouped, Summing
        <3>4. Records(r, n) /\ Summaries(r, n, f)
          BY <2>1, <3>1 DEF Sound, Records, Summaries, Carrying, Summing
        <3> QED BY <3>2, <3>3, <3>4 DEF Sound
    <2> QED BY <2>2, <2>3, <2>4
<1>3. CASE ~(Len(x.sums) > 1) /\ x.into # None
    <2> DEFINE r == [x EXCEPT !.pc = "seal", !.sums = <<>>]
    <2>2. AfterSummary(x) = r
      BY <1>3 DEF AfterSummary
    <2>5. <<>> \in Seq(Buckets)
        OBVIOUS
    <2>3. r \in TaskRecord
      BY <2>5 DEF TaskRecord, Places
    <2>4. Sound(r, n, f)
        <3>1. /\ r.pc = "seal" /\ r.op = x.op /\ r.b = x.b /\ r.child = x.child /\ r.dst = x.dst
              /\ r.into = x.into /\ r.title = x.title /\ r.key = x.key
          BY DEF TaskRecord
        <3>2. InPlace(r) /\ Sources(r, n)
          BY <1>3, <3>1 DEF Sound, InPlace, Sources, Compressing, Splitting, Summing,
            Carrying, Succeeding
        <3>3. Children(r, n, f)
          BY <3>1 DEF Sound, Children, Grouped, Summing
        <3>4. Records(r, n) /\ Summaries(r, n, f)
          BY <3>1 DEF Sound, Records, Summaries, Carrying, Summing
        <3> QED BY <3>2, <3>3, <3>4 DEF Sound
    <2> QED BY <2>2, <2>3, <2>4
<1>4. CASE ~(Len(x.sums) > 1) /\ x.into = None
  BY <1>4, IdleIsSound DEF AfterSummary
<1> QED BY <1>2, <1>3, <1>4

\* Between the steps of a summary.
LEMMA SummaryGoesOn ==
    ASSUME NEW n \in Buckets, NEW f \in [Buckets -> BucketInfo], NEW x \in TaskRecord,
           Sound(x, n, f), x.pc \in Summing,
           NEW r \in TaskRecord, r.pc \in {"summary", "save", "node record", "tell"},
           r.op = x.op, r.b = x.b, r.child = x.child, r.dst = x.dst, r.into = x.into,
           r.title = x.title, r.key = x.key, r.sums = x.sums,
           r.pc = "save" => /\ r.old.level = f[Head(x.sums)].level
                            /\ Forward(r.old, Head(x.sums), n)
    PROVE  Sound(r, n, f)
<1>1. InPlace(r) /\ Sources(r, n)
  BY DEF Sound, InPlace, Sources, Compressing, Splitting, Summing, Carrying, Succeeding
<1>2. Children(r, n, f)
  BY DEF Sound, Children, Grouped, Summing
<1>3. Records(r, n) /\ Summaries(r, n, f)
  BY DEF Sound, Records, Summaries, Carrying, Summing
<1> QED BY <1>1, <1>2, <1>3 DEF Sound

LEMMA Heads ==
    ASSUME HInv, NEW t \in Tasks, task[t].pc \in Summing
    PROVE  /\ Head(task[t].sums) \in 1..made /\ Head(task[t].sums) \in Buckets
           /\ Head(task[t].sums) \in Keys
<1>1. task[t].sums \in Seq(1..made) /\ task[t].sums # <<>>
  BY Known DEF Sound, Summaries
<1>2. \A S : \A q \in Seq(S) : q # <<>> => Head(q) \in S
    OBVIOUS
<1> QED BY <1>1, <1>2, Known, Numbers

LEMMA SummaryKeeps ==
    ASSUME HInv, NEW t \in Tasks, Summary(t) \/ NodeRecord(t)
    PROVE  HInv'
<1> DEFINE x == task[t]
           k == Head(x.sums)
<1>0. /\ x \in TaskRecord /\ Sound(x, made, info) /\ x.pc \in {"summary", "node record"}
      /\ UNCHANGED treeVars /\ UNCHANGED <<ops, asked, forgone>>
  BY Known DEF Summary, NodeRecord, At, LocalStep
<1>1. x.pc \in Summing /\ made \in Buckets /\ info \in [Buckets -> BucketInfo] /\ Rows
  BY <1>0, Known DEF Summing, TreeTypeOK
<1>2. k \in 1..made /\ k \in Buckets /\ k \in Keys
  BY <1>1, Heads
<1>3. CASE Become(t, AfterSummary(x))
    <2>1. AfterSummary(x) \in TaskRecord /\ Sound(AfterSummary(x), made, info)
        <3> HIDE DEF x
        <3> QED BY <1>0, <1>1, AfterSummarySound
    <2> HIDE DEF x
    <2> QED BY <1>0, <1>3, <2>1, Known, Moves
<1>4. CASE Become(t, [x EXCEPT !.pc = "save", !.old = info[k]])
    <2> DEFINE r == [x EXCEPT !.pc = "save", !.old = info[k]]
    <2>1. info[k] \in BucketInfo /\ Forward(info[k], k, made)
      BY <1>1, <1>2 DEF Rows
    <2>2. r \in TaskRecord
      BY <1>0, <2>1 DEF TaskRecord, Places
    <2>3. /\ r.pc = "save" /\ r.op = x.op /\ r.b = x.b /\ r.child = x.child /\ r.dst = x.dst
          /\ r.into = x.into /\ r.title = x.title /\ r.key = x.key /\ r.sums = x.sums
          /\ r.old = info[k]
      BY <1>0 DEF TaskRecord
    <2>4. Become(t, r)
      BY <1>4
    <2>5. Sound(r, made, info)
        <3> HIDE DEF r, x
        <3> QED BY <1>0, <1>1, <2>1, <2>2, <2>3, SummaryGoesOn DEF k
    <2> HIDE DEF r, x
    <2> QED BY <1>0, <2>2, <2>4, <2>5, Known, Moves
<1>5. CASE /\ Live(k)
           /\ Become(t, [x EXCEPT !.pc = "tell", !.was = Captured({k}), !.goal = Resolve(rec[k].bucket)])
    <2> DEFINE g == Resolve(rec[k].bucket)
               w == Captured({k})
               r == [x EXCEPT !.pc = "tell", !.was = w, !.goal = g]
    <2>1. rec[k].bucket \in Buckets
      BY <1>2, <1>5, Known, Numbers DEF Live, TreeTypeOK, MemoryRecord
    <2>2. g \in 0..MaxBuckets
      BY <1>1, <2>1, ResolveEnds, Known
    <2>3. w \in [Keys -> MemoryRecord]
      BY Known, CapturedTyped
    <2>4. Become(t, r)
      BY <1>5
    <2> HIDE DEF g, w
    <2>5. r \in TaskRecord
      BY <1>0, <2>2, <2>3 DEF TaskRecord, Places
    <2>6. /\ r.pc = "tell" /\ r.op = x.op /\ r.b = x.b /\ r.child = x.child /\ r.dst = x.dst
          /\ r.into = x.into /\ r.title = x.title /\ r.key = x.key /\ r.sums = x.sums
      BY <1>0 DEF TaskRecord
    <2>7. Sound(r, made, info)
        <3> HIDE DEF r, x
        <3> QED BY <1>0, <1>1, <2>5, <2>6, SummaryGoesOn
    <2> HIDE DEF r, x
    <2> QED BY <1>0, <2>4, <2>5, <2>7, Known, Moves
<1>6. \/ Become(t, AfterSummary(x))
      \/ Become(t, [x EXCEPT !.pc = "save", !.old = info[k]])
      \/ /\ Live(k)
         /\ Become(t, [x EXCEPT !.pc = "tell", !.was = Captured({k}), !.goal = Resolve(rec[k].bucket)])
    <2>1. CASE Summary(t)
      BY <2>1 DEF Summary
    <2>2. CASE NodeRecord(t)
      BY <2>2 DEF NodeRecord
    <2> QED BY <2>1, <2>2
<1> QED BY <1>3, <1>4, <1>5, <1>6

LEMMA SaveKeepsAll ==
    ASSUME HInv, NEW t \in Tasks, Save(t)
    PROVE  HInv'
<1> DEFINE x == task[t]
           k == Head(x.sums)
           r == [x EXCEPT !.pc = "node record"]
<1>0. /\ x \in TaskRecord /\ Sound(x, made, info) /\ x.pc = "save"
      /\ UNCHANGED <<ops, asked, forgone>> /\ SaveInfo(k, x.old) /\ Become(t, r)
  BY Known DEF Save, At, Unobserved, Step
<1>1. x.pc \in Summing /\ made \in Buckets /\ info \in [Buckets -> BucketInfo]
  BY <1>0, Known DEF Summing, TreeTypeOK
<1>2. k \in 1..made
  BY <1>1, Heads
<1>3. x.old \in BucketInfo /\ x.old.level = info[k].level /\ Forward(x.old, k, made)
  BY <1>0 DEF Sound, Summaries, TaskRecord
<1>4. TreeKept
    <2> HIDE DEF x, k
    <2> QED BY <1>0, <1>2, <1>3, Known, SaveKeeps
<1>5. r \in TaskRecord
  BY <1>0 DEF TaskRecord, Places
<1>6. /\ r.pc = "node record" /\ r.op = x.op /\ r.b = x.b /\ r.child = x.child /\ r.dst = x.dst
      /\ r.into = x.into /\ r.title = x.title /\ r.key = x.key /\ r.sums = x.sums
  BY <1>0 DEF TaskRecord
<1> HIDE DEF x, r
<1>7. Sound(r, made, info)
  BY <1>0, <1>1, <1>5, <1>6, SummaryGoesOn
<1> QED BY <1>0, <1>4, <1>5, <1>7, Known, TreeMoves

LEMMA TellKeeps ==
    ASSUME HInv, NEW t \in Tasks, Tell(t)
    PROVE  HInv'
<1> DEFINE x == task[t]
           k == Head(x.sums)
           r == [x EXCEPT !.goal = None]
           w == [x.was[k] EXCEPT !.bucket = x.goal]
<1>0. /\ x \in TaskRecord /\ Sound(x, made, info) /\ x.pc = "tell"
      /\ Put(t, k, w, AfterSummary(r))
  BY Known DEF Tell, At
<1>1. x.pc \in Summing /\ made \in Buckets /\ info \in [Buckets -> BucketInfo]
  BY <1>0, Known DEF Summing, TreeTypeOK
<1>2. k \in Keys
  BY <1>1, Heads
<1>3. w \in MemoryRecord
    <2>1. x.was[k] \in MemoryRecord /\ x.goal \in Buckets \cup {None}
      BY <1>0, <1>2, Numbers DEF TaskRecord
    <2> HIDE DEF x, k
    <2> QED BY <2>1 DEF MemoryRecord
<1>4. r \in TaskRecord
  BY <1>0, Known DEF TaskRecord
<1>5. /\ r.pc = "tell" /\ r.op = x.op /\ r.b = x.b /\ r.child = x.child /\ r.dst = x.dst
      /\ r.into = x.into /\ r.title = x.title /\ r.key = x.key /\ r.sums = x.sums
  BY <1>0 DEF TaskRecord
<1> HIDE DEF x, r, k, w
<1>6. Sound(r, made, info)
  BY <1>0, <1>1, <1>4, <1>5, SummaryGoesOn
<1>7. AfterSummary(r) \in TaskRecord /\ Sound(AfterSummary(r), made, info)
  BY <1>1, <1>4, <1>5, <1>6, AfterSummarySound DEF Summing
<1> QED BY <1>0, <1>2, <1>3, <1>7, PutKeeps

LEMMA AddKeeps ==
    ASSUME HInv, NEW t \in Tasks, AddMemory(t)
    PROVE  HInv'
<1> DEFINE x == task[t]
           w == [bucket |-> x.b, gray |-> FALSE, child |-> None]
           r == [x EXCEPT !.pc = "summary"]
           q == IF x.pc = "first" THEN r ELSE Idle
<1>0. /\ x \in TaskRecord /\ Sound(x, made, info) /\ x.pc \in {"write", "first"}
      /\ Put(t, x.key, w, q)
  BY Known DEF AddMemory, At
<1>1. x.pc \in Summing /\ made \in Buckets /\ info \in [Buckets -> BucketInfo]
  BY <1>0, Known DEF Summing, TreeTypeOK
<1>2. x.key \in Keys \cup {None} /\ w \in MemoryRecord
  BY <1>0, Numbers DEF TaskRecord, MemoryRecord
<1>3. r \in TaskRecord
  BY <1>0 DEF TaskRecord, Places
<1>4. /\ r.pc = "summary" /\ r.op = x.op /\ r.b = x.b /\ r.child = x.child /\ r.dst = x.dst
      /\ r.into = x.into /\ r.title = x.title /\ r.key = x.key /\ r.sums = x.sums
  BY <1>0 DEF TaskRecord
<1> HIDE DEF x, r, w
<1>5. Sound(r, made, info)
  BY <1>0, <1>1, <1>3, <1>4, SummaryGoesOn
<1>6. q \in TaskRecord /\ Sound(q, made, info)
  BY <1>3, <1>5, IdleIsSound
<1> HIDE DEF q
<1> QED BY <1>0, <1>2, <1>6, PutKeeps

LEMMA AfterRewriteSound ==
    ASSUME NEW n, NEW f, NEW x \in TaskRecord, Sound(x, n, f), x.pc \in {"reread", "rewrite"}
    PROVE  AfterRewrite(x) \in TaskRecord /\ Sound(AfterRewrite(x), n, f)
<1> DEFINE r == [x EXCEPT !.pc = "forget", !.held = {}]
<1>1. r \in TaskRecord
  BY DEF TaskRecord, Places
<1>2. Sound(r, n, f)
  BY DEF TaskRecord, Sound, InPlace, Sources, Children, Records, Summaries,
    Compressing, Splitting, Summing, Carrying, Succeeding, Grouped
<1> HIDE DEF r
<1>3. AfterRewrite(x) \in {r, Idle}
  BY DEF AfterRewrite, r
<1> QED BY <1>1, <1>2, <1>3, IdleIsSound

LEMMA RereadKeeps ==
    ASSUME HInv, NEW t \in Tasks, Reread(t)
    PROVE  HInv'
<1> DEFINE x == task[t]
           w == Captured({x.key})
           r == [x EXCEPT !.pc = "rewrite", !.was = w]
<1>0. /\ x \in TaskRecord /\ Sound(x, made, info) /\ x.pc = "reread"
      /\ UNCHANGED treeVars /\ UNCHANGED <<ops, asked, forgone>>
      /\ Become(t, AfterRewrite(x)) \/ Become(t, r)
  BY Known DEF Reread, At, LocalStep
<1>1. w \in [Keys -> MemoryRecord]
  BY Known, CapturedTyped
<1> HIDE DEF w
<1>2. r \in TaskRecord
  BY <1>0, <1>1 DEF TaskRecord, Places
<1>3. Sound(r, made, info)
  BY <1>0 DEF TaskRecord, Sound, InPlace, Sources, Children, Records, Summaries,
    Compressing, Splitting, Summing, Carrying, Succeeding, Grouped
<1> HIDE DEF r, x
<1>4. CASE Become(t, r)
  BY <1>0, <1>2, <1>3, <1>4, Known, Moves
<1>5. CASE Become(t, AfterRewrite(x))
    <2>1. AfterRewrite(x) \in TaskRecord /\ Sound(AfterRewrite(x), made, info)
      BY <1>0, AfterRewriteSound
    <2> QED BY <1>0, <1>5, <2>1, Known, Moves
<1> QED BY <1>0, <1>4, <1>5

LEMMA RewriteKeeps ==
    ASSUME HInv, NEW t \in Tasks, Rewrite(t)
    PROVE  HInv'
<1> DEFINE x == task[t]
           k == x.key
<1>0. x \in TaskRecord /\ Sound(x, made, info) /\ x.pc = "rewrite" /\ k \in Keys
  BY Known DEF Rewrite, At, Sound, InPlace, Records
<1>1. AfterRewrite(x) \in TaskRecord /\ Sound(AfterRewrite(x), made, info)
  BY <1>0, AfterRewriteSound
<1>2. CASE GiveUp(t)
  BY <1>2, Known, GivesUp DEF GiveUp, LocalStep
<1>3. ASSUME NEW g \in BOOLEAN, Write(k, [x.was[k] EXCEPT !.gray = g]),
             Become(t, AfterRewrite(x)), UNCHANGED <<ops, asked>>,
             forgone' = IF g THEN forgone \cup {k} ELSE Without(forgone, k)
      PROVE  HInv'
    <2>1. x.was[k] \in MemoryRecord
      BY <1>0 DEF TaskRecord
    <2>2. [x.was[k] EXCEPT !.gray = g] \in MemoryRecord
      BY <2>1 DEF MemoryRecord
    <2>3. TreeKept
        <3> HIDE DEF x, k
        <3> QED BY <1>0, <1>3, <2>2, Known, WriteKeeps
    <2>4. forgone' \in SUBSET Keys
      BY <1>0, <1>3, Known DEF Without
    <2> HIDE DEF x, k
    <2> QED BY <1>1, <1>3, <2>3, <2>4, TreeMoves
<1> DEFINE grays == x.op \in {"gray", "delete"}
<1>4. grays \in BOOLEAN
    OBVIOUS
<1>5. \/ GiveUp(t)
      \/ /\ Write(k, [x.was[k] EXCEPT !.gray = grays])
         /\ Become(t, AfterRewrite(x)) /\ UNCHANGED <<ops, asked>>
         /\ forgone' = IF grays THEN forgone \cup {k} ELSE Without(forgone, k)
  BY DEF Rewrite
<1> HIDE DEF grays, x, k
<1> QED BY <1>2, <1>3, <1>4, <1>5

LEMMA ForgetKeeps ==
    ASSUME HInv, NEW t \in Tasks, Forget(t)
    PROVE  HInv'
<1>1. RemoveTitleRefs(task[t].goal, task[t].child) /\ Quit(t) /\ UNCHANGED <<ops, asked, forgone>>
  BY DEF Forget, Unobserved
<1>2. task[t].goal \in Buckets \cup {None} /\ task[t].child \in Buckets \cup {None}
  BY Known, Numbers DEF TaskRecord
<1>3. TreeKept
  BY <1>1, <1>2, Known, OthersKeep
<1> QED BY <1>1, <1>3, Known, IdleIsSound, TreeMoves DEF Quit

LEMMA CheckKeeps ==
    ASSUME HInv, NEW t \in Tasks, Check(t)
    PROVE  HInv'
<1> DEFINE x == task[t]
           k == x.key
<1>0. /\ x \in TaskRecord /\ Sound(x, made, info) /\ x.pc = "check" /\ x.op = "move" /\ k \in Keys
      /\ UNCHANGED treeVars /\ UNCHANGED <<ops, asked, forgone>>
  BY Known DEF Check, At, LocalStep, Sound, InPlace, Records, KeyOps
<1>1. CASE Quit(t)
  BY <1>0, <1>1, Known, GivesUp
<1>2. ASSUME NEW to \in 1..made, NEW c \in {None} \cup 1..made,
             Become(t, [x EXCEPT !.pc = IF c # None THEN "rehome" ELSE "out", !.into = to,
                                 !.was = [Captured({k}) EXCEPT ![k].child = c]])
      PROVE  HInv'
    <2> DEFINE q == IF c # None THEN "rehome" ELSE "out"
               w == [Captured({k}) EXCEPT ![k].child = c]
               r == [x EXCEPT !.pc = q, !.into = to, !.was = w]
    <2>1. w \in [Keys -> MemoryRecord] /\ w[k].child = c
        <3> DEFINE m == Captured({k})
        <3>1. m \in [Keys -> MemoryRecord]
          BY Known, CapturedTyped
        <3>2. c \in Buckets \cup {None}
          BY Known
        <3> HIDE DEF m
        <3>3. w = [m EXCEPT ![k].child = c]
          BY DEF m
        <3> HIDE DEF w, k
        <3> QED BY <1>0, <3>1, <3>2, <3>3 DEF MemoryRecord
    <2>2. q \in {"rehome", "out"} /\ (q = "rehome" => c \in Buckets)
      BY Known
    <2>3. Become(t, r)
      BY <1>2
    <2> HIDE DEF q, w
    <2>4. r \in TaskRecord
      BY <1>0, <2>1, <2>2, Known DEF TaskRecord, Places
    <2>5. Sound(r, made, info)
        <3>1. /\ r.pc = q /\ r.op = x.op /\ r.b = x.b /\ r.child = x.child /\ r.dst = x.dst
              /\ r.into = to /\ r.title = x.title /\ r.key = k /\ r.was = w
          BY <1>0 DEF TaskRecord
        <3>2. InPlace(r) /\ Sources(r, made)
          BY <1>0, <2>2, <3>1 DEF Sound, InPlace, Sources, Compressing, Splitting, Summing,
            Carrying, Succeeding
        <3>3. Children(r, made, info)
          BY <1>0, <2>2, <3>1 DEF Sound, Children, Grouped
        <3>4. Records(r, made) /\ Summaries(r, made, info)
          BY <1>0, <2>1, <2>2, <3>1 DEF Sound, Records, Summaries, Carrying, Summing
        <3> QED BY <3>2, <3>3, <3>4 DEF Sound
    <2> HIDE DEF x, r, k
    <2> QED BY <1>0, <2>3, <2>4, <2>5, Known, Moves
<1>3. \/ Quit(t)
      \/ \E to \in 1..made, c \in {None} \cup 1..made :
            Become(t, [x EXCEPT !.pc = IF c # None THEN "rehome" ELSE "out", !.into = to,
                                 !.was = [Captured({k}) EXCEPT ![k].child = c]])
  BY DEF Check
<1> QED BY <1>1, <1>2, <1>3

LEMMA AbandonKeeps ==
    ASSUME HInv, NEW t \in Tasks, Abandon(t)
    PROVE  HInv'
<1>1. Quit(t) /\ UNCHANGED treeVars /\ UNCHANGED <<ops, asked>>
  BY DEF Abandon
<1>2. forgone' \in SUBSET Keys
  BY Known DEF Abandon, At, Sound, Records
<1> QED BY <1>1, <1>2, Known, GivesUp

LEMMA StepHInv ==
    ASSUME HInv, [Next]_vars
    PROVE  HInv'
<1>1. ASSUME NEW t \in Tasks, OnHandles(t) PROVE HInv'
  BY <1>1, BeginKeeps, LockKeeps, LookKeeps, FixTitleKeeps, AimKeeps, MakeKeeps, NodeKeeps,
    PlanKeeps, CarryKeeps, RecordsCarried, RecordsPut, MergeKeeps, AdoptKeeps, FetchKeeps,
    SealSourceKeeps, SwitchKeeps, SummaryKeeps, SaveKeepsAll, TellKeeps, AddKeeps,
    AbandonKeeps DEF OnHandles
<1>2. ASSUME NEW t \in Tasks, OnKeys(t) PROVE HInv'
  BY <1>2, BeginKeeps, RereadKeeps, RewriteKeeps, ForgetKeeps, CheckKeeps, RecordsCarried
    DEF OnKeys
<1>3. CASE UNCHANGED vars
  BY <1>3 DEF vars, treeVars, HInv, TypeOK, TreeTypeOK, TaskTypeOK, Rows
<1> QED BY <1>1, <1>2, <1>3 DEF Next

LEMMA InitHInv == Init => HInv
<1> SUFFICES ASSUME Init PROVE HInv
    OBVIOUS
<1>1. Row(None, 1) \in BucketInfo /\ NoRecord \in MemoryRecord /\ 1 \in Buckets
  BY Numbers DEF Row, BucketInfo, NoRecord, MemoryRecord
<1>2. TreeTypeOK
  BY <1>1 DEF Init, TreeInit, TreeTypeOK
<1>3. TaskTypeOK
    <2>1. Idle \in TaskRecord /\ ops \in 0..MaxOps
      BY IdleIsSound, ServicesAssumption DEF Init, ServicesAssumption
    <2> QED BY <2>1 DEF Init, TaskTypeOK
<1>4. Rows
  BY DEF Init, TreeInit, Rows, Forward, Row
<1>5. \A t \in Tasks : Sound(task[t], made, info)
  BY IdleIsSound DEF Init
<1> QED BY <1>2, <1>3, <1>4, <1>5 DEF HInv, TypeOK

LEMMA RowsLead ==
    ASSUME HInv, LInv, NEW t \in Tasks, NEW r, Become(t, r), r.pc = "save" => Leading(r.old),
           \A b \in Buckets : Leading(info'[b])
    PROVE  LInv'
<1>1. \A u \in Tasks : task'[u] = IF u = t THEN r ELSE task[u]
  BY DEF Become, HInv, TypeOK, TaskTypeOK
<1> QED BY <1>1 DEF LInv

LEMMA RowsLeadFree ==
    ASSUME HInv, LInv, NEW t \in Tasks, RowFree(t), \A b \in Buckets : Leading(info'[b])
    PROVE  LInv'
<1>1. PICK r : Become(t, r)
  BY DEF RowFree
<1>2. task'[t] = r
  BY <1>1 DEF Become, HInv, TypeOK, TaskTypeOK
<1> QED BY <1>1, <1>2, RowsLead DEF RowFree

LEMMA Becomes ==
    ASSUME HInv, NEW t \in Tasks, NEW r, Become(t, r), r.pc # "save"
    PROVE  RowFree(t)
  BY DEF RowFree, Become, HInv, TypeOK, TaskTypeOK

LEMMA Quits ==
    ASSUME HInv, NEW t \in Tasks, Quit(t)
    PROVE  RowFree(t)
<1>1. Idle.pc # "save"
  BY DEF Idle
<1> HIDE DEF Idle
<1> QED BY <1>1, Becomes DEF Quit

LEMMA PutsNoRow ==
    ASSUME HInv, NEW t \in Tasks, NEW k, NEW w, NEW q, Put(t, k, w, q), q.pc # "save"
    PROVE  info' = info /\ RowFree(t)
<1>1. info' = info
  BY DEF Put, Write, GiveUp, LocalStep, treeVars
<1> QED BY <1>1, Becomes, Quits DEF Put, GiveUp

LEMMA AfterSummaryRow ==
    ASSUME NEW x \in TaskRecord
    PROVE  AfterSummary(x).pc # "save" /\ AfterRewrite(x).pc # "save"
<1>1. Idle.pc # "save"
  BY DEF Idle
<1>2. /\ [x EXCEPT !.pc = "summary", !.sums = Tail(x.sums)].pc = "summary"
      /\ [x EXCEPT !.pc = "seal", !.sums = <<>>].pc = "seal"
      /\ [x EXCEPT !.pc = "forget", !.held = {}].pc = "forget"
  BY DEF TaskRecord
<1> HIDE DEF Idle
<1> QED BY <1>1, <1>2 DEF AfterSummary, AfterRewrite

\* Operations begin, wait and look around.
LEMMA BeginRow ==
    ASSUME HInv, NEW t \in Tasks, BeginOnBucket(t) \/ BeginAdd(t) \/ BeginOnKey(t)
    PROVE  info' = info /\ RowFree(t)
<1>0. info' = info
  BY DEF BeginOnBucket, BeginAdd, BeginOnKey, Starting, treeVars
<1>1. Idle \in TaskRecord
  BY IdleIsSound
<1> HIDE DEF Idle
<1>2. CASE BeginOnBucket(t)
    <2>1. PICK o, b, s : Become(t, [Idle EXCEPT !.op = o, !.pc = "ask", !.b = b, !.title = s])
      BY <1>2 DEF BeginOnBucket
    <2>2. [Idle EXCEPT !.op = o, !.pc = "ask", !.b = b, !.title = s].pc = "ask"
      BY <1>1 DEF TaskRecord
    <2> QED BY <1>0, <2>1, <2>2, Becomes
<1>3. CASE BeginAdd(t)
    <2>1. PICK b, m : Become(t, [Idle EXCEPT !.op = "add", !.pc = "ask", !.b = b, !.key = m])
      BY <1>3 DEF BeginAdd
    <2>2. [Idle EXCEPT !.op = "add", !.pc = "ask", !.b = b, !.key = m].pc = "ask"
      BY <1>1 DEF TaskRecord
    <2> QED BY <1>0, <2>1, <2>2, Becomes
<1>4. CASE BeginOnKey(t)
    <2>1. PICK o, b, k, c, g :
             Become(t, [Idle EXCEPT !.op = o, !.pc = "ask", !.b = b, !.key = k, !.child = c, !.goal = g])
      BY <1>4 DEF BeginOnKey
    <2>2. [Idle EXCEPT !.op = o, !.pc = "ask", !.b = b, !.key = k, !.child = c, !.goal = g].pc = "ask"
      BY <1>1 DEF TaskRecord
    <2> QED BY <1>0, <2>1, <2>2, Becomes
<1> QED BY <1>2, <1>3, <1>4

LEMMA LockRow ==
    ASSUME HInv, NEW t \in Tasks, Ask(t) \/ Enter(t)
    PROVE  info' = info /\ RowFree(t)
<1> DEFINE x == task[t]
<1>0. info' = info /\ x \in TaskRecord
  BY Known DEF Ask, Enter, LocalStep, treeVars
<1>1. CASE Ask(t)
    <2>1. PICK b, w : Become(t, [x EXCEPT !.pc = "wait", !.b = b, !.want = w])
      BY <1>1 DEF Ask
    <2>2. [x EXCEPT !.pc = "wait", !.b = b, !.want = w].pc = "wait"
      BY <1>0 DEF TaskRecord
    <2> HIDE DEF x
    <2> QED BY <1>0, <2>1, <2>2, Becomes
<1>2. CASE Enter(t)
    <2>1. PICK q \in {"look", "aim", "plan", "summary", "write", "first", "check", "reread"} :
             Become(t, [x EXCEPT !.held = x.want, !.want = {}, !.sums = <<x.b>>, !.pc = q])
      BY <1>0, <1>2, BeginsAs DEF Enter
    <2>2. [x EXCEPT !.held = x.want, !.want = {}, !.sums = <<x.b>>, !.pc = q].pc = q
      BY <1>0 DEF TaskRecord
    <2> HIDE DEF x
    <2> QED BY <1>0, <2>1, <2>2, Becomes
<1> QED BY <1>1, <1>2

\* A step to another place.
LEMMA StepRow ==
    ASSUME HInv, NEW t \in Tasks, NEW pc, pc # "save", Step(t, pc)
    PROVE  RowFree(t)
<1>1. [task[t] EXCEPT !.pc = pc].pc = pc
  BY Known DEF TaskRecord
<1> QED BY <1>1, Becomes DEF Step

LEMMA LookRow ==
    ASSUME HInv, NEW t \in Tasks, Look(t) \/ FixTitle(t) \/ Aim(t)
    PROVE  info' = info /\ RowFree(t)
<1> DEFINE x == task[t]
<1>0. info' = info /\ x \in TaskRecord
  BY Known DEF Look, FixTitle, Aim, LocalStep, treeVars, SetTitle, RemoveTitleRefs
<1>1. \/ Quit(t) \/ Step(t, "aim")
      \/ \E pc \in {"retitle", "untitle"} : \E c : Become(t, [x EXCEPT !.pc = pc, !.child = c])
      \/ \E p : Become(t, [x EXCEPT !.pc = "make", !.up = p])
  BY DEF Look, FixTitle, Aim
<1>2. ASSUME NEW pc \in {"retitle", "untitle"}, NEW c, Become(t, [x EXCEPT !.pc = pc, !.child = c])
      PROVE  RowFree(t)
    <2>1. [x EXCEPT !.pc = pc, !.child = c].pc = pc
      BY <1>0 DEF TaskRecord
    <2> HIDE DEF x
    <2> QED BY <1>2, <2>1, Becomes
<1>3. ASSUME NEW p, Become(t, [x EXCEPT !.pc = "make", !.up = p])
      PROVE  RowFree(t)
    <2>1. [x EXCEPT !.pc = "make", !.up = p].pc = "make"
      BY <1>0 DEF TaskRecord
    <2> HIDE DEF x
    <2> QED BY <1>3, <2>1, Becomes
<1> QED BY <1>0, <1>1, <1>2, <1>3, Quits, StepRow

\* Plans are made and records fetched and carried.
LEMMA PlanRow ==
    ASSUME HInv, NEW t \in Tasks, PlanCompress(t) \/ PlanSplit(t) \/ Carry(t) \/ Fetch(t)
    PROVE  info' = info /\ RowFree(t)
<1> DEFINE x == task[t]
<1>0. info' = info /\ x \in TaskRecord
  BY Known DEF PlanCompress, PlanSplit, Carry, Fetch, LocalStep, treeVars
<1>1. CASE PlanCompress(t)
    <2>1. Quit(t) \/ \E m, K, d : Become(t, [x EXCEPT !.pc = "aim", !.was = m, !.keys = K, !.drop = d])
      BY <1>1 DEF PlanCompress
    <2>2. ASSUME NEW m, NEW K, NEW d,
                 Become(t, [x EXCEPT !.pc = "aim", !.was = m, !.keys = K, !.drop = d])
          PROVE  RowFree(t)
        <3>1. [x EXCEPT !.pc = "aim", !.was = m, !.keys = K, !.drop = d].pc = "aim"
          BY <1>0 DEF TaskRecord
        <3> HIDE DEF x
        <3> QED BY <2>2, <3>1, Becomes
    <2> QED BY <1>0, <2>1, <2>2, Quits
<1>2. CASE PlanSplit(t)
    <2>1. Quit(t) \/ \E K, d : Become(t, [x EXCEPT !.pc = "aim", !.keys = K, !.rest = d])
      BY <1>2 DEF PlanSplit
    <2>2. ASSUME NEW K, NEW d, Become(t, [x EXCEPT !.pc = "aim", !.keys = K, !.rest = d])
          PROVE  RowFree(t)
        <3>1. [x EXCEPT !.pc = "aim", !.keys = K, !.rest = d].pc = "aim"
          BY <1>0 DEF TaskRecord
        <3> HIDE DEF x
        <3> QED BY <2>2, <3>1, Becomes
    <2> QED BY <1>0, <2>1, <2>2, Quits
<1>3. CASE Carry(t)
    <2>1. \/ Step(t, "merge") \/ Step(t, "seal")
          \/ \E pc \in {"rehang", "place"} : \E k, K : Become(t, [x EXCEPT !.key = k, !.keys = K, !.pc = pc])
      BY <1>3 DEF Carry
    <2>2. ASSUME NEW pc \in {"rehang", "place"}, NEW k, NEW K,
                 Become(t, [x EXCEPT !.key = k, !.keys = K, !.pc = pc])
          PROVE  RowFree(t)
        <3>1. [x EXCEPT !.key = k, !.keys = K, !.pc = pc].pc = pc
          BY <1>0 DEF TaskRecord
        <3> HIDE DEF x
        <3> QED BY <2>2, <3>1, Becomes
    <2> QED BY <1>0, <2>1, <2>2, StepRow
<1>4. CASE Fetch(t)
    <2>1. \/ Step(t, "seal") \/ Step(t, "aim")
          \/ \E pc \in {"rehome", "out"} : \E k, K, m :
                Become(t, [x EXCEPT !.key = k, !.keys = K, !.was = m, !.pc = pc])
          \/ x.pc = "fetch" /\ \E K : Become(t, [x EXCEPT !.keys = K])
      BY <1>4 DEF Fetch, At
    <2>2. ASSUME NEW pc \in {"rehome", "out"}, NEW k, NEW K, NEW m,
                 Become(t, [x EXCEPT !.key = k, !.keys = K, !.was = m, !.pc = pc])
          PROVE  RowFree(t)
        <3>1. [x EXCEPT !.key = k, !.keys = K, !.was = m, !.pc = pc].pc = pc
          BY <1>0 DEF TaskRecord
        <3> HIDE DEF x
        <3> QED BY <2>2, <3>1, Becomes
    <2>3. ASSUME x.pc = "fetch", NEW K, Become(t, [x EXCEPT !.keys = K])
          PROVE  RowFree(t)
        <3>1. [x EXCEPT !.keys = K].pc = "fetch"
          BY <1>0, <2>3 DEF TaskRecord
        <3> HIDE DEF x
        <3> QED BY <2>3, <3>1, Becomes
    <2> QED BY <1>0, <2>1, <2>2, <2>3, StepRow
<1> QED BY <1>1, <1>2, <1>3, <1>4

LEMMA PutRow ==
    ASSUME HInv, NEW t \in Tasks,
           Node(t) \/ Place(t) \/ Out(t) \/ In(t) \/ Tell(t) \/ AddMemory(t)
    PROVE  info' = info /\ RowFree(t)
<1> DEFINE x == task[t]
<1>0. x \in TaskRecord /\ Idle.pc # "save"
  BY Known DEF Idle
<1> HIDE DEF Idle
<1>1. CASE Node(t)
    <2>1. [x EXCEPT !.pc = "fetch", !.into = x.child].pc # "save"
      BY <1>0 DEF TaskRecord
    <2> QED BY <1>0, <1>1, <2>1, PutsNoRow DEF Node
<1>2. CASE Place(t)
    <2>1. [x EXCEPT !.pc = "carry"].pc # "save"
      BY <1>0 DEF TaskRecord
    <2> QED BY <1>2, <2>1, PutsNoRow DEF Place
<1>3. CASE Out(t)
    <2>1. [x EXCEPT !.pc = "in"].pc # "save"
      BY <1>0 DEF TaskRecord
    <2> QED BY <1>3, <2>1, PutsNoRow DEF Out
<1>4. CASE In(t)
    <2>1. [x EXCEPT !.pc = "fetch"].pc # "save"
      BY <1>0 DEF TaskRecord
    <2> QED BY <1>0, <1>4, <2>1, PutsNoRow DEF In
<1>5. CASE Tell(t)
    <2>1. [x EXCEPT !.goal = None] \in TaskRecord
      BY <1>0, Known DEF TaskRecord
    <2>2. AfterSummary([x EXCEPT !.goal = None]).pc # "save"
      BY <2>1, AfterSummaryRow
    <2> HIDE DEF x
    <2> QED BY <1>5, <2>2, PutsNoRow DEF Tell, x
<1>6. CASE AddMemory(t)
    <2>1. [x EXCEPT !.pc = "summary"].pc # "save"
      BY <1>0 DEF TaskRecord
    <2> QED BY <1>0, <1>6, <2>1, PutsNoRow DEF AddMemory
<1> QED BY <1>1, <1>2, <1>3, <1>4, <1>5, <1>6

\* The rebuilds' ends and the operations on keys.
LEMMA EndRow ==
    ASSUME HInv, NEW t \in Tasks,
           \/ Switch(t) \/ NodeRecord(t) \/ Abandon(t)
           \/ Reread(t) \/ Rewrite(t) \/ Forget(t) \/ Check(t)
    PROVE  info' = info /\ RowFree(t)
<1> DEFINE x == task[t]
<1>0. /\ info' = info /\ x \in TaskRecord
      /\ AfterSummary(x).pc # "save" /\ AfterRewrite(x).pc # "save"
  BY Known, AfterSummaryRow DEF Switch, NodeRecord, Abandon, Reread, Rewrite, Forget, Check, LocalStep,
    treeVars, SetRoot, Write, GiveUp, RemoveTitleRefs
<1>1. \/ Quit(t)
      \/ \E r \in {AfterSummary(x), AfterRewrite(x)} : Become(t, r)
      \/ \E q : Become(t, [x EXCEPT !.pc = "summary", !.into = None, !.sums = q])
      \/ \E m, g : Become(t, [x EXCEPT !.pc = "tell", !.was = m, !.goal = g])
      \/ \E m : Become(t, [x EXCEPT !.pc = "rewrite", !.was = m])
      \/ \E pc \in {"rehome", "out"} : \E p, m : Become(t, [x EXCEPT !.pc = pc, !.into = p, !.was = m])
  BY DEF Switch, NodeRecord, Abandon, Reread, Rewrite, Forget, Check, GiveUp
<1>2. ASSUME NEW q, Become(t, [x EXCEPT !.pc = "summary", !.into = None, !.sums = q]) PROVE RowFree(t)
    <2>1. [x EXCEPT !.pc = "summary", !.into = None, !.sums = q].pc # "save"
      BY <1>0 DEF TaskRecord
    <2> HIDE DEF x
    <2> QED BY <1>2, <2>1, Becomes
<1>3. ASSUME NEW m, NEW g, Become(t, [x EXCEPT !.pc = "tell", !.was = m, !.goal = g]) PROVE RowFree(t)
    <2>1. [x EXCEPT !.pc = "tell", !.was = m, !.goal = g].pc # "save"
      BY <1>0 DEF TaskRecord
    <2> HIDE DEF x
    <2> QED BY <1>3, <2>1, Becomes
<1>4. ASSUME NEW m, Become(t, [x EXCEPT !.pc = "rewrite", !.was = m]) PROVE RowFree(t)
    <2>1. [x EXCEPT !.pc = "rewrite", !.was = m].pc # "save"
      BY <1>0 DEF TaskRecord
    <2> HIDE DEF x
    <2> QED BY <1>4, <2>1, Becomes
<1>5. ASSUME NEW pc \in {"rehome", "out"}, NEW p, NEW m,
             Become(t, [x EXCEPT !.pc = pc, !.into = p, !.was = m])
      PROVE  RowFree(t)
    <2>1. [x EXCEPT !.pc = pc, !.into = p, !.was = m].pc # "save"
      BY <1>0 DEF TaskRecord
    <2> HIDE DEF x
    <2> QED BY <1>5, <2>1, Becomes
<1> HIDE DEF x
<1>6. \A r \in {AfterSummary(x), AfterRewrite(x)} : Become(t, r) => RowFree(t)
  BY <1>0, Becomes
<1> QED BY <1>0, <1>1, <1>2, <1>3, <1>4, <1>5, <1>6, Quits

\* Steps that move buckets about seal none.
LEMMA MoveLeads ==
    ASSUME HInv, LInv, NEW t \in Tasks,
           Make(t) \/ RehangCarried(t) \/ Adopt(t) \/ RehomeSplit(t) \/ RehomeMove(t)
    PROVE  LInv'
<1> DEFINE x == task[t]
<1>0. x \in TaskRecord /\ info \in [Buckets -> BucketInfo]
  BY Known DEF TreeTypeOK
<1>1. RowFree(t)
    <2>1. \/ Quit(t) \/ Step(t, "place") \/ Step(t, "out")
          \/ \E pc \in {"adopt", "carry"} : \E d : Become(t, [x EXCEPT !.dst = d, !.into = d, !.pc = pc])
          \/ \E c : Become(t, [x EXCEPT !.child = c, !.pc = "node"])
          \/ \E K : Become(t, [x EXCEPT !.pc = "fetch", !.keys = K])
      BY DEF Make, RehangCarried, Adopt, RehomeSplit, RehomeMove, Rehang, GiveUp
    <2>2. ASSUME NEW pc \in {"adopt", "carry"}, NEW d, Become(t, [x EXCEPT !.dst = d, !.into = d, !.pc = pc])
          PROVE  RowFree(t)
        <3>1. [x EXCEPT !.dst = d, !.into = d, !.pc = pc].pc # "save"
          BY <1>0 DEF TaskRecord
        <3> HIDE DEF x
        <3> QED BY <2>2, <3>1, Becomes
    <2>3. ASSUME NEW c, Become(t, [x EXCEPT !.child = c, !.pc = "node"]) PROVE RowFree(t)
        <3>1. [x EXCEPT !.child = c, !.pc = "node"].pc # "save"
          BY <1>0 DEF TaskRecord
        <3> HIDE DEF x
        <3> QED BY <2>3, <3>1, Becomes
    <2>4. ASSUME NEW K, Become(t, [x EXCEPT !.pc = "fetch", !.keys = K]) PROVE RowFree(t)
        <3>1. [x EXCEPT !.pc = "fetch", !.keys = K].pc # "save"
          BY <1>0 DEF TaskRecord
        <3> HIDE DEF x
        <3> QED BY <2>4, <3>1, Becomes
    <2> QED BY <2>1, <2>2, <2>3, <2>4, Quits, StepRow
<1>2. \/ UNCHANGED info
      \/ \E c, p, preserve : Reparent(c, p, preserve)
      \/ \E p, lvl, s : CreateBucket(p, lvl, s)
  BY DEF Make, RehangCarried, Adopt, RehomeSplit, RehomeMove, Rehang, GiveUp, LocalStep, treeVars
<1>3. \A b \in Buckets : info'[b].sealed => info[b].sealed /\ info'[b].to = info[b].to
    <2>1. ASSUME NEW c, NEW p, NEW preserve, Reparent(c, p, preserve), NEW b \in Buckets
          PROVE  info'[b].sealed = info[b].sealed /\ info'[b].to = info[b].to
        <3>1. PICK q, C : info'[b] = [info[b] EXCEPT !.parent = q, !.children = C]
          BY <2>1 DEF Reparent
        <3>2. info[b] \in BucketInfo
          BY <1>0
        <3> QED BY <3>1, <3>2 DEF BucketInfo
    <2>2. ASSUME NEW p, NEW lvl, NEW s, CreateBucket(p, lvl, s), NEW b \in Buckets
          PROVE  info'[b].sealed => info[b].sealed /\ info'[b].to = info[b].to
      BY <1>0, <2>2 DEF CreateBucket, BucketInfo, Row
    <2> QED BY <1>2, <2>1, <2>2
<1>4. \A b \in Buckets : Leading(info'[b])
  BY <1>3 DEF LInv, Leading
<1> QED BY <1>1, <1>4, RowsLeadFree

\* A rebuild seals its source with its successor.
LEMMA SealLeads ==
    ASSUME HInv, LInv, NEW t \in Tasks, SealSource(t)
    PROVE  LInv'
<1> DEFINE x == task[t]
<1>0. /\ x \in TaskRecord /\ Sound(x, made, info) /\ x.pc = "seal"
      /\ info \in [Buckets -> BucketInfo]
  BY Known DEF SealSource, At, TreeTypeOK
<1>1. x.b \in Buckets /\ x.dst # None
  BY <1>0, Known, Numbers DEF Sound, Sources, Succeeding, None
<1>2. RowFree(t)
  BY Quits, StepRow DEF SealSource, GiveUp
<1>3. CASE GiveUp(t)
  BY <1>2, <1>3, RowsLeadFree DEF GiveUp, LocalStep, treeVars, LInv
<1>4. CASE Seal(x.b, x.dst)
    <2>1. ASSUME NEW b \in Buckets PROVE Leading(info'[b])
        <3>1. info'[b].to = x.dst \/ (info'[b].sealed = info[b].sealed /\ info'[b].to = info[b].to)
            <4> HIDE DEF x
            <4> QED BY <1>0, <1>4 DEF Seal, BucketInfo
        <3> QED BY <1>1, <3>1 DEF Leading, LInv
    <2> QED BY <1>2, <2>1, RowsLeadFree
<1> QED BY <1>3, <1>4 DEF SealSource

\* A row is read to be written back.
LEMMA SaveLeads ==
    ASSUME HInv, LInv, NEW t \in Tasks, Merge(t) \/ Summary(t) \/ Save(t)
    PROVE  LInv'
<1> DEFINE x == task[t]
<1>0. x \in TaskRecord /\ Sound(x, made, info) /\ info \in [Buckets -> BucketInfo] /\ 1..made \subseteq Buckets
  BY Known DEF TreeTypeOK
<1>1. CASE Merge(t)
    <2>1. x.dst \in Buckets
        <3>1. x.pc = "merge"
          BY <1>1 DEF Merge, At
        <3>2. x.b \in 1..made /\ x.dst \in (x.b + 1)..made
          BY <1>0, <3>1 DEF Sound, Sources, Succeeding, Compressing
        <3> QED BY <1>0, <3>2, Known
    <2> DEFINE r == [x EXCEPT !.pc = "save", !.old = info[x.dst], !.sums = <<x.dst>>]
    <2>2. r.old = info[x.dst]
      BY <1>0 DEF TaskRecord
    <2>3. Become(t, r) /\ info' = info
      BY <1>1 DEF Merge, LocalStep, treeVars
    <2> HIDE DEF r, x
    <2> QED BY <2>1, <2>2, <2>3, RowsLead DEF LInv
<1>2. CASE Summary(t)
    <2>1. info' = info
      BY <1>2 DEF Summary, LocalStep, treeVars
    <2>2. CASE Become(t, AfterSummary(x))
        <3>1. AfterSummary(x).pc # "save"
          BY <1>0, AfterSummaryRow
        <3> HIDE DEF x
        <3> QED BY <2>1, <2>2, <3>1, RowsLead DEF LInv
    <2>3. CASE /\ ~info[Head(x.sums)].sealed
               /\ Become(t, [x EXCEPT !.pc = "save", !.old = info[Head(x.sums)]])
        <3> DEFINE r == [x EXCEPT !.pc = "save", !.old = info[Head(x.sums)]]
        <3>1. r.old = info[Head(x.sums)]
          BY <1>0 DEF TaskRecord
        <3>2. Leading(r.old)
          BY <2>3, <3>1 DEF Leading
        <3> HIDE DEF r, x
        <3> QED BY <2>1, <2>3, <3>2, RowsLead DEF LInv, r
    <2> QED BY <1>2, <2>2, <2>3 DEF Summary
<1>3. CASE Save(t)
    <2>1. x.pc = "save" /\ info' = [info EXCEPT ![Head(x.sums)] = x.old] /\ Step(t, "node record")
      BY <1>3 DEF Save, At, SaveInfo
    <2>2. Leading(x.old)
      BY <2>1 DEF LInv
    <2>3. \A b \in Buckets : Leading(info'[b])
        <3> HIDE DEF x
        <3> QED BY <1>0, <2>1, <2>2 DEF LInv
    <2> QED BY <2>1, <2>3, StepRow, RowsLeadFree
<1> QED BY <1>1, <1>2, <1>3

LEMMA StepLInv ==
    ASSUME HInv, LInv, [Next]_vars
    PROVE  LInv'
<1>0. ASSUME NEW t \in Tasks, info' = info, RowFree(t) PROVE LInv'
  BY <1>0, RowsLeadFree DEF LInv
<1>1. ASSUME NEW t \in Tasks, OnHandles(t) PROVE LInv'
  BY <1>0, <1>1, BeginRow, LockRow, LookRow, PlanRow, PutRow, EndRow, MoveLeads, SealLeads, SaveLeads
    DEF OnHandles
<1>2. ASSUME NEW t \in Tasks, OnKeys(t) PROVE LInv'
  BY <1>0, <1>2, BeginRow, EndRow, MoveLeads DEF OnKeys
<1>3. CASE UNCHANGED vars
  BY <1>3 DEF vars, treeVars, LInv
<1> QED BY <1>1, <1>2, <1>3 DEF Next

LEMMA InitLInv == Init => LInv
  BY DEF Init, TreeInit, LInv, Leading, Row, Idle

\* What HandlesLeadToWritable needs: the redirects of sealed buckets.
LEMMA InvWritable == HInv /\ LInv => HandlesLeadToWritable
<1> SUFFICES ASSUME HInv, LInv, NEW b \in 1..made PROVE ~info[Resolve(b)].sealed
  BY DEF HandlesLeadToWritable
<1>1. made \in Buckets /\ b \in Buckets /\ Rows
  BY Numbers DEF HInv, TypeOK, TreeTypeOK
<1>2. Resolve(b) \in Buckets /\ ~Leads(Resolve(b))
  BY <1>1, ResolveEnds
<1>3. info[Resolve(b)].sealed => info[Resolve(b)].to \in (Resolve(b) + 1)..made
  BY <1>1, <1>2 DEF Rows, Forward, LInv, Leading
<1> HIDE DEF Resolve
<1> QED BY <1>1, <1>2, <1>3, Numbers DEF Leads, Made

\* However operations interleave and wherever one is abandoned, every variable
\* keeps to its domain: no record lies outside the tree, no bucket too deep.
THEOREM TypesHold == Spec => []TypeOK
<1>1. HInv => TypeOK
  BY DEF HInv
<1> QED BY InitHInv, StepHInv, <1>1, PTL DEF Spec

\* A sealed bucket leads to a later one (_resolve_bucket_redirect_chain ends).
THEOREM Redirects == Spec => []RedirectsForward
<1>1. HInv /\ LInv => RedirectsForward
  BY Numbers DEF HInv, LInv, Leading, Rows, Forward, RedirectsForward, Made, TypeOK, TreeTypeOK
<1> QED BY InitHInv, InitLInv, StepHInv, StepLInv, <1>1, PTL DEF Spec

\* A bucket handle, however old, leads to a bucket that can be written.
THEOREM Writable == Spec => []HandlesLeadToWritable
BY InitHInv, InitLInv, StepHInv, StepLInv, InvWritable, PTL DEF Spec

----------------------------------------------------------------------------
(* No memory is stranded, as long as callers work on bucket handles and use  *)
(* no handle of a bucket that a rebuild still fills.                         *)

\* Locks and buckets being filled, for whatever a step does.
LEMMA ApartKept ==
    ASSUME HInv, SInv, NEW t \in Tasks, NEW r \in TaskRecord, Become(t, r), Orderly(r), TreeKept,
           r.b \in 0..made,
           \A u \in Tasks : Filling(task[u]) => r.b # Fill(task[u]),
           \A u \in Tasks : u # t => task[u].held \cap r.held = {},
           Filling(r) => \/ Filling(task[t]) /\ Fill(r) = Fill(task[t])
                         \/ Fill(r) = made + 1 /\ made' = made + 1,
           \A c \in Buckets : info'[c].sealed =>
               \/ info[c].sealed /\ info'[c].to = info[c].to
               \/ /\ Filling(task[t]) /\ ~Filling(r)
                  /\ c = task[t].b /\ info'[c].to = Fill(task[t])
    PROVE  /\ \A u \in Tasks : Orderly(task'[u]) /\ task'[u].b \in 0..made'
           /\ Exclusive' /\ Apart'
<1>0. /\ task \in [Tasks -> TaskRecord] /\ task' = [task EXCEPT ![t] = r]
      /\ made \in Nat /\ made \in Buckets /\ made' \in {made, made + 1}
      /\ made' \in Buckets
  BY Known, Numbers DEF HInv, TypeOK, TaskTypeOK, Become, TreeKept, TreeTypeOK
<1>1. \A u \in Tasks : task'[u] = IF u = t THEN r ELSE task[u]
  BY <1>0
<1>2. \A u \in Tasks : Orderly(task'[u]) /\ task'[u].b \in 0..made'
  BY <1>0, <1>1 DEF SInv
<1>3. Exclusive'
  BY <1>1 DEF SInv, Exclusive
<1>4. ASSUME NEW b, b \in 1..made, Secluded(b), b # r.b,
             ~(Filling(task[t]) /\ ~Filling(r) /\ b = Fill(task[t]))
      PROVE  Secluded(b)'
    <2>1. b \in Buckets /\ b \in 1..made'
      BY <1>0, <1>4, Known
    <2>2. \A u \in Tasks : task'[u].b # b
      BY <1>1, <1>4 DEF Secluded
    <2>3. ~info'[b].sealed
      BY <1>4, <2>1 DEF Secluded
    <2>4. ASSUME NEW c \in Buckets, Leads(c)' PROVE info'[c].to # b
        <3>1. info'[c].sealed /\ info'[c].to > c
          BY <2>4 DEF Leads
        <3>2. CASE info[c].sealed /\ info'[c].to = info[c].to
            <4>1. info[c].to \in (c + 1)..made
              BY <1>0, <3>1, <3>2, Numbers DEF HInv, Rows, Forward, None
            <4>2. Leads(c)
              BY <1>0, <3>2, <4>1, Numbers DEF Leads, Made
            <4> QED BY <1>4, <3>2, <4>2 DEF Secluded
        <3>3. CASE Filling(task[t]) /\ ~Filling(r) /\ info'[c].to = Fill(task[t])
          BY <1>4, <3>3
        <3> QED BY <3>1, <3>2, <3>3
    <2> QED BY <2>1, <2>2, <2>3, <2>4 DEF Secluded
<1>5. ASSUME NEW b, b = made + 1, made' = made + 1, Filling(r)
      PROVE  Secluded(b)'
    <2>1. b \in Buckets /\ b \in 1..made'
      BY <1>0, <1>5
    <2>2. \A u \in Tasks : task'[u].b # b
      BY <1>0, <1>1, <1>5 DEF SInv
    <2>3. ~info'[b].sealed
        <3>1. ~info[b].sealed
          BY <1>0, <1>5, <2>1 DEF HInv, Rows, Forward
        <3> QED BY <1>0, <1>5, <2>1, <3>1 DEF SInv
    <2>4. ASSUME NEW c \in Buckets, Leads(c)' PROVE info'[c].to # b
        <3>1. info'[c].sealed
          BY <2>4 DEF Leads
        <3>2. info[c].sealed /\ info'[c].to = info[c].to
          BY <1>5, <3>1
        <3>3. info[c].to \in 0..made
          BY <1>0, <3>2, Numbers DEF HInv, Rows, Forward, None
        <3> QED BY <1>0, <1>5, <3>2, <3>3
    <2> QED BY <2>1, <2>2, <2>3, <2>4 DEF Secluded
<1>6. \A u \in Tasks : task'[u] \in TaskRecord /\ task[u] \in TaskRecord
  BY <1>0
<1>7. ASSUME NEW u \in Tasks, Filling(task[u])
      PROVE  Fill(task[u]) \in Buckets /\ Fill(task[u]) \in 1..made /\ Secluded(Fill(task[u]))
    <2>1. Fill(task[u]) \in Buckets
      BY <1>6, <1>7, Numbers DEF Filling, Fill, TaskRecord
    <2> QED BY <1>7, <2>1 DEF SInv, Apart, Secluded
<1>8. ASSUME NEW u \in Tasks, NEW b \in Buckets, Filling(task'[u]), b = Fill(task'[u])
      PROVE  Secluded(b)'
    <2>1. CASE u # t
        <3>1. task'[u] = task[u] /\ Filling(task[u])
          BY <1>1, <1>8, <2>1
        <3>2. Filling(task[t]) => b # Fill(task[t])
          BY <1>8, <2>1, <3>1 DEF SInv, Apart
        <3>3. b \in 1..made /\ Secluded(b) /\ b # r.b
          BY <1>7, <1>8, <3>1
        <3> QED BY <1>4, <3>2, <3>3
    <2>2. CASE u = t
        <3>1. task'[u] = r /\ Filling(r)
          BY <1>1, <1>8, <2>2
        <3>2. CASE Filling(task[t]) /\ Fill(r) = Fill(task[t])
            <4>1. b \in 1..made /\ Secluded(b) /\ b # r.b
              BY <1>7, <1>8, <3>1, <3>2
            <4> QED BY <1>4, <3>1, <4>1
        <3>3. CASE Fill(r) = made + 1 /\ made' = made + 1
          BY <1>5, <1>8, <3>1, <3>3
        <3> QED BY <3>1, <3>2, <3>3
    <2> QED BY <2>1, <2>2
<1>9. ASSUME NEW u \in Tasks, NEW v \in Tasks, u # v, Filling(task'[u]), Filling(task'[v])
      PROVE  Fill(task'[u]) # Fill(task'[v])
    <2>1. ASSUME NEW w \in Tasks, w # t, Filling(r), Filling(task[w]) PROVE Fill(r) # Fill(task[w])
      BY <1>0, <1>7, <2>1 DEF SInv, Apart
    <2> QED BY <1>1, <1>9, <2>1 DEF SInv, Apart
<1>10. Apart'
  BY <1>8, <1>9 DEF Apart, Filling, Fill
<1> QED BY <1>2, <1>3, <1>10

\* A step that writes no memory.
LEMMA Proceeds ==
    ASSUME HInv, SInv, NEW t \in Tasks, NEW r \in TaskRecord, Become(t, r), Orderly(r), TreeKept,
           r.b \in 0..made,
           \A u \in Tasks : Filling(task[u]) => r.b # Fill(task[u]),
           \A u \in Tasks : u # t => task[u].held \cap r.held = {},
           Filling(r) => \/ Filling(task[t]) /\ Fill(r) = Fill(task[t])
                         \/ Fill(r) = made + 1 /\ made' = made + 1,
           \A c \in Buckets : info'[c].sealed =>
               \/ info[c].sealed /\ info'[c].to = info[c].to
               \/ /\ Filling(task[t]) /\ ~Filling(r)
                  /\ c = task[t].b /\ info'[c].to = Fill(task[t])
                  /\ Inside(c) \subseteq forgone',
           \A m \in Mems : rec'[m] = rec[m], forgone \subseteq forgone',
           Rebuilding(r) => Inside(r.b) \subseteq Left(r),
           task[t].pc = "in" => task[t].key \in forgone'
    PROVE  SInv'
<1>0. task \in [Tasks -> TaskRecord] /\ task' = [task EXCEPT ![t] = r] /\ made \in Nat
  BY Known DEF HInv, TypeOK, TaskTypeOK, Become
<1>1. \A u \in Tasks : task'[u] = IF u = t THEN r ELSE task[u]
  BY <1>0
<1>5. /\ \A u \in Tasks : Orderly(task'[u]) /\ task'[u].b \in 0..made'
      /\ Exclusive' /\ Apart'
    <2>1. \A c \in Buckets : info'[c].sealed =>
               \/ info[c].sealed /\ info'[c].to = info[c].to
               \/ /\ Filling(task[t]) /\ ~Filling(r)
                  /\ c = task[t].b /\ info'[c].to = Fill(task[t])
        OBVIOUS
    <2> HIDE DEF HInv, SInv
    <2> QED BY <2>1, ApartKept
<1>7. ASSUME NEW u \in Tasks, NEW m \in Mems,
             Rebuilding(task'[u]), Live(m)', rec'[m].bucket = task'[u].b
      PROVE  m \in Left(task'[u])
    <2>0. Live(m) /\ rec[m].bucket = task'[u].b
      BY <1>7 DEF Live
    <2>1. CASE u # t
      BY <1>1, <1>7, <2>0, <2>1 DEF SInv
    <2>2. CASE u = t
      BY <1>1, <1>7, <2>0, <2>2 DEF Inside
    <2> QED BY <2>1, <2>2
<1>8. ASSUME NEW m \in Mems PROVE Tended(m)'
    <2>1. SUFFICES ASSUME rec[m].bucket # None, m \notin forgone'
                   PROVE  (Live(m) /\ ~info[rec[m].bucket].sealed)' \/ OnTheWay(m)'
      BY DEF Tended
    <2>2. m \notin forgone /\ rec'[m] = rec[m]
      BY <2>1
    <2>3. CASE Live(m) /\ ~info[rec[m].bucket].sealed
        <3>1. m \in Keys /\ rec[m].bucket \in Buckets
          BY <2>1, Numbers, Known DEF TreeTypeOK, MemoryRecord
        <3>2. m \in Inside(rec[m].bucket)
          BY <2>3 DEF Inside
        <3>3. ~info'[rec[m].bucket].sealed
          BY <2>1, <2>3, <3>1, <3>2
        <3> QED BY <2>2, <2>3, <3>3 DEF Live
    <2>4. CASE OnTheWay(m)
        <3>1. PICK u \in Tasks : task[u].pc = "in" /\ task[u].key = m
          BY <2>4 DEF OnTheWay
        <3>2. u # t
          BY <2>1, <3>1
        <3> QED BY <1>1, <3>1, <3>2 DEF OnTheWay
    <2> QED BY <2>1, <2>2, <2>3, <2>4 DEF SInv, Tended
<1> QED BY <1>5, <1>7, <1>8 DEF SInv, Orderly, Rebuilding, Left

\* A step that only moves task t on.
LEMMA GoingOn ==
    ASSUME HInv, SInv, NEW t \in Tasks, NEW r \in TaskRecord, GoesOn(t, r), Calm,
           task[t].pc = "in" => task[t].key \in forgone'
    PROVE  SInv'
<1>0. task \in [Tasks -> TaskRecord] /\ made \in Nat
  BY Known DEF HInv, TypeOK, TaskTypeOK
<1>1. r.b \in 0..made
  BY <1>0 DEF GoesOn, SInv, None
<1>2. \A u \in Tasks : Filling(task[u]) => r.b # Fill(task[u])
    <2>1. \A u \in Tasks : Filling(task[u]) => Fill(task[u]) \in Buckets /\ Fill(task[u]) # None
      BY <1>0, Numbers DEF Filling, Fill, TaskRecord
    <2> QED BY <2>1 DEF GoesOn, SInv, Apart, Secluded
<1>3. \A u \in Tasks : u # t => task[u].held \cap r.held = {}
  BY DEF GoesOn, SInv, Exclusive
<1>4. Rebuilding(r) => Inside(r.b) \subseteq Left(r)
  BY DEF GoesOn, SInv, Inside
<1>5. /\ Become(t, r) /\ Orderly(r) /\ TreeKept
      /\ Filling(r) => Filling(task[t]) /\ Fill(r) = Fill(task[t])
      /\ \A c \in Buckets : info'[c].sealed => info[c].sealed /\ info'[c].to = info[c].to
      /\ \A m \in Mems : rec'[m] = rec[m]
      /\ forgone \subseteq forgone'
  BY DEF GoesOn, Calm
<1> HIDE DEF HInv, SInv
<1> QED BY <1>1, <1>2, <1>3, <1>4, <1>5, Proceeds

\* A step that writes a record and moves its task on.
LEMMA WritesOn ==
    ASSUME HInv, SInv, NEW t \in Tasks, NEW r \in TaskRecord, Become(t, r), Orderly(r),
           r.b \in {task[t].b, None}, r.held \subseteq task[t].held,
           Filling(r) => Filling(task[t]) /\ Fill(r) = Fill(task[t]),
           NEW k \in Keys, NEW w \in MemoryRecord, Write(k, w), UNCHANGED forgone,
           \A u \in Tasks : u # t /\ Rebuilding(task[u]) => w.gray \/ w.bucket # task[u].b,
           Rebuilding(r) => /\ Rebuilding(task[t]) /\ r.b = task[t].b
                            /\ Left(task[t]) \ {k} \subseteq Left(r)
                            /\ w.gray \/ w.bucket # r.b,
           \/ w.bucket # None /\ ~w.gray
           \/ r.pc = "in" /\ r.key = k,
           task[t].pc = "in" => task[t].key = k
    PROVE  SInv'
<1>0. /\ task \in [Tasks -> TaskRecord] /\ task' = [task EXCEPT ![t] = r] /\ made \in Nat
      /\ TreeTypeOK /\ Rows
  BY Known DEF HInv, TypeOK, TaskTypeOK, Become
<1>1. \A u \in Tasks : task'[u] = IF u = t THEN r ELSE task[u]
  BY <1>0
<1>2. r.b \in 0..made
  BY <1>0 DEF SInv, None
<1>3. \A u \in Tasks : Filling(task[u]) => r.b # Fill(task[u])
    <2>1. \A u \in Tasks : Filling(task[u]) => Fill(task[u]) \in Buckets /\ Fill(task[u]) # None
      BY <1>0, Numbers DEF Filling, Fill, TaskRecord
    <2> QED BY <2>1 DEF SInv, Apart, Secluded
<1>4. \A u \in Tasks : u # t => task[u].held \cap r.held = {}
  BY DEF SInv, Exclusive
<1>5. TreeKept /\ made' = made /\ info' = info
  BY <1>0, WriteKeeps DEF Write
<1>6. /\ \A u \in Tasks : Orderly(task'[u]) /\ task'[u].b \in 0..made'
      /\ Exclusive' /\ Apart'
    <2> HIDE DEF HInv, SInv
    <2> QED BY <1>2, <1>3, <1>4, <1>5, ApartKept
<1>7. /\ rec'[k] = w /\ ~info[w.bucket].sealed
      /\ \A m \in Mems : m # k => rec'[m] = rec[m]
  BY <1>0, Numbers DEF Write, MayWrite, TreeTypeOK
<1>9. ASSUME NEW u \in Tasks, NEW m \in Mems,
             Rebuilding(task'[u]), Live(m)', rec'[m].bucket = task'[u].b
      PROVE  m \in Left(task'[u])
    <2>0. m # k => Live(m) /\ rec[m].bucket = task'[u].b
      BY <1>7, <1>9 DEF Live
    <2>3. m = k => ~w.gray /\ w.bucket = task'[u].b
      BY <1>7, <1>9 DEF Live
    <2>1. CASE u # t
        <3>1. task'[u] = task[u] /\ Rebuilding(task[u])
          BY <1>1, <1>9, <2>1
        <3> QED BY <2>0, <2>1, <2>3, <3>1 DEF SInv
    <2>2. CASE u = t
        <3>1. /\ task'[u] = r /\ Rebuilding(task[t]) /\ r.b = task[t].b
              /\ Left(task[t]) \ {k} \subseteq Left(r) /\ (w.gray \/ w.bucket # r.b)
          BY <1>1, <1>9, <2>2
        <3>2. m # k
          BY <2>3, <3>1
        <3>3. m \in Left(task[t])
          BY <2>0, <3>1, <3>2 DEF SInv
        <3> QED BY <3>1, <3>2, <3>3
    <2> QED BY <2>1, <2>2
<1>10. ASSUME NEW m \in Mems PROVE Tended(m)'
    <2>1. CASE m = k
        <3>1. CASE w.bucket # None /\ ~w.gray
          BY <1>5, <1>7, <2>1, <3>1 DEF Tended, Live
        <3>2. CASE r.pc = "in" /\ r.key = k
          BY <1>1, <2>1, <3>2 DEF Tended, OnTheWay
        <3> QED BY <3>1, <3>2
    <2>2. CASE m # k
        <3>1. SUFFICES ASSUME rec[m].bucket # None, m \notin forgone
                       PROVE  (Live(m) /\ ~info[rec[m].bucket].sealed)' \/ OnTheWay(m)'
          BY <1>7, <2>2 DEF Tended
        <3>2. CASE Live(m) /\ ~info[rec[m].bucket].sealed
          BY <1>5, <1>7, <2>2, <3>2 DEF Live
        <3>3. CASE OnTheWay(m)
            <4>1. PICK u \in Tasks : task[u].pc = "in" /\ task[u].key = m
              BY <3>3 DEF OnTheWay
            <4>2. u # t
              BY <2>2, <4>1
            <4> QED BY <1>1, <4>1, <4>2 DEF OnTheWay
        <3> QED BY <3>1, <3>2, <3>3 DEF SInv, Tended
    <2> QED BY <2>1, <2>2
<1> QED BY <1>6, <1>9, <1>10 DEF SInv, Orderly, Rebuilding, Left

\* What a step may take for granted.
LEMMA Granted ==
    ASSUME HInv, SInv, NEW t \in Tasks
    PROVE  /\ Orderly(task[t]) /\ task[t].b \in 0..made
           /\ \A u \in Tasks : Filling(task[u]) =>
                 /\ Secluded(Fill(task[u])) /\ Fill(task[u]) \in 1..made
                 /\ task[t].b # Fill(task[u])
           /\ \A u \in Tasks : u # t => task[u].held \cap task[t].held = {}
<1>1. task \in [Tasks -> TaskRecord]
  BY DEF HInv, TypeOK, TaskTypeOK
<1>2. \A u \in Tasks : Filling(task[u]) => Fill(task[u]) \in Buckets
  BY <1>1, Numbers DEF Filling, Fill, TaskRecord
<1>3. \A u \in Tasks : Filling(task[u]) => Secluded(Fill(task[u]))
  BY <1>2 DEF SInv, Apart
<1> QED BY <1>3 DEF SInv, Secluded, Exclusive

LEMMA IdleIsOrderly ==
    /\ Orderly(Idle) /\ ~Filling(Idle) /\ ~Rebuilding(Idle)
    /\ Idle.b = None /\ Idle.held = {} /\ Idle.into = None /\ Idle.pc = "done" /\ Idle.op = "idle"
    /\ Idle.child = None /\ Idle.want = {}
<1>1. /\ Idle.b = None /\ Idle.held = {} /\ Idle.into = None /\ Idle.pc = "done" /\ Idle.op = "idle"
      /\ Idle.child = None /\ Idle.want = {}
  BY DEF Idle
<1> QED BY <1>1 DEF Orderly, Filling, Fill, Rebuilding, Carrying, Compressing, Summing, KeyOps

\* An operation that returns or raises, unless it holds a record in its hands.
LEMMA LetsGo ==
    ASSUME HInv, SInv, NEW t \in Tasks, Quit(t), Calm,
           task[t].pc = "in" => task[t].key \in forgone'
    PROVE  SInv'
<1>1. GoesOn(t, Idle)
  BY IdleIsOrderly DEF GoesOn, Quit
<1>2. Idle \in TaskRecord
  BY IdleIsSound
<1> QED BY <1>1, <1>2, GoingOn

LEMMA StillCalm ==
    ASSUME HInv, UNCHANGED treeVars, forgone \subseteq forgone'
    PROVE  Calm
<1>1. TreeKept /\ made' = made /\ info' = info /\ rec' = rec
  BY OthersKeep DEF HInv, TypeOK, treeVars
<1> QED BY <1>1 DEF Calm

LEMMA CalmTitles ==
    ASSUME HInv, forgone \subseteq forgone',
           \/ UNCHANGED treeVars
           \/ \E p \in Buckets, s \in Titles \cup {None}, c \in Buckets \cup {None} : SetTitle(p, s, c)
           \/ \E p, c \in Buckets \cup {None} : RemoveTitleRefs(p, c)
           \/ \E b \in Buckets : SetRoot(b)
    PROVE  Calm
<1>1. TreeKept /\ made' = made
  BY OthersKeep DEF HInv, TypeOK
<1>2. info' = info /\ rec' = rec
  BY DEF treeVars, SetTitle, RemoveTitleRefs, SetRoot
<1> QED BY <1>1, <1>2 DEF Calm

LEMMA CalmReparent ==
    ASSUME HInv, forgone \subseteq forgone',
           NEW c \in Buckets, NEW p \in Buckets, NEW preserve \in BOOLEAN, Reparent(c, p, preserve)
    PROVE  Calm
<1>1. TreeKept /\ made' = made
  BY ReparentKeeps DEF HInv, TypeOK
<1>2. rec' = rec
  BY DEF Reparent
<1>3. ASSUME NEW x \in Buckets PROVE info'[x].sealed = info[x].sealed /\ info'[x].to = info[x].to
    <2> DEFINE q == IF x = c THEN p ELSE info[x].parent
               C == IF x = p THEN info[x].children \cup {c}
                    ELSE IF x = info[c].parent THEN Without(info[x].children, c)
                    ELSE info[x].children
    <2>1. info[x] \in BucketInfo
      BY DEF HInv, TypeOK, TreeTypeOK
    <2>2. info'[x] = [info[x] EXCEPT !.parent = q, !.children = C]
      BY <2>1 DEF Reparent, BucketInfo
    <2> HIDE DEF q, C
    <2> QED BY <2>1, <2>2 DEF BucketInfo
<1> QED BY <1>1, <1>2, <1>3 DEF Calm

LEMMA CalmSave ==
    ASSUME HInv, forgone \subseteq forgone', NEW b \in 1..made, NEW row \in BucketInfo,
           row.level = info[b].level, ~row.sealed, SaveInfo(b, row)
    PROVE  Calm
<1>1. TreeKept /\ made' = made
  BY SaveKeeps DEF HInv, TypeOK, Forward
<1>2. rec' = rec /\ info' = [info EXCEPT ![b] = row]
  BY DEF SaveInfo
<1>3. info \in [Buckets -> BucketInfo]
  BY DEF HInv, TypeOK, TreeTypeOK
<1> QED BY <1>1, <1>2, <1>3 DEF Calm

\* The record of a bucket is not a memory's.
LEMMA CalmWrite ==
    ASSUME HInv, forgone \subseteq forgone', NEW k \in Buckets \cup {None}, NEW w,
           k \in Keys => w \in MemoryRecord, Write(k, w)
    PROVE  Calm
<1>1. TreeKept /\ made' = made
  BY WriteKeeps, Numbers DEF HInv, TypeOK
<1>2. info' = info /\ rec' = [rec EXCEPT ![k] = w]
  BY DEF Write
<1>3. \A m \in Mems : m # k /\ m \in Keys
  BY Numbers, TreeAssumption DEF TreeAssumption, None
<1>4. rec \in [Keys -> MemoryRecord]
  BY DEF HInv, TypeOK, TreeTypeOK
<1> QED BY <1>1, <1>2, <1>3, <1>4 DEF Calm

\* A record of a bucket is written, or the operation raises.
LEMMA PutGoesOn ==
    ASSUME HInv, SInv, NEW t \in Tasks, task[t].pc # "in", NEW k \in Buckets \cup {None}, NEW w,
           k \in Keys => w \in MemoryRecord,
           NEW q \in TaskRecord, Become(t, q) => GoesOn(t, q), Put(t, k, w, q)
    PROVE  SInv'
<1>1. CASE Write(k, w) /\ Become(t, q) /\ Unobserved
    <2>1. Calm
      BY <1>1, CalmWrite DEF Unobserved
    <2> HIDE DEF HInv, SInv
    <2> QED BY <1>1, <2>1, GoingOn
<1>2. CASE GiveUp(t)
    <2>1. Calm
      BY <1>2, StillCalm DEF GiveUp, LocalStep
    <2> HIDE DEF HInv, SInv
    <2> QED BY <1>2, <2>1, LetsGo DEF GiveUp
<1> QED BY <1>1, <1>2 DEF Put

LEMMA RehangGoesOn ==
    ASSUME HInv, SInv, NEW t \in Tasks, task[t].pc # "in",
           NEW c \in Buckets, NEW p \in Buckets, NEW preserve \in BOOLEAN,
           NEW q \in TaskRecord, Become(t, q) => GoesOn(t, q),
           \/ Reparent(c, p, preserve) /\ Become(t, q) /\ Unobserved
           \/ GiveUp(t)
    PROVE  SInv'
<1>1. CASE Reparent(c, p, preserve) /\ Become(t, q) /\ Unobserved
    <2>1. Calm
      BY <1>1, CalmReparent DEF Unobserved
    <2> HIDE DEF HInv, SInv
    <2> QED BY <1>1, <2>1, GoingOn
<1>2. CASE GiveUp(t)
    <2>1. Calm
      BY <1>2, StillCalm DEF GiveUp, LocalStep
    <2> HIDE DEF HInv, SInv
    <2> QED BY <1>2, <2>1, LetsGo DEF GiveUp
<1> QED BY <1>1, <1>2

\* Nothing but the task changes.
LEMMA LocalGoesOn ==
    ASSUME HInv, SInv, NEW t \in Tasks, task[t].pc # "in", LocalStep,
           NEW q \in TaskRecord, Become(t, q) => GoesOn(t, q), Become(t, q) \/ Quit(t)
    PROVE  SInv'
<1>1. Calm
  BY StillCalm DEF LocalStep
<1>2. CASE Become(t, q)
    <2> HIDE DEF HInv, SInv
    <2> QED BY <1>1, <1>2, GoingOn
<1>3. CASE Quit(t)
    <2> HIDE DEF HInv, SInv
    <2> QED BY <1>1, <1>3, LetsGo
<1> QED BY <1>2, <1>3

----------------------------------------------------------------------------
(* Again one lemma per group of actions.                                     *)

LEMMA LookSafe ==
    ASSUME HInv, SInv, NEW t \in Tasks, Look(t)
    PROVE  SInv'
<1> DEFINE x == task[t]
<1>0. /\ x \in TaskRecord /\ x.op = "set" /\ x.pc = "look" /\ LocalStep
      /\ Orderly(x)
  BY Known, Granted DEF Look, At, Sound, InPlace
<1>1. ASSUME NEW q \in {"aim", "retitle", "untitle"}, NEW c \in 0..MaxBuckets,
             Become(t, [x EXCEPT !.pc = q, !.child = c])
      PROVE  SInv'
    <2> DEFINE r == [x EXCEPT !.pc = q, !.child = c]
    <2>1. r \in TaskRecord
      BY <1>0 DEF TaskRecord, Places
    <2>2. r.pc = q /\ r.op = "set" /\ r.b = x.b /\ r.held = x.held
      BY <1>0 DEF TaskRecord
    <2>3. Become(t, r)
      BY <1>1
    <2> HIDE DEF r
    <2>4. GoesOn(t, r)
      BY <1>0, <2>2, <2>3 DEF GoesOn, Orderly, Filling, Rebuilding, Compressing, Summing,
        Carrying, KeyOps
    <2> HIDE DEF HInv, SInv
    <2> QED BY <1>0, <2>1, <2>3, <2>4, LocalGoesOn
<1>2. titleOf[x.b][x.title] \in 0..MaxBuckets
    <2>1. x.b \in Buckets /\ x.title \in Titles
      BY <1>0, Known DEF Sound, Sources, Records
    <2> QED BY <2>1, Known, Numbers DEF TreeTypeOK
<1>3. \/ Quit(t)
      \/ Become(t, [x EXCEPT !.pc = "aim", !.child = x.child])
      \/ \E c \in 1..made, q \in {"retitle", "untitle"} :
            Become(t, [x EXCEPT !.pc = q, !.child = c])
      \/ Become(t, [x EXCEPT !.pc = "untitle", !.child = titleOf[x.b][x.title]])
    <2>1. [x EXCEPT !.pc = "aim"] = [x EXCEPT !.pc = "aim", !.child = x.child]
      BY <1>0 DEF TaskRecord
    <2> QED BY <2>1 DEF Look, Step
<1>4. CASE Quit(t)
    <2>1. Calm
      BY <1>0, StillCalm DEF LocalStep
    <2> HIDE DEF HInv, SInv
    <2> QED BY <1>0, <1>4, <2>1, LetsGo
<1>5. x.child \in 0..MaxBuckets /\ \A c \in 1..made : c \in 0..MaxBuckets
  BY <1>0, Known DEF TaskRecord
<1> HIDE DEF x, HInv, SInv
<1> QED BY <1>1, <1>2, <1>3, <1>4, <1>5

LEMMA FixTitleSafe ==
    ASSUME HInv, SInv, NEW t \in Tasks, FixTitle(t)
    PROVE  SInv'
<1> DEFINE x == task[t]
           r == [x EXCEPT !.pc = "aim"]
<1>0. /\ x \in TaskRecord /\ x.pc \in {"retitle", "untitle"} /\ Orderly(x)
      /\ UNCHANGED <<ops, asked, forgone>>
  BY Known, Granted DEF FixTitle, At, Unobserved
<1>1. x.op = "set" /\ x.b \in Buckets /\ x.child \in Buckets \cup {None} /\ x.title \in Titles \cup {None}
  BY <1>0, Known, Numbers DEF Sound, Sources, InPlace, TaskRecord
<1>2. Calm
    <2>1. \/ SetTitle(x.b, x.title, x.child)
          \/ UNCHANGED treeVars
          \/ RemoveTitleRefs(x.b, x.child)
      BY DEF FixTitle
    <2> HIDE DEF x
    <2> QED BY <1>0, <1>1, <2>1, CalmTitles
<1>3. Quit(t) \/ Become(t, r)
  BY DEF FixTitle, Step
<1>4. r \in TaskRecord
  BY <1>0 DEF TaskRecord, Places
<1>5. r.pc = "aim" /\ r.op = "set" /\ r.b = x.b /\ r.held = x.held
  BY <1>0, <1>1 DEF TaskRecord
<1> HIDE DEF r
<1>6. Become(t, r) => GoesOn(t, r)
  BY <1>0, <1>5 DEF GoesOn, Orderly, Filling, Rebuilding, Compressing, Summing, Carrying, KeyOps
<1> HIDE DEF HInv, SInv
<1> QED BY <1>0, <1>2, <1>3, <1>4, <1>6, GoingOn, LetsGo

LEMMA AimSafe ==
    ASSUME HInv, SInv, NEW t \in Tasks, Aim(t)
    PROVE  SInv'
<1> DEFINE x == task[t]
<1>0. x \in TaskRecord /\ x.pc = "aim" /\ LocalStep /\ Orderly(x)
  BY Known, Granted DEF Aim, At
<1>1. PICK p \in {None} \cup 1..made : Quit(t) \/ Become(t, [x EXCEPT !.pc = "make", !.up = p])
  BY DEF Aim
<1> DEFINE r == [x EXCEPT !.pc = "make", !.up = p]
<1>2. r \in TaskRecord
    <2>1. p \in 0..MaxBuckets
      BY Known
    <2> QED BY <1>0, <2>1 DEF TaskRecord, Places
<1>3. /\ r.pc = "make" /\ r.op = x.op /\ r.b = x.b /\ r.held = x.held /\ r.into = x.into
      /\ r.child = x.child /\ r.dst = x.dst /\ r.keys = x.keys /\ r.drop = x.drop
      /\ r.rest = x.rest
  BY <1>0 DEF TaskRecord
<1>4. Quit(t) \/ Become(t, r)
  BY <1>1
<1> HIDE DEF r
<1>5. Become(t, r) => GoesOn(t, r)
  BY <1>0, <1>3 DEF GoesOn, Orderly, Filling, Fill, Rebuilding, Left, Compressing, Summing,
    Carrying, KeyOps
<1> HIDE DEF HInv, SInv
<1> QED BY <1>0, <1>2, <1>4, <1>5, LocalGoesOn

\* The successor's row, or a group's, is not sealed while the summary is made.
LEMMA MergeSafe ==
    ASSUME HInv, SInv, NEW t \in Tasks, Merge(t)
    PROVE  SInv'
<1> DEFINE x == task[t]
           r == [x EXCEPT !.pc = "save", !.old = info[x.dst], !.sums = <<x.dst>>]
<1>0. x \in TaskRecord /\ x.pc = "merge" /\ LocalStep /\ Orderly(x) /\ Become(t, r)
  BY Known, Granted DEF Merge, At
<1>1. x.op = "compress" /\ x.into = x.dst /\ x.into # None
  BY <1>0, Known DEF Sound, InPlace, Compressing, Orderly
<1>2. x.dst \in 1..made /\ ~info[x.dst].sealed
    <2>1. Filling(x) /\ Fill(x) = x.dst
      BY <1>0, <1>1 DEF Filling, Fill
    <2> QED BY <2>1, Granted DEF Secluded
<1>3. x.dst \in Buckets /\ info[x.dst] \in BucketInfo
  BY <1>2, Known DEF TreeTypeOK
<1>4. r \in TaskRecord
    <2>1. <<x.dst>> \in Seq(Buckets)
      BY <1>3
    <2> QED BY <1>0, <1>3, <2>1 DEF TaskRecord, Places
<1>5. /\ r.pc = "save" /\ r.op = x.op /\ r.b = x.b /\ r.held = x.held /\ r.into = x.into
      /\ r.child = x.child /\ r.dst = x.dst /\ r.keys = x.keys /\ r.drop = x.drop
      /\ r.rest = x.rest /\ r.old = info[x.dst]
  BY <1>0 DEF TaskRecord
<1> HIDE DEF r
<1>6. GoesOn(t, r)
  BY <1>0, <1>1, <1>2, <1>5 DEF GoesOn, Orderly, Filling, Fill, Rebuilding, Left, Compressing,
    Summing, Carrying, KeyOps
<1> HIDE DEF HInv, SInv
<1> QED BY <1>0, <1>4, <1>6, LocalGoesOn

LEMMA CarrySafe ==
    ASSUME HInv, SInv, NEW t \in Tasks, Carry(t)
    PROVE  SInv'
<1> DEFINE x == task[t]
<1>0. x \in TaskRecord /\ x.pc = "carry" /\ LocalStep /\ Orderly(x) /\ x.op = "compress"
  BY Known, Granted DEF Carry, At, Sound, InPlace, Compressing
<1>1. x.into = x.dst /\ x.into # None
  BY <1>0 DEF Orderly, Compressing
<1>2. CASE x.keys = {}
    <2>1. PICK q \in {"merge", "seal"} : Step(t, q)
      BY <1>2 DEF Carry
    <2> DEFINE r == [x EXCEPT !.pc = q]
    <2>2. r \in TaskRecord
      BY <1>0 DEF TaskRecord, Places
    <2>3. /\ r.pc = q /\ r.op = x.op /\ r.b = x.b /\ r.held = x.held /\ r.into = x.into
          /\ r.child = x.child /\ r.dst = x.dst /\ r.keys = x.keys /\ r.drop = x.drop
          /\ r.rest = x.rest
      BY <1>0 DEF TaskRecord
    <2>4. Become(t, r)
      BY <2>1 DEF Step
    <2> HIDE DEF r
    <2>5. GoesOn(t, r)
      BY <1>0, <1>1, <1>2, <2>3, <2>4 DEF GoesOn, Orderly, Filling, Fill, Rebuilding, Left,
        Compressing, Summing, Carrying, KeyOps
    <2> HIDE DEF HInv, SInv
    <2> QED BY <1>0, <2>2, <2>4, <2>5, LocalGoesOn
<1>3. CASE x.keys # {}
    <2>1. PICK k \in x.keys : Become(t, [x EXCEPT !.key = k, !.keys = Without(x.keys, k),
                    !.pc = IF x.was[k].child # None THEN "rehang" ELSE "place"])
      BY <1>0, <1>3 DEF Carry, TaskRecord
    <2> DEFINE q == IF x.was[k].child # None THEN "rehang" ELSE "place"
               K == Without(x.keys, k)
               r == [x EXCEPT !.key = k, !.keys = K, !.pc = q]
    <2>2. k \in Keys /\ K \in SUBSET Keys /\ q \in {"rehang", "place"} /\ x.keys = K \cup {k}
      BY <1>0 DEF TaskRecord, Without
    <2>4. Become(t, r)
      BY <2>1
    <2> HIDE DEF q, K
    <2>5. r \in TaskRecord
      BY <1>0, <2>2 DEF TaskRecord, Places
    <2>3. /\ r.pc = q /\ r.op = x.op /\ r.b = x.b /\ r.held = x.held /\ r.into = x.into
          /\ r.child = x.child /\ r.dst = x.dst /\ r.keys = K /\ r.drop = x.drop
          /\ r.rest = x.rest /\ r.key = k
      BY <1>0 DEF TaskRecord
    <2> HIDE DEF r
    <2>6. GoesOn(t, r)
      BY <1>0, <1>1, <2>2, <2>3, <2>4 DEF GoesOn, Orderly, Filling, Fill, Rebuilding, Left,
        Compressing, Summing, Carrying, KeyOps
    <2> HIDE DEF HInv, SInv
    <2> QED BY <1>0, <2>4, <2>5, <2>6, LocalGoesOn
<1> QED BY <1>2, <1>3

LEMMA RehangSafe ==
    ASSUME HInv, SInv, NEW t \in Tasks, RehangCarried(t) \/ RehomeSplit(t)
    PROVE  SInv'
<1> DEFINE x == task[t]
           c == x.was[x.key].child
           q == IF x.pc = "rehang" THEN "place" ELSE "out"
           r == [x EXCEPT !.pc = q]
<1>0. x \in TaskRecord /\ Orderly(x) /\ x.pc \in {"rehang", "rehome"}
  BY Known, Granted DEF RehangCarried, RehomeSplit, At
<1>1. /\ c \in Buckets
      /\ x.pc = "rehang" => x.dst \in Buckets /\ x.op = "compress"
      /\ x.pc = "rehome" => x.into \in Buckets /\ x.op = "split"
    <2>1. c \in Buckets
      BY <1>0, Known DEF Sound, Records
    <2>2. x.pc = "rehang" => x.dst \in (x.b + 1)..made /\ x.b \in 1..made /\ x.op = "compress"
      BY <1>0, Known DEF Sound, Sources, InPlace, Succeeding, Compressing
    <2>3. x.pc = "rehome" => x.into \in 1..made /\ x.op = "split"
      BY <1>0, Known DEF Sound, Records, Carrying, Orderly
    <2> QED BY <2>1, <2>2, <2>3, Known
<1>2. q \in {"place", "out"} /\ (q = "place" <=> x.pc = "rehang")
    OBVIOUS
<1>3. \/ x.pc = "rehang" /\ (\/ Reparent(c, x.dst, TRUE) /\ Become(t, r) /\ Unobserved
                             \/ GiveUp(t))
      \/ x.pc = "rehome" /\ (\/ Reparent(c, x.into, x.into = x.dst) /\ Become(t, r) /\ Unobserved
                             \/ GiveUp(t))
  BY DEF RehangCarried, RehomeSplit, Rehang, Step, At
<1> HIDE DEF q, c
<1>4. r \in TaskRecord
  BY <1>0, <1>2 DEF TaskRecord, Places
<1>5. /\ r.pc = q /\ r.op = x.op /\ r.b = x.b /\ r.held = x.held /\ r.into = x.into
      /\ r.child = x.child /\ r.dst = x.dst /\ r.keys = x.keys /\ r.drop = x.drop
      /\ r.rest = x.rest /\ r.key = x.key /\ r.was = x.was
  BY <1>0 DEF TaskRecord
<1> HIDE DEF r
<1>6. Become(t, r) => GoesOn(t, r)
  BY <1>0, <1>1, <1>2, <1>5 DEF GoesOn, Orderly, Filling, Fill, Rebuilding, Left, Compressing,
    Summing, Carrying, KeyOps
<1>7. (x.into = x.dst) \in BOOLEAN /\ task[t].pc # "in"
  BY <1>0
<1> HIDE DEF HInv, SInv, x
<1> QED BY <1>1, <1>3, <1>4, <1>6, <1>7, RehangGoesOn

LEMMA AdoptSafe ==
    ASSUME HInv, SInv, NEW t \in Tasks, Adopt(t)
    PROVE  SInv'
<1> DEFINE x == task[t]
           K == x.rest \cup {x.child}
           r == [x EXCEPT !.pc = "fetch", !.keys = K]
<1>0. x \in TaskRecord /\ Orderly(x) /\ x.pc = "adopt"
  BY Known, Granted DEF Adopt, At
<1>1. x.op = "split" /\ x.child \in Buckets /\ x.dst \in Buckets /\ x.child \in Keys
    <2>1. /\ x.op = "split" /\ x.dst \in (x.b + 1)..made /\ x.child \in 0..made
          /\ x.child # None /\ x.b \in 1..made
      BY <1>0, Known DEF Sound, InPlace, Sources, Children, Splitting, Succeeding, Grouped
    <2> QED BY <2>1, Known, Numbers
<1>2. \/ Reparent(x.child, x.dst, TRUE) /\ Become(t, r) /\ Unobserved
      \/ GiveUp(t)
  BY DEF Adopt
<1>3. K \in SUBSET Keys /\ x.rest \subseteq K
  BY <1>0, <1>1 DEF TaskRecord
<1> HIDE DEF K
<1>4. r \in TaskRecord
  BY <1>0, <1>3 DEF TaskRecord, Places
<1>5. /\ r.pc = "fetch" /\ r.op = x.op /\ r.b = x.b /\ r.held = x.held /\ r.into = x.into
      /\ r.child = x.child /\ r.dst = x.dst /\ r.keys = K /\ r.drop = x.drop
      /\ r.rest = x.rest /\ r.key = x.key /\ r.was = x.was
  BY <1>0 DEF TaskRecord
<1>6. x.keys = {}
  BY <1>0, <1>1, Numbers DEF Orderly
<1> HIDE DEF r
<1>7. Become(t, r) => GoesOn(t, r)
  BY <1>0, <1>1, <1>3, <1>5, <1>6 DEF GoesOn, Orderly, Filling, Fill, Rebuilding, Left,
    Compressing, Summing, Carrying, KeyOps
<1>8. task[t].pc # "in"
  BY <1>0
<1> HIDE DEF HInv, SInv, x
<1> QED BY <1>1, <1>2, <1>4, <1>7, <1>8, RehangGoesOn

\* A record that is no longer live in the source is left where it is.
LEMMA FetchSafe ==
    ASSUME HInv, SInv, NEW t \in Tasks, Fetch(t)
    PROVE  SInv'
<1> DEFINE x == task[t]
<1>0. x \in TaskRecord /\ x.pc = "fetch" /\ LocalStep /\ Orderly(x) /\ x.op = "split"
  BY Known, Granted DEF Fetch, At, Orderly, Carrying
<1>1. CASE x.keys = {}
    <2>1. PICK q \in {"seal", "aim"} : Step(t, q) /\ (q = "seal" <=> x.into = x.dst)
      BY <1>1 DEF Fetch
    <2> DEFINE r == [x EXCEPT !.pc = q]
    <2>2. r \in TaskRecord
      BY <1>0 DEF TaskRecord, Places
    <2>3. /\ r.pc = q /\ r.op = x.op /\ r.b = x.b /\ r.held = x.held /\ r.into = x.into
          /\ r.child = x.child /\ r.dst = x.dst /\ r.keys = x.keys /\ r.drop = x.drop
          /\ r.rest = x.rest
      BY <1>0 DEF TaskRecord
    <2>4. Become(t, r)
      BY <2>1 DEF Step
    <2> HIDE DEF r
    <2>5. GoesOn(t, r)
      BY <1>0, <1>1, <2>1, <2>3, <2>4 DEF GoesOn, Orderly, Filling, Fill, Rebuilding, Left,
        Compressing, Summing, Carrying, KeyOps
    <2> HIDE DEF HInv, SInv
    <2> QED BY <1>0, <2>2, <2>4, <2>5, LocalGoesOn
<1>2. CASE x.keys # {}
    <2>1. PICK k \in x.keys :
            IF Live(k) /\ rec[k].bucket = x.b
            THEN Become(t, [x EXCEPT !.key = k, !.keys = Without(x.keys, k), !.was = Captured({k}),
                    !.pc = IF rec[k].child # None THEN "rehome" ELSE "out"])
            ELSE Become(t, [x EXCEPT !.keys = Without(x.keys, k)])
      BY <1>0, <1>2 DEF Fetch, TaskRecord
    <2> DEFINE K == Without(x.keys, k)
    <2>2. k \in Keys /\ K \in SUBSET Keys /\ x.keys = K \cup {k}
      BY <1>0 DEF TaskRecord, Without
    <2>3. CASE Live(k) /\ rec[k].bucket = x.b
        <3> DEFINE q == IF rec[k].child # None THEN "rehome" ELSE "out"
                   w == Captured({k})
                   r == [x EXCEPT !.key = k, !.keys = K, !.was = w, !.pc = q]
        <3>0. Become(t, r)
          BY <2>1, <2>3
        <3>1. w \in [Keys -> MemoryRecord] /\ w[k] = rec[k] /\ q \in {"rehome", "out"}
          BY <2>2, Known, CapturedTyped DEF Captured
        <3> HIDE DEF q, w, K
        <3>2. r \in TaskRecord
          BY <1>0, <2>2, <3>1 DEF TaskRecord, Places
        <3>3. /\ r.pc = q /\ r.op = x.op /\ r.b = x.b /\ r.held = x.held /\ r.into = x.into
              /\ r.child = x.child /\ r.dst = x.dst /\ r.keys = K /\ r.drop = x.drop
              /\ r.rest = x.rest /\ r.key = k /\ r.was = w
          BY <1>0 DEF TaskRecord
        <3> HIDE DEF r
        <3>4. ~r.was[r.key].gray
          BY <2>3, <3>1, <3>3 DEF Live
        <3>5. GoesOn(t, r)
          BY <1>0, <2>2, <3>0, <3>1, <3>3, <3>4 DEF GoesOn, Orderly, Filling, Fill, Rebuilding,
            Left, Compressing, Summing, Carrying, KeyOps
        <3> HIDE DEF HInv, SInv
        <3> QED BY <1>0, <3>0, <3>2, <3>5, LocalGoesOn
    <2>4. CASE ~(Live(k) /\ rec[k].bucket = x.b)
        <3> DEFINE r == [x EXCEPT !.keys = K]
        <3>0. Become(t, r)
          BY <2>1, <2>4
        <3> HIDE DEF K
        <3>2. r \in TaskRecord
          BY <1>0, <2>2 DEF TaskRecord, Places
        <3>3. /\ r.pc = "fetch" /\ r.op = x.op /\ r.b = x.b /\ r.held = x.held /\ r.into = x.into
              /\ r.child = x.child /\ r.dst = x.dst /\ r.keys = K /\ r.drop = x.drop
              /\ r.rest = x.rest
          BY <1>0 DEF TaskRecord
        <3>4. k \notin Inside(x.b)
          BY <2>4 DEF Inside
        <3> HIDE DEF r
        <3>5. GoesOn(t, r)
          BY <1>0, <2>2, <3>0, <3>3, <3>4 DEF GoesOn, Orderly, Filling, Fill, Rebuilding,
            Left, Compressing, Summing, Carrying, KeyOps
        <3> HIDE DEF HInv, SInv
        <3> QED BY <1>0, <3>0, <3>2, <3>5, LocalGoesOn
    <2> QED BY <2>3, <2>4
<1> QED BY <1>1, <1>2

LEMMA SealSourceSafe ==
    ASSUME HInv, SInv, NEW t \in Tasks, SealSource(t)
    PROVE  SInv'
<1> DEFINE x == task[t]
           r == [x EXCEPT !.pc = "switch"]
<1>0. x \in TaskRecord /\ Orderly(x) /\ x.pc = "seal"
  BY Known, Granted DEF SealSource, At
<1>1. x.b \in Buckets /\ x.dst \in (x.b + 1)..made /\ x.dst # None /\ x.dst # x.b
  BY <1>0, Known DEF Sound, Sources, Succeeding, None
<1>2. x.op \in {"compress", "split"} /\ x.into = x.dst
  BY <1>0 DEF Orderly
<1>3. r \in TaskRecord
  BY <1>0 DEF TaskRecord, Places
<1>4. /\ r.pc = "switch" /\ r.op = x.op /\ r.b = x.b /\ r.held = x.held /\ r.into = x.into
      /\ r.child = x.child /\ r.dst = x.dst /\ r.keys = x.keys /\ r.drop = x.drop
      /\ r.rest = x.rest
  BY <1>0 DEF TaskRecord
<1>5. CASE /\ Seal(x.b, x.dst) /\ Step(t, "switch") /\ forgone' = forgone \cup x.drop
           /\ UNCHANGED <<ops, asked>>
    <2>1. Become(t, r) /\ forgone \subseteq forgone'
      BY <1>5 DEF Step
    <2> HIDE DEF r
    <2>2. TreeKept /\ made' = made /\ \A m \in Mems : rec'[m] = rec[m]
        <3>1. TreeKept /\ made' = made
            <4> HIDE DEF x
            <4> QED BY <1>1, <1>5, Known, SealKeeps
        <3> QED BY <1>5, <3>1 DEF Seal
    <2>3. Orderly(r) /\ ~Filling(r) /\ ~Rebuilding(r)
      BY <1>0, <1>2, <1>4 DEF Orderly, Filling, Rebuilding, Compressing, Summing, Carrying, KeyOps
    <2>4. Filling(x) /\ Fill(x) = x.dst
      BY <1>0, <1>1, <1>2 DEF Filling, Fill
    <2>5. r.b \in 0..made /\ (\A u \in Tasks : Filling(task[u]) => r.b # Fill(task[u]))
          /\ \A u \in Tasks : u # t => task[u].held \cap r.held = {}
      BY <1>4, Granted
    <2>6. Inside(x.b) \subseteq forgone'
        <3>1. Rebuilding(x) /\ Left(x) = x.drop
          BY <1>0, <1>1, <1>2 DEF Rebuilding, Left
        <3> QED BY <1>5, <3>1 DEF Inside, SInv
    <2>7. \A c \in Buckets : info'[c].sealed =>
               \/ info[c].sealed /\ info'[c].to = info[c].to
               \/ /\ Filling(x) /\ ~Filling(r)
                  /\ c = x.b /\ info'[c].to = Fill(x)
                  /\ Inside(c) \subseteq forgone'
        <3> SUFFICES ASSUME NEW c \in Buckets, info'[c].sealed
                     PROVE  \/ info[c].sealed /\ info'[c].to = info[c].to
                            \/ c = x.b /\ info'[c].to = x.dst
          BY <2>3, <2>4, <2>6
        <3>1. info[c] \in BucketInfo
          BY Known DEF TreeTypeOK
        <3>2. CASE c = x.b
            <4>1. info'[c] = [info[c] EXCEPT !.sealed = TRUE, !.to = x.dst]
              BY <1>5, <3>2 DEF Seal
            <4> QED BY <3>1, <3>2, <4>1 DEF BucketInfo
        <3>3. CASE c # x.b
            <4> DEFINE C == Without(info[c].children, x.b) \cup {x.dst}
            <4>1. info'[c] = info[c] \/ info'[c] = [info[c] EXCEPT !.children = C]
              BY <1>5, <3>1, <3>3 DEF Seal, BucketInfo
            <4> HIDE DEF C
            <4> QED BY <3>1, <4>1 DEF BucketInfo
        <3> QED BY <3>2, <3>3
    <2> HIDE DEF HInv, SInv
    <2> QED BY <1>0, <1>3, <2>1, <2>2, <2>3, <2>5, <2>7, Proceeds
<1>6. CASE GiveUp(t)
    <2>1. Calm
      BY <1>6, StillCalm DEF GiveUp, LocalStep
    <2> HIDE DEF HInv, SInv
    <2> QED BY <1>0, <1>6, <2>1, LetsGo DEF GiveUp
<1> QED BY <1>5, <1>6 DEF SealSource

LEMMA SwitchSafe ==
    ASSUME HInv, SInv, NEW t \in Tasks, Switch(t)
    PROVE  SInv'
<1> DEFINE x == task[t]
           q == IF x.op = "split" THEN <<x.child, x.dst>> ELSE <<x.dst>>
           r == [x EXCEPT !.pc = "summary", !.into = None, !.sums = q]
<1>0. /\ x \in TaskRecord /\ Orderly(x) /\ x.pc = "switch" /\ Become(t, r)
      /\ UNCHANGED <<ops, asked, forgone>>
      /\ IF root = x.b THEN SetRoot(x.dst) ELSE UNCHANGED treeVars
  BY Known, Granted DEF Switch, At, Unobserved
<1>1. x.dst \in Buckets
    <2>1. x.b \in 1..made /\ x.dst \in (x.b + 1)..made
      BY <1>0, Known DEF Sound, Sources, Succeeding
    <2> QED BY <2>1, Known
<1>2. x.op = "split" => x.child \in Buckets
  BY <1>0, Known, Numbers DEF Sound, Children, Grouped
<1>3. q \in Seq(Buckets)
  BY <1>1, <1>2
<1> HIDE DEF q
<1>4. r \in TaskRecord
  BY <1>0, <1>3, Known DEF TaskRecord, Places
<1>5. /\ r.pc = "summary" /\ r.op = x.op /\ r.b = x.b /\ r.held = x.held /\ r.into = None
  BY <1>0 DEF TaskRecord
<1>6. Calm
    <2> HIDE DEF x, r
    <2> QED BY <1>0, <1>1, CalmTitles
<1> HIDE DEF r
<1>7. GoesOn(t, r)
  BY <1>0, <1>5 DEF GoesOn, Orderly, Filling, Fill, Rebuilding, Compressing, Summing, Carrying, KeyOps
<1> HIDE DEF HInv, SInv
<1> QED BY <1>0, <1>4, <1>6, <1>7, GoingOn

LEMMA NodeSafe ==
    ASSUME HInv, SInv, NEW t \in Tasks, Node(t)
    PROVE  SInv'
<1> DEFINE x == task[t]
           w == [bucket |-> x.up, gray |-> FALSE, child |-> x.child]
           r == [x EXCEPT !.pc = "fetch", !.into = x.child]
<1>0. /\ x \in TaskRecord /\ Orderly(x) /\ x.pc = "node"
      /\ x.op = "split" => Put(t, x.child, w, r)
      /\ x.op # "split" => Put(t, x.child, w, Idle)
  BY Known, Granted DEF Node, At
<1>1. x.child \in Buckets \cup {None} /\ w \in MemoryRecord
  BY <1>0, Numbers DEF TaskRecord, MemoryRecord
<1>2. r \in TaskRecord
  BY <1>0 DEF TaskRecord, Places
<1>3. /\ r.pc = "fetch" /\ r.op = x.op /\ r.b = x.b /\ r.held = x.held /\ r.into = x.child
      /\ r.child = x.child /\ r.dst = x.dst /\ r.keys = x.keys /\ r.drop = x.drop
      /\ r.rest = x.rest
  BY <1>0 DEF TaskRecord
<1>4. x.op = "split" => x.child # None /\ x.dst = None
  BY <1>0, Known DEF Sound, Children, Grouped
<1> HIDE DEF r, w
<1>5. x.op = "split" /\ Become(t, r) => GoesOn(t, r)
  BY <1>0, <1>3, <1>4 DEF GoesOn, Orderly, Filling, Fill, Rebuilding, Left, Compressing, Summing,
    Carrying, KeyOps
<1>6. Become(t, Idle) => GoesOn(t, Idle)
  BY IdleIsOrderly DEF GoesOn
<1>7. Idle \in TaskRecord
  BY IdleIsSound
<1> HIDE DEF HInv, SInv
<1>8. CASE x.op = "split"
  BY <1>0, <1>1, <1>2, <1>5, <1>8, PutGoesOn
<1>9. CASE x.op # "split"
  BY <1>0, <1>1, <1>6, <1>7, <1>9, PutGoesOn
<1> QED BY <1>8, <1>9

LEMMA AbandonSafe ==
    ASSUME HInv, SInv, NEW t \in Tasks, Abandon(t)
    PROVE  SInv'
<1>1. /\ Quit(t) /\ UNCHANGED treeVars /\ forgone \subseteq forgone'
      /\ task[t].pc = "in" => task[t].key \in forgone'
  BY DEF Abandon, At
<1>2. Calm
  BY <1>1, StillCalm
<1> HIDE DEF HInv, SInv
<1> QED BY <1>1, <1>2, LetsGo

\* A summary changes neither the records nor what the task is rebuilding.
LEMMA AfterSummaryGoesOn ==
    ASSUME NEW t \in Tasks, Orderly(task[t]), task[t].pc \in Summing,
           NEW y \in TaskRecord, y.op = task[t].op, y.b = task[t].b, y.held = task[t].held,
           y.into = task[t].into, y.child = task[t].child, y.dst = task[t].dst,
           y.drop = task[t].drop, Become(t, AfterSummary(y))
    PROVE  GoesOn(t, AfterSummary(y))
<1> DEFINE x == task[t]
<1>1. CASE Len(y.sums) > 1
    <2> DEFINE r == [y EXCEPT !.pc = "summary", !.sums = Tail(y.sums)]
    <2>1. AfterSummary(y) = r
      BY <1>1 DEF AfterSummary
    <2>2. /\ r.pc = "summary" /\ r.op = x.op /\ r.b = x.b /\ r.held = x.held /\ r.into = x.into
          /\ r.child = x.child /\ r.dst = x.dst /\ r.drop = x.drop
      BY DEF TaskRecord
    <2> HIDE DEF r
    <2>3. GoesOn(t, r)
      BY <2>1, <2>2 DEF GoesOn, Orderly, Filling, Fill, Rebuilding, Left, Compressing, Summing,
        Carrying, KeyOps
    <2> QED BY <2>1, <2>3
<1>2. CASE ~(Len(y.sums) > 1) /\ y.into # None
    <2> DEFINE r == [y EXCEPT !.pc = "seal", !.sums = <<>>]
    <2>1. AfterSummary(y) = r
      BY <1>2 DEF AfterSummary
    <2>2. /\ r.pc = "seal" /\ r.op = x.op /\ r.b = x.b /\ r.held = x.held /\ r.into = x.into
          /\ r.child = x.child /\ r.dst = x.dst /\ r.drop = x.drop
      BY DEF TaskRecord
    <2> HIDE DEF r
    <2>3. GoesOn(t, r)
      BY <1>2, <2>1, <2>2 DEF GoesOn, Orderly, Filling, Fill, Rebuilding, Left, Compressing,
        Summing, Carrying, KeyOps
    <2> QED BY <2>1, <2>3
<1>3. CASE ~(Len(y.sums) > 1) /\ y.into = None
    <2>1. AfterSummary(y) = Idle
      BY <1>3 DEF AfterSummary
    <2> QED BY <2>1, IdleIsOrderly DEF GoesOn
<1> QED BY <1>1, <1>2, <1>3

LEMMA SummarySafe ==
    ASSUME HInv, SInv, NEW t \in Tasks, Summary(t) \/ NodeRecord(t)
    PROVE  SInv'
<1> DEFINE x == task[t]
           k == Head(x.sums)
<1>0. x \in TaskRecord /\ Orderly(x) /\ x.pc \in {"summary", "node record"} /\ LocalStep
  BY Known, Granted DEF Summary, NodeRecord, At
<1>1. x.pc \in Summing /\ made \in Buckets /\ info \in [Buckets -> BucketInfo]
  BY <1>0, Known DEF Summing, TreeTypeOK
<1>2. k \in Buckets
  BY <1>1, Heads
<1>3. CASE Become(t, AfterSummary(x))
    <2>1. AfterSummary(x) \in TaskRecord
      BY <1>1, Known, AfterSummarySound
    <2>2. GoesOn(t, AfterSummary(x))
      BY <1>0, <1>1, <1>3, AfterSummaryGoesOn
    <2> HIDE DEF HInv, SInv
    <2> QED BY <1>0, <1>3, <2>1, <2>2, LocalGoesOn
<1>4. CASE ~info[k].sealed /\ Become(t, [x EXCEPT !.pc = "save", !.old = info[k]])
    <2> DEFINE r == [x EXCEPT !.pc = "save", !.old = info[k]]
    <2>1. r \in TaskRecord
      BY <1>0, <1>1, <1>2 DEF TaskRecord, Places
    <2>2. /\ r.pc = "save" /\ r.op = x.op /\ r.b = x.b /\ r.held = x.held /\ r.into = x.into
          /\ r.child = x.child /\ r.dst = x.dst /\ r.keys = x.keys /\ r.drop = x.drop
          /\ r.rest = x.rest /\ r.old = info[k]
      BY <1>0 DEF TaskRecord
    <2>3. Become(t, r)
      BY <1>4
    <2> HIDE DEF r, k
    <2>4. GoesOn(t, r)
      BY <1>0, <1>1, <1>4, <2>2, <2>3 DEF GoesOn, Orderly, Filling, Fill, Rebuilding, Left,
        Compressing, Summing, Carrying, KeyOps
    <2> HIDE DEF HInv, SInv
    <2> QED BY <1>0, <2>1, <2>3, <2>4, LocalGoesOn
<1>5. CASE /\ Live(k)
           /\ Become(t, [x EXCEPT !.pc = "tell", !.was = Captured({k}), !.goal = Resolve(rec[k].bucket)])
    <2> DEFINE g == Resolve(rec[k].bucket)
               w == Captured({k})
               r == [x EXCEPT !.pc = "tell", !.was = w, !.goal = g]
    <2>1. rec[k].bucket \in Buckets
      BY <1>2, <1>5, Known, Numbers DEF Live, TreeTypeOK, MemoryRecord
    <2>2. g \in 0..MaxBuckets
      BY <1>1, <2>1, ResolveEnds, Known
    <2>3. w \in [Keys -> MemoryRecord]
      BY Known, CapturedTyped
    <2>4. Become(t, r)
      BY <1>5
    <2> HIDE DEF g, w, k
    <2>5. r \in TaskRecord
      BY <1>0, <2>2, <2>3 DEF TaskRecord, Places
    <2>6. /\ r.pc = "tell" /\ r.op = x.op /\ r.b = x.b /\ r.held = x.held /\ r.into = x.into
          /\ r.child = x.child /\ r.dst = x.dst /\ r.keys = x.keys /\ r.drop = x.drop
          /\ r.rest = x.rest
      BY <1>0 DEF TaskRecord
    <2> HIDE DEF r
    <2>7. GoesOn(t, r)
      BY <1>0, <1>1, <2>4, <2>6 DEF GoesOn, Orderly, Filling, Fill, Rebuilding, Left,
        Compressing, Summing, Carrying, KeyOps
    <2> HIDE DEF HInv, SInv
    <2> QED BY <1>0, <2>4, <2>5, <2>7, LocalGoesOn
<1>6. \/ Become(t, AfterSummary(x))
      \/ ~info[k].sealed /\ Become(t, [x EXCEPT !.pc = "save", !.old = info[k]])
      \/ /\ Live(k)
         /\ Become(t, [x EXCEPT !.pc = "tell", !.was = Captured({k}), !.goal = Resolve(rec[k].bucket)])
    <2>1. CASE Summary(t)
      BY <2>1 DEF Summary
    <2>2. CASE NodeRecord(t)
      BY <2>2 DEF NodeRecord
    <2> QED BY <2>1, <2>2
<1> QED BY <1>3, <1>4, <1>5, <1>6

LEMMA SaveSafe ==
    ASSUME HInv, SInv, NEW t \in Tasks, Save(t)
    PROVE  SInv'
<1> DEFINE x == task[t]
           k == Head(x.sums)
           r == [x EXCEPT !.pc = "node record"]
<1>0. /\ x \in TaskRecord /\ x.pc = "save" /\ Orderly(x)
      /\ UNCHANGED <<ops, asked, forgone>> /\ SaveInfo(k, x.old) /\ Become(t, r)
  BY Known, Granted DEF Save, At, Unobserved, Step
<1>1. k \in 1..made
  BY <1>0, Heads DEF Summing
<1>2. x.old \in BucketInfo /\ x.old.level = info[k].level /\ ~x.old.sealed
  BY <1>0, Known DEF Sound, Summaries, TaskRecord, Orderly
<1>3. Calm
    <2> HIDE DEF k
    <2> QED BY <1>0, <1>1, <1>2, CalmSave
<1>4. r \in TaskRecord
  BY <1>0 DEF TaskRecord, Places
<1>5. /\ r.pc = "node record" /\ r.op = x.op /\ r.b = x.b /\ r.held = x.held /\ r.into = x.into
      /\ r.child = x.child /\ r.dst = x.dst /\ r.keys = x.keys /\ r.drop = x.drop
      /\ r.rest = x.rest
  BY <1>0 DEF TaskRecord
<1> HIDE DEF r
<1>6. GoesOn(t, r)
  BY <1>0, <1>5 DEF GoesOn, Orderly, Filling, Fill, Rebuilding, Left, Compressing, Summing,
    Carrying, KeyOps
<1> HIDE DEF HInv, SInv
<1> QED BY <1>0, <1>3, <1>4, <1>6, GoingOn

LEMMA TellSafe ==
    ASSUME HInv, SInv, NEW t \in Tasks, Tell(t)
    PROVE  SInv'
<1> DEFINE x == task[t]
           k == Head(x.sums)
           y == [x EXCEPT !.goal = None]
           w == [x.was[k] EXCEPT !.bucket = x.goal]
<1>0. x \in TaskRecord /\ Sound(x, made, info) /\ x.pc = "tell" /\ Orderly(x)
      /\ Put(t, k, w, AfterSummary(y))
  BY Known, Granted DEF Tell, At
<1>1. x.pc \in Summing /\ made \in Buckets /\ info \in [Buckets -> BucketInfo]
  BY <1>0, Known DEF Summing, TreeTypeOK
<1>2. k \in Buckets /\ k \in Keys
  BY <1>1, Heads
<1>3. w \in MemoryRecord
    <2>1. x.was[k] \in MemoryRecord /\ x.goal \in Buckets \cup {None}
      BY <1>0, <1>2, Numbers DEF TaskRecord
    <2> HIDE DEF x, k
    <2> QED BY <2>1 DEF MemoryRecord
<1>4. y \in TaskRecord
  BY <1>0, Known DEF TaskRecord
<1>5. /\ y.pc = "tell" /\ y.op = x.op /\ y.b = x.b /\ y.held = x.held /\ y.into = x.into
      /\ y.child = x.child /\ y.dst = x.dst /\ y.drop = x.drop /\ y.title = x.title
      /\ y.key = x.key /\ y.sums = x.sums
  BY <1>0 DEF TaskRecord
<1> HIDE DEF y, k, w
<1>6. Sound(y, made, info)
  BY <1>0, <1>1, <1>4, <1>5, SummaryGoesOn
<1>7. AfterSummary(y) \in TaskRecord
  BY <1>1, <1>4, <1>5, <1>6, AfterSummarySound DEF Summing
<1>8. Become(t, AfterSummary(y)) => GoesOn(t, AfterSummary(y))
  BY <1>0, <1>1, <1>4, <1>5, AfterSummaryGoesOn
<1> HIDE DEF HInv, SInv
<1> QED BY <1>0, <1>2, <1>3, <1>7, <1>8, PutGoesOn

\* An operation that cannot write its record raises.
LEMMA RaisesSafe ==
    ASSUME HInv, SInv, NEW t \in Tasks, task[t].pc # "in", GiveUp(t)
    PROVE  SInv'
<1>1. Calm /\ Quit(t)
  BY StillCalm DEF GiveUp, LocalStep
<1> HIDE DEF HInv, SInv
<1> QED BY <1>1, LetsGo

\* No rebuild is going on where a memory is added: both hold the bucket's lock.
LEMMA AddSafe ==
    ASSUME HInv, SInv, NEW t \in Tasks, AddMemory(t)
    PROVE  SInv'
<1> DEFINE x == task[t]
           k == x.key
           w == [bucket |-> x.b, gray |-> FALSE, child |-> None]
           s == [x EXCEPT !.pc = "summary"]
           q == IF x.pc = "first" THEN s ELSE Idle
<1>0. x \in TaskRecord /\ x.pc \in {"write", "first"} /\ Orderly(x) /\ Put(t, k, w, q) /\ x.op = "add"
  BY Known, Granted DEF AddMemory, At, Sound, InPlace
<1>1. k \in Keys /\ x.b \in Buckets
  BY <1>0, Known DEF Sound, Sources, Records
<1>2. w \in MemoryRecord /\ w.bucket = x.b /\ ~w.gray
  BY <1>1 DEF MemoryRecord, None
<1>3. s \in TaskRecord
  BY <1>0 DEF TaskRecord, Places
<1>4. s.pc = "summary" /\ s.op = "add" /\ s.b = x.b /\ s.held = x.held /\ s.into = x.into
  BY <1>0 DEF TaskRecord
<1> HIDE DEF s, w
<1>5. q \in TaskRecord
  BY <1>3, IdleIsSound
<1>6. /\ Orderly(q) /\ ~Filling(q) /\ ~Rebuilding(q) /\ q.b \in {x.b, None}
      /\ q.held \subseteq x.held
    <2>1. CASE q = Idle
      BY <2>1, IdleIsOrderly
    <2>2. CASE q = s
      BY <1>0, <1>4, <2>2 DEF Orderly, Filling, Rebuilding, Compressing, Summing, Carrying, KeyOps
    <2> QED BY <2>1, <2>2
<1> HIDE DEF q
<1>7. ASSUME NEW u \in Tasks, u # t, Rebuilding(task[u]) PROVE w.bucket # task[u].b
    <2>1. task[u].b \in task[u].held
      BY <1>7, Granted DEF Orderly, Rebuilding, Compressing, Carrying, Summing
    <2>2. x.b \in x.held
      BY <1>0 DEF Orderly
    <2> QED BY <1>2, <1>7, <2>1, <2>2, Granted
<1>8. CASE Write(k, w) /\ Become(t, q) /\ Unobserved
    <2>1. w.bucket # None /\ UNCHANGED forgone /\ task[t].pc # "in"
      BY <1>0, <1>1, <1>2, <1>8, Numbers DEF Unobserved
    <2> HIDE DEF HInv, SInv, k
    <2> QED BY <1>0, <1>1, <1>2, <1>5, <1>6, <1>7, <1>8, <2>1, WritesOn
<1>9. CASE GiveUp(t)
  BY <1>0, <1>9, RaisesSafe
<1> QED BY <1>0, <1>8, <1>9 DEF Put

\* A kept record is written into the successor, which nobody works on.
LEMMA PlaceSafe ==
    ASSUME HInv, SInv, NEW t \in Tasks, Place(t)
    PROVE  SInv'
<1> DEFINE x == task[t]
           k == x.key
           w == [x.was[k] EXCEPT !.bucket = x.dst, !.gray = FALSE]
           r == [x EXCEPT !.pc = "carry"]
<1>0. x \in TaskRecord /\ x.pc = "place" /\ Orderly(x) /\ Put(t, k, w, r) /\ x.op = "compress"
  BY Known, Granted DEF Place, At, Sound, InPlace, Compressing
<1>1. k \in Keys /\ x.into = x.dst /\ x.dst \in Buckets /\ x.dst # None
    <2>1. k \in Keys /\ x.into = x.dst /\ x.into # None
      BY <1>0, Known DEF Sound, Records, Orderly, Compressing
    <2> QED BY <1>0, <2>1, Numbers DEF TaskRecord
<1>2. w \in MemoryRecord /\ w.bucket = x.dst /\ ~w.gray
    <2>1. x.was[k] \in MemoryRecord
      BY <1>0, <1>1 DEF TaskRecord
    <2> HIDE DEF x, k
    <2> QED BY <1>1, <2>1 DEF MemoryRecord
<1>3. Filling(x) /\ Fill(x) = x.dst
  BY <1>0, <1>1 DEF Filling, Fill
<1>4. \A u \in Tasks : w.bucket # task[u].b
  BY <1>2, <1>3, Granted DEF Secluded
<1>5. r \in TaskRecord
  BY <1>0 DEF TaskRecord, Places
<1>6. /\ r.pc = "carry" /\ r.op = x.op /\ r.b = x.b /\ r.held = x.held /\ r.into = x.into
      /\ r.child = x.child /\ r.dst = x.dst /\ r.keys = x.keys /\ r.drop = x.drop
      /\ r.rest = x.rest
  BY <1>0 DEF TaskRecord
<1> HIDE DEF r
<1>7. Orderly(r) /\ Filling(r) /\ Fill(r) = Fill(x)
  BY <1>0, <1>1, <1>6 DEF Orderly, Filling, Fill, Compressing, Summing, Carrying, KeyOps
<1>8. Rebuilding(x) /\ Left(x) \ {k} \subseteq Left(r)
  BY <1>0, <1>6 DEF Rebuilding, Left, Compressing, Summing
<1>9. CASE Write(k, w) /\ Become(t, r) /\ Unobserved
    <2>1. /\ UNCHANGED forgone /\ task[t].pc # "in" /\ w.bucket # None /\ w.bucket # r.b
          /\ r.b = x.b /\ r.held \subseteq x.held
      BY <1>0, <1>1, <1>2, <1>4, <1>6, <1>9 DEF Unobserved
    <2> HIDE DEF HInv, SInv, k, w
    <2> QED BY <1>1, <1>2, <1>3, <1>4, <1>5, <1>7, <1>8, <1>9, <2>1, WritesOn
<1>10. CASE GiveUp(t)
  BY <1>0, <1>10, RaisesSafe
<1> QED BY <1>0, <1>9, <1>10 DEF Put

\* A record is in its task's hands while it is grayed where it was.
LEMMA OutSafe ==
    ASSUME HInv, SInv, NEW t \in Tasks, Out(t)
    PROVE  SInv'
<1> DEFINE x == task[t]
           k == x.key
           w == [x.was[k] EXCEPT !.gray = TRUE]
           r == [x EXCEPT !.pc = "in"]
<1>0. x \in TaskRecord /\ x.pc = "out" /\ Orderly(x) /\ Put(t, k, w, r) /\ x.op = "split"
  BY Known, Granted DEF Out, At, Orderly, Carrying
<1>1. k \in Keys
  BY <1>0, Known DEF Sound, Records
<1>2. w \in MemoryRecord /\ w.gray
    <2>1. x.was[k] \in MemoryRecord
      BY <1>0, <1>1 DEF TaskRecord
    <2> HIDE DEF x, k
    <2> QED BY <1>1, <2>1 DEF MemoryRecord
<1>5. r \in TaskRecord
  BY <1>0 DEF TaskRecord, Places
<1>6. /\ r.pc = "in" /\ r.op = x.op /\ r.b = x.b /\ r.held = x.held /\ r.into = x.into
      /\ r.child = x.child /\ r.dst = x.dst /\ r.keys = x.keys /\ r.drop = x.drop
      /\ r.rest = x.rest /\ r.key = k /\ r.was = x.was
  BY <1>0 DEF TaskRecord
<1> HIDE DEF r
<1>7. Orderly(r) /\ (Filling(r) => Filling(x) /\ Fill(r) = Fill(x))
  BY <1>0, <1>6 DEF Orderly, Filling, Fill, Compressing, Summing, Carrying, KeyOps
<1>8. Rebuilding(x) /\ Left(x) \ {k} \subseteq Left(r)
  BY <1>0, <1>6 DEF Rebuilding, Left, Compressing, Carrying, Summing
<1>9. CASE Write(k, w) /\ Become(t, r) /\ Unobserved
    <2>1. /\ UNCHANGED forgone /\ task[t].pc # "in" /\ r.pc = "in" /\ r.key = k
          /\ r.b = x.b /\ r.held \subseteq x.held
      BY <1>0, <1>6, <1>9 DEF Unobserved
    <2> HIDE DEF HInv, SInv, k, w
    <2> QED BY <1>1, <1>2, <1>5, <1>7, <1>8, <1>9, <2>1, WritesOn
<1>10. CASE GiveUp(t)
  BY <1>0, <1>10, RaisesSafe
<1> QED BY <1>0, <1>9, <1>10 DEF Put

\* The bucket it goes to is open, so it gets there.
LEMMA InSafe ==
    ASSUME HInv, SInv, NEW t \in Tasks, In(t)
    PROVE  SInv'
<1> DEFINE x == task[t]
           k == x.key
           w == [x.was[k] EXCEPT !.bucket = x.into]
           r == [x EXCEPT !.pc = "fetch"]
<1>0. x \in TaskRecord /\ x.pc = "in" /\ Orderly(x) /\ x.op = "split" /\ Put(t, k, w, r)
  BY Known, Granted DEF In, At, Orderly, Carrying
<1>1. k \in Keys /\ x.into \in Buckets /\ x.into # None
    <2>1. k \in Keys /\ x.into \in 1..made
      BY <1>0, Known DEF Sound, Records, Carrying
    <2> QED BY <2>1, Known, Numbers
<1>2. w \in MemoryRecord /\ w.bucket = x.into /\ ~w.gray
    <2>1. x.was[k] \in MemoryRecord /\ ~x.was[k].gray
      BY <1>0, <1>1 DEF TaskRecord, Orderly
    <2> HIDE DEF x, k
    <2> QED BY <1>1, <2>1 DEF MemoryRecord
<1>3. Filling(x) /\ Fill(x) = x.into
  BY <1>0, <1>1 DEF Filling, Fill
<1>4. (\A u \in Tasks : w.bucket # task[u].b) /\ ~info[x.into].sealed
  BY <1>2, <1>3, Granted DEF Secluded
<1>5. r \in TaskRecord
  BY <1>0 DEF TaskRecord, Places
<1>6. /\ r.pc = "fetch" /\ r.op = x.op /\ r.b = x.b /\ r.held = x.held /\ r.into = x.into
      /\ r.child = x.child /\ r.dst = x.dst /\ r.keys = x.keys /\ r.drop = x.drop
      /\ r.rest = x.rest
  BY <1>0 DEF TaskRecord
<1> HIDE DEF r
<1>7. Orderly(r) /\ Filling(r) /\ Fill(r) = Fill(x)
  BY <1>0, <1>1, <1>6 DEF Orderly, Filling, Fill, Compressing, Summing, Carrying, KeyOps
<1>8. Rebuilding(x) /\ Left(x) \ {k} \subseteq Left(r)
  BY <1>0, <1>6 DEF Rebuilding, Left, Compressing, Carrying, Summing
<1>9. Write(k, w) /\ Become(t, r) /\ Unobserved
  BY <1>0, <1>2, <1>4 DEF Put, MayWrite
<1>10. /\ UNCHANGED forgone /\ task[t].key = k /\ w.bucket # None /\ w.bucket # r.b
       /\ r.b = x.b /\ r.held \subseteq x.held
  BY <1>0, <1>1, <1>2, <1>4, <1>6, <1>9 DEF Unobserved
<1> HIDE DEF HInv, SInv, k, w
<1> QED BY <1>1, <1>2, <1>3, <1>4, <1>5, <1>7, <1>8, <1>9, <1>10, WritesOn DEF k

\* A plan names every memory live in the source.
LEMMA PlanSafe ==
    ASSUME HInv, SInv, NEW t \in Tasks, PlanCompress(t) \/ PlanSplit(t)
    PROVE  SInv'
<1> DEFINE x == task[t]
           S == Snapshot(x.b)
<1>0. x \in TaskRecord /\ x.pc = "plan" /\ LocalStep /\ Orderly(x) /\ x.op \in {"compress", "split"}
  BY Known, Granted DEF PlanCompress, PlanSplit, At
<1>1. Calm
  BY <1>0, StillCalm DEF LocalStep
<1>2. Inside(x.b) \subseteq S /\ S \in SUBSET Keys
  BY Numbers DEF Inside, Snapshot, Live
<1>3. CASE Quit(t)
    <2> HIDE DEF HInv, SInv
    <2> QED BY <1>0, <1>1, <1>3, LetsGo
<1>4. ASSUME NEW r \in TaskRecord, Become(t, r), S \subseteq Left(r),
             r.pc = "aim", r.op = x.op, r.b = x.b, r.held = x.held, r.into = x.into,
             r.child = x.child, r.dst = x.dst
      PROVE  SInv'
    <2>1. Orderly(r)
      BY <1>0, <1>4 DEF Orderly, Compressing, Summing, Carrying, KeyOps
    <2>2. Filling(r) => Filling(x) /\ Fill(r) = Fill(x)
      BY <1>0, <1>4 DEF Filling, Fill
    <2>3. r.b \in 0..made /\ (\A u \in Tasks : Filling(task[u]) => r.b # Fill(task[u]))
          /\ \A u \in Tasks : u # t => task[u].held \cap r.held = {}
      BY <1>4, Granted
    <2>4. Inside(r.b) \subseteq Left(r) /\ task[t].pc # "in"
      BY <1>0, <1>2, <1>4
    <2>5. /\ TreeKept /\ forgone \subseteq forgone' /\ \A m \in Mems : rec'[m] = rec[m]
          /\ \A c \in Buckets : info'[c].sealed => info[c].sealed /\ info'[c].to = info[c].to
      BY <1>1 DEF Calm
    <2> HIDE DEF HInv, SInv
    <2> QED BY <1>4, <2>1, <2>2, <2>3, <2>4, <2>5, Proceeds
<1>5. CASE PlanCompress(t) /\ ~Quit(t)
    <2>1. PICK d \in SUBSET (S \cap Droppable) :
            Become(t, [x EXCEPT !.pc = "aim", !.was = Captured(S), !.keys = S \ d, !.drop = d])
      BY <1>5 DEF PlanCompress
    <2> DEFINE f == Captured(S)
               K == S \ d
               r == [x EXCEPT !.pc = "aim", !.was = f, !.keys = K, !.drop = d]
    <2>2. f \in [Keys -> MemoryRecord] /\ K \in SUBSET Keys /\ d \in SUBSET Keys
      BY <1>2, Known, CapturedTyped
    <2>3. Become(t, r) /\ S \subseteq d \cup K
      BY <2>1
    <2> HIDE DEF f, K, S
    <2>4. r \in TaskRecord
      BY <1>0, <2>2 DEF TaskRecord, Places
    <2>5. /\ r.pc = "aim" /\ r.op = x.op /\ r.b = x.b /\ r.held = x.held /\ r.into = x.into
          /\ r.child = x.child /\ r.dst = x.dst /\ r.keys = K /\ r.drop = d
      BY <1>0 DEF TaskRecord
    <2> HIDE DEF r
    <2>6. S \subseteq Left(r)
      BY <2>3, <2>5 DEF Left, Summing
    <2> HIDE DEF HInv, SInv, x
    <2> QED BY <1>4, <2>3, <2>4, <2>5, <2>6
<1>6. CASE PlanSplit(t) /\ ~Quit(t)
    <2>1. PICK g \in SUBSET S :
            Become(t, [x EXCEPT !.pc = "aim", !.keys = g, !.rest = S \ g])
      BY <1>6 DEF PlanSplit
    <2>7. x.op = "split" /\ x.child = None /\ x.dst = None
        <3>1. x.op = "split"
          BY <1>6 DEF PlanSplit
        <3> QED BY <1>0, <3>1, Known DEF Orderly, Sound, Children
    <2> DEFINE K == S \ g
               r == [x EXCEPT !.pc = "aim", !.keys = g, !.rest = K]
    <2>2. K \in SUBSET Keys /\ g \in SUBSET Keys
      BY <1>2
    <2>3. Become(t, r) /\ S \subseteq g \cup K
      BY <2>1
    <2> HIDE DEF K, S
    <2>4. r \in TaskRecord
      BY <1>0, <2>2 DEF TaskRecord, Places
    <2>5. /\ r.pc = "aim" /\ r.op = x.op /\ r.b = x.b /\ r.held = x.held /\ r.into = x.into
          /\ r.child = x.child /\ r.dst = x.dst /\ r.keys = g /\ r.rest = K
      BY <1>0 DEF TaskRecord
    <2> HIDE DEF r
    <2>6. S \subseteq Left(r)
      BY <2>3, <2>5, <2>7 DEF Left, Summing
    <2> HIDE DEF HInv, SInv, x
    <2> QED BY <1>4, <2>3, <2>4, <2>5, <2>6
<1> QED BY <1>3, <1>5, <1>6

\* The bucket a rebuild makes is new: nobody works on it, nothing leads to it.
LEMMA MakeSafe ==
    ASSUME HInv, SInv, NEW t \in Tasks, Make(t)
    PROVE  SInv'
<1> DEFINE x == task[t]
           lvl == IF ForChild(t) THEN info[x.up].level + 1 ELSE info[x.b].level
<1>0. x \in TaskRecord /\ x.pc = "make" /\ Orderly(x) /\ Sound(x, made, info)
  BY Known, Granted DEF Make, At
<1>1. TreeKept /\ made' = made + 1 /\ made + 1 \in Buckets
  BY Makes
<1>2. /\ \A m \in Mems : rec'[m] = rec[m]
      /\ \A c \in Buckets : info'[c].sealed => info[c].sealed /\ info'[c].to = info[c].to
    <2>1. /\ rec' = rec
          /\ info' = [y \in Buckets |->
                       IF y = made + 1 THEN Row(x.up, lvl)
                       ELSE IF y = x.up
                            THEN [info[y] EXCEPT !.children = @ \cup {made + 1}]
                            ELSE info[y]]
      BY DEF Make, CreateBucket
    <2> HIDE DEF lvl
    <2>2. \A c \in Buckets : info[c] \in BucketInfo
      BY Known DEF TreeTypeOK
    <2> QED BY <2>1, <2>2 DEF Row, BucketInfo
<1> HIDE DEF lvl
<1>3. UNCHANGED forgone
  BY DEF Make
<1>4. ASSUME NEW r \in TaskRecord, Become(t, r), Orderly(r), r.b = x.b, r.held = x.held,
             Filling(r) => Fill(r) = made + 1,
             Rebuilding(r) => Rebuilding(x) /\ Left(x) \subseteq Left(r)
      PROVE  SInv'
    <2>1. r.b \in 0..made /\ (\A u \in Tasks : Filling(task[u]) => r.b # Fill(task[u]))
          /\ \A u \in Tasks : u # t => task[u].held \cap r.held = {}
      BY <1>4, Granted
    <2>2. Rebuilding(r) => Inside(r.b) \subseteq Left(r)
      BY <1>4 DEF SInv, Inside
    <2>3. task[t].pc # "in" /\ forgone \subseteq forgone'
      BY <1>0, <1>3
    <2> HIDE DEF HInv, SInv
    <2> QED BY <1>1, <1>2, <1>4, <2>1, <2>2, <2>3, Proceeds
<1>5. made + 1 \in 0..MaxBuckets
  BY <1>1, Numbers
<1>6. CASE IsSuccessor(t)
    <2> DEFINE q == IF x.op = "split" THEN "adopt" ELSE "carry"
               r == [x EXCEPT !.dst = made + 1, !.into = made + 1, !.pc = q]
    <2>1. /\ q \in {"adopt", "carry"}
          /\ q = "adopt" <=> x.op = "split"
          /\ x.op \in {"compress", "split"}
          /\ x.op = "split" => x.child # None
      BY <1>6 DEF IsSuccessor
    <2>2. Become(t, r)
      BY <1>6 DEF Make
    <2> HIDE DEF q
    <2>3. r \in TaskRecord
      BY <1>0, <1>5, <2>1 DEF TaskRecord, Places
    <2>4. /\ r.pc = q /\ r.op = x.op /\ r.b = x.b /\ r.held = x.held /\ r.into = made + 1
          /\ r.child = x.child /\ r.dst = made + 1 /\ r.keys = x.keys /\ r.drop = x.drop
          /\ r.rest = x.rest
      BY <1>0 DEF TaskRecord
    <2> HIDE DEF r
    <2>5. made + 1 # None
      BY <1>1, Numbers
    <2>6. Orderly(r)
      BY <1>0, <2>1, <2>4, <2>5 DEF Orderly, Compressing, Summing, Carrying, KeyOps
    <2>7. Filling(r) => Fill(r) = made + 1
      BY <2>1, <2>4 DEF Fill
    <2>8. Rebuilding(x) /\ Left(x) \subseteq Left(r)
      BY <1>0, <2>1, <2>4 DEF Rebuilding, Left, Summing, Compressing
    <2> HIDE DEF HInv, SInv, x
    <2> QED BY <1>4, <2>2, <2>3, <2>4, <2>6, <2>7, <2>8
<1>7. CASE ~IsSuccessor(t)
    <2> DEFINE r == [x EXCEPT !.child = made + 1, !.pc = "node"]
    <2>2. Become(t, r)
      BY <1>7 DEF Make
    <2>3. r \in TaskRecord
      BY <1>0, <1>5 DEF TaskRecord, Places
    <2>4. /\ r.pc = "node" /\ r.op = x.op /\ r.b = x.b /\ r.held = x.held /\ r.into = x.into
          /\ r.child = made + 1 /\ r.dst = x.dst /\ r.keys = x.keys /\ r.drop = x.drop
          /\ r.rest = x.rest
      BY <1>0 DEF TaskRecord
    <2> HIDE DEF r
    <2>5. x.op # "compress" /\ (x.op = "split" => x.child = None /\ x.dst = None)
      BY <1>0, <1>7 DEF IsSuccessor, Sound, Children
    <2>6. Orderly(r)
      BY <1>0, <2>4, <2>5 DEF Orderly, Compressing, Summing, Carrying, KeyOps
    <2>7. Filling(r) => Fill(r) = made + 1
      BY <2>4 DEF Fill
    <2>8. Rebuilding(r) => Rebuilding(x) /\ Left(x) \subseteq Left(r)
      BY <1>0, <2>4 DEF Rebuilding, Left, Summing, Compressing, Carrying
    <2> HIDE DEF HInv, SInv, x
    <2> QED BY <1>4, <2>2, <2>3, <2>4, <2>6, <2>7, <2>8
<1> QED BY <1>6, <1>7

\* Callers do not know a bucket being filled.
LEMMA HandlesKnown ==
    ASSUME HInv, SInv, ~Listing, NEW b \in Handles
    PROVE  /\ b \in 1..made /\ b # None
           /\ \A u \in Tasks : Filling(task[u]) => b # Fill(task[u])
<1>1. b \in 1..made /\ b \notin InTheMaking /\ b # None
  BY DEF Handles, None
<1>2. ASSUME NEW u \in Tasks, Filling(task[u]), b = Fill(task[u]) PROVE FALSE
    <2>1. Orderly(task[u]) /\ task[u].op \in Creators
      BY <1>2, Granted DEF Filling, Creators
    <2>2. CASE task[u].pc = "node"
        <3>1. b = task[u].child
          BY <1>2, <2>2 DEF Fill
        <3> QED BY <1>1, <2>1, <2>2, <3>1 DEF InTheMaking
    <2>3. CASE task[u].pc # "node"
        <3>1. task[u].into # None /\ b = task[u].into
          BY <1>2, <2>3 DEF Fill, Filling
        <3>2. b = task[u].dst \/ b = task[u].child
          BY <1>2, <2>1, <3>1 DEF Orderly, Filling
        <3> QED BY <1>1, <2>1, <3>1, <3>2 DEF InTheMaking
    <2> QED BY <2>2, <2>3
<1> QED BY <1>1, <1>2

LEMMA StartSafe ==
    ASSUME HInv, SInv, Undisturbed, NEW t \in Tasks, NEW o, Starting(t, o),
           NEW b \in Handles, NEW r \in TaskRecord, Become(t, r),
           r.op = o, r.pc = "ask", r.b = b, r.held = {}, r.into = None, r.child = None
    PROVE  SInv'
<1>1. o \notin KeyOps /\ UNCHANGED treeVars /\ UNCHANGED forgone
  BY DEF Starting, Undisturbed
<1>2. task[t].pc # "in"
  BY Known DEF Starting, Sound, InPlace
<1>3. Calm
  BY <1>1, StillCalm
<1>4. /\ b \in 1..made /\ b # None
      /\ \A u \in Tasks : Filling(task[u]) => b # Fill(task[u])
  BY HandlesKnown DEF Undisturbed
<1>5. r.b \in 0..made
  BY <1>4
<1>6. Orderly(r) /\ ~Filling(r) /\ ~Rebuilding(r)
  BY <1>1, <1>4 DEF Orderly, Filling, Fill, Rebuilding, Compressing, Summing, Carrying
<1>7. /\ TreeKept /\ forgone \subseteq forgone' /\ \A m \in Mems : rec'[m] = rec[m]
      /\ \A c \in Buckets : info'[c].sealed => info[c].sealed /\ info'[c].to = info[c].to
  BY <1>3 DEF Calm
<1> HIDE DEF HInv, SInv
<1> QED BY <1>2, <1>4, <1>5, <1>6, <1>7, Proceeds

LEMMA BeginSafe ==
    ASSUME HInv, SInv, Undisturbed, NEW t \in Tasks, BeginOnBucket(t) \/ BeginAdd(t) \/ BeginOnKey(t)
    PROVE  SInv'
<1>0. Handles \subseteq 0..MaxBuckets /\ Idle \in TaskRecord
  BY Known, IdleIsSound DEF Handles
<1>1. CASE BeginOnBucket(t)
    <2>1. PICK o \in {"set", "create", "compress", "split", "refresh"}, b \in Handles,
              s \in Titles \cup {None} :
           /\ Starting(t, o)
           /\ Become(t, [Idle EXCEPT !.op = o, !.pc = "ask", !.b = b, !.title = s])
      BY <1>1 DEF BeginOnBucket
    <2> DEFINE r == [Idle EXCEPT !.op = o, !.pc = "ask", !.b = b, !.title = s]
    <2>2. b \in 0..MaxBuckets /\ o \in OpNames /\ "ask" \in Places
      BY <1>0 DEF OpNames, Places
    <2>3. r \in TaskRecord
      BY <1>0, <2>2 DEF TaskRecord
    <2>4. r.pc = "ask" /\ r.op = o /\ r.b = b /\ r.held = {} /\ r.into = None /\ r.child = None
      BY <1>0, IdleIsOrderly DEF TaskRecord
    <2>5. Become(t, r)
      BY <2>1
    <2> HIDE DEF r, HInv, SInv
    <2> QED BY <2>1, <2>3, <2>4, <2>5, StartSafe
<1>2. CASE BeginAdd(t)
    <2>1. PICK b \in Handles, m \in Mems :
           /\ Starting(t, "add")
           /\ Become(t, [Idle EXCEPT !.op = "add", !.pc = "ask", !.b = b, !.key = m])
      BY <1>2 DEF BeginAdd
    <2> DEFINE r == [Idle EXCEPT !.op = "add", !.pc = "ask", !.b = b, !.key = m]
    <2>2. b \in 0..MaxBuckets /\ "add" \in OpNames /\ "ask" \in Places /\ m \in Keys
      BY <1>0, Numbers DEF OpNames, Places
    <2>3. r \in TaskRecord
      BY <1>0, <2>2 DEF TaskRecord
    <2>4. r.pc = "ask" /\ r.op = "add" /\ r.b = b /\ r.held = {} /\ r.into = None /\ r.child = None
      BY <1>0, IdleIsOrderly DEF TaskRecord
    <2>5. Become(t, r)
      BY <2>1
    <2> HIDE DEF r, HInv, SInv
    <2> QED BY <2>1, <2>3, <2>4, <2>5, StartSafe
<1>3. CASE BeginOnKey(t)
    <2>1. PICK o \in KeyOps : Starting(t, o)
      BY <1>3 DEF BeginOnKey, KeyOps
    <2> QED BY <2>1 DEF Starting, Undisturbed
<1> QED BY <1>1, <1>2, <1>3

\* Nothing leads to a bucket being filled, so an id never resolves to it.
LEMMA AskSafe ==
    ASSUME HInv, SInv, NEW t \in Tasks, Ask(t)
    PROVE  SInv'
<1> DEFINE x == task[t]
<1>0. x \in TaskRecord /\ x.pc = "ask" /\ LocalStep /\ Orderly(x) /\ x.b \in 0..made /\ x.op # "move"
  BY Known, Granted DEF Ask, At, Orderly, KeyOps
<1>1. PICK b \in 1..made, g \in {{}} \cup {{c} : c \in 1..made} :
        /\ b = Resolve(x.b)
        /\ Become(t, [x EXCEPT !.pc = "wait", !.b = b,
                             !.want = {b} \cup g \cup
                                 (IF x.op \in {"set", "create"} THEN {Meta}
                                  ELSE {})])
  BY DEF Ask
<1>2. x.b \in Buckets /\ b \in Buckets /\ made \in Buckets
  BY <1>0, Known DEF Orderly, None
<1>3. ASSUME NEW u \in Tasks, Filling(task[u]) PROVE b # Fill(task[u])
    <2>1. Secluded(Fill(task[u])) /\ x.b # Fill(task[u])
      BY <1>3, Granted
    <2>2. b = x.b \/ \E c \in Buckets : Leads(c) /\ info[c].to = b
      BY <1>1, <1>2, ResolveEnds
    <2> QED BY <2>1, <2>2 DEF Secluded
<1> DEFINE w == {b} \cup g \cup (IF x.op \in {"set", "create"} THEN {Meta} ELSE {})
           r == [x EXCEPT !.pc = "wait", !.b = b, !.want = w]
<1>4. w \in SUBSET (0..MaxBuckets) /\ b \in w /\ b \in 0..MaxBuckets /\ b \in 0..made
  BY Known DEF Meta, None
<1>5. Become(t, r)
  BY <1>1
<1> HIDE DEF w
<1>6. r \in TaskRecord
  BY <1>0, <1>4 DEF TaskRecord, Places
<1>7. /\ r.pc = "wait" /\ r.op = x.op /\ r.b = b /\ r.held = x.held /\ r.into = x.into
      /\ r.child = x.child /\ r.dst = x.dst /\ r.keys = x.keys /\ r.drop = x.drop
      /\ r.rest = x.rest /\ r.want = w
  BY <1>0 DEF TaskRecord
<1> HIDE DEF r
<1>8. Orderly(r) /\ ~Rebuilding(r) /\ (Filling(r) => Filling(x) /\ Fill(r) = Fill(x))
  BY <1>0, <1>4, <1>7 DEF Orderly, Filling, Fill, Rebuilding, Compressing, Summing, Carrying, KeyOps
<1>9. Calm
  BY <1>0, StillCalm DEF LocalStep
<1>10. /\ TreeKept /\ forgone \subseteq forgone' /\ \A m \in Mems : rec'[m] = rec[m]
       /\ \A c \in Buckets : info'[c].sealed => info[c].sealed /\ info'[c].to = info[c].to
  BY <1>9 DEF Calm
<1>11. \A u \in Tasks : u # t => task[u].held \cap r.held = {}
  BY <1>7, Granted
<1>12. r.b \in 0..made /\ task[t].pc # "in" /\ \A u \in Tasks : Filling(task[u]) => r.b # Fill(task[u])
  BY <1>0, <1>3, <1>4, <1>7
<1> HIDE DEF HInv, SInv, x
<1> QED BY <1>5, <1>6, <1>8, <1>10, <1>11, <1>12, Proceeds DEF x

LEMMA EnterSafe ==
    ASSUME HInv, SInv, NEW t \in Tasks, Enter(t)
    PROVE  SInv'
<1> DEFINE x == task[t]
           q == Begins(x)
           r == [x EXCEPT !.held = x.want, !.want = {}, !.sums = <<x.b>>, !.pc = q]
<1>0. x \in TaskRecord /\ x.pc = "wait" /\ LocalStep /\ Orderly(x) /\ Become(t, r)
  BY Known, Granted DEF Enter, At
<1>1. x.op # "idle" /\ x.b \in Buckets /\ x.into = None
  BY <1>0, Known DEF Sound, InPlace, Sources, Summaries
<1>2. /\ q \in {"look", "aim", "plan", "summary", "write", "first"}
      /\ q = "aim" => x.op = "create"
      /\ q = "plan" <=> x.op \in {"compress", "split"}
  BY <1>0, <1>1, BeginsAs DEF Orderly, KeyOps
<1> HIDE DEF q
<1>3. <<x.b>> \in Seq(Buckets)
  BY <1>1
<1>4. r \in TaskRecord
  BY <1>0, <1>2, <1>3 DEF TaskRecord, Places
<1>5. /\ r.pc = q /\ r.op = x.op /\ r.b = x.b /\ r.held = x.want /\ r.into = x.into
      /\ r.child = x.child /\ r.dst = x.dst /\ r.keys = x.keys /\ r.drop = x.drop
      /\ r.rest = x.rest
  BY <1>0 DEF TaskRecord
<1> HIDE DEF r
<1>6. Orderly(r) /\ ~Rebuilding(r) /\ ~Filling(r)
  BY <1>0, <1>1, <1>2, <1>5 DEF Orderly, Filling, Fill, Rebuilding, Compressing, Summing, Carrying,
    KeyOps
<1>7. Calm
  BY <1>0, StillCalm DEF LocalStep
<1>8. /\ TreeKept /\ forgone \subseteq forgone' /\ \A m \in Mems : rec'[m] = rec[m]
      /\ \A c \in Buckets : info'[c].sealed => info[c].sealed /\ info'[c].to = info[c].to
  BY <1>7 DEF Calm
<1>9. \A u \in Tasks : u # t => task[u].held \cap r.held = {}
  BY <1>5 DEF Enter
<1>10. r.b \in 0..made /\ task[t].pc # "in" /\ \A u \in Tasks : Filling(task[u]) => r.b # Fill(task[u])
  BY <1>0, <1>5, Granted
<1> HIDE DEF HInv, SInv
<1> QED BY <1>0, <1>4, <1>6, <1>8, <1>9, <1>10, Proceeds

LEMMA OnHandlesSafe ==
    ASSUME HInv, SInv, Undisturbed, NEW t \in Tasks, OnHandles(t)
    PROVE  SInv'
<1> USE DEF OnHandles
<1> HIDE DEF HInv, SInv
<1> QED BY BeginSafe, AskSafe, EnterSafe, LookSafe, FixTitleSafe, AimSafe, MakeSafe, NodeSafe,
  PlanSafe, CarrySafe, RehangSafe, PlaceSafe, MergeSafe, AdoptSafe, FetchSafe, OutSafe, InSafe,
  SealSourceSafe, SwitchSafe, SummarySafe, SaveSafe, TellSafe, AddSafe, AbandonSafe

\* The operations on keys are not begun, so none is at one of their places.
LEMMA OnKeysSafe ==
    ASSUME HInv, SInv, Undisturbed, NEW t \in Tasks, OnKeys(t)
    PROVE  SInv'
<1>1. task[t].op \notin KeyOps /\ Sound(task[t], made, info)
  BY Known, Granted DEF Orderly
<1>2. ~(Reread(t) \/ Rewrite(t) \/ Forget(t) \/ Check(t) \/ RehomeMove(t))
  BY <1>1 DEF Reread, Rewrite, Forget, Check, RehomeMove, At, Sound, InPlace, KeyOps
<1> QED BY <1>2, BeginSafe DEF OnKeys

LEMMA StepSInv ==
    ASSUME HInv, SInv, Undisturbed, [Next]_vars
    PROVE  SInv'
<1>1. CASE Next
  BY <1>1, OnHandlesSafe, OnKeysSafe DEF Next
<1>2. CASE UNCHANGED vars
  BY <1>2 DEF vars, treeVars, SInv, Exclusive, Apart, Secluded, Leads, Made, Rebuilding, Left,
    Live, Tended, OnTheWay, Filling, Fill
<1> QED BY <1>1, <1>2

LEMMA InitSInv == Init => SInv
<1> SUFFICES ASSUME Init PROVE SInv
    OBVIOUS
<1>1. \A t \in Tasks : task[t] = Idle
  BY DEF Init
<1>2. made = 1 /\ \A m \in Mems : rec[m].bucket = None
  BY Numbers DEF Init, TreeInit, NoRecord
<1>3. \A t \in Tasks : Orderly(task[t]) /\ task[t].b \in 0..made /\ ~Filling(task[t]) /\ ~Rebuilding(task[t])
  BY <1>1, <1>2, IdleIsOrderly DEF None
<1>4. Exclusive
  BY <1>1, IdleIsOrderly DEF Exclusive
<1> QED BY <1>2, <1>3, <1>4 DEF SInv, Apart, Tended

\* When nothing is going on, no record is in a task's hands.
LEMMA InvStranded == HInv /\ SInv => NoneStranded
<1> SUFFICES ASSUME HInv, SInv, Quiet, NEW m \in Mems, rec[m].bucket # None, m \notin forgone
             PROVE  Live(m) /\ ~info[rec[m].bucket].sealed
  BY DEF NoneStranded
<1>1. ~OnTheWay(m)
  BY DEF HInv, Sound, InPlace, Quiet, OnTheWay
<1> QED BY <1>1 DEF SInv, Tended

\* However adds, new buckets, compressions, splits and summaries interleave, and
\* wherever one of them is abandoned: when nothing is going on, every memory added
\* and not given up is live in a bucket that is not sealed.
THEOREM Stranded == ASSUME Undisturbed PROVE Spec => []NoneStranded
<1>1. Init => HInv /\ SInv
  BY InitHInv, InitSInv
<1>2. HInv /\ SInv /\ [Next]_vars => (HInv /\ SInv)'
  BY StepHInv, StepSInv
<1> QED BY <1>1, <1>2, InvStranded, PTL DEF Spec

----------------------------------------------------------------------------
(* Without rebuilds nothing is sealed.  Titles then lead to children however *)
(* the callers' steps interleave, unless a summary writes back a row that    *)
(* another caller changed; records agree with the tree as long as there is   *)
(* one caller and none of its operations is cut off halfway.                 *)

\* What is known of a task and of the tree at any time.
LEMMA Around ==
    ASSUME Tidy, NEW t \in Tasks
    PROVE  /\ task[t] \in TaskRecord /\ Sound(task[t], made, info)
           /\ Plain(task[t]) /\ Fresh(task[t], made, info)
           /\ InTurn => Aware(task[t], made, info, rec)
           /\ TreeTypeOK /\ made \in Buckets /\ made \in Nat /\ 1..made \subseteq Buckets
           /\ NoneSealed /\ Titled
           /\ task[t].op \notin {"compress", "split"}
<1>1. task[t].op \in Kinds \cup {"idle"}
  BY DEF Tidy, AInv, Plain
<1>2. task[t].op \notin {"compress", "split"}
  BY <1>1 DEF Tidy, NoRebuilds
<1>3. HInv
  BY DEF Tidy
<1> QED BY <1>2, <1>3, Known DEF Tidy, AInv

\* Where nothing is sealed, a handle leads to itself.
LEMMA Itself ==
    ASSUME Tidy, NEW b \in Buckets
    PROVE  Resolve(b) = b
<1>1. made \in Buckets /\ ~Leads(b)
  BY Known DEF Tidy, AInv, NoneSealed, Leads, HInv, TypeOK, TreeTypeOK
<1> QED BY <1>1, ResolveStep

\* Nobody else is about to write a row back.
LEMMA OthersSave ==
    ASSUME Tidy, NEW t \in Tasks, NEW u \in Tasks, u # t
    PROVE  task[u].pc # "save"
<1> SUFFICES ASSUME task[u].pc = "save" PROVE FALSE
    OBVIOUS
<1>1. task[u].op \in Summarizing /\ task[u].op \in Kinds \cup {"idle"}
  BY Around DEF Plain, Summing
<1>2. ~OneCaller
  BY DEF OneCaller
<1> QED BY <1>1, <1>2 DEF Tidy, RowsTheirOwn, Summarizing

LEMMA Onwards ==
    ASSUME Tidy, NEW t \in Tasks, NEW r, Become(t, r), Plain(r), Fresh(r, made', info'),
           NoneSealed', Titled', made' \in {made, made + 1},
           InTurn => Agreement' /\ Aware(r, made', info', rec')
    PROVE  AInv'
<1>1. \A u \in Tasks : task'[u] = IF u = t THEN r ELSE task[u]
  BY DEF Become, Tidy, HInv, TypeOK, TaskTypeOK
<1>2. ASSUME NEW u \in Tasks PROVE Plain(task'[u]) /\ Fresh(task'[u], made', info')
    <2>1. CASE u = t
      BY <1>1, <2>1
    <2>2. CASE u # t
        <3>1. task'[u] = task[u] /\ task[u].pc # "save" /\ Plain(task[u])
          BY <1>1, <2>2, OthersSave, Around
        <3>2. Fresh(task[u], made, info) /\ 1..made \subseteq 1..made'
          BY Around
        <3> QED BY <3>1, <3>2 DEF Fresh
    <2> QED BY <2>1, <2>2
<1>3. ASSUME InTurn, NEW u \in Tasks PROVE Aware(task'[u], made', info', rec')
    <2>1. u = t
      BY <1>3 DEF InTurn, OneCaller
    <2> QED BY <1>1, <1>3, <2>1
<1>4. InTurn' <=> InTurn
  BY DEF InTurn, OneCaller
<1> QED BY <1>2, <1>3, <1>4 DEF AInv

\* While no bucket is on its way, records agree with the tree.
LEMMA Settled ==
    ASSUME Tidy, InTurn, NEW t \in Tasks, task[t].pc \notin {"out", "in"}
    PROVE  /\ \A m \in Mems : rec[m].child = None
           /\ \A k \in Buckets : rec[k].bucket # None =>
                /\ k \in 1..made /\ rec[k].child = k /\ rec[k].bucket \in 1..made
                /\ Hangs(k, rec[k].bucket, info)
<1>1. \A k : ~Moving(k)
  BY DEF Moving, InTurn, OneCaller
<1> QED BY <1>1 DEF Tidy, AInv, Agreement

\* Titles are only forgotten.
LEMMA FewerTitles ==
    ASSUME Tidy, UNCHANGED <<info, made>>,
           \A p \in Buckets, s \in Titles : titleOf'[p][s] \in {titleOf[p][s], None}
    PROVE  Titled' /\ NoneSealed'
<1>1. Titled /\ NoneSealed
  BY DEF Tidy, AInv
<1>2. ASSUME NEW p \in Buckets, NEW s \in Titles, titleOf'[p][s] # None
      PROVE  /\ p \in 1..made' /\ titleOf'[p][s] \in 1..made'
             /\ Hangs(titleOf'[p][s], p, info')
  BY <1>1, <1>2 DEF Titled
<1> QED BY <1>1, <1>2 DEF Titled, NoneSealed

\* A step that leaves rows and records alone.
LEMMA Walks ==
    ASSUME Tidy, NEW t \in Tasks, NEW r, Become(t, r), Plain(r), Fresh(r, made, info),
           UNCHANGED <<info, made, rec>>,
           \A p \in Buckets, s \in Titles : titleOf'[p][s] \in {titleOf[p][s], None},
           task[t].pc \notin {"out", "in"} \/ ~InTurn,
           InTurn => Aware(r, made, info, rec)
    PROVE  AInv'
<1>1. Titled' /\ NoneSealed'
  BY FewerTitles
<1>2. ASSUME InTurn PROVE Agreement'
    <2>1. /\ \A m \in Mems : rec[m].child = None
          /\ \A k \in Buckets : rec[k].bucket # None =>
                /\ k \in 1..made /\ rec[k].child = k /\ rec[k].bucket \in 1..made
                /\ Hangs(k, rec[k].bucket, info)
      BY <1>2, Settled
    <2> QED BY <2>1 DEF Agreement, Hangs
<1> QED BY <1>1, <1>2, Onwards

\* A step that writes a record and leaves the tree alone.
LEMMA Pens ==
    ASSUME Tidy, NEW t \in Tasks, NEW r, Become(t, r), Plain(r), Fresh(r, made, info),
           UNCHANGED <<info, made, titleOf>>,
           InTurn => Agreement' /\ Aware(r, made, info, rec')
    PROVE  AInv'
<1>1. Titled' /\ NoneSealed'
  BY FewerTitles
<1> QED BY <1>1, Onwards

\* A task that holds nothing to be wrong about.
LEMMA Unaware ==
    ASSUME NEW r, r.op \in Kinds \cup {"idle"},
           r.pc \in {"ask", "wait", "look", "untitle", "write", "first", "reread", "forget", "check",
                     "done", "aim", "make", "summary", "node record"},
           r.pc \in Summing => r.op \in Summarizing /\ r.into = None,
           r.pc \in {"aim", "make"} => r.op \in {"set", "create"},
           InTurn => (r.op = "add" => r.key \in Mems), NEW n, NEW f, NEW m
    PROVE  Plain(r) /\ Fresh(r, n, f) /\ (InTurn => Aware(r, n, f, m))
<1>1. Plain(r) /\ Fresh(r, n, f)
  BY DEF Plain, Fresh, Compressing
<1>2. InTurn => Aware(r, n, f, m)
  BY DEF Aware
<1> QED BY <1>1, <1>2

LEMMA IdleIsPlain ==
    ASSUME NEW n, NEW f, NEW m
    PROVE  Plain(Idle) /\ Fresh(Idle, n, f) /\ (InTurn => Aware(Idle, n, f, m))
<1>1. Idle.op = "idle" /\ Idle.pc = "done"
  BY DEF Idle
<1> HIDE DEF Idle
<1> QED BY <1>1, Unaware DEF Summing

\* The operation ends and nothing else happens.
LEMMA Leaves ==
    ASSUME Tidy, NEW t \in Tasks, Quit(t), UNCHANGED <<info, made, rec>>,
           \A p \in Buckets, s \in Titles : titleOf'[p][s] \in {titleOf[p][s], None},
           task[t].pc \notin {"out", "in"} \/ ~InTurn
    PROVE  AInv'
<1> HIDE DEF Idle
<1> QED BY IdleIsPlain, Walks DEF Quit

----------------------------------------------------------------------------
(* One lemma per group of actions. *)

LEMMA BeginAgrees ==
    ASSUME Tidy, NEW t \in Tasks, BeginOnBucket(t) \/ BeginAdd(t) \/ BeginOnKey(t)
    PROVE  AInv'
<1>1. PICK r : /\ Become(t, r) /\ r.op \in Kinds /\ r.pc = "ask"
               /\ r.op = "add" => r.key \in Mems
    <2>1. Idle \in TaskRecord
      BY IdleIsSound
    <2>2. CASE BeginOnBucket(t)
        <3>1. PICK o \in {"set", "create", "compress", "split", "refresh"}, b \in Handles,
                  s \in Titles \cup {None} :
               /\ Starting(t, o)
               /\ Become(t, [Idle EXCEPT !.op = o, !.pc = "ask", !.b = b, !.title = s])
          BY <2>2 DEF BeginOnBucket
        <3> DEFINE q == [Idle EXCEPT !.op = o, !.pc = "ask", !.b = b, !.title = s]
        <3>2. q.op = o /\ q.pc = "ask" /\ o \in Kinds /\ o # "add" /\ Become(t, q)
          BY <2>1, <3>1 DEF TaskRecord, Starting
        <3> HIDE DEF q
        <3> QED BY <3>2
    <2>3. CASE BeginAdd(t)
        <3>1. PICK b \in Handles, m \in Mems :
               /\ Starting(t, "add")
               /\ Become(t, [Idle EXCEPT !.op = "add", !.pc = "ask", !.b = b, !.key = m])
          BY <2>3 DEF BeginAdd
        <3> DEFINE q == [Idle EXCEPT !.op = "add", !.pc = "ask", !.b = b, !.key = m]
        <3>2. q.op = "add" /\ q.pc = "ask" /\ q.key = m /\ "add" \in Kinds /\ Become(t, q)
          BY <2>1, <3>1 DEF TaskRecord, Starting
        <3> HIDE DEF q
        <3> QED BY <3>2
    <2>4. CASE BeginOnKey(t)
        <3>1. PICK o \in {"edit", "gray", "ungray", "delete", "move"}, k \in Keys,
                  g \in Handles \cup {None} :
               /\ Starting(t, o)
               /\ Become(t, [Idle EXCEPT !.op = o, !.pc = "ask", !.b = rec[k].bucket,
                                      !.key = k, !.child = rec[k].child,
                                      !.goal = IF o = "delete" /\ rec[k].child # None
                                               THEN info[rec[k].child].parent ELSE g])
          BY <2>4 DEF BeginOnKey
        <3> DEFINE q == [Idle EXCEPT !.op = o, !.pc = "ask", !.b = rec[k].bucket,
                                      !.key = k, !.child = rec[k].child,
                                      !.goal = IF o = "delete" /\ rec[k].child # None
                                               THEN info[rec[k].child].parent ELSE g]
        <3>2. q.op = o /\ q.pc = "ask" /\ o \in Kinds /\ o # "add" /\ Become(t, q)
          BY <2>1, <3>1 DEF TaskRecord, Starting
        <3> HIDE DEF q
        <3> QED BY <3>2
    <2> QED BY <2>2, <2>3, <2>4
<1>2. Plain(r) /\ Fresh(r, made, info) /\ (InTurn => Aware(r, made, info, rec))
  BY <1>1, Unaware DEF Summing
<1>3. UNCHANGED treeVars /\ task[t].op = "idle" /\ task[t].pc = "done"
    <2>1. UNCHANGED treeVars /\ task[t].op = "idle"
      BY DEF BeginOnBucket, BeginAdd, BeginOnKey, Starting
    <2> QED BY <2>1, Around DEF Sound, InPlace
<1> QED BY <1>1, <1>2, <1>3, Walks DEF treeVars

LEMMA LockAgrees ==
    ASSUME Tidy, NEW t \in Tasks, Ask(t) \/ Enter(t)
    PROVE  AInv'
<1> DEFINE x == task[t]
<1>0. /\ x \in TaskRecord /\ x.pc \in {"ask", "wait"} /\ x.op # "idle" /\ UNCHANGED treeVars
      /\ x.into = None /\ x.op \in Kinds /\ (InTurn => (x.op = "add" => x.key \in Mems))
    <2>1. x.pc \in {"ask", "wait"} /\ UNCHANGED treeVars
      BY DEF Ask, Enter, At, LocalStep
    <2>2. x.op # "idle" /\ x.into = None
      BY <2>1, Around DEF Sound, InPlace, Summaries
    <2> QED BY <2>1, <2>2, Around DEF Plain, Aware
<1>1. PICK r : /\ Become(t, r) /\ r.op = x.op /\ r.key = x.key /\ r.into = None
               /\ r.pc \in {"wait", "look", "aim", "summary", "write", "first", "check", "reread"}
               /\ r.pc = "aim" => r.op = "create"
               /\ r.pc = "summary" => r.op = "refresh"
               /\ r.pc \in {"write", "first"} => r.op = "add"
    <2>1. CASE Ask(t)
        <3>1. PICK b \in 1..made, g \in {{}} \cup {{c} : c \in 1..made} :
               Become(t, [x EXCEPT !.pc = "wait", !.b = b,
                             !.want = {b} \cup g \cup
                                 (IF x.op \in {"set", "create"} THEN {Meta} ELSE {})])
          BY <2>1 DEF Ask
        <3> DEFINE q == [x EXCEPT !.pc = "wait", !.b = b,
                             !.want = {b} \cup g \cup
                                 (IF x.op \in {"set", "create"} THEN {Meta} ELSE {})]
        <3>2. q.op = x.op /\ q.pc = "wait" /\ q.key = x.key /\ q.into = None /\ Become(t, q)
          BY <1>0, <3>1 DEF TaskRecord
        <3> HIDE DEF q
        <3> QED BY <3>2
    <2>2. CASE Enter(t)
        <3> DEFINE p == Begins(x)
                   q == [x EXCEPT !.held = x.want, !.want = {}, !.sums = <<x.b>>, !.pc = p]
        <3>1. Become(t, q)
          BY <2>2 DEF Enter
        <3>2. /\ p \in {"look", "aim", "summary", "write", "first", "check", "reread"}
              /\ p = "aim" => x.op = "create"
              /\ p = "summary" => x.op = "refresh"
              /\ p \in {"write", "first"} => x.op = "add"
          BY <1>0, Around, BeginsAs
        <3> HIDE DEF p
        <3>3. q.op = x.op /\ q.pc = p /\ q.key = x.key /\ q.into = None
          BY <1>0 DEF TaskRecord
        <3> HIDE DEF q
        <3> QED BY <3>1, <3>2, <3>3
    <2> QED BY <2>1, <2>2
<1>2. Plain(r) /\ Fresh(r, made, info) /\ (InTurn => Aware(r, made, info, rec))
  BY <1>0, <1>1, Unaware DEF Summing, Summarizing
<1> QED BY <1>0, <1>1, <1>2, Walks DEF treeVars

\* set_bucket finds the child its title leads to, or none.
LEMMA LookAgrees ==
    ASSUME Tidy, NEW t \in Tasks, Look(t)
    PROVE  AInv'
<1> DEFINE x == task[t]
           c == titleOf[x.b][x.title]
<1>0. x \in TaskRecord /\ x.pc = "look" /\ UNCHANGED treeVars /\ x.op = "set" /\ x.op \in Kinds
    <2>1. x.pc = "look" /\ UNCHANGED treeVars
      BY DEF Look, At, LocalStep
    <2> QED BY <2>1, Around DEF Sound, InPlace, Plain
<1>1. c # None => c \in Buckets
    <2>1. x.b \in 1..made /\ x.b \in Buckets /\ x.title \in Titles
      BY <1>0, Around DEF Sound, Sources, Records
    <2> QED BY <2>1, Around DEF TreeTypeOK
<1>2. Quit(t) \/ \E q : /\ Become(t, q) /\ q.op = x.op /\ q.pc \in {"aim", "untitle"}
    <2>1. CASE c = None
        <3>1. Step(t, "aim")
          BY <2>1 DEF Look
        <3> DEFINE q == [x EXCEPT !.pc = "aim"]
        <3>2. q.op = x.op /\ q.pc = "aim" /\ Become(t, q)
          BY <1>0, <3>1 DEF TaskRecord, Step
        <3> HIDE DEF q
        <3> QED BY <3>2
    <2>2. CASE c # None
        <3>1. Resolve(c) = c
          BY <1>1, <2>2, Itself
        <3>2. Quit(t) \/ Become(t, [x EXCEPT !.pc = "untitle", !.child = c])
          BY <2>2, <3>1 DEF Look
        <3> DEFINE q == [x EXCEPT !.pc = "untitle", !.child = c]
        <3>3. q.op = x.op /\ q.pc = "untitle"
          BY <1>0 DEF TaskRecord
        <3> HIDE DEF q
        <3> QED BY <3>2, <3>3 DEF q
    <2> QED BY <2>1, <2>2
<1>3. CASE Quit(t)
  BY <1>0, <1>3, Leaves DEF treeVars
<1>4. ASSUME NEW q, Become(t, q), q.op = x.op, q.pc \in {"aim", "untitle"} PROVE AInv'
    <2>1. Plain(q) /\ Fresh(q, made, info) /\ (InTurn => Aware(q, made, info, rec))
      BY <1>0, <1>4, Unaware DEF Summing
    <2> QED BY <1>0, <1>4, <2>1, Walks DEF treeVars
<1> QED BY <1>2, <1>3, <1>4

LEMMA TitlesForgotten ==
    ASSUME NEW p, NEW c, RemoveTitleRefs(p, c), TreeTypeOK
    PROVE  /\ UNCHANGED <<info, made, rec>>
           /\ \A q \in Buckets, s \in Titles : titleOf'[q][s] \in {titleOf[q][s], None}
BY DEF RemoveTitleRefs, TreeTypeOK

LEMMA ForgetAgrees ==
    ASSUME Tidy, NEW t \in Tasks, FixTitle(t) \/ Forget(t)
    PROVE  AInv'
<1> DEFINE x == task[t]
<1>1. CASE FixTitle(t)
    <2>1. x.pc # "retitle" /\ x \in TaskRecord /\ TreeTypeOK
      BY Around DEF Plain
    <2>2. x.pc = "untitle" /\ RemoveTitleRefs(x.b, x.child) /\ Step(t, "aim")
      BY <1>1, <2>1 DEF FixTitle, At
    <2>3. x.op = "set" /\ x.op \in Kinds
      BY <2>2, Around DEF Sound, InPlace, Plain
    <2> DEFINE q == [x EXCEPT !.pc = "aim"]
    <2>4. q.op = x.op /\ q.pc = "aim" /\ Become(t, q)
      BY <2>1, <2>2 DEF TaskRecord, Step
    <2> HIDE DEF q
    <2>5. Plain(q) /\ Fresh(q, made, info) /\ (InTurn => Aware(q, made, info, rec))
      BY <2>3, <2>4, Unaware DEF Summing
    <2>6. /\ UNCHANGED <<info, made, rec>>
          /\ \A p \in Buckets, s \in Titles : titleOf'[p][s] \in {titleOf[p][s], None}
      BY <2>1, <2>2, TitlesForgotten
    <2> QED BY <2>2, <2>4, <2>5, <2>6, Walks
<1>2. CASE Forget(t)
    <2>1. x.pc = "forget" /\ RemoveTitleRefs(x.goal, x.child) /\ Quit(t) /\ TreeTypeOK
      BY <1>2, Around DEF Forget, At
    <2>2. /\ UNCHANGED <<info, made, rec>>
          /\ \A p \in Buckets, s \in Titles : titleOf'[p][s] \in {titleOf[p][s], None}
      BY <2>1, TitlesForgotten
    <2> QED BY <2>1, <2>2, Leaves
<1> QED BY <1>1, <1>2

LEMMA AimAgrees ==
    ASSUME Tidy, NEW t \in Tasks, Aim(t)
    PROVE  AInv'
<1> DEFINE x == task[t]
<1>0. x \in TaskRecord /\ x.pc = "aim" /\ UNCHANGED treeVars /\ x.op \in {"set", "create"} /\ x.op \in Kinds
    <2>1. x.pc = "aim" /\ UNCHANGED treeVars
      BY DEF Aim, At, LocalStep
    <2> QED BY <2>1, Around DEF Plain
<1>1. Quit(t) \/ \E p \in {None} \cup 1..made : Become(t, [x EXCEPT !.pc = "make", !.up = p])
  BY DEF Aim
<1>2. CASE Quit(t)
  BY <1>0, <1>2, Leaves DEF treeVars
<1>3. ASSUME NEW p \in {None} \cup 1..made, Become(t, [x EXCEPT !.pc = "make", !.up = p]) PROVE AInv'
    <2> DEFINE q == [x EXCEPT !.pc = "make", !.up = p]
    <2>1. q.op = x.op /\ q.pc = "make" /\ Become(t, q)
      BY <1>0, <1>3 DEF TaskRecord
    <2> HIDE DEF q
    <2>2. Plain(q) /\ Fresh(q, made, info) /\ (InTurn => Aware(q, made, info, rec))
      BY <1>0, <2>1, Unaware DEF Summing
    <2> QED BY <1>0, <2>1, <2>2, Walks DEF treeVars
<1> QED BY <1>1, <1>2, <1>3

\* create_child_bucket: the new bucket hangs under its parent, as do the others.
LEMMA HangsMade ==
    ASSUME TreeTypeOK, NEW p \in 1..made, NEW lvl \in 1..MaxDepth, NEW s \in Titles \cup {None},
           CreateBucket(p, lvl, s)
    PROVE  /\ made + 1 \in Buckets /\ made' = made + 1 /\ rec' = rec
           /\ Hangs(made + 1, p, info')
           /\ \A c, q \in 1..made : Hangs(c, q, info) => Hangs(c, q, info')
           /\ NoneSealed => NoneSealed'
           /\ \A q \in Buckets, z \in Titles :
                 \/ titleOf'[q][z] = titleOf[q][z]
                 \/ q = p /\ titleOf'[q][z] = made + 1
<1>1. /\ made + 1 \in Buckets /\ made' = made + 1 /\ rec' = rec
      /\ info' = [x \in Buckets |->
                       IF x = made + 1 THEN Row(p, lvl)
                       ELSE IF x = p
                            THEN [info[x] EXCEPT !.children = @ \cup {made + 1}]
                            ELSE info[x]]
      /\ titleOf' = IF s = None \/ p = None THEN titleOf
                    ELSE [titleOf EXCEPT ![p] = [@ EXCEPT ![s] = made + 1]]
  BY DEF CreateBucket
<1>2. made \in Nat /\ 1..made \subseteq Buckets /\ p \in Buckets /\ p # made + 1
  BY Numbers DEF TreeTypeOK
<1>3. \A x \in Buckets : info[x] \in BucketInfo
  BY DEF TreeTypeOK
<1>4. info'[made + 1].parent = p /\ ~info'[made + 1].sealed
  BY <1>1 DEF Row
<1>5. /\ info'[p].children = info[p].children \cup {made + 1}
      /\ info'[p].parent = info[p].parent /\ info'[p].sealed = info[p].sealed
  BY <1>1, <1>2, <1>3 DEF BucketInfo
<1>6. \A x \in Buckets : x # made + 1 /\ x # p => info'[x] = info[x]
  BY <1>1
<1>7. ASSUME NEW c \in 1..made, NEW q \in 1..made, Hangs(c, q, info) PROVE Hangs(c, q, info')
    <2>1. c \in Buckets /\ c # made + 1 /\ q \in Buckets /\ q # made + 1
      BY <1>2
    <2>2. info'[c].parent = info[c].parent /\ info[q].children \subseteq info'[q].children
      BY <1>5, <1>6, <2>1
    <2> QED BY <1>7, <2>2 DEF Hangs
<1>8. NoneSealed => NoneSealed'
  BY <1>4, <1>5, <1>6 DEF NoneSealed
<1>9. ASSUME NEW q \in Buckets, NEW z \in Titles
      PROVE  \/ titleOf'[q][z] = titleOf[q][z]
             \/ q = p /\ titleOf'[q][z] = made + 1
    <2>1. titleOf \in [Buckets -> [Titles -> Buckets \cup {None}]]
      BY DEF TreeTypeOK
    <2>2. CASE s = None \/ p = None
      BY <1>1, <2>2
    <2>3. CASE s # None /\ p # None
        <3>1. titleOf' = [titleOf EXCEPT ![p] = [titleOf[p] EXCEPT ![s] = made + 1]]
          BY <1>1, <1>2, <2>1, <2>3
        <3> QED BY <1>2, <2>1, <3>1
    <2> QED BY <2>2, <2>3
<1>10. Hangs(made + 1, p, info')
  BY <1>4, <1>5 DEF Hangs
<1> QED BY <1>1, <1>7, <1>8, <1>9, <1>10

LEMMA MakeAgrees ==
    ASSUME Tidy, NEW t \in Tasks, Make(t)
    PROVE  AInv'
<1> DEFINE x == task[t]
           lvl == info[x.up].level + 1
           r == [x EXCEPT !.child = made + 1, !.pc = "node"]
<1>0. /\ x \in TaskRecord /\ Sound(x, made, info) /\ x.pc = "make" /\ x.op \in {"set", "create"}
      /\ x.op \in Kinds /\ TreeTypeOK /\ made \in Nat /\ 1..made \subseteq Buckets /\ Titled /\ NoneSealed
    <2>1. x.pc = "make"
      BY DEF Make, At
    <2> QED BY <2>1, Around DEF Plain
<1>1. ForChild(t) /\ ~IsSuccessor(t)
  BY <1>0 DEF ForChild, IsSuccessor
<1>2. CreateBucket(x.up, lvl, x.title) /\ Become(t, r)
  BY <1>1 DEF Make
<1>3. x.up \in 1..made /\ lvl \in 1..MaxDepth /\ x.title \in Titles \cup {None}
    <2>1. x.up \in 1..made /\ info[x.up].level < MaxDepth
      BY <1>0 DEF Sound, Children
    <2>2. info[x.up].level \in 1..MaxDepth
      BY <1>0, <2>1 DEF TreeTypeOK, BucketInfo
    <2>3. x.title \in Titles \cup {None}
      BY <1>0 DEF TaskRecord
    <2>4. lvl \in 1..MaxDepth
      BY <2>1, <2>2, Numbers
    <2> QED BY <2>1, <2>3, <2>4
<1> HIDE DEF lvl
<1>4. r.op = x.op /\ r.pc = "node" /\ r.child = made + 1 /\ r.up = x.up
  BY <1>0 DEF TaskRecord
<1> HIDE DEF r, x
<1>5. /\ made + 1 \in Buckets /\ made' = made + 1 /\ rec' = rec
      /\ Hangs(made + 1, x.up, info')
      /\ \A c, q \in 1..made : Hangs(c, q, info) => Hangs(c, q, info')
      /\ NoneSealed'
      /\ \A q \in Buckets, z \in Titles :
            \/ titleOf'[q][z] = titleOf[q][z]
            \/ q = x.up /\ titleOf'[q][z] = made + 1
  BY <1>0, <1>2, <1>3, HangsMade
<1>6. 1..made \subseteq 1..made' /\ made + 1 \in 1..made' /\ x.up \in 1..made'
  BY <1>0, <1>3, <1>5
<1>7. Titled'
    <2>1. ASSUME NEW q \in Buckets, NEW z \in Titles, titleOf'[q][z] # None
          PROVE  q \in 1..made' /\ titleOf'[q][z] \in 1..made' /\ Hangs(titleOf'[q][z], q, info')
        <3>1. CASE titleOf'[q][z] = titleOf[q][z]
            <4>1. q \in 1..made /\ titleOf[q][z] \in 1..made /\ Hangs(titleOf[q][z], q, info)
              BY <1>0, <2>1, <3>1 DEF Titled
            <4> QED BY <1>5, <1>6, <3>1, <4>1
        <3>2. CASE q = x.up /\ titleOf'[q][z] = made + 1
          BY <1>5, <1>6, <3>2
        <3> QED BY <1>5, <3>1, <3>2
    <2> QED BY <2>1 DEF Titled
<1>8. Plain(r) /\ Fresh(r, made', info')
  BY <1>0, <1>4 DEF Plain, Fresh, Compressing, Summing
<1>9. Aware(r, made', info', rec')
  BY <1>0, <1>4, <1>5, <1>6 DEF Aware
<1>10. ASSUME InTurn PROVE Agreement'
    <2>1. /\ \A m \in Mems : rec[m].child = None
          /\ \A k \in Buckets : rec[k].bucket # None =>
                /\ k \in 1..made /\ rec[k].child = k /\ rec[k].bucket \in 1..made
                /\ Hangs(k, rec[k].bucket, info)
      BY <1>0, <1>10, Settled DEF x
    <2> QED BY <1>5, <1>6, <2>1 DEF Agreement
<1> QED BY <1>2, <1>5, <1>7, <1>8, <1>9, <1>10, Onwards

\* Outcomes of writing a record where nothing is sealed.
LEMMA Puts ==
    ASSUME Tidy, NEW t \in Tasks, NEW k, NEW w, NEW q, Put(t, k, w, q)
    PROVE  \/ /\ rec' = [rec EXCEPT ![k] = w] /\ UNCHANGED <<info, made, titleOf>>
              /\ Become(t, q)
           \/ /\ w.bucket \notin Buckets
              /\ Quit(t) /\ UNCHANGED treeVars
BY DEF Put, GiveUp, LocalStep, Write, MayWrite, Tidy, AInv, NoneSealed

LEMMA NodeAgrees ==
    ASSUME Tidy, NEW t \in Tasks, Node(t)
    PROVE  AInv'
<1> DEFINE x == task[t]
           k == x.child
           w == [bucket |-> x.up, gray |-> FALSE, child |-> k]
<1>0. /\ x \in TaskRecord /\ x.pc = "node" /\ x.op \in {"set", "create"} /\ TreeTypeOK
      /\ InTurn => k \in 1..made /\ x.up \in 1..made /\ Hangs(k, x.up, info)
      /\ 1..made \subseteq Buckets
    <2>1. x.pc = "node"
      BY DEF Node, At
    <2> QED BY <2>1, Around DEF Plain, Aware
<1>1. Put(t, k, w, Idle)
  BY <1>0 DEF Node
<1>2. w.bucket = x.up /\ w.child = k
    OBVIOUS
<1> HIDE DEF w, Idle
<1>3. CASE Quit(t) /\ UNCHANGED treeVars
  BY <1>0, <1>3, Leaves DEF treeVars
<1>4. CASE rec' = [rec EXCEPT ![k] = w] /\ UNCHANGED <<info, made, titleOf>> /\ Become(t, Idle)
    <2>1. ASSUME InTurn PROVE Agreement'
        <3>1. /\ \A m \in Mems : rec[m].child = None
              /\ \A j \in Buckets : rec[j].bucket # None =>
                    /\ j \in 1..made /\ rec[j].child = j /\ rec[j].bucket \in 1..made
                    /\ Hangs(j, rec[j].bucket, info)
          BY <1>0, <2>1, Settled
        <3>2. k \in Buckets /\ k \in 1..made /\ x.up \in 1..made /\ Hangs(k, x.up, info)
          BY <1>0, <2>1
        <3>3. /\ \A j \in Keys : j # k => rec'[j] = rec[j]
              /\ rec'[k] = w
          BY <1>0, <1>4, <3>2, Numbers DEF TreeTypeOK
        <3>4. \A m \in Mems : rec'[m].child = None
          BY <3>1, <3>2, <3>3, Numbers
        <3>5. ASSUME NEW j \in Buckets, rec'[j].bucket # None
              PROVE  /\ j \in 1..made' /\ rec'[j].child = j /\ rec'[j].bucket \in 1..made'
                     /\ Hangs(j, rec'[j].bucket, info')
            <4>1. CASE j = k
              BY <1>2, <1>4, <3>2, <3>3, <4>1
            <4>2. CASE j # k
              BY <1>4, <3>1, <3>3, <3>5, <4>2, Numbers
            <4> QED BY <4>1, <4>2
        <3> QED BY <3>4, <3>5 DEF Agreement
    <2>2. Plain(Idle) /\ Fresh(Idle, made, info) /\ (InTurn => Aware(Idle, made, info, rec'))
      BY IdleIsPlain
    <2> QED BY <1>4, <2>1, <2>2, Pens
<1> QED BY <1>1, <1>3, <1>4, Puts

\* A write that leaves a record where and what it is, or is of no bucket's record.
LEMMA SameRecord ==
    ASSUME Tidy, InTurn, NEW t \in Tasks, task[t].pc \notin {"out", "in"},
           NEW k \in Keys, NEW w, rec' = [rec EXCEPT ![k] = w],
           w.child = rec[k].child, k \in Mems \/ w.bucket = rec[k].bucket,
           UNCHANGED <<info, made, titleOf>>
    PROVE  Agreement'
<1>1. /\ \A m \in Mems : rec[m].child = None
      /\ \A j \in Buckets : rec[j].bucket # None =>
            /\ j \in 1..made /\ rec[j].child = j /\ rec[j].bucket \in 1..made
            /\ Hangs(j, rec[j].bucket, info)
  BY Settled
<1>2. \A j \in Keys : rec'[j] = IF j = k THEN w ELSE rec[j]
  BY Around DEF TreeTypeOK
<1>3. \A m \in Mems : rec'[m].child = None
  BY <1>1, <1>2, Numbers
<1>4. ASSUME NEW j \in Buckets, rec'[j].bucket # None
      PROVE  /\ j \in 1..made' /\ rec'[j].child = j /\ rec'[j].bucket \in 1..made'
             /\ Hangs(j, rec'[j].bucket, info')
    <2>1. rec'[j].bucket = rec[j].bucket /\ rec'[j].child = rec[j].child
      BY <1>2, Numbers
    <2> QED BY <1>1, <1>4, <2>1
<1> QED BY <1>3, <1>4 DEF Agreement

LEMMA AddAgrees ==
    ASSUME Tidy, NEW t \in Tasks, AddMemory(t)
    PROVE  AInv'
<1> DEFINE x == task[t]
           w == [bucket |-> x.b, gray |-> FALSE, child |-> None]
           r == [x EXCEPT !.pc = "summary"]
           q == IF x.pc = "first" THEN r ELSE Idle
<1>0. /\ x \in TaskRecord /\ x.pc \in {"write", "first"} /\ x.op = "add" /\ x.op \in Kinds /\ x.into = None
      /\ InTurn => x.key \in Mems
    <2>1. x.pc \in {"write", "first"}
      BY DEF AddMemory, At
    <2>2. x.op = "add"
      BY <2>1, Around DEF Sound, InPlace
    <2> QED BY <2>1, <2>2, Around DEF Plain, Aware, Summing
<1>1. Put(t, x.key, w, q)
  BY DEF AddMemory, At
<1>2. r.op = x.op /\ r.pc = "summary" /\ r.key = x.key /\ r.into = None /\ w.child = None
  BY <1>0 DEF TaskRecord
<1>3. CASE Quit(t) /\ UNCHANGED treeVars
  BY <1>0, <1>3, Leaves DEF treeVars
<1> HIDE DEF r, w, Idle
<1>4. Plain(q) /\ Fresh(q, made, info) /\ (InTurn => Aware(q, made, info, rec'))
    <2>1. Plain(r) /\ Fresh(r, made, info) /\ (InTurn => Aware(r, made, info, rec'))
      BY <1>0, <1>2, Unaware DEF Summing, Summarizing
    <2> QED BY <2>1, IdleIsPlain
<1>5. CASE rec' = [rec EXCEPT ![x.key] = w] /\ UNCHANGED <<info, made, titleOf>> /\ Become(t, q)
    <2>1. ASSUME InTurn PROVE Agreement'
        <3>1. x.key \in Keys /\ x.key \in Mems
          BY <1>0, <2>1, Numbers
        <3>2. rec[x.key].child = None
          BY <1>0, <2>1, <3>1, Settled
        <3> QED BY <1>0, <1>2, <1>5, <2>1, <3>1, <3>2, SameRecord
    <2> HIDE DEF q
    <2> QED BY <1>4, <1>5, <2>1, Pens
<1> HIDE DEF q
<1> QED BY <1>1, <1>3, <1>5, Puts

LEMMA AbandonAgrees ==
    ASSUME Tidy, NEW t \in Tasks, Abandon(t)
    PROVE  AInv'
<1>1. Quit(t) /\ UNCHANGED treeVars /\ ~InTurn
  BY DEF Abandon, InTurn
<1> QED BY <1>1, Leaves DEF treeVars

\* The next bucket whose summary is to refresh, or the end.
LEMMA AfterSummaryAgrees ==
    ASSUME NEW x \in TaskRecord, Plain(x), x.pc \in Summing,
           InTurn => (x.op = "add" => x.key \in Mems), NEW n, NEW f, NEW m
    PROVE  /\ Plain(AfterSummary(x)) /\ Fresh(AfterSummary(x), n, f)
           /\ InTurn => Aware(AfterSummary(x), n, f, m)
<1>1. x.op \in Summarizing /\ x.into = None /\ x.op \in Kinds \cup {"idle"}
  BY DEF Plain
<1> DEFINE r == [x EXCEPT !.pc = "summary", !.sums = Tail(x.sums)]
<1>2. AfterSummary(x) = IF Len(x.sums) > 1 THEN r ELSE Idle
  BY <1>1 DEF AfterSummary
<1>3. r.op = x.op /\ r.pc = "summary" /\ r.key = x.key /\ r.into = None
  BY <1>1 DEF TaskRecord
<1> HIDE DEF r, Idle
<1>4. Plain(r) /\ Fresh(r, n, f) /\ (InTurn => Aware(r, n, f, m))
  BY <1>1, <1>3, Unaware DEF Summarizing
<1> QED BY <1>2, <1>4, IdleIsPlain

LEMMA SummaryAgrees ==
    ASSUME Tidy, NEW t \in Tasks, Summary(t)
    PROVE  AInv'
<1> DEFINE x == task[t]
           r == [x EXCEPT !.pc = "save", !.old = info[Head(x.sums)]]
<1>0. /\ x \in TaskRecord /\ Plain(x) /\ x.pc = "summary" /\ UNCHANGED treeVars
      /\ InTurn => (x.op = "add" => x.key \in Mems)
    <2>1. x.pc = "summary" /\ UNCHANGED treeVars
      BY DEF Summary, At, LocalStep
    <2> QED BY <2>1, Around DEF Aware
<1>1. Become(t, AfterSummary(x)) \/ Become(t, r)
  BY DEF Summary
<1>2. CASE Become(t, AfterSummary(x))
    <2>1. x.pc \in Summing
      BY <1>0 DEF Summing
    <2> DEFINE q == AfterSummary(x)
    <2>2. Plain(q) /\ Fresh(q, made, info) /\ (InTurn => Aware(q, made, info, rec))
      BY <1>0, <2>1, AfterSummaryAgrees
    <2>3. Become(t, q)
      BY <1>2
    <2> HIDE DEF q
    <2> QED BY <1>0, <2>2, <2>3, Walks DEF treeVars
<1>3. CASE Become(t, r)
    <2>1. /\ r.op = x.op /\ r.pc = "save" /\ r.key = x.key /\ r.into = x.into
          /\ r.old = info[Head(r.sums)]
      BY <1>0 DEF TaskRecord
    <2> HIDE DEF r
    <2>2. Plain(r) /\ Fresh(r, made, info)
      BY <1>0, <2>1 DEF Plain, Fresh, Summing, Compressing
    <2>3. InTurn => Aware(r, made, info, rec)
      BY <1>0, <2>1 DEF Aware
    <2> QED BY <1>0, <1>3, <2>2, <2>3, Walks DEF treeVars
<1> QED BY <1>1, <1>2, <1>3

\* update_bucket_info writes the row that is there.
LEMMA SaveAgrees ==
    ASSUME Tidy, NEW t \in Tasks, Save(t)
    PROVE  AInv'
<1> DEFINE x == task[t]
           b == Head(x.sums)
           r == [x EXCEPT !.pc = "node record"]
<1>0. /\ x \in TaskRecord /\ Plain(x) /\ x.pc = "save" /\ x.old = info[b] /\ TreeTypeOK
      /\ InTurn => (x.op = "add" => x.key \in Mems)
    <2>1. x.pc = "save"
      BY DEF Save, At
    <2> QED BY <2>1, Around DEF Aware, Fresh
<1>1. b \in Buckets
    <2>1. x.pc \in Summing
      BY <1>0 DEF Summing
    <2> QED BY <2>1, Heads DEF Tidy
<1>2. Become(t, r) /\ UNCHANGED <<made, titleOf, rec>> /\ info' = [info EXCEPT ![b] = x.old]
  BY DEF Save, SaveInfo, Step
<1>3. info' = info
  BY <1>0, <1>1, <1>2 DEF TreeTypeOK
<1>4. r.op = x.op /\ r.pc = "node record" /\ r.key = x.key /\ r.into = x.into
  BY <1>0 DEF TaskRecord
<1>5. x.op \in Summarizing /\ x.into = None /\ x.op \in Kinds \cup {"idle"}
  BY <1>0 DEF Plain, Summing
<1> HIDE DEF r
<1>6. Plain(r) /\ Fresh(r, made, info) /\ (InTurn => Aware(r, made, info, rec))
  BY <1>0, <1>4, <1>5, Unaware
<1> QED BY <1>0, <1>2, <1>3, <1>6, Walks

LEMMA NodeRecordAgrees ==
    ASSUME Tidy, NEW t \in Tasks, NodeRecord(t)
    PROVE  AInv'
<1> DEFINE x == task[t]
           k == Head(x.sums)
           m == Captured({k})
           r == [x EXCEPT !.pc = "tell", !.was = m, !.goal = Resolve(rec[k].bucket)]
<1>0. /\ x \in TaskRecord /\ Plain(x) /\ x.pc = "node record" /\ UNCHANGED treeVars /\ TreeTypeOK
      /\ InTurn => (x.op = "add" => x.key \in Mems)
    <2>1. x.pc = "node record" /\ UNCHANGED treeVars
      BY DEF NodeRecord, At, LocalStep
    <2> QED BY <2>1, Around DEF Aware
<1>1. x.pc \in Summing /\ k \in Keys
    <2>1. x.pc \in Summing
      BY <1>0 DEF Summing
    <2> QED BY <2>1, Heads DEF Tidy
<1>2. Become(t, AfterSummary(x)) \/ (Live(k) /\ Become(t, r))
  BY DEF NodeRecord
<1>3. CASE Become(t, AfterSummary(x))
    <2> DEFINE q == AfterSummary(x)
    <2>2. Plain(q) /\ Fresh(q, made, info) /\ (InTurn => Aware(q, made, info, rec))
      BY <1>0, <1>1, AfterSummaryAgrees
    <2>3. Become(t, q)
      BY <1>3
    <2> HIDE DEF q
    <2> QED BY <1>0, <2>2, <2>3, Walks DEF treeVars
<1>4. CASE Live(k) /\ Become(t, r)
    <2>1. rec[k].bucket \in Buckets
      BY <1>0, <1>1, <1>4 DEF Live, TreeTypeOK, MemoryRecord
    <2>2. Resolve(rec[k].bucket) = rec[k].bucket
      BY <2>1, Itself
    <2>3. m[k] = rec[k]
      BY <1>1 DEF Captured
    <2> HIDE DEF m
    <2>4. /\ r.op = x.op /\ r.pc = "tell" /\ r.key = x.key /\ r.into = x.into
          /\ r.sums = x.sums /\ r.was = m /\ r.goal = rec[k].bucket
      BY <1>0, <2>2 DEF TaskRecord
    <2> HIDE DEF r
    <2>5. Plain(r) /\ Fresh(r, made, info)
      BY <1>0, <1>1, <2>4 DEF Plain, Fresh, Summing, Compressing
    <2>6. InTurn => Aware(r, made, info, rec)
      BY <1>0, <2>3, <2>4 DEF Aware
    <2> QED BY <1>0, <1>4, <2>5, <2>6, Walks DEF treeVars
<1> QED BY <1>2, <1>3, <1>4

\* The node record keeps its place.
LEMMA TellAgrees ==
    ASSUME Tidy, NEW t \in Tasks, Tell(t)
    PROVE  AInv'
<1> DEFINE x == task[t]
           k == Head(x.sums)
           w == [x.was[k] EXCEPT !.bucket = x.goal]
           r == [x EXCEPT !.goal = None]
           q == AfterSummary(r)
<1>0. /\ x \in TaskRecord /\ Plain(x) /\ x.pc = "tell"
      /\ InTurn => (x.op = "add" => x.key \in Mems) /\ x.was[k] = rec[k] /\ x.goal = rec[k].bucket
      /\ Put(t, k, w, q)
    <2>1. x.pc = "tell" /\ Put(t, k, w, q)
      BY DEF Tell, At
    <2> QED BY <2>1, Around DEF Aware
<1>1. x.pc \in Summing /\ k \in Keys
    <2>1. x.pc \in Summing
      BY <1>0 DEF Summing
    <2> QED BY <2>1, Heads DEF Tidy
<1>2. r \in TaskRecord /\ r.op = x.op /\ r.pc = "tell" /\ r.key = x.key /\ r.into = x.into
    <2>1. None \in 0..MaxBuckets
      BY Known DEF Tidy
    <2> QED BY <1>0, <2>1 DEF TaskRecord
<1>3. w.bucket = x.goal /\ w.child = x.was[k].child
  BY <1>0, <1>1 DEF TaskRecord, MemoryRecord
<1> HIDE DEF r, w, k
<1>4. Plain(r)
  BY <1>0, <1>2 DEF Plain
<1>5. Plain(q) /\ Fresh(q, made, info) /\ (InTurn => Aware(q, made, info, rec'))
  BY <1>0, <1>1, <1>2, <1>4, AfterSummaryAgrees
<1> HIDE DEF q
<1>6. CASE Quit(t) /\ UNCHANGED treeVars
  BY <1>0, <1>6, Leaves DEF treeVars
<1>7. CASE rec' = [rec EXCEPT ![k] = w] /\ UNCHANGED <<info, made, titleOf>> /\ Become(t, q)
    <2>1. ASSUME InTurn PROVE Agreement'
      BY <1>0, <1>1, <1>3, <1>7, <2>1, SameRecord
    <2> QED BY <1>5, <1>7, <2>1, Pens
<1> QED BY <1>0, <1>6, <1>7, Puts

LEMMA AfterRewriteAgrees ==
    ASSUME NEW x \in TaskRecord, x.op \in Kinds, x.op # "add", NEW n, NEW f, NEW m
    PROVE  /\ Plain(AfterRewrite(x)) /\ Fresh(AfterRewrite(x), n, f)
           /\ InTurn => Aware(AfterRewrite(x), n, f, m)
<1> DEFINE r == [x EXCEPT !.pc = "forget", !.held = {}]
<1>1. r.op = x.op /\ r.pc = "forget"
  BY DEF TaskRecord
<1>2. AfterRewrite(x) = r \/ AfterRewrite(x) = Idle
  BY DEF AfterRewrite
<1> HIDE DEF r, Idle, AfterRewrite
<1>3. Plain(r) /\ Fresh(r, n, f) /\ (InTurn => Aware(r, n, f, m))
  BY <1>1, Unaware DEF Summing
<1> QED BY <1>2, <1>3, IdleIsPlain

LEMMA RereadAgrees ==
    ASSUME Tidy, NEW t \in Tasks, Reread(t)
    PROVE  AInv'
<1> DEFINE x == task[t]
           m == Captured({x.key})
           r == [x EXCEPT !.pc = "rewrite", !.was = m]
<1>0. /\ x \in TaskRecord /\ x.pc = "reread" /\ UNCHANGED treeVars /\ x.op \in KeyOps
      /\ x.op \in Kinds /\ x.key \in Keys
    <2>1. x.pc = "reread" /\ UNCHANGED treeVars
      BY DEF Reread, At, LocalStep
    <2>2. x.op \in KeyOps /\ x.key \in Keys
      BY <2>1, Around DEF Sound, InPlace, Records
    <2> QED BY <2>1, <2>2, Around DEF Plain, KeyOps
<1>1. Become(t, AfterRewrite(x)) \/ Become(t, r)
  BY DEF Reread
<1>2. CASE Become(t, AfterRewrite(x))
    <2> DEFINE q == AfterRewrite(x)
    <2>2. Plain(q) /\ Fresh(q, made, info) /\ (InTurn => Aware(q, made, info, rec))
      BY <1>0, AfterRewriteAgrees DEF KeyOps
    <2>3. Become(t, q)
      BY <1>2
    <2> HIDE DEF q
    <2> QED BY <1>0, <2>2, <2>3, Walks DEF treeVars
<1>3. CASE Become(t, r)
    <2>1. m[x.key] = rec[x.key]
      BY <1>0 DEF Captured
    <2> HIDE DEF m
    <2>2. r.op = x.op /\ r.pc = "rewrite" /\ r.key = x.key /\ r.was = m
      BY <1>0 DEF TaskRecord
    <2> HIDE DEF r
    <2>3. Plain(r) /\ Fresh(r, made, info)
      BY <1>0, <2>2 DEF Plain, Fresh, Summing, Compressing, KeyOps
    <2>4. InTurn => Aware(r, made, info, rec)
      BY <1>0, <2>1, <2>2 DEF Aware, KeyOps
    <2> QED BY <1>0, <1>3, <2>3, <2>4, Walks DEF treeVars
<1> QED BY <1>1, <1>2, <1>3

LEMMA RewriteAgrees ==
    ASSUME Tidy, NEW t \in Tasks, Rewrite(t)
    PROVE  AInv'
<1> DEFINE x == task[t]
           k == x.key
           w == [x.was[k] EXCEPT !.gray = (x.op \in {"gray", "delete"})]
           q == AfterRewrite(x)
<1>0. /\ x \in TaskRecord /\ x.pc = "rewrite" /\ x.op \in KeyOps /\ x.op \in Kinds
      /\ k \in Keys /\ (InTurn => x.was[k] = rec[k])
    <2>1. x.pc = "rewrite"
      BY DEF Rewrite, At
    <2>2. x.op \in KeyOps /\ k \in Keys
      BY <2>1, Around DEF Sound, InPlace, Records
    <2> QED BY <2>1, <2>2, Around DEF Plain, Aware, KeyOps
<1>1. \/ rec' = [rec EXCEPT ![k] = w] /\ UNCHANGED <<info, made, titleOf>> /\ Become(t, q)
      \/ Quit(t) /\ UNCHANGED treeVars
  BY DEF Rewrite, Write, GiveUp, LocalStep
<1>2. w.bucket = x.was[k].bucket /\ w.child = x.was[k].child
  BY <1>0 DEF TaskRecord, MemoryRecord
<1>3. Plain(q) /\ Fresh(q, made, info) /\ (InTurn => Aware(q, made, info, rec'))
  BY <1>0, AfterRewriteAgrees DEF KeyOps
<1> HIDE DEF q, w
<1>4. CASE Quit(t) /\ UNCHANGED treeVars
  BY <1>0, <1>4, Leaves DEF treeVars
<1>5. CASE rec' = [rec EXCEPT ![k] = w] /\ UNCHANGED <<info, made, titleOf>> /\ Become(t, q)
    <2>1. ASSUME InTurn PROVE Agreement'
      BY <1>0, <1>2, <1>5, <2>1, SameRecord
    <2> QED BY <1>3, <1>5, <2>1, Pens
<1> QED BY <1>1, <1>4, <1>5

LEMMA CheckAgrees ==
    ASSUME Tidy, NEW t \in Tasks, Check(t)
    PROVE  AInv'
<1> DEFINE x == task[t]
           k == x.key
<1>0. /\ x \in TaskRecord /\ x.pc = "check" /\ UNCHANGED treeVars /\ x.op = "move" /\ k \in Keys
      /\ x.op \in Kinds /\ TreeTypeOK
    <2>1. x.pc = "check" /\ UNCHANGED treeVars
      BY DEF Check, At, LocalStep
    <2>2. x.op = "move" /\ k \in Keys
      BY <2>1, Around DEF Sound, InPlace, Records, KeyOps
    <2> QED BY <2>1, <2>2, Around DEF Plain
<1>1. PICK to \in 1..made, c \in {None} \cup 1..made :
        /\ c = IF rec[k].child = None THEN None ELSE Resolve(rec[k].child)
        /\ \/ Quit(t)
           \/ /\ Live(k)
              /\ Become(t, [x EXCEPT !.pc = IF c # None THEN "rehome" ELSE "out", !.into = to,
                                     !.was = [Captured({k}) EXCEPT ![k].child = c]])
  BY DEF Check, Movable
<1>2. CASE Quit(t)
  BY <1>0, <1>2, Leaves DEF treeVars
<1> DEFINE p == IF c # None THEN "rehome" ELSE "out"
           m == Captured({k})
           w == [m EXCEPT ![k].child = c]
           r == [x EXCEPT !.pc = p, !.into = to, !.was = w]
<1>3. CASE Live(k) /\ Become(t, r)
    <2>1. rec[k] \in MemoryRecord /\ rec[k].bucket \in Buckets /\ c = rec[k].child
        <3>1. rec[k] \in MemoryRecord /\ rec[k].bucket # None
          BY <1>0, <1>3 DEF Live, TreeTypeOK
        <3>2. rec[k].bucket \in Buckets /\ rec[k].child \in Buckets \cup {None}
          BY <3>1 DEF MemoryRecord
        <3>3. rec[k].child # None => Resolve(rec[k].child) = rec[k].child
          BY <3>2, Itself
        <3> QED BY <1>1, <3>1, <3>2, <3>3
    <2>2. m \in [Keys -> MemoryRecord] /\ m[k] = rec[k]
      BY <1>0, CapturedTyped DEF Captured
    <2> HIDE DEF m
    <2>3. w[k].bucket = rec[k].bucket /\ w[k].child = c
      BY <1>0, <2>1, <2>2 DEF MemoryRecord
    <2>4. p = IF c # None THEN "rehome" ELSE "out"
        OBVIOUS
    <2> HIDE DEF w, p
    <2>5. r.op = x.op /\ r.pc = p /\ r.key = k /\ r.into = to /\ r.was = w
      BY <1>0 DEF TaskRecord
    <2>6. Become(t, r)
      BY <1>3
    <2> HIDE DEF r
    <2>7. Plain(r) /\ Fresh(r, made, info)
        <3>1. c # None => c \in 1..made
          BY <1>1
        <3>2. p \in {"rehome", "out"} /\ (p = "rehome" => c \in 1..made)
          BY <2>4, <3>1
        <3> QED BY <1>0, <2>3, <2>5, <3>2 DEF Plain, Fresh, Summing, Compressing
    <2>8. ASSUME InTurn PROVE Aware(r, made, info, rec)
        <3>1. /\ \A j \in Mems : rec[j].child = None
              /\ \A j \in Buckets : rec[j].bucket # None => rec[j].child = j /\ Hangs(j, rec[j].bucket, info)
          BY <1>0, <2>8, Settled
        <3>2. k \in Buckets => c = k
          BY <2>1, <3>1, Numbers
        <3>3. k \notin Buckets => c = None
          BY <1>0, <2>1, <3>1 DEF Keys
        <3>4. p = "rehome" <=> k \in Buckets
          BY <2>4, <3>2, <3>3, Numbers
        <3>5. p \in {"rehome", "out"}
          BY <2>4
        <3> QED BY <1>0, <2>1, <2>3, <2>5, <3>2, <3>3, <3>4, <3>5, Numbers DEF Aware
    <2> QED BY <1>0, <2>6, <2>7, <2>8, Walks DEF treeVars
<1> QED BY <1>1, <1>2, <1>3

\* reparent_bucket without preserving titles: c hangs under p, the others as before.
LEMMA HangsMoved ==
    ASSUME TreeTypeOK, NEW c \in Buckets, NEW p \in Buckets, Reparent(c, p, FALSE)
    PROVE  /\ Hangs(c, p, info')
           /\ \A d, q \in Buckets : d # c /\ Hangs(d, q, info) => Hangs(d, q, info')
           /\ NoneSealed => NoneSealed'
           /\ \A q \in Buckets, s \in Titles : titleOf'[q][s] # None =>
                 \/ q = p /\ titleOf'[q][s] = c
                 \/ titleOf'[q][s] = titleOf[q][s] /\ ~(titleOf[q][s] = c /\ q = info[c].parent)
<1> DEFINE old == info[c].parent
<1>1. ASSUME NEW x \in Buckets
      PROVE  /\ info'[x].parent = IF x = c THEN p ELSE info[x].parent
             /\ info'[x].children = IF x = p THEN info[x].children \cup {c}
                                    ELSE IF x = old THEN Without(info[x].children, c)
                                    ELSE info[x].children
             /\ info'[x].sealed = info[x].sealed
    <2> DEFINE q == IF x = c THEN p ELSE info[x].parent
               C == IF x = p THEN info[x].children \cup {c}
                    ELSE IF x = old THEN Without(info[x].children, c)
                    ELSE info[x].children
    <2>1. info[x] \in BucketInfo
      BY DEF TreeTypeOK
    <2>2. info'[x] = [info[x] EXCEPT !.parent = q, !.children = C]
      BY <2>1 DEF Reparent, BucketInfo
    <2> HIDE DEF q, C
    <2>3. info'[x].parent = q /\ info'[x].children = C /\ info'[x].sealed = info[x].sealed
      BY <2>1, <2>2 DEF BucketInfo
    <2> QED BY <2>3 DEF q, C
<1>2. Hangs(c, p, info')
  BY <1>1 DEF Hangs
<1>3. ASSUME NEW d \in Buckets, NEW q \in Buckets, d # c, Hangs(d, q, info) PROVE Hangs(d, q, info')
  BY <1>1, <1>3 DEF Hangs, Without
<1>4. NoneSealed => NoneSealed'
  BY <1>1 DEF NoneSealed
<1>5. ASSUME NEW q \in Buckets, NEW s \in Titles, titleOf'[q][s] # None
      PROVE  \/ q = p /\ titleOf'[q][s] = c
             \/ titleOf'[q][s] = titleOf[q][s] /\ ~(titleOf[q][s] = c /\ q = old)
    <2>1. titleOf'[q][s] = IF s \in MovingTitles(c) /\ q = p THEN c
                           ELSE IF s \in MovingTitles(c) /\ q = old THEN None
                           ELSE titleOf[q][s]
      BY DEF Reparent
    <2>2. titleOf[q][s] = c /\ q = old => s \in MovingTitles(c)
      BY Numbers DEF MovingTitles
    <2> QED BY <1>5, <2>1, <2>2
<1> QED BY <1>2, <1>3, <1>4, <1>5

LEMMA RehomeAgrees ==
    ASSUME Tidy, NEW t \in Tasks, RehomeMove(t)
    PROVE  AInv'
<1> DEFINE x == task[t]
           k == x.key
           c == x.was[k].child
           r == [x EXCEPT !.pc = "out"]
<1>0. /\ x \in TaskRecord /\ x.pc = "rehome" /\ x.op = "move" /\ x.op \in Kinds /\ TreeTypeOK
      /\ c \in Buckets /\ k \in Keys /\ x.into \in 1..made /\ x.into \in Buckets
      /\ made \in Nat /\ 1..made \subseteq Buckets /\ Titled /\ NoneSealed
    <2>1. x.pc = "rehome" /\ x.op = "move"
      BY DEF RehomeMove, At
    <2>2. c \in Buckets /\ k \in Keys /\ x.into \in 1..made
      BY <2>1, Around DEF Sound, Records, Carrying
    <2> QED BY <2>1, <2>2, Around DEF Plain
<1>1. InTurn => /\ k \in Buckets /\ c = k /\ rec[k].bucket # None
                /\ x.was[k].bucket = rec[k].bucket /\ rec[k].bucket \in Buckets
  BY <1>0, Around DEF Aware
<1>2. CASE GiveUp(t)
  BY <1>0, <1>2, Leaves DEF GiveUp, LocalStep, treeVars
<1>3. CASE /\ Reparent(c, x.into, FALSE)
           /\ IF x.was[k].bucket = x.into THEN Quit(t) ELSE Become(t, r)
    <2>1. made' = made /\ rec' = rec
      BY <1>3 DEF Reparent
    <2>2. /\ Hangs(c, x.into, info')
          /\ \A d, q \in Buckets : d # c /\ Hangs(d, q, info) => Hangs(d, q, info')
          /\ NoneSealed'
          /\ \A q \in Buckets, s \in Titles : titleOf'[q][s] # None =>
                \/ q = x.into /\ titleOf'[q][s] = c
                \/ titleOf'[q][s] = titleOf[q][s] /\ ~(titleOf[q][s] = c /\ q = info[c].parent)
        <3> HIDE DEF x, k, c
        <3> QED BY <1>0, <1>3, HangsMoved
    <2>3. c \in 1..made
      BY <1>0, Around DEF Fresh
    <2>4. Titled'
        <3>1. ASSUME NEW q \in Buckets, NEW s \in Titles, titleOf'[q][s] # None
              PROVE  q \in 1..made' /\ titleOf'[q][s] \in 1..made' /\ Hangs(titleOf'[q][s], q, info')
            <4>1. CASE q = x.into /\ titleOf'[q][s] = c
              BY <1>0, <2>1, <2>2, <2>3, <4>1
            <4>2. CASE titleOf'[q][s] = titleOf[q][s] /\ ~(titleOf[q][s] = c /\ q = info[c].parent)
                <5>1. q \in 1..made /\ titleOf[q][s] \in 1..made /\ Hangs(titleOf[q][s], q, info)
                  BY <1>0, <3>1, <4>2 DEF Titled
                <5>2. titleOf[q][s] # c
                  BY <4>2, <5>1 DEF Hangs
                <5> QED BY <1>0, <2>1, <2>2, <4>2, <5>1, <5>2
            <4> QED BY <2>2, <3>1, <4>1, <4>2
        <3> QED BY <3>1 DEF Titled
    <2>5. r.op = x.op /\ r.pc = "out" /\ r.key = k /\ r.into = x.into /\ r.was = x.was
      BY <1>0 DEF TaskRecord
    <2>6. InTurn => /\ \A m \in Mems : rec[m].child = None
                    /\ \A j \in Buckets : rec[j].bucket # None =>
                          /\ j \in 1..made /\ rec[j].child = j /\ rec[j].bucket \in 1..made
                          /\ Hangs(j, rec[j].bucket, info)
      BY <1>0, Settled
    <2>7. InTurn => \A j \in Buckets : rec[j].bucket # None =>
                        (j # k => Hangs(j, rec[j].bucket, info'))
      BY <1>0, <1>1, <2>2, <2>6
    <2> HIDE DEF r, c
    <2>8. CASE x.was[k].bucket = x.into /\ Quit(t)
        <3>1. ASSUME InTurn PROVE Agreement'
            <4>1. c = k /\ rec[k].bucket = x.into
              BY <1>1, <2>8, <3>1
            <4>2. \A j \in Buckets : rec[j].bucket # None => Hangs(j, rec[j].bucket, info')
              BY <2>2, <2>7, <3>1, <4>1
            <4> QED BY <2>1, <2>6, <3>1, <4>2 DEF Agreement
        <3> HIDE DEF Idle
        <3>2. Plain(Idle) /\ Fresh(Idle, made', info') /\ (InTurn => Aware(Idle, made', info', rec'))
          BY IdleIsPlain
        <3> QED BY <2>1, <2>2, <2>4, <2>8, <3>1, <3>2, Onwards DEF Quit
    <2>9. CASE Become(t, r)
        <3>1. ASSUME InTurn PROVE Agreement'
            <4>1. task'[t] = r
              BY <2>9 DEF Become, Tidy, HInv, TypeOK, TaskTypeOK
            <4>2. \A j : j = k => Moving(j)'
              BY <2>5, <4>1 DEF Moving
            <4>3. \A j \in Buckets : rec[j].bucket # None =>
                     Hangs(j, rec[j].bucket, info') \/ Moving(j)'
              BY <2>7, <3>1, <4>2
            <4> QED BY <2>1, <2>6, <3>1, <4>3 DEF Agreement
        <3>2. Plain(r) /\ Fresh(r, made', info')
          BY <1>0, <2>5 DEF Plain, Fresh, Summing, Compressing
        <3>3. InTurn => Aware(r, made', info', rec')
          BY <1>0, <1>1, <2>1, <2>2, <2>5 DEF Aware, c
        <3> QED BY <2>1, <2>2, <2>4, <2>9, <3>1, <3>2, <3>3, Onwards
    <2> QED BY <1>3, <2>8, <2>9
<1> QED BY <1>2, <1>3 DEF RehomeMove, Step

\* The record is grayed where it was: it is on its way.
LEMMA OutAgrees ==
    ASSUME Tidy, NEW t \in Tasks, Out(t)
    PROVE  AInv'
<1> DEFINE x == task[t]
           k == x.key
           w == [x.was[k] EXCEPT !.gray = TRUE]
           r == [x EXCEPT !.pc = "in"]
<1>0. /\ x \in TaskRecord /\ x.pc = "out" /\ x.op = "move" /\ x.op \in Kinds /\ k \in Keys
      /\ TreeTypeOK /\ Put(t, k, w, r) /\ (InTurn => Aware(x, made, info, rec))
    <2>1. x.pc = "out" /\ Put(t, k, w, r)
      BY DEF Out, At
    <2>2. x.op = "move" /\ k \in Keys
      BY <2>1, Around DEF Plain, Sound, Records
    <2> QED BY <2>1, <2>2, Around DEF Plain
<1>1. w.bucket = x.was[k].bucket /\ w.child = x.was[k].child
  BY <1>0 DEF TaskRecord, MemoryRecord
<1>2. r.op = x.op /\ r.pc = "in" /\ r.key = k /\ r.into = x.into /\ r.was = x.was
  BY <1>0 DEF TaskRecord
<1> HIDE DEF w, r
<1>3. CASE w.bucket \notin Buckets /\ Quit(t) /\ UNCHANGED treeVars
    <2>1. ~InTurn
      BY <1>0, <1>1, <1>3 DEF Aware
    <2> QED BY <1>3, <2>1, Leaves DEF treeVars
<1>4. CASE rec' = [rec EXCEPT ![k] = w] /\ UNCHANGED <<info, made, titleOf>> /\ Become(t, r)
    <2>1. Plain(r) /\ Fresh(r, made, info)
      BY <1>0, <1>2 DEF Plain, Fresh, Summing, Compressing
    <2>2. \A j \in Keys : rec'[j] = IF j = k THEN w ELSE rec[j]
      BY <1>0, <1>4 DEF TreeTypeOK
    <2>3. InTurn => w.bucket = rec[k].bucket
      BY <1>0, <1>1 DEF Aware
    <2>4. InTurn => Aware(r, made, info, rec')
      BY <1>0, <1>2, <2>2, <2>3 DEF Aware
    <2>5. ASSUME InTurn PROVE Agreement'
        <3>1. /\ \A m \in Mems : rec[m].child = None
              /\ \A j \in Buckets : rec[j].bucket # None =>
                    /\ j \in 1..made /\ rec[j].child = j /\ rec[j].bucket \in 1..made
                    /\ Hangs(j, rec[j].bucket, info) \/ Moving(j)
          BY <2>5 DEF Tidy, AInv, Agreement
        <3>2. \A j : Moving(j) <=> j = k
          BY <1>0, <2>5 DEF Moving, InTurn, OneCaller
        <3>3. task'[t] = r
          BY <1>4 DEF Become, Tidy, HInv, TypeOK, TaskTypeOK
        <3>4. \A j : j = k => Moving(j)'
          BY <1>2, <3>3 DEF Moving
        <3>5. IF k \in Buckets THEN w.child = k ELSE w.child = None
          BY <1>0, <1>1, <2>5 DEF Aware
        <3>6. \A m \in Mems : rec'[m].child = None
          BY <2>2, <3>1, <3>5, Numbers
        <3>7. ASSUME NEW j \in Buckets, rec'[j].bucket # None
              PROVE  /\ j \in 1..made' /\ rec'[j].child = j /\ rec'[j].bucket \in 1..made'
                     /\ Hangs(j, rec'[j].bucket, info') \/ Moving(j)'
            <4>1. CASE j = k
                <5>1. rec'[k] = w /\ k \in Buckets
                  BY <1>0, <2>2, <4>1
                <5>2. rec[k].bucket # None /\ rec'[k].child = k
                  BY <2>3, <2>5, <3>5, <3>7, <4>1, <5>1
                <5>3. k \in 1..made /\ rec[k].bucket \in 1..made
                  BY <3>1, <5>1, <5>2
                <5> QED BY <1>4, <2>3, <2>5, <3>4, <4>1, <5>1, <5>2, <5>3
            <4>2. CASE j # k
              BY <1>4, <2>2, <3>1, <3>2, <3>7, <4>2, Numbers
            <4> QED BY <4>1, <4>2
        <3> QED BY <3>6, <3>7 DEF Agreement
    <2> QED BY <1>4, <2>1, <2>4, <2>5, Pens
<1> QED BY <1>0, <1>3, <1>4, Puts

\* The record is written where it goes, and the tree has the bucket there.
LEMMA InAgrees ==
    ASSUME Tidy, NEW t \in Tasks, In(t)
    PROVE  AInv'
<1> DEFINE x == task[t]
           k == x.key
           w == [x.was[k] EXCEPT !.bucket = x.into]
<1>0. /\ x \in TaskRecord /\ x.pc = "in" /\ x.op = "move" /\ k \in Keys
      /\ TreeTypeOK /\ Put(t, k, w, Idle) /\ (InTurn => Aware(x, made, info, rec))
      /\ x.into \in 1..made /\ x.into \in Buckets
    <2>1. x.pc = "in" /\ x.op = "move"
      BY Around DEF In, At, Plain
    <2>2. k \in Keys /\ x.into \in 1..made
      BY <2>1, Around DEF Sound, Records, Carrying
    <2>3. Put(t, k, w, Idle)
      BY <2>1 DEF In
    <2> QED BY <2>1, <2>2, <2>3, Around
<1>1. w.bucket = x.into /\ w.child = x.was[k].child
  BY <1>0 DEF TaskRecord, MemoryRecord
<1> HIDE DEF w, Idle
<1>2. w.bucket \in Buckets
  BY <1>0, <1>1
<1>4. CASE rec' = [rec EXCEPT ![k] = w] /\ UNCHANGED <<info, made, titleOf>> /\ Become(t, Idle)
    <2>1. Plain(Idle) /\ Fresh(Idle, made, info) /\ (InTurn => Aware(Idle, made, info, rec'))
      BY IdleIsPlain
    <2>2. \A j \in Keys : rec'[j] = IF j = k THEN w ELSE rec[j]
      BY <1>0, <1>4 DEF TreeTypeOK
    <2>5. ASSUME InTurn PROVE Agreement'
        <3>1. /\ \A m \in Mems : rec[m].child = None
              /\ \A j \in Buckets : rec[j].bucket # None =>
                    /\ j \in 1..made /\ rec[j].child = j /\ rec[j].bucket \in 1..made
                    /\ Hangs(j, rec[j].bucket, info) \/ Moving(j)
          BY <2>5 DEF Tidy, AInv, Agreement
        <3>2. \A j : Moving(j) <=> j = k
          BY <1>0, <2>5 DEF Moving, InTurn, OneCaller
        <3>5. IF k \in Buckets THEN w.child = k /\ rec[k].bucket # None /\ Hangs(k, x.into, info)
              ELSE w.child = None
          BY <1>0, <1>1, <2>5 DEF Aware
        <3>6. \A m \in Mems : rec'[m].child = None
          BY <2>2, <3>1, <3>5, Numbers
        <3>7. ASSUME NEW j \in Buckets, rec'[j].bucket # None
              PROVE  /\ j \in 1..made' /\ rec'[j].child = j /\ rec'[j].bucket \in 1..made'
                     /\ Hangs(j, rec'[j].bucket, info')
            <4>1. CASE j = k
              BY <1>0, <1>1, <1>4, <2>2, <3>1, <3>5, <4>1, Numbers
            <4>2. CASE j # k
              BY <1>4, <2>2, <3>1, <3>2, <3>7, <4>2, Numbers
            <4> QED BY <4>1, <4>2
        <3> QED BY <3>6, <3>7 DEF Agreement
    <2> QED BY <1>4, <2>1, <2>5, Pens
<1> QED BY <1>0, <1>2, <1>4, Puts

\* No rebuild is at work.
LEMMA NoRebuildWorks ==
    ASSUME Tidy, NEW t \in Tasks
    PROVE  /\ ~PlanCompress(t) /\ ~PlanSplit(t) /\ ~Carry(t) /\ ~RehangCarried(t)
           /\ ~Place(t) /\ ~Merge(t) /\ ~Adopt(t) /\ ~Fetch(t) /\ ~RehomeSplit(t)
           /\ ~SealSource(t) /\ ~Switch(t)
<1>1. /\ task[t].pc \notin {"plan", "adopt", "fetch", "seal", "switch"} \cup Compressing
      /\ task[t].op # "split"
  BY Around DEF Plain
<1> QED BY <1>1 DEF PlanCompress, PlanSplit, Carry, RehangCarried, Place, Merge, Adopt, Fetch,
  RehomeSplit, SealSource, Switch, At, Compressing

LEMMA StepAInv ==
    ASSUME Tidy, [Next]_vars
    PROVE  AInv'
<1>1. ASSUME NEW t \in Tasks, OnHandles(t) PROVE AInv'
  BY <1>1, BeginAgrees, LockAgrees, LookAgrees, ForgetAgrees, AimAgrees, MakeAgrees, NodeAgrees,
    NoRebuildWorks, OutAgrees, InAgrees, SummaryAgrees, SaveAgrees, NodeRecordAgrees,
    TellAgrees, AddAgrees, AbandonAgrees DEF OnHandles
<1>2. ASSUME NEW t \in Tasks, OnKeys(t) PROVE AInv'
  BY <1>2, BeginAgrees, RereadAgrees, RewriteAgrees, ForgetAgrees, CheckAgrees, RehomeAgrees
    DEF OnKeys
<1>3. CASE UNCHANGED vars
  BY <1>3 DEF vars, treeVars, Tidy, AInv, NoneSealed, Titled, Agreement, Moving, InTurn, OneCaller
<1> QED BY <1>1, <1>2, <1>3 DEF Next

LEMMA InitAInv == Init => AInv
<1> SUFFICES ASSUME Init PROVE AInv
    OBVIOUS
<1> HIDE DEF Idle
<1>1. \A t \in Tasks : task[t] = Idle
  BY DEF Init
<1>2. ASSUME NEW t \in Tasks
      PROVE  /\ Plain(task[t]) /\ Fresh(task[t], made, info)
             /\ InTurn => Aware(task[t], made, info, rec)
  BY <1>1, IdleIsPlain
<1>3. NoneSealed
  BY DEF Init, TreeInit, NoneSealed, Row
<1>4. Titled
  BY DEF Init, TreeInit, Titled
<1>5. Agreement
  BY Numbers DEF Init, TreeInit, Agreement, NoRecord
<1> QED BY <1>2, <1>3, <1>4, <1>5 DEF AInv

LEMMA TidyLayout == Tidy => LayoutValid
<1> SUFFICES ASSUME Tidy, NEW p \in 1..made, NEW s \in Titles, titleOf[p][s] # None
             PROVE  \E c \in {titleOf[p][s]}, q \in {Resolve(p)} :
                        \/ info[c].parent = p /\ c \in info[p].children
                        \/ /\ q # p /\ titleOf[q][s] = c
                           /\ info[c].parent = q /\ c \in info[q].children
  BY DEF LayoutValid
<1>1. p \in Buckets
    <2>1. made \in Buckets
      BY DEF Tidy, HInv, TypeOK, TreeTypeOK
    <2> QED BY <2>1, Numbers
<1>2. Hangs(titleOf[p][s], p, info)
  BY <1>1 DEF Tidy, AInv, Titled
<1> QED BY <1>2 DEF Hangs

LEMMA TidyRecords == Tidy /\ InTurn => RecordsAgreeWithTree
<1> SUFFICES ASSUME Tidy, InTurn, Quiet, NEW k \in Buckets, Live(k)
             PROVE  \E c \in 1..made :
                        /\ c = Resolve(rec[k].child)
                        /\ info[c].parent = rec[k].bucket
                        /\ c \in info[rec[k].bucket].children
  BY DEF RecordsAgreeWithTree
<1>1. \A j : ~Moving(j)
    <2>1. ASSUME NEW t \in Tasks PROVE task[t].pc = "done"
      BY Around DEF Quiet, Sound, InPlace
    <2> QED BY <2>1 DEF Moving
<1>2. rec[k].bucket # None
  BY DEF Live
<1>3. k \in 1..made /\ rec[k].child = k /\ Hangs(k, rec[k].bucket, info)
  BY <1>1, <1>2 DEF Tidy, AInv, Agreement
<1>4. Resolve(k) = k
  BY Itself
<1> QED BY <1>3, <1>4 DEF Hangs

\* Without rebuilds, where no summary can write a row back over another caller's
\* change, a title leads to a child of the bucket that has it, however the
\* callers' steps interleave and wherever one is abandoned.
THEOREM Titling == ASSUME NoRebuilds, RowsTheirOwn PROVE Spec => []LayoutValid
<1>1. HInv /\ AInv /\ [Next]_vars => HInv' /\ AInv'
  BY StepHInv, StepAInv DEF Tidy
<1>2. HInv /\ AInv => LayoutValid
  BY TidyLayout DEF Tidy
<1> QED BY InitHInv, InitAInv, <1>1, <1>2, PTL DEF Spec

\* One caller whose operations all end, and no rebuild: the record that leads to a
\* bucket and the tree agree on its parent after each of them, moves and deletions
\* included.
THEOREM Agreeing == ASSUME NoRebuilds, InTurn PROVE Spec => []RecordsAgreeWithTree
<1>1. HInv /\ AInv /\ [Next]_vars => HInv' /\ AInv'
  BY StepHInv, StepAInv DEF Tidy, InTurn, RowsTheirOwn
<1>2. HInv /\ AInv => RecordsAgreeWithTree
  BY TidyRecords DEF Tidy, InTurn, RowsTheirOwn
<1> QED BY InitHInv, InitAInv, <1>1, <1>2, PTL DEF Spec

----------------------------------------------------------------------------
(* While children are only created, looked up, refreshed and deleted, by any *)
(* number of callers at a time.  Nothing is sealed and no record changes its *)
(* bucket, but a refresh writes back a row and a record it read earlier.     *)

\* What is known of a task and of the tree at any time.
LEMMA Surroundings ==
    ASSUME HInv, TInv, NEW t \in Tasks
    PROVE  /\ task[t] \in TaskRecord /\ Sound(task[t], made, info)
           /\ Wise(task[t], made, info, rec, titleOf, asked, forgone)
           /\ TreeTypeOK /\ made \in Buckets /\ made \in Nat /\ 1..made \subseteq Buckets
           /\ NoneSealed /\ Titled /\ Exclusive /\ Filed /\ TitlesKept
           /\ asked \in [Buckets -> Titles \cup {None}] /\ forgone \in SUBSET Keys
BY Known DEF TInv

\* From where a task is, what it does.
LEMMA Doing ==
    ASSUME HInv, TInv, NEW t \in Tasks
    PROVE  /\ task[t].op \in {"idle", "set", "create", "refresh", "delete"}
           /\ task[t].pc \in {"look", "aim", "make", "node"} => task[t].op \in {"set", "create"}
           /\ task[t].pc \in {"summary", "save", "node record", "tell"} => task[t].op = "refresh"
           /\ task[t].pc \in {"reread", "rewrite", "forget"} => task[t].op = "delete"
           /\ task[t].pc \in {"done", "ask", "wait", "look", "aim", "make", "node", "summary", "save",
                 "node record", "tell", "reread", "rewrite", "forget"}
           /\ task[t].pc \notin {"ask", "done"} => task[t].b \in 1..made /\ task[t].b \in Buckets
<1> DEFINE x == task[t]
<1>1. /\ Sound(x, made, info) /\ Wise(x, made, info, rec, titleOf, asked, forgone)
      /\ 1..made \subseteq Buckets
  BY Surroundings
<1>2. x.op \in {"idle", "set", "create", "refresh", "delete"}
  BY <1>1 DEF Wise, TitleKinds
<1>3. x.op = "idle" => x.pc = "done"
  BY <1>1 DEF Sound, InPlace
<1>4. x.pc \notin {"ask", "done"} => x.b \in 1..made /\ x.b \in Buckets
  BY <1>1 DEF Sound, Sources
<1>5. x.op \in {"set", "create"} => x.pc \in {"ask", "wait", "look", "aim", "make", "node"}
  BY <1>1 DEF Wise, Making
<1>6. x.op = "refresh" => x.pc \in {"ask", "wait", "summary", "save", "node record", "tell"}
  BY <1>1 DEF Wise, Refreshing
<1>7. x.op = "delete" => x.pc \in {"ask", "wait", "reread", "rewrite", "forget"}
  BY <1>1 DEF Wise, Deleting
<1> HIDE DEF x
<1> QED BY <1>2, <1>3, <1>4, <1>5, <1>6, <1>7 DEF x

LEMMA Unsealed ==
    ASSUME HInv, TInv, NEW b \in Buckets
    PROVE  Resolve(b) = b
<1>1. made \in Buckets /\ ~Leads(b)
  BY DEF TInv, NoneSealed, Leads, HInv, TypeOK, TreeTypeOK
<1> QED BY <1>1, ResolveStep

\* What the other tasks rely on as one takes a step.
LEMMA StaysWise ==
    ASSUME HInv, TInv, NEW u \in Tasks, made' \in Nat, made <= made',
           \A c, q \in 1..made : Hangs(c, q, info) => Hangs(c, q, info'),
           task[u].pc = "save" => info'[task[u].b] = info[task[u].b],
           \A k \in Buckets : rec[k].bucket # None =>
                rec'[k].bucket = rec[k].bucket /\ rec'[k].child = rec[k].child,
           task[u].pc = "node" => rec'[task[u].child].bucket = None,
           task[u].pc \in {"aim", "make"} /\ task[u].title # None =>
                titleOf'[task[u].b][task[u].title]
                    \in {titleOf[task[u].b][task[u].title], None},
           task[u].pc = "node" => asked'[task[u].child] = asked[task[u].child],
           task[u].pc = "node" /\ task[u].title # None =>
                titleOf'[task[u].b][task[u].title] = titleOf[task[u].b][task[u].title],
           forgone \subseteq forgone'
    PROVE  Wise(task[u], made', info', rec', titleOf', asked', forgone')
<1> DEFINE r == task[u]
<1>0. /\ Wise(r, made, info, rec, titleOf, asked, forgone) /\ made \in Nat
      /\ r.pc \notin {"ask", "done"} => r.b \in 1..made /\ r.b \in Buckets
  BY Surroundings, Doing
<1> HIDE DEF r
<1>1. Making(r, made', info', rec', titleOf', asked')
    <2>1. 1..made \subseteq 1..made'
      BY <1>0
    <2> QED BY <1>0, <2>1 DEF Wise, Making, r
<1>2. Refreshing(r, info', rec')
  BY <1>0 DEF Wise, Refreshing, r
<1>3. Deleting(r, rec', forgone')
  BY <1>0 DEF Wise, Deleting, r
<1> QED BY <1>0, <1>1, <1>2, <1>3 DEF Wise, r

LEMMA StepsOn ==
    ASSUME HInv, TInv, NEW t \in Tasks, NEW r, Become(t, r), Free(t, r.held),
           NoneSealed', Titled', Filed', TitlesKept', ~Abandons => AllMinded',
           Wise(r, made', info', rec', titleOf', asked', forgone'),
           \A u \in Tasks \ {t} : Wise(task[u], made', info', rec', titleOf', asked', forgone')
    PROVE  TInv'
<1>1. \A u \in Tasks : task'[u] = IF u = t THEN r ELSE task[u]
  BY DEF Become, HInv, TypeOK, TaskTypeOK
<1>2. Exclusive'
    <2>1. ASSUME NEW u \in Tasks, NEW v \in Tasks, u # v PROVE task'[u].held \cap task'[v].held = {}
        <3>1. CASE u = t
          BY <1>1, <2>1, <3>1 DEF Free
        <3>2. CASE v = t
          BY <1>1, <2>1, <3>2 DEF Free
        <3>3. CASE u # t /\ v # t
          BY <1>1, <2>1, <3>3 DEF TInv, Exclusive
        <3> QED BY <3>1, <3>2, <3>3
    <2> QED BY <2>1 DEF Exclusive
<1>3. \A u \in Tasks : Wise(task'[u], made', info', rec', titleOf', asked', forgone')
  BY <1>1
<1>4. ~Abandons' => AllMinded'
    OBVIOUS
<1> QED BY <1>2, <1>3, <1>4 DEF TInv

\* The locks a task has had are free for it.
LEMMA HasLocks ==
    ASSUME HInv, TInv, NEW t \in Tasks, NEW S, S \subseteq task[t].held
    PROVE  Free(t, S)
BY DEF TInv, Exclusive, Free

\* A step that changes nothing but the task itself.
LEMMA Alone ==
    ASSUME HInv, TInv, NEW t \in Tasks, NEW r, Become(t, r), Free(t, r.held),
           UNCHANGED <<info, made, rec, titleOf, asked, forgone>>,
           Wise(r, made, info, rec, titleOf, asked, forgone),
           ~Abandons => task[t].pc \notin {"node", "forget"}
    PROVE  TInv'
<1>1. NoneSealed' /\ Titled' /\ Filed' /\ TitlesKept'
  BY DEF TInv, NoneSealed, Titled, Filed, TitlesKept
<1>2. ASSUME ~Abandons PROVE AllMinded'
    <2>1. \A u \in Tasks : task[u].pc \in {"node", "forget"} => task'[u] = task[u]
      BY <1>2 DEF Become, HInv, TypeOK, TaskTypeOK
    <2>3. ASSUME NEW p \in Buckets, NEW s \in Titles, titleOf'[p][s] # None
          PROVE  Minded(titleOf[p][s])'
        <3>1. Minded(titleOf[p][s])
          BY <1>2, <2>3 DEF TInv, AllMinded
        <3> QED BY <2>1, <3>1 DEF Minded, Live
    <2> QED BY <2>3 DEF AllMinded
<1>3. \A u \in Tasks \ {t} : Wise(task[u], made', info', rec', titleOf', asked', forgone')
  BY DEF TInv
<1> QED BY <1>1, <1>2, <1>3, StepsOn

LEMMA IdleIsWise ==
    ASSUME NEW n, NEW f, NEW m, NEW h, NEW a, NEW g
    PROVE  Wise(Idle, n, f, m, h, a, g) /\ Idle.held = {}
<1>1. Idle.op = "idle" /\ Idle.held = {}
  BY DEF Idle
<1> HIDE DEF Idle
<1> QED BY <1>1 DEF Wise, Making, Refreshing, Deleting

\* The operation ends and nothing else happens.
LEMMA Ends ==
    ASSUME HInv, TInv, NEW t \in Tasks, Quit(t),
           UNCHANGED <<info, made, rec, titleOf, asked, forgone>>,
           ~Abandons => task[t].pc \notin {"node", "forget"}
    PROVE  TInv'
<1>1. Wise(Idle, made, info, rec, titleOf, asked, forgone) /\ Free(t, Idle.held)
  BY IdleIsWise DEF Free
<1> HIDE DEF Idle
<1> QED BY <1>1, Alone DEF Quit

----------------------------------------------------------------------------
(* One lemma per group of actions. *)

\* The operations that are not about titles.
LEMMA OnlyTitles ==
    ASSUME HInv, TInv, NEW t \in Tasks
    PROVE  /\ ~FixTitle(t) /\ ~PlanCompress(t) /\ ~PlanSplit(t) /\ ~Carry(t) /\ ~RehangCarried(t)
           /\ ~Place(t) /\ ~Merge(t) /\ ~Adopt(t) /\ ~Fetch(t) /\ ~RehomeSplit(t)
           /\ ~Out(t) /\ ~In(t) /\ ~SealSource(t) /\ ~Switch(t) /\ ~AddMemory(t)
           /\ ~Check(t) /\ ~RehomeMove(t)
<1>1. task[t].pc \in {"done", "ask", "wait", "look", "aim", "make", "node", "summary", "save",
                 "node record", "tell", "reread", "rewrite", "forget"}
  BY Doing
<1> QED BY <1>1 DEF FixTitle, PlanCompress, PlanSplit, Carry, RehangCarried, Place, Merge, Adopt,
  Fetch, RehomeSplit, Out, In, SealSource, Switch, AddMemory, Check, RehomeMove, At

LEMMA BeginTitles ==
    ASSUME HInv, TInv, NEW t \in Tasks, BeginOnBucket(t) \/ BeginAdd(t) \/ BeginOnKey(t),
           task'[t].op \in TitleKinds \cup {"idle"}
    PROVE  TInv'
<1>0. /\ task[t].op = "idle" /\ UNCHANGED <<info, made, rec, titleOf, asked, forgone>>
      /\ task[t].pc \notin {"node", "forget"}
    <2>1. task[t].op = "idle" /\ UNCHANGED <<info, made, rec, titleOf, asked, forgone>>
      BY DEF BeginOnBucket, BeginAdd, BeginOnKey, Starting, treeVars
    <2> QED BY <2>1, Doing
<1>1. Idle \in TaskRecord /\ Idle.held = {}
  BY IdleIsSound DEF Idle
<1>2. task \in [Tasks -> TaskRecord]
  BY DEF HInv, TypeOK, TaskTypeOK
<1>3. CASE BeginOnBucket(t)
    <2>1. PICK o \in {"set", "create", "compress", "split", "refresh"}, b \in Handles,
              s \in Titles \cup {None} :
           /\ (o = "set") <=> (s # None)
           /\ Become(t, [Idle EXCEPT !.op = o, !.pc = "ask", !.b = b, !.title = s])
      BY <1>3 DEF BeginOnBucket
    <2> DEFINE q == [Idle EXCEPT !.op = o, !.pc = "ask", !.b = b, !.title = s]
    <2>2. q.op = o /\ q.pc = "ask" /\ q.title = s /\ q.held = {} /\ Become(t, q)
      BY <1>1, <2>1 DEF TaskRecord
    <2> HIDE DEF q
    <2>3. o \in {"set", "create", "refresh"}
      BY <1>2, <2>2 DEF Become, TitleKinds
    <2>4. Wise(q, made, info, rec, titleOf, asked, forgone)
      BY <2>1, <2>2, <2>3 DEF Wise, Making, Refreshing, Deleting, TitleKinds, Summing
    <2>5. Free(t, q.held)
      BY <2>2 DEF Free
    <2> QED BY <1>0, <2>2, <2>4, <2>5, Alone
<1>4. CASE BeginAdd(t)
    <2>1. PICK b \in Handles, m \in Mems :
           Become(t, [Idle EXCEPT !.op = "add", !.pc = "ask", !.b = b, !.key = m])
      BY <1>4 DEF BeginAdd
    <2> DEFINE q == [Idle EXCEPT !.op = "add", !.pc = "ask", !.b = b, !.key = m]
    <2>2. q.op = "add" /\ Become(t, q)
      BY <1>1, <2>1 DEF TaskRecord
    <2> HIDE DEF q
    <2> QED BY <1>2, <2>2 DEF Become, TitleKinds
<1>5. CASE BeginOnKey(t)
    <2>1. PICK o \in {"edit", "gray", "ungray", "delete", "move"}, k \in Keys,
              z \in Handles \cup {None} :
           /\ rec[k].bucket # None
           /\ Become(t, [Idle EXCEPT !.op = o, !.pc = "ask", !.b = rec[k].bucket,
                                  !.key = k, !.child = rec[k].child,
                                  !.goal = IF o = "delete" /\ rec[k].child # None
                                           THEN info[rec[k].child].parent ELSE z])
      BY <1>5 DEF BeginOnKey
    <2> DEFINE y == IF o = "delete" /\ rec[k].child # None
                                           THEN info[rec[k].child].parent ELSE z
               q == [Idle EXCEPT !.op = o, !.pc = "ask", !.b = rec[k].bucket,
                                  !.key = k, !.child = rec[k].child, !.goal = y]
    <2>2. /\ q.op = o /\ q.pc = "ask" /\ q.held = {} /\ Become(t, q)
          /\ q.key = k /\ q.child = rec[k].child /\ q.goal = y
      BY <1>1, <2>1 DEF TaskRecord
    <2> HIDE DEF q
    <2>3. o = "delete"
      BY <1>2, <2>2 DEF Become, TitleKinds
    <2>4. k \in 1..made /\ k \in Buckets /\ rec[k].child = k /\ Hangs(k, rec[k].bucket, info) /\ k # None
        <3>1. k \in 1..made /\ rec[k].child = k /\ Hangs(k, rec[k].bucket, info)
          BY <2>1 DEF TInv, Filed
        <3> QED BY <3>1, Surroundings, Numbers
    <2>5. y = rec[k].bucket
      BY <2>3, <2>4 DEF Hangs
    <2> HIDE DEF y
    <2>6. Wise(q, made, info, rec, titleOf, asked, forgone)
      BY <2>1, <2>2, <2>3, <2>4, <2>5 DEF Wise, Making, Refreshing, Deleting, TitleKinds, Summing
    <2>7. Free(t, q.held)
      BY <2>2 DEF Free
    <2> QED BY <1>0, <2>2, <2>6, <2>7, Alone
<1> QED BY <1>3, <1>4, <1>5

LEMMA LockTitles ==
    ASSUME HInv, TInv, NEW t \in Tasks, Ask(t) \/ Enter(t)
    PROVE  TInv'
<1> DEFINE x == task[t]
<1>0. /\ x \in TaskRecord /\ x.pc \in {"ask", "wait"} /\ x.op \in {"set", "create", "refresh", "delete"}
      /\ UNCHANGED <<info, made, rec, titleOf, asked, forgone>> /\ x.into = None
      /\ Wise(x, made, info, rec, titleOf, asked, forgone)
    <2>1. x.pc \in {"ask", "wait"} /\ UNCHANGED <<info, made, rec, titleOf, asked, forgone>>
      BY DEF Ask, Enter, At, LocalStep, treeVars
    <2>2. x.into = None /\ x.op # "idle" /\ x \in TaskRecord
      BY <2>1, Surroundings DEF Sound, Summaries, InPlace
    <2> QED BY <2>1, <2>2, Surroundings, Doing
<1>1. CASE Ask(t)
    <2>1. PICK b \in 1..made, y \in {{}} \cup {{c} : c \in 1..made} :
            Become(t, [x EXCEPT !.pc = "wait", !.b = b,
                             !.want = {b} \cup y \cup
                                 (IF x.op \in {"set", "create"} THEN {Meta} ELSE {})])
      BY <1>1 DEF Ask
    <2> DEFINE w == {b} \cup y \cup (IF x.op \in {"set", "create"} THEN {Meta} ELSE {})
               r == [x EXCEPT !.pc = "wait", !.b = b, !.want = w]
    <2>2. b \in w
        OBVIOUS
    <2>3. Become(t, r)
      BY <2>1
    <2> HIDE DEF w
    <2>4. /\ r.op = x.op /\ r.pc = "wait" /\ r.b = b /\ r.want = w /\ r.held = x.held
          /\ r.title = x.title /\ r.key = x.key /\ r.child = x.child /\ r.goal = x.goal
      BY <1>0 DEF TaskRecord
    <2> HIDE DEF r
    <2>5. Making(r, made, info, rec, titleOf, asked)
      BY <1>0, <2>2, <2>4 DEF Wise, Making
    <2>6. Refreshing(r, info, rec) /\ Deleting(r, rec, forgone)
      BY <1>0, <2>2, <2>4 DEF Wise, Refreshing, Deleting, Summing
    <2>7. Wise(r, made, info, rec, titleOf, asked, forgone)
      BY <1>0, <2>4, <2>5, <2>6 DEF Wise, TitleKinds
    <2>8. Free(t, r.held)
      BY <2>4, HasLocks
    <2> QED BY <1>0, <2>3, <2>7, <2>8, Alone
<1>2. CASE Enter(t)
    <2> DEFINE p == Begins(x)
               r == [x EXCEPT !.held = x.want, !.want = {}, !.sums = <<x.b>>, !.pc = p]
    <2>1. /\ x.pc = "wait" /\ \A u \in Tasks \ {t} : task[u].held \cap x.want = {}
          /\ Become(t, r)
      BY <1>2 DEF Enter, At
    <2>2. /\ x.op = "set" => p = "look"
          /\ x.op = "create" => p = "aim"
          /\ x.op = "refresh" => p = "summary"
          /\ x.op = "delete" => p = "reread"
      BY DEF Begins
    <2> HIDE DEF p
    <2>4. /\ r.op = x.op /\ r.pc = p /\ r.b = x.b /\ r.held = x.want /\ r.into = None
          /\ r.title = x.title /\ r.key = x.key /\ r.child = x.child /\ r.goal = x.goal
          /\ r.sums = <<r.b>>
      BY <1>0 DEF TaskRecord
    <2> HIDE DEF r
    <2>5. Making(r, made, info, rec, titleOf, asked)
      BY <1>0, <2>1, <2>2, <2>4 DEF Wise, Making
    <2>6. Refreshing(r, info, rec)
      BY <1>0, <2>1, <2>2, <2>4 DEF Wise, Refreshing
    <2>9. Deleting(r, rec, forgone)
      BY <1>0, <2>1, <2>2, <2>4 DEF Wise, Deleting
    <2>7. Wise(r, made, info, rec, titleOf, asked, forgone)
      BY <1>0, <2>4, <2>5, <2>6, <2>9 DEF Wise, TitleKinds
    <2>8. Free(t, r.held)
      BY <2>1, <2>4 DEF Free
    <2> QED BY <1>0, <2>1, <2>7, <2>8, Alone
<1> QED BY <1>1, <1>2

\* The child a title leads to is there, and otherwise the title is free.
LEMMA LookTitles ==
    ASSUME HInv, TInv, NEW t \in Tasks, Look(t)
    PROVE  TInv'
<1> DEFINE x == task[t]
           c == titleOf[x.b][x.title]
           r == [x EXCEPT !.pc = "aim"]
<1>0. /\ x \in TaskRecord /\ x.pc = "look" /\ x.op = "set" /\ x.b \in Buckets /\ x.title \in Titles
      /\ UNCHANGED <<info, made, rec, titleOf, asked, forgone>>
      /\ Wise(x, made, info, rec, titleOf, asked, forgone)
    <2>1. x.pc = "look" /\ UNCHANGED <<info, made, rec, titleOf, asked, forgone>>
      BY DEF Look, At, LocalStep, treeVars
    <2>2. x.op = "set" /\ x.title \in Titles
      BY <2>1, Surroundings DEF Sound, InPlace, Records
    <2> QED BY <2>1, <2>2, Surroundings, Doing
<1>1. CASE c # None
    <2>1. c \in Buckets /\ Hangs(c, x.b, info)
      BY <1>0, <1>1, Surroundings DEF Titled
    <2>2. Resolve(c) = c
      BY <2>1, Unsealed
    <2>3. Quit(t)
      BY <1>1, <2>1, <2>2 DEF Look, Hangs
    <2> QED BY <1>0, <2>3, Ends
<1>2. CASE c = None
    <2>1. Become(t, r)
      BY <1>2 DEF Look, Step
    <2>2. /\ r.op = x.op /\ r.pc = "aim" /\ r.b = x.b /\ r.held = x.held /\ r.title = x.title
      BY <1>0 DEF TaskRecord
    <2> HIDE DEF r
    <2>3. Wise(r, made, info, rec, titleOf, asked, forgone)
      BY <1>0, <1>2, <2>2 DEF Wise, Making, Refreshing, Deleting
    <2>4. Free(t, r.held)
      BY <2>2, HasLocks
    <2> QED BY <1>0, <2>1, <2>3, <2>4, Alone
<1> QED BY <1>1, <1>2

LEMMA AimTitles ==
    ASSUME HInv, TInv, NEW t \in Tasks, Aim(t)
    PROVE  TInv'
<1> DEFINE x == task[t]
           r == [x EXCEPT !.pc = "make", !.up = x.b]
<1>0. /\ x \in TaskRecord /\ x.pc = "aim" /\ x.op \in {"set", "create"} /\ x.b \in Buckets
      /\ UNCHANGED <<info, made, rec, titleOf, asked, forgone>>
      /\ Wise(x, made, info, rec, titleOf, asked, forgone)
    <2>1. x.pc = "aim" /\ UNCHANGED <<info, made, rec, titleOf, asked, forgone>>
      BY DEF Aim, At, LocalStep, treeVars
    <2> QED BY <2>1, Surroundings, Doing
<1>1. Quit(t) \/ Become(t, r)
    <2>1. Resolve(x.b) = x.b
      BY <1>0, Unsealed
    <2>2. ForChild(t)
      BY <1>0 DEF ForChild
    <2> QED BY <2>1, <2>2 DEF Aim
<1>2. CASE Quit(t)
  BY <1>0, <1>2, Ends
<1>3. CASE Become(t, r)
    <2>2. /\ r.op = x.op /\ r.pc = "make" /\ r.b = x.b /\ r.held = x.held /\ r.title = x.title
          /\ r.up = x.b
      BY <1>0 DEF TaskRecord
    <2> HIDE DEF r
    <2>3. Wise(r, made, info, rec, titleOf, asked, forgone)
      BY <1>0, <2>2 DEF Wise, Making, Refreshing, Deleting
    <2>4. Free(t, r.held)
      BY <2>2, HasLocks
    <2> QED BY <1>0, <1>3, <2>3, <2>4, Alone
<1> QED BY <1>1, <1>2, <1>3

\* Two tasks that have a bucket locked work on different ones.
LEMMA OwnBucket ==
    ASSUME HInv, TInv, NEW t \in Tasks, NEW u \in Tasks, t # u,
           task[t].b \in task[t].held, task[u].b \in task[u].held
    PROVE  task[t].b # task[u].b
BY DEF TInv, Exclusive

\* create_bucket: the title of the new bucket was free.
LEMMA MakeTitles ==
    ASSUME HInv, TInv, NEW t \in Tasks, Make(t)
    PROVE  TInv'
<1> DEFINE x == task[t]
           p == x.b
           z == x.title
           c == made + 1
           lvl == info[x.up].level + 1
           r == [x EXCEPT !.child = c, !.pc = "node"]
<1>0. /\ x \in TaskRecord /\ Sound(x, made, info) /\ x.pc = "make" /\ x.op \in {"set", "create"}
      /\ TreeTypeOK /\ made \in Nat /\ 1..made \subseteq Buckets /\ Titled /\ NoneSealed
      /\ Wise(x, made, info, rec, titleOf, asked, forgone)
      /\ p \in 1..made /\ p \in Buckets
    <2>1. x.pc = "make"
      BY DEF Make, At
    <2> QED BY <2>1, Surroundings, Doing
<1>00. /\ x.up = p /\ p \in x.held /\ (z # None => titleOf[p][z] = None)
       /\ x.op = "create" => z = None
  BY <1>0 DEF Wise, Making
<1>1. ForChild(t) /\ ~IsSuccessor(t)
  BY <1>0 DEF ForChild, IsSuccessor
<1>2. /\ CreateBucket(p, lvl, z) /\ Become(t, r) /\ forgone' = forgone
      /\ asked' = [asked EXCEPT ![c] = z]
  BY <1>00, <1>1 DEF Make
<1>3. lvl \in 1..MaxDepth /\ z \in Titles \cup {None}
    <2>1. info[p].level < MaxDepth
      BY <1>0, <1>00 DEF Sound, Children
    <2>2. info[p].level \in 1..MaxDepth
      BY <1>0 DEF TreeTypeOK, BucketInfo
    <2>3. z \in Titles \cup {None}
      BY <1>0 DEF TaskRecord
    <2>4. lvl \in 1..MaxDepth
      BY <1>00, <2>1, <2>2, Numbers
    <2> QED BY <2>3, <2>4
<1> HIDE DEF lvl
<1>5. /\ c \in Buckets /\ made' = c /\ rec' = rec
      /\ Hangs(c, p, info')
      /\ \A d, q \in 1..made : Hangs(d, q, info) => Hangs(d, q, info')
      /\ NoneSealed'
      /\ \A q \in Buckets, s \in Titles :
            \/ titleOf'[q][s] = titleOf[q][s]
            \/ q = p /\ titleOf'[q][s] = c
  BY <1>0, <1>2, <1>3, HangsMade
<1>4. /\ \A q \in Buckets, s \in Titles : q # p \/ s # z => titleOf'[q][s] = titleOf[q][s]
      /\ z # None => titleOf'[p][z] = c
    <2>1. p # None /\ titleOf \in [Buckets -> [Titles -> Buckets \cup {None}]]
      BY <1>0, Numbers DEF TreeTypeOK
    <2>2. titleOf' = IF z = None THEN titleOf
                     ELSE [titleOf EXCEPT ![p] = [titleOf[p] EXCEPT ![z] = c]]
      BY <1>2, <2>1 DEF CreateBucket
    <2> HIDE DEF x, c
    <2>3. CASE z = None
      BY <2>2, <2>3
    <2>4. CASE z # None
      BY <1>0, <1>3, <2>1, <2>2, <2>4
    <2> QED BY <2>3, <2>4
<1>6. c \notin 1..made /\ 1..made \subseteq 1..made' /\ c \in 1..made' /\ p \in 1..made'
      /\ made <= made' /\ made' \in Nat
  BY <1>0, <1>5
<1>7. asked'[c] = z /\ \A k \in Buckets : k # c => asked'[k] = asked[k]
  BY <1>2, <1>5, Surroundings
<1>8. /\ r.op = x.op /\ r.pc = "node" /\ r.child = c /\ r.up = x.up /\ r.b = p /\ r.held = x.held
      /\ r.title = z
  BY <1>0 DEF TaskRecord
<1>9. rec[c].bucket = None
    <2>1. c \in Keys
      BY <1>5, Numbers
    <2> QED BY <1>6, <2>1 DEF TInv, Filed
<1> HIDE DEF r, c
<1>10. Wise(r, made', info', rec', titleOf', asked', forgone')
    <2>1. Making(r, made', info', rec', titleOf', asked')
      BY <1>0, <1>00, <1>4, <1>5, <1>6, <1>7, <1>8, <1>9 DEF Making
    <2> QED BY <1>0, <1>8, <2>1 DEF Wise, Refreshing, Deleting
<1>11. ASSUME NEW u \in Tasks \ {t}
       PROVE  Wise(task[u], made', info', rec', titleOf', asked', forgone')
    <2> DEFINE y == task[u]
    <2>1. /\ Wise(y, made, info, rec, titleOf, asked, forgone)
          /\ y.pc \notin {"ask", "done"} => y.b \in 1..made /\ y.b \in Buckets
      BY Surroundings, Doing
    <2>2. y.pc \in {"aim", "make", "node", "save"} => y.b \in y.held /\ y.b # p
        <3>1. y.pc \in {"aim", "make", "node", "save"} => y.b \in y.held
          BY Surroundings, Doing DEF Wise, Making, Refreshing, Summing
        <3> QED BY <1>00, <3>1, OwnBucket
    <2>3. y.pc = "save" => info'[y.b] = info[y.b]
        <3>1. info' = [b \in Buckets |->
                       IF b = c THEN Row(p, lvl)
                       ELSE IF b = p
                            THEN [info[b] EXCEPT !.children = @ \cup {c}]
                            ELSE info[b]]
          BY <1>2 DEF CreateBucket, c
        <3>2. y.pc = "save" => y.b \in Buckets /\ y.b # c /\ y.b # p
          BY <1>6, <2>1, <2>2
        <3> QED BY <3>1, <3>2
    <2>4. y.pc = "node" => asked'[y.child] = asked[y.child] /\ rec[y.child].bucket = None
        <3>1. y.pc = "node" => y.child \in 1..made /\ rec[y.child].bucket = None
          BY <2>1, Doing DEF Wise, Making
        <3> QED BY <1>0, <1>6, <1>7, <3>1
    <2>5. y.title \in Titles \cup {None}
      BY Surroundings DEF TaskRecord
    <2>6. y.pc \in {"aim", "make", "node"} /\ y.title # None =>
             titleOf'[y.b][y.title] = titleOf[y.b][y.title]
      BY <1>4, <2>1, <2>2, <2>5
    <2>7. /\ y.pc = "node" => rec'[y.child].bucket = None
          /\ \A k \in Buckets : rec[k].bucket # None =>
                 rec'[k].bucket = rec[k].bucket /\ rec'[k].child = rec[k].child
          /\ forgone \subseteq forgone'
      BY <1>2, <1>5, <2>4
    <2>8. /\ y.pc \in {"aim", "make"} /\ y.title # None =>
                titleOf'[y.b][y.title] \in {titleOf[y.b][y.title], None}
          /\ y.pc = "node" => asked'[y.child] = asked[y.child]
          /\ y.pc = "node" /\ y.title # None =>
                titleOf'[y.b][y.title] = titleOf[y.b][y.title]
      BY <2>4, <2>6
    <2>9. made' \in Nat /\ made <= made'
      BY <1>6
    <2>10. \A d, q \in 1..made : Hangs(d, q, info) => Hangs(d, q, info')
      BY <1>5
    <2> QED BY <2>3, <2>7, <2>8, <2>9, <2>10, StaysWise
<1>12. Titled'
    <2>1. ASSUME NEW q \in Buckets, NEW s \in Titles, titleOf'[q][s] # None
          PROVE  q \in 1..made' /\ titleOf'[q][s] \in 1..made' /\ Hangs(titleOf'[q][s], q, info')
        <3>1. CASE titleOf'[q][s] = titleOf[q][s]
            <4>1. q \in 1..made /\ titleOf[q][s] \in 1..made /\ Hangs(titleOf[q][s], q, info)
              BY <1>0, <2>1, <3>1 DEF Titled
            <4> QED BY <1>5, <1>6, <3>1, <4>1
        <3>2. CASE q = p /\ titleOf'[q][s] = c
          BY <1>5, <1>6, <3>2
        <3> QED BY <1>5, <3>1, <3>2
    <2> QED BY <2>1 DEF Titled
<1>13. Filed'
  BY <1>2, <1>5, <1>6 DEF TInv, Filed
<1>14. TitlesKept'
    <2>1. ASSUME NEW k \in Buckets, asked'[k] # None, rec[k].bucket # None, k \notin forgone
          PROVE  titleOf'[rec[k].bucket][asked'[k]] = k
        <3>1. k # c /\ asked'[k] = asked[k] /\ rec[k].bucket \in Buckets /\ asked[k] \in Titles
            <4>1. k # c /\ asked'[k] = asked[k] /\ asked[k] \in Titles
              BY <1>7, <1>9, <2>1, Surroundings
            <4>2. rec[k].bucket \in 1..made
              BY <2>1, Numbers DEF TInv, Filed
            <4> QED BY <1>0, <4>1, <4>2
        <3>2. titleOf[rec[k].bucket][asked[k]] = k
          BY <2>1, <3>1 DEF TInv, TitlesKept
        <3>3. rec[k].bucket # p \/ asked[k] # z
            <4>1. k # None
              BY Numbers
            <4> QED BY <1>00, <2>1, <3>1, <3>2, <4>1
        <3> QED BY <1>4, <3>1, <3>2, <3>3
    <2> QED BY <1>2, <1>5, <2>1 DEF TitlesKept
<1>15. ASSUME ~Abandons PROVE AllMinded'
    <2>0. task \in [Tasks -> TaskRecord]
      BY DEF HInv, TypeOK, TaskTypeOK
    <2>1. \A u \in Tasks : task'[u] = IF u = t THEN r ELSE task[u]
      BY <1>2, <2>0 DEF Become
    <2>2. ASSUME NEW q \in Buckets, NEW s \in Titles, NEW y, y = titleOf'[q][s], y # None
          PROVE  Minded(y)'
        <3>1. CASE y = titleOf[q][s]
            <4>1. Minded(y)
              BY <1>15, <2>2, <3>1 DEF TInv, AllMinded
            <4>2. CASE Live(y)
              BY <1>5, <4>2 DEF Minded, Live
            <4>3. CASE \E u \in Tasks : task[u].pc \in {"node", "forget"} /\ task[u].child = y
                <5>1. PICK u \in Tasks : task[u].pc \in {"node", "forget"} /\ task[u].child = y
                  BY <4>3
                <5>2. u # t
                  BY <1>0, <5>1
                <5>3. task'[u].pc \in {"node", "forget"} /\ task'[u].child = y
                  BY <2>1, <5>1, <5>2
                <5> QED BY <5>3 DEF Minded
            <4> QED BY <4>1, <4>2, <4>3 DEF Minded
        <3>2. CASE y = c
          BY <1>8, <2>1, <3>2 DEF Minded
        <3> QED BY <1>5, <2>2, <3>1, <3>2
    <2> QED BY <2>2 DEF AllMinded
<1>16. Free(t, r.held)
  BY <1>8, HasLocks
<1> QED BY <1>2, <1>5, <1>10, <1>11, <1>12, <1>13, <1>14, <1>15, <1>16, StepsOn

----------------------------------------------------------------------------
(* Writing records. *)

LEMMA Inscribes ==
    ASSUME HInv, TInv, NEW t \in Tasks, NEW r, Become(t, r), Free(t, r.held),
           NEW k \in Buckets, NEW w, Inscribing(t, r, k, w)
    PROVE  TInv'
<1> USE DEF Inscribing
<1>0. /\ k \in Keys /\ made \in Nat /\ w.bucket # None
      /\ rec'[k] = w /\ \A j \in Keys : j # k => rec'[j] = rec[j]
    <2>1. k \in Keys /\ made \in Nat /\ rec \in [Keys -> MemoryRecord]
      BY Surroundings, Numbers DEF TreeTypeOK
    <2> QED BY <2>1, Numbers
<1>1. NoneSealed' /\ Titled'
  BY DEF TInv, NoneSealed, Titled
<1>2. Filed'
    <2>1. ASSUME NEW j \in Keys, rec'[j].bucket # None
          PROVE  /\ j \in 1..made /\ rec'[j].child = j /\ rec'[j].bucket \in 1..made
                 /\ Hangs(j, rec'[j].bucket, info)
                 /\ rec'[j].gray => j \in forgone'
        <3>1. CASE j = k
          BY <1>0, <3>1
        <3>2. CASE j # k
          BY <1>0, <2>1, <3>2 DEF TInv, Filed
        <3> QED BY <3>1, <3>2
    <2> QED BY <2>1 DEF Filed
<1>3. TitlesKept'
    <2>1. ASSUME NEW j \in Buckets, asked[j] # None, rec'[j].bucket # None, j \notin forgone'
          PROVE  titleOf[rec'[j].bucket][asked[j]] = j
        <3>1. CASE j = k
          BY <1>0, <2>1, <3>1
        <3>2. CASE j # k
          BY <1>0, <2>1, <3>2, Numbers DEF TInv, TitlesKept
        <3> QED BY <3>1, <3>2
    <2> QED BY <2>1 DEF TitlesKept
<1>4. ASSUME ~Abandons PROVE AllMinded'
    <2>1. \A u \in Tasks : task'[u] = IF u = t THEN r ELSE task[u]
      BY DEF Become, HInv, TypeOK, TaskTypeOK
    <2>2. ASSUME NEW q \in Buckets, NEW s \in Titles, NEW y, y = titleOf[q][s], y # None
          PROVE  Minded(y)'
        <3>0. y \in Keys /\ Minded(y)
            <4>1. y \in Keys
              BY <2>2, Surroundings, Numbers DEF TreeTypeOK
            <4> QED BY <1>4, <2>2, <4>1 DEF TInv, AllMinded
        <3>1. CASE y = k
            <4>1. CASE w.gray
              BY <2>1, <3>1, <4>1 DEF Minded
            <4>2. CASE ~w.gray
              BY <1>0, <3>1, <4>2 DEF Minded, Live
            <4> QED BY <4>1, <4>2
        <3>2. CASE y # k
            <4>2. CASE Live(y)
              BY <1>0, <3>0, <3>2, <4>2 DEF Minded, Live
            <4>3. CASE \E u \in Tasks : task[u].pc \in {"node", "forget"} /\ task[u].child = y
                <5>1. PICK u \in Tasks : task[u].pc \in {"node", "forget"} /\ task[u].child = y
                  BY <4>3
                <5>2. u # t
                  BY <3>2, <5>1
                <5>3. task'[u].pc \in {"node", "forget"} /\ task'[u].child = y
                  BY <2>1, <5>1, <5>2
                <5> QED BY <5>3 DEF Minded
            <4> QED BY <3>0, <4>2, <4>3 DEF Minded
        <3> QED BY <3>1, <3>2
    <2> QED BY <2>2 DEF AllMinded
<1>5. ASSUME NEW u \in Tasks \ {t}
      PROVE  Wise(task[u], made', info', rec', titleOf', asked', forgone')
    <2>1. task[u].pc = "node" => rec'[task[u].child].bucket = None
        <3>1. task[u].pc = "node" => task[u].child \in 1..made /\ rec[task[u].child].bucket = None
          BY Surroundings, Doing DEF Wise, Making
        <3> QED BY <1>0, <3>1, Surroundings, Numbers
    <2>2. \A j \in Buckets : rec[j].bucket # None =>
                rec'[j].bucket = rec[j].bucket /\ rec'[j].child = rec[j].child
        <3>1. rec[k].bucket # None => rec[k].child = k
          BY <1>0 DEF TInv, Filed
        <3> QED BY <1>0, <3>1, Numbers
    <2>3. made' \in Nat /\ made <= made'
      BY <1>0
    <2> QED BY <2>1, <2>2, <2>3, StaysWise
<1> QED BY <1>1, <1>2, <1>3, <1>4, <1>5, StepsOn

\* A bucket whose record is there is not one whose record is about to be made.
LEMMA Recorded ==
    ASSUME HInv, TInv, NEW u \in Tasks, NEW k, rec[k].bucket # None
    PROVE  task[u].pc = "node" => task[u].child # k
BY Surroundings, Doing DEF Wise, Making

LEMMA NodeTitles ==
    ASSUME HInv, TInv, NEW t \in Tasks, Node(t)
    PROVE  TInv'
<1> DEFINE x == task[t]
           k == x.child
           w == [bucket |-> x.up, gray |-> FALSE, child |-> k]
<1>0. /\ x.pc = "node" /\ x.op \in {"set", "create"} /\ x.b \in 1..made /\ x.up = x.b
      /\ x.b \in Buckets /\ x.b \in x.held
      /\ k \in 1..made /\ k \in Buckets /\ Hangs(k, x.b, info) /\ rec[k].bucket = None
      /\ asked[k] = x.title /\ (x.title # None => titleOf[x.b][x.title] = k)
    <2>1. x.pc = "node"
      BY DEF Node, At
    <2> QED BY <2>1, Surroundings, Doing DEF Wise, Making
<1>1. Put(t, k, w, Idle)
  BY <1>0 DEF Node
<1>2. w.bucket = x.b /\ w.child = k /\ w.gray = FALSE
  BY <1>0
<1> HIDE DEF w, Idle
<1>3. /\ rec' = [rec EXCEPT ![k] = w] /\ UNCHANGED <<info, made, titleOf, asked>>
      /\ Become(t, Idle) /\ forgone \subseteq forgone'
    <2>1. MayWrite(w.bucket)
      BY <1>0, <1>2 DEF MayWrite, TInv, NoneSealed
    <2> QED BY <1>1, <2>1 DEF Put, Write, Unobserved
<1>4. Wise(Idle, made, info, rec', titleOf, asked, forgone') /\ Free(t, Idle.held)
  BY IdleIsWise DEF Free
<1>5. ASSUME NEW u \in Tasks \ {t}, task[u].pc = "node" PROVE task[u].child # k
    <2>1. task[u].b \in task[u].held /\ Hangs(task[u].child, task[u].b, info)
      BY <1>5, Surroundings, Doing DEF Wise, Making
    <2>2. task[u].b # x.b
      BY <1>0, <2>1, OwnBucket
    <2> QED BY <1>0, <2>1, <2>2 DEF Hangs
<1>6. Inscribing(t, Idle, k, w)
  BY <1>0, <1>2, <1>3, <1>4, <1>5 DEF Inscribing
<1> HIDE DEF x, k
<1>7. k \in Buckets
  BY <1>0 DEF x, k
<1> QED BY <1>3, <1>4, <1>6, <1>7, Inscribes

LEMMA Single ==
    ASSUME NEW e, NEW q, q = <<e>>
    PROVE  Len(q) = 1 /\ Head(q) = e
OBVIOUS

LEMMA SummingRefreshes ==
    ASSUME HInv, TInv, NEW t \in Tasks, task[t].pc \in Summing
    PROVE  task[t].op = "refresh" /\ task[t].b \in 1..made /\ task[t].b \in Buckets
BY Doing DEF Summing

\* A refresh: what it knows between its steps.
LEMMA Refreshes ==
    ASSUME HInv, TInv, NEW t \in Tasks, task[t].pc \in Summing
    PROVE  /\ task[t] \in TaskRecord /\ task[t].op = "refresh" /\ task[t].into = None
           /\ task[t].sums = <<task[t].b>> /\ Head(task[t].sums) = task[t].b
           /\ task[t].b \in task[t].held /\ task[t].b \in 1..made /\ task[t].b \in Buckets
           /\ Refreshing(task[t], info, rec)
           /\ AfterSummary(task[t]) = Idle
<1>1. /\ task[t] \in TaskRecord /\ task[t].op = "refresh" /\ task[t].into = None
      /\ task[t].sums = <<task[t].b>>
      /\ task[t].b \in task[t].held /\ task[t].b \in 1..made /\ task[t].b \in Buckets
      /\ Refreshing(task[t], info, rec)
  BY Surroundings, SummingRefreshes DEF Wise, Refreshing
<1>2. Len(task[t].sums) = 1 /\ Head(task[t].sums) = task[t].b
  BY <1>1, Single
<1> DEFINE q == Tail(task[t].sums)
           r == [task[t] EXCEPT !.pc = "summary", !.sums = q]
<1>3. AfterSummary(task[t]) = IF Len(task[t].sums) > 1 THEN r ELSE Idle
  BY <1>1 DEF AfterSummary
<1> HIDE DEF r, Idle
<1>4. AfterSummary(task[t]) = Idle
  BY <1>2, <1>3
<1> QED BY <1>1, <1>2, <1>4

LEMMA SummaryTitles ==
    ASSUME HInv, TInv, NEW t \in Tasks, Summary(t)
    PROVE  TInv'
<1> DEFINE x == task[t]
           r == [x EXCEPT !.pc = "save", !.old = info[x.b]]
<1>0. x.pc = "summary" /\ UNCHANGED <<info, made, rec, titleOf, asked, forgone>>
  BY DEF Summary, At, LocalStep, treeVars
<1>1. /\ x \in TaskRecord /\ x.op = "refresh" /\ x.into = None /\ x.sums = <<x.b>>
      /\ Head(x.sums) = x.b /\ x.b \in x.held /\ AfterSummary(x) = Idle
  BY <1>0, Refreshes DEF Summing
<1>2. Quit(t) \/ Become(t, r)
  BY <1>1 DEF Summary, Quit
<1>3. CASE Quit(t)
  BY <1>0, <1>3, Ends
<1>4. CASE Become(t, r)
    <2>1. /\ r.op = "refresh" /\ r.pc = "save" /\ r.b = x.b /\ r.held = x.held /\ r.into = None
          /\ r.sums = <<r.b>> /\ r.old = info[r.b]
      BY <1>1 DEF TaskRecord
    <2> HIDE DEF r
    <2>2. Wise(r, made, info, rec, titleOf, asked, forgone)
      BY <1>1, <2>1 DEF Wise, Making, Refreshing, Deleting, TitleKinds, Summing
    <2>3. Free(t, r.held)
      BY <2>1, HasLocks
    <2> QED BY <1>0, <1>4, <2>2, <2>3, Alone
<1> QED BY <1>2, <1>3, <1>4

\* update_bucket_info writes back the row as it is: nobody changed it meanwhile.
LEMMA SaveTitles ==
    ASSUME HInv, TInv, NEW t \in Tasks, Save(t)
    PROVE  TInv'
<1> DEFINE x == task[t]
           r == [x EXCEPT !.pc = "node record"]
<1>0. x.pc = "save"
  BY DEF Save, At
<1>1. /\ x \in TaskRecord /\ x.op = "refresh" /\ x.into = None /\ x.sums = <<x.b>>
      /\ Head(x.sums) = x.b /\ x.b \in x.held /\ x.b \in Buckets /\ x.old = info[x.b]
  BY <1>0, Refreshes DEF Refreshing, Summing
<1>2. /\ Become(t, r) /\ UNCHANGED <<made, titleOf, rec, asked, forgone>>
      /\ info' = [info EXCEPT ![x.b] = x.old]
  BY <1>1 DEF Save, SaveInfo, Step, Unobserved
<1>3. info' = info
  BY <1>1, <1>2, Surroundings DEF TreeTypeOK
<1>4. /\ r.op = "refresh" /\ r.pc = "node record" /\ r.b = x.b /\ r.held = x.held
      /\ r.into = None /\ r.sums = <<r.b>>
  BY <1>1 DEF TaskRecord
<1> HIDE DEF r
<1>5. Wise(r, made, info, rec, titleOf, asked, forgone)
  BY <1>1, <1>4 DEF Wise, Making, Refreshing, Deleting, TitleKinds, Summing
<1>6. Free(t, r.held)
  BY <1>4, HasLocks
<1> QED BY <1>0, <1>2, <1>3, <1>5, <1>6, Alone

LEMMA NodeRecordTitles ==
    ASSUME HInv, TInv, NEW t \in Tasks, NodeRecord(t)
    PROVE  TInv'
<1> DEFINE x == task[t]
           k == x.b
           m == Captured({k})
           g == Resolve(rec[k].bucket)
           r == [x EXCEPT !.pc = "tell", !.was = m, !.goal = g]
<1>0. x.pc = "node record" /\ UNCHANGED <<info, made, rec, titleOf, asked, forgone>>
  BY DEF NodeRecord, At, LocalStep, treeVars
<1>1. /\ x \in TaskRecord /\ x.op = "refresh" /\ x.into = None /\ x.sums = <<x.b>>
      /\ Head(x.sums) = x.b /\ x.b \in x.held /\ AfterSummary(x) = Idle /\ k \in Buckets
  BY <1>0, Refreshes DEF Summing
<1>2. Quit(t) \/ (Live(k) /\ Become(t, r))
  BY <1>1 DEF NodeRecord, Quit
<1>3. CASE Quit(t)
  BY <1>0, <1>3, Ends
<1>4. CASE Live(k) /\ Become(t, r)
    <2>1. k \in Keys /\ rec[k].bucket \in Buckets /\ rec[k].bucket # None /\ ~rec[k].gray
        <3>1. k \in Keys /\ rec \in [Keys -> MemoryRecord]
          BY <1>1, Surroundings, Numbers DEF TreeTypeOK
        <3> QED BY <1>4, <3>1 DEF Live, MemoryRecord
    <2>2. g = rec[k].bucket
      BY <2>1, Unsealed
    <2>3. m[k] = rec[k]
      BY <2>1 DEF Captured
    <2>4. Become(t, r)
      BY <1>4
    <2> HIDE DEF m, g
    <2>5. /\ r.op = "refresh" /\ r.pc = "tell" /\ r.b = x.b /\ r.held = x.held /\ r.into = None
          /\ r.sums = <<r.b>> /\ r.was = m /\ r.goal = g
      BY <1>1 DEF TaskRecord
    <2> HIDE DEF r
    <2>6. Refreshing(r, info, rec)
      BY <1>1, <2>1, <2>2, <2>3, <2>5 DEF Refreshing
    <2>7. Wise(r, made, info, rec, titleOf, asked, forgone)
      BY <2>5, <2>6 DEF Wise, Making, Deleting, TitleKinds
    <2>8. Free(t, r.held)
      BY <2>5, HasLocks
    <2> QED BY <1>0, <2>4, <2>7, <2>8, Alone
<1> QED BY <1>2, <1>3, <1>4

\* The record of a bucket is written back as it was read, maybe over a deletion.
LEMMA TellTitles ==
    ASSUME HInv, TInv, NEW t \in Tasks, Tell(t)
    PROVE  TInv'
<1> DEFINE x == task[t]
           k == x.b
           w == [x.was[k] EXCEPT !.bucket = x.goal]
           r == [x EXCEPT !.goal = None]
<1>0. x.pc = "tell"
  BY DEF Tell, At
<1>1. /\ x \in TaskRecord /\ x.op = "refresh" /\ x.into = None /\ x.sums = <<x.b>>
      /\ Head(x.sums) = x.b /\ x.b \in x.held /\ k \in Buckets /\ k \in 1..made
      /\ x.goal # None /\ rec[k].bucket = x.goal
      /\ x.was[k].child = rec[k].child /\ ~x.was[k].gray
  BY <1>0, Refreshes DEF Refreshing, Summing
<1>2. k \in Keys /\ rec[k].bucket # None
  BY <1>1, Numbers
<1>3. /\ rec[k].child = k /\ rec[k].bucket \in 1..made /\ Hangs(k, rec[k].bucket, info)
      /\ rec[k].bucket \in Buckets
  BY <1>2, Surroundings DEF Filed
<1>4. AfterSummary(r) = Idle
    <2>1. r.sums = <<x.b>> /\ r.into = None
      BY <1>1 DEF TaskRecord
    <2> HIDE DEF r
    <2>2. Len(r.sums) = 1
      BY <2>1, Single
    <2> QED BY <2>1, <2>2 DEF AfterSummary
<1>5. Put(t, k, w, Idle)
  BY <1>1, <1>4 DEF Tell
<1>6. w.bucket = x.goal /\ w.child = k /\ ~w.gray
  BY <1>1, <1>2, <1>3 DEF TaskRecord, MemoryRecord
<1> HIDE DEF w, Idle
<1>7. /\ rec' = [rec EXCEPT ![k] = w] /\ UNCHANGED <<info, made, titleOf, asked>>
      /\ Become(t, Idle) /\ forgone \subseteq forgone' /\ forgone' = forgone
    <2>1. MayWrite(w.bucket)
      BY <1>1, <1>3, <1>6 DEF MayWrite, TInv, NoneSealed
    <2> QED BY <1>5, <2>1 DEF Put, Write, Unobserved
<1>8. Wise(Idle, made, info, rec', titleOf, asked, forgone') /\ Free(t, Idle.held)
  BY IdleIsWise DEF Free
<1>9. \A u \in Tasks \ {t} : task[u].pc = "node" => task[u].child # k
  BY <1>2, Recorded
<1>10. asked[k] # None /\ k \notin forgone' => titleOf[w.bucket][asked[k]] = k
  BY <1>1, <1>2, <1>6, <1>7, Surroundings DEF TitlesKept
<1>11. Inscribing(t, Idle, k, w)
  BY <1>0, <1>1, <1>3, <1>6, <1>7, <1>8, <1>9, <1>10 DEF Inscribing
<1>12. k \in Buckets
  BY <1>1
<1> HIDE DEF x, k
<1> QED BY <1>7, <1>8, <1>11, <1>12, Inscribes

----------------------------------------------------------------------------
(* Deletions. *)

LEMMA Deletes ==
    ASSUME HInv, TInv, NEW t \in Tasks, task[t].pc \in {"reread", "rewrite", "forget"}
    PROVE  LET x == task[t] IN
           /\ x \in TaskRecord /\ x.op = "delete" /\ x.key \in Buckets /\ x.child = x.key
           /\ x.key \in Keys /\ x.key \in 1..made /\ x.goal \in Buckets /\ x.goal # None
           /\ rec[x.key].bucket = x.goal /\ rec[x.key].child = x.key
           /\ Hangs(x.key, x.goal, info) /\ Deleting(x, rec, forgone)
           /\ rec[x.key].gray => x.key \in forgone
           /\ x.goal \in 1..made
<1> DEFINE x == task[t]
<1>1. /\ x \in TaskRecord /\ x.op = "delete" /\ x.key \in Buckets /\ x.child = x.key
      /\ x.goal # None /\ rec[x.key].bucket = x.goal /\ Deleting(x, rec, forgone)
  BY Surroundings, Doing DEF Wise, Deleting
<1>2. x.key \in Keys
  BY <1>1, Numbers
<1>3. /\ x.key \in 1..made /\ rec[x.key].child = x.key /\ x.goal \in 1..made
      /\ Hangs(x.key, x.goal, info) /\ (rec[x.key].gray => x.key \in forgone)
  BY <1>1, <1>2, Surroundings DEF Filed
<1> QED BY <1>1, <1>2, <1>3, Surroundings

\* What follows the write of a deletion.
LEMMA ThenForgets ==
    ASSUME HInv, TInv, NEW t \in Tasks, task[t].pc \in {"reread", "rewrite"},
           NEW f, NEW m, NEW h, NEW a, NEW g, task[t].key \in g,
           m[task[t].key].bucket = task[t].goal, NEW n, NEW r, r = AfterRewrite(task[t])
    PROVE  /\ r.pc = "forget" /\ r.child = task[t].key /\ r.held = {}
           /\ Wise(r, n, f, m, h, a, g)
<1> DEFINE x == task[t]
           q == [x EXCEPT !.pc = "forget", !.held = {}]
<1>1. /\ x \in TaskRecord /\ x.op = "delete" /\ x.key \in Buckets /\ x.child = x.key /\ x.goal # None
  BY Deletes
<1>2. r = q
  BY <1>1 DEF AfterRewrite
<1>3. /\ q.op = "delete" /\ q.pc = "forget" /\ q.key = x.key /\ q.child = x.key /\ q.goal = x.goal
      /\ q.held = {}
  BY <1>1 DEF TaskRecord
<1> HIDE DEF q
<1>4. Wise(q, n, f, m, h, a, g)
  BY <1>1, <1>3 DEF Wise, Making, Refreshing, Deleting, TitleKinds
<1> QED BY <1>2, <1>3, <1>4

\* A record that is grayed already has been given up.
LEMMA RereadTitles ==
    ASSUME HInv, TInv, NEW t \in Tasks, Reread(t)
    PROVE  TInv'
<1> DEFINE x == task[t]
           k == x.key
           m == Captured({k})
           r == [x EXCEPT !.pc = "rewrite", !.was = m]
           q == AfterRewrite(x)
<1>0. x.pc = "reread" /\ UNCHANGED <<info, made, rec, titleOf, asked, forgone>>
  BY DEF Reread, At, LocalStep, treeVars
<1>1. /\ x \in TaskRecord /\ x.op = "delete" /\ k \in Keys /\ x.child = k /\ k \in Buckets
      /\ x.goal # None /\ rec[k].bucket = x.goal /\ (rec[k].gray => k \in forgone)
  BY <1>0, Deletes
<1>2. (rec[k].gray /\ Become(t, q)) \/ Become(t, r)
  BY <1>1 DEF Reread
<1>3. CASE rec[k].gray /\ Become(t, q)
    <2>1. q.held = {} /\ Wise(q, made, info, rec, titleOf, asked, forgone)
        <3>1. task[t].key \in forgone /\ rec[task[t].key].bucket = task[t].goal
          BY <1>1, <1>3
        <3>2. task[t].pc \in {"reread", "rewrite"}
          BY <1>0
        <3> HIDE DEF x, q
        <3> QED BY <3>1, <3>2, ThenForgets DEF x, q
    <2>2. Become(t, q)
      BY <1>3
    <2> HIDE DEF q
    <2>3. Free(t, q.held)
      BY <2>1 DEF Free
    <2> QED BY <1>0, <2>1, <2>2, <2>3, Alone
<1>4. CASE Become(t, r)
    <2>1. m[k] = rec[k]
      BY <1>1 DEF Captured
    <2> HIDE DEF m
    <2>2. /\ r.op = "delete" /\ r.pc = "rewrite" /\ r.key = k /\ r.was = m /\ r.child = k
          /\ r.goal = x.goal /\ r.held = x.held
      BY <1>1 DEF TaskRecord
    <2> HIDE DEF r
    <2>3. Deleting(r, rec, forgone)
      BY <1>1, <2>1, <2>2 DEF Deleting
    <2>4. Wise(r, made, info, rec, titleOf, asked, forgone)
      BY <2>2, <2>3 DEF Wise, Making, Refreshing, TitleKinds
    <2>5. Free(t, r.held)
      BY <2>2, HasLocks
    <2> QED BY <1>0, <1>4, <2>4, <2>5, Alone
<1> QED BY <1>2, <1>3, <1>4

LEMMA RewriteTitles ==
    ASSUME HInv, TInv, NEW t \in Tasks, Rewrite(t)
    PROVE  TInv'
<1> DEFINE x == task[t]
           k == x.key
           w == [x.was[k] EXCEPT !.gray = TRUE]
           q == AfterRewrite(x)
<1>0. x.pc = "rewrite"
  BY DEF Rewrite, At
<1>1. /\ x \in TaskRecord /\ x.op = "delete" /\ k \in Keys /\ k \in Buckets /\ k \in 1..made
      /\ x.goal # None /\ x.goal \in Buckets /\ x.goal \in 1..made
      /\ rec[k].bucket = x.goal /\ rec[k].child = k
      /\ Hangs(k, x.goal, info) /\ x.was[k].bucket = x.goal /\ x.was[k].child = k
  BY <1>0, Deletes DEF Deleting
<1>2. w.bucket = x.goal /\ w.child = k
  BY <1>1 DEF TaskRecord, MemoryRecord
<1>3. /\ rec' = [rec EXCEPT ![k] = w] /\ UNCHANGED <<info, made, titleOf, asked>>
      /\ Become(t, q) /\ forgone' = forgone \cup {k}
    <2>1. MayWrite(x.was[k].bucket)
      BY <1>1 DEF MayWrite, TInv, NoneSealed
    <2> QED BY <1>1, <2>1 DEF Rewrite, Write
<1>4. rec'[k] = w
  BY <1>1, <1>3, Surroundings DEF TreeTypeOK
<1>5. rec'[k].bucket = x.goal
  BY <1>2, <1>4
<1>6. /\ q.pc = "forget" /\ q.child = k /\ q.held = {}
      /\ Wise(q, made, info, rec', titleOf, asked, forgone')
    <2>1. task[t].key \in forgone'
      BY <1>3
    <2>2. rec'[task[t].key].bucket = task[t].goal
      BY <1>5
    <2>3. task[t].pc \in {"reread", "rewrite"}
      BY <1>0
    <2> HIDE DEF x, q
    <2> QED BY <2>1, <2>2, <2>3, ThenForgets DEF x, q
<1> HIDE DEF w, q
<1>7. Free(t, q.held)
  BY <1>6 DEF Free
<1>8. \A u \in Tasks \ {t} : task[u].pc = "node" => task[u].child # k
  BY <1>1, Recorded
<1>9. asked[k] # None /\ k \notin forgone' => titleOf[w.bucket][asked[k]] = k
  BY <1>3
<1>10. Inscribing(t, q, k, w)
  BY <1>0, <1>1, <1>2, <1>3, <1>6, <1>8, <1>9 DEF Inscribing
<1>11. k \in Buckets /\ Become(t, q)
  BY <1>1, <1>3
<1> HIDE DEF x, k
<1> QED BY <1>7, <1>10, <1>11, Inscribes

\* delete_memory forgets the titles of a child where it was when it began, which
\* still is its place.
LEMMA ForgetTitles ==
    ASSUME HInv, TInv, NEW t \in Tasks, Forget(t)
    PROVE  TInv'
<1> DEFINE x == task[t]
           c == x.child
           p == x.goal
<1>0. x.pc = "forget"
  BY DEF Forget, At
<1>1. /\ c \in Buckets /\ c \in Keys /\ p \in Buckets /\ p # None /\ rec[c].bucket = p
      /\ Hangs(c, p, info) /\ c \in forgone
  BY <1>0, Deletes DEF Deleting
<1>2. /\ UNCHANGED <<info, made, rec, asked, forgone>> /\ Quit(t)
      /\ titleOf' = [titleOf EXCEPT ![p] =
                       [s \in Titles |-> IF @[s] = c THEN None ELSE @[s]]]
  BY DEF Forget, RemoveTitleRefs, Unobserved
<1>3. /\ \A q \in Buckets, s \in Titles :
            titleOf'[q][s] = IF q = p /\ titleOf[q][s] = c THEN None ELSE titleOf[q][s]
    <2>1. titleOf \in [Buckets -> [Titles -> Buckets \cup {None}]]
      BY Surroundings DEF TreeTypeOK
    <2> HIDE DEF c, p
    <2> QED BY <1>1, <1>2, <2>1
<1>4. NoneSealed' /\ Filed'
  BY <1>2 DEF TInv, NoneSealed, Filed
<1>5. Titled'
    <2>1. ASSUME NEW q \in Buckets, NEW s \in Titles, titleOf'[q][s] # None
          PROVE  q \in 1..made /\ titleOf'[q][s] \in 1..made /\ Hangs(titleOf'[q][s], q, info)
        <3>1. titleOf'[q][s] = titleOf[q][s]
          BY <1>3, <2>1
        <3> QED BY <2>1, <3>1, Surroundings DEF Titled
    <2> QED BY <1>2, <2>1 DEF Titled
<1> HIDE DEF c, p
<1>6. TitlesKept'
    <2>1. ASSUME NEW k \in Buckets, asked[k] # None, rec[k].bucket # None, k \notin forgone
          PROVE  titleOf'[rec[k].bucket][asked[k]] = k
        <3>1. titleOf[rec[k].bucket][asked[k]] = k
          BY <2>1 DEF TInv, TitlesKept
        <3>2. rec[k].bucket \in Buckets /\ asked[k] \in Titles
            <4>1. k \in Keys
              BY Numbers
            <4>2. rec[k].bucket \in 1..made
              BY <2>1, <4>1 DEF TInv, Filed
            <4> QED BY <2>1, <4>2, Surroundings
        <3>3. k # c
          BY <1>1, <2>1
        <3> QED BY <1>3, <3>1, <3>2, <3>3
    <2> QED BY <1>2, <2>1 DEF TitlesKept
<1>7. ASSUME ~Abandons PROVE AllMinded'
    <2>0. \A u \in Tasks : u # t => task'[u] = task[u]
      BY <1>2 DEF Quit, Become, HInv, TypeOK, TaskTypeOK
    <2>1. ASSUME NEW q \in Buckets, NEW s \in Titles, NEW y, y = titleOf'[q][s], y # None
          PROVE  Minded(y)'
        <3>1. y = titleOf[q][s] /\ ~(q = p /\ y = c)
          BY <1>3, <2>1
        <3>2. Minded(y) /\ Hangs(y, q, info)
          BY <1>7, <2>1, <3>1 DEF TInv, AllMinded, Titled
        <3>3. CASE Live(y)
          BY <1>2, <3>3 DEF Minded, Live
        <3>4. CASE \E u \in Tasks : task[u].pc \in {"node", "forget"} /\ task[u].child = y
            <4>1. PICK u \in Tasks : task[u].pc \in {"node", "forget"} /\ task[u].child = y
              BY <3>4
            <4>2. u # t
                <5>1. y # c
                  BY <1>1, <3>1, <3>2 DEF Hangs
                <5> QED BY <4>1, <5>1 DEF c
            <4> QED BY <2>0, <4>1, <4>2 DEF Minded
        <3> QED BY <3>2, <3>3, <3>4 DEF Minded
    <2> QED BY <2>1 DEF AllMinded
<1>8. ASSUME NEW u \in Tasks \ {t}
      PROVE  Wise(task[u], made', info', rec', titleOf', asked', forgone')
    <2> DEFINE y == task[u]
    <2>1. y.pc \in {"aim", "make", "node"} => y.b \in Buckets
      BY Doing
    <2>2. y.title \in Titles \cup {None}
      BY Surroundings DEF TaskRecord
    <2>3. y.pc = "node" => y.child # c
      BY <1>1, Recorded
    <2>4. y.pc = "node" /\ y.title # None => titleOf[y.b][y.title] = y.child
      BY Surroundings, Doing DEF Wise, Making
    <2>5. y.pc \in {"aim", "make"} /\ y.title # None =>
                titleOf'[y.b][y.title] \in {titleOf[y.b][y.title], None}
      BY <1>3, <2>1, <2>2
    <2>6. y.pc = "node" /\ y.title # None =>
                titleOf'[y.b][y.title] = titleOf[y.b][y.title]
      BY <1>3, <2>1, <2>2, <2>3, <2>4
    <2>7. /\ y.pc = "node" => rec'[y.child].bucket = None
          /\ y.pc = "node" => asked'[y.child] = asked[y.child]
          /\ y.pc = "save" => info'[y.b] = info[y.b]
        <3>1. y.pc = "node" => rec[y.child].bucket = None
          BY Surroundings, Doing DEF Wise, Making
        <3> QED BY <1>2, <3>1
    <2>8. /\ \A k \in Buckets : rec[k].bucket # None =>
                 rec'[k].bucket = rec[k].bucket /\ rec'[k].child = rec[k].child
          /\ forgone \subseteq forgone'
          /\ \A d, q \in 1..made : Hangs(d, q, info) => Hangs(d, q, info')
      BY <1>2
    <2>9. made' \in Nat /\ made <= made'
      BY <1>2, Surroundings
    <2> QED BY <2>5, <2>6, <2>7, <2>8, <2>9, StaysWise
<1>9. Wise(Idle, made', info', rec', titleOf', asked', forgone') /\ Free(t, Idle.held)
  BY IdleIsWise DEF Free
<1> HIDE DEF Idle
<1> QED BY <1>2, <1>4, <1>5, <1>6, <1>7, <1>8, <1>9, StepsOn DEF Quit

LEMMA AbandonTitles ==
    ASSUME HInv, TInv, NEW t \in Tasks, Abandon(t)
    PROVE  TInv'
<1>1. task[t].pc # "in"
  BY Doing
<1>2. Quit(t) /\ UNCHANGED <<info, made, rec, titleOf, asked, forgone>> /\ Abandons
  BY <1>1 DEF Abandon, At, treeVars
<1> QED BY <1>2, Ends

----------------------------------------------------------------------------
(* The invariant, and what it gives. *)

LEMMA BegunOne ==
    ASSUME HInv, NEW t \in Tasks, Beginning(t)
    PROVE  task'[t].op \in Kinds
<1>1. task \in [Tasks -> TaskRecord] /\ Idle \in TaskRecord
  BY IdleIsSound DEF HInv, TypeOK, TaskTypeOK
<1> HIDE DEF Idle
<1>2. ASSUME NEW o \in Kinds, NEW r, r.op = o, Become(t, r) PROVE task'[t].op \in Kinds
  BY <1>1, <1>2 DEF Become
<1>3. CASE BeginOnBucket(t)
    <2>1. PICK o \in Kinds, b \in Handles, s \in Titles \cup {None} :
              Become(t, [Idle EXCEPT !.op = o, !.pc = "ask", !.b = b, !.title = s])
      BY <1>3 DEF BeginOnBucket, Starting
    <2> DEFINE r == [Idle EXCEPT !.op = o, !.pc = "ask", !.b = b, !.title = s]
    <2>2. r.op = o /\ Become(t, r)
      BY <1>1, <2>1 DEF TaskRecord
    <2> HIDE DEF r
    <2> QED BY <1>2, <2>2
<1>4. CASE BeginAdd(t)
    <2>1. "add" \in Kinds
      BY <1>4 DEF BeginAdd, Starting
    <2>2. PICK b \in Handles, m \in Mems :
              Become(t, [Idle EXCEPT !.op = "add", !.pc = "ask", !.b = b, !.key = m])
      BY <1>4 DEF BeginAdd
    <2> DEFINE r == [Idle EXCEPT !.op = "add", !.pc = "ask", !.b = b, !.key = m]
    <2>3. r.op = "add" /\ Become(t, r)
      BY <1>1, <2>2 DEF TaskRecord
    <2> HIDE DEF r
    <2> QED BY <1>2, <2>1, <2>3
<1>5. CASE BeginOnKey(t)
    <2>1. PICK o \in Kinds, k \in Keys, g \in Handles \cup {None} :
           Become(t, [Idle EXCEPT !.op = o, !.pc = "ask", !.b = rec[k].bucket,
                                  !.key = k, !.child = rec[k].child,
                                  !.goal = IF o = "delete" /\ rec[k].child # None
                                           THEN info[rec[k].child].parent ELSE g])
      BY <1>5 DEF BeginOnKey, Starting
    <2> DEFINE y == IF o = "delete" /\ rec[k].child # None
                    THEN info[rec[k].child].parent ELSE g
               r == [Idle EXCEPT !.op = o, !.pc = "ask", !.b = rec[k].bucket,
                                 !.key = k, !.child = rec[k].child, !.goal = y]
    <2>2. r.op = o /\ Become(t, r)
      BY <1>1, <2>1 DEF TaskRecord
    <2> HIDE DEF r
    <2> QED BY <1>2, <2>2
<1> QED BY <1>3, <1>4, <1>5 DEF Beginning

LEMMA StepTitles ==
    ASSUME HInv, TInv, [Next]_vars,
           \A t \in Tasks : Beginning(t) => task'[t].op \in TitleKinds \cup {"idle"}
    PROVE  TInv'
<1>1. ASSUME NEW t \in Tasks, OnHandles(t) PROVE TInv'
  BY <1>1, OnlyTitles, BeginTitles, LockTitles, LookTitles, AimTitles, MakeTitles, NodeTitles,
    SummaryTitles, SaveTitles, NodeRecordTitles, TellTitles, AbandonTitles DEF OnHandles, Beginning
<1>2. ASSUME NEW t \in Tasks, OnKeys(t) PROVE TInv'
  BY <1>2, OnlyTitles, BeginTitles, RereadTitles, RewriteTitles, ForgetTitles
    DEF OnKeys, Beginning
<1>3. CASE UNCHANGED vars
  BY <1>3 DEF vars, treeVars, TInv, NoneSealed, Titled, Exclusive, Filed, TitlesKept,
    AllMinded, Minded, Live
<1> QED BY <1>1, <1>2, <1>3 DEF Next

LEMMA InitTInv == Init => TInv
<1> SUFFICES ASSUME Init PROVE TInv
    OBVIOUS
<1> HIDE DEF Idle
<1>1. \A t \in Tasks : task[t] = Idle
  BY DEF Init
<1>2. ASSUME NEW t \in Tasks
      PROVE  Wise(task[t], made, info, rec, titleOf, asked, forgone) /\ task[t].held = {}
  BY <1>1, IdleIsWise
<1>3. NoneSealed
  BY DEF Init, TreeInit, NoneSealed, Row
<1>4. Titled /\ AllMinded
  BY DEF Init, TreeInit, Titled, AllMinded
<1>5. Filed /\ TitlesKept
  BY DEF Init, TreeInit, Filed, TitlesKept, NoRecord
<1>6. Exclusive
  BY <1>2 DEF Exclusive
<1> QED BY <1>2, <1>3, <1>4, <1>5, <1>6 DEF TInv

LEMMA TitlesOnce == TInv => OneKeptChildPerTitle
<1> SUFFICES ASSUME TInv, NEW j \in Buckets \ forgone, NEW k \in Buckets \ forgone, j # k,
                    asked[j] # None, asked[j] = asked[k], Live(j), Live(k)
             PROVE  rec[j].bucket # rec[k].bucket
  BY DEF OneKeptChildPerTitle, OneChildIn
<1>1. /\ titleOf[rec[j].bucket][asked[j]] = j
      /\ titleOf[rec[k].bucket][asked[k]] = k
  BY DEF TInv, TitlesKept, Live
<1> QED BY <1>1

LEMMA TitlesOnceUnrefreshed == TInv /\ Buried => OneChildPerTitle
BY TitlesOnce DEF Buried, OneKeptChildPerTitle, OneChildPerTitle, OneChildIn, Live

LEMMA TitlesAlive == HInv /\ TInv /\ ~Abandons => TitlesLeadToLive
<1> SUFFICES ASSUME HInv, TInv, ~Abandons, Quiet, NEW p \in 1..made, NEW s \in Titles,
                    titleOf[p][s] # None
             PROVE  \E k \in Buckets : Live(k) /\ Resolve(rec[k].child) = Resolve(titleOf[p][s])
  BY DEF TitlesLeadToLive
<1> DEFINE k == titleOf[p][s]
<1>1. p \in Buckets /\ k \in Buckets /\ k \in Keys
    <2>1. made \in Buckets /\ titleOf \in [Buckets -> [Titles -> Buckets \cup {None}]]
      BY DEF HInv, TypeOK, TreeTypeOK
    <2>2. p \in Buckets
      BY <2>1, Numbers
    <2> QED BY <2>1, <2>2, Numbers
<1>2. ASSUME NEW t \in Tasks PROVE task[t].pc = "done"
  BY Known DEF Quiet, Sound, InPlace
<1>3. Live(k)
    <2>1. Minded(k)
      BY <1>1 DEF TInv, AllMinded
    <2> QED BY <1>2, <2>1 DEF Minded
<1>4. rec[k].child = k
  BY <1>1, <1>3 DEF TInv, Filed, Live
<1> QED BY <1>1, <1>3, <1>4

\* A step of a task that writes no record and is no refresh.
LEMMA StillBuried ==
    ASSUME HInv, Buried, NEW t \in Tasks, NEW r, Become(t, r), r.op # "refresh",
           UNCHANGED <<rec, forgone>>
    PROVE  Buried'
<1>1. \A u \in Tasks : task'[u] = IF u = t THEN r ELSE task[u]
  BY DEF Become, HInv, TypeOK, TaskTypeOK
<1> QED BY <1>1 DEF Buried

\* A step of a task that writes record w under key k, which is given up if grayed.
LEMMA WritesBuried ==
    ASSUME HInv, Buried, NEW t \in Tasks, NEW r, Become(t, r), r.op # "refresh",
           NEW k \in Keys, NEW w, rec' = [rec EXCEPT ![k] = w],
           \/ k \notin forgone /\ forgone' = forgone
           \/ w.gray /\ w.bucket # None /\ forgone' = forgone \cup {k}
    PROVE  Buried'
<1>1. \A u \in Tasks : task'[u] = IF u = t THEN r ELSE task[u]
  BY DEF Become, HInv, TypeOK, TaskTypeOK
<1>2. \A j \in Keys : rec'[j] = IF j = k THEN w ELSE rec[j]
  BY Known DEF TreeTypeOK
<1>3. forgone \subseteq Keys
  BY Known DEF HInv, TypeOK, TaskTypeOK
<1> QED BY <1>1, <1>2, <1>3 DEF Buried

LEMMA StepBuried ==
    ASSUME HInv, TInv, Buried, NEW t \in Tasks, OnHandles(t) \/ OnKeys(t),
           Beginning(t) => task'[t].op # "refresh"
    PROVE  Buried'
<1> DEFINE x == task[t]
<1>0. x \in TaskRecord /\ x.op # "refresh" /\ Idle.op # "refresh"
  BY Surroundings DEF Buried, Idle
<1> HIDE DEF Idle
<1>1. CASE Beginning(t)
    <2>1. PICK r : Become(t, r) /\ UNCHANGED <<rec, forgone>>
      BY <1>1 DEF Beginning, BeginOnBucket, BeginAdd, BeginOnKey, Starting, treeVars
    <2>2. r.op # "refresh"
      BY <1>1, <2>1 DEF Become, HInv, TypeOK, TaskTypeOK
    <2> QED BY <2>1, <2>2, StillBuried
<1>2. CASE Ask(t) \/ Enter(t) \/ Look(t) \/ Aim(t) \/ Make(t) \/ Forget(t)
    <2>1. /\ UNCHANGED <<rec, forgone>>
          /\ \E r : Become(t, r) /\ r.op # "refresh"
        <3>1. CASE Ask(t)
            <4>1. PICK b, w : Become(t, [x EXCEPT !.pc = "wait", !.b = b, !.want = w])
              BY <3>1 DEF Ask
            <4>2. [x EXCEPT !.pc = "wait", !.b = b, !.want = w].op # "refresh"
              BY <1>0 DEF TaskRecord
            <4> QED BY <3>1, <4>1, <4>2 DEF Ask, LocalStep, treeVars
        <3>2. CASE Enter(t)
            <4>1. Become(t, [x EXCEPT !.held = x.want, !.want = {}, !.sums = <<x.b>>, !.pc = Begins(x)])
              BY <3>2 DEF Enter
            <4>2. [x EXCEPT !.held = x.want, !.want = {}, !.sums = <<x.b>>, !.pc = Begins(x)].op # "refresh"
              BY <1>0 DEF TaskRecord
            <4> QED BY <3>2, <4>1, <4>2 DEF Enter, LocalStep, treeVars
        <3>3. CASE Look(t)
            <4>1. \A q, c : [x EXCEPT !.pc = q, !.child = c].op # "refresh"
              BY <1>0 DEF TaskRecord
            <4>2. \A q : [x EXCEPT !.pc = q].op # "refresh"
              BY <1>0 DEF TaskRecord
            <4>3. \/ Become(t, [x EXCEPT !.pc = "aim"]) \/ Quit(t)
                  \/ \E q, c : Become(t, [x EXCEPT !.pc = q, !.child = c])
              BY <3>3 DEF Look, Step
            <4>4. UNCHANGED <<rec, forgone>>
              BY <3>3 DEF Look, LocalStep, treeVars
            <4> HIDE DEF x
            <4> QED BY <1>0, <4>1, <4>2, <4>3, <4>4 DEF Quit
        <3>4. CASE Aim(t)
            <4>1. \A p : [x EXCEPT !.pc = "make", !.up = p].op # "refresh"
              BY <1>0 DEF TaskRecord
            <4> QED BY <1>0, <3>4, <4>1 DEF Aim, LocalStep, treeVars, Quit
        <3>5. CASE Make(t)
            <4> DEFINE r1 == [x EXCEPT !.dst = made + 1, !.into = made + 1, !.pc =
                                    IF x.op = "split" THEN "adopt" ELSE "carry"]
                       r2 == [x EXCEPT !.child = made + 1, !.pc = "node"]
            <4>1. r1.op # "refresh" /\ r2.op # "refresh"
              BY <1>0 DEF TaskRecord
            <4>2. Become(t, r1) \/ Become(t, r2)
              BY <3>5 DEF Make
            <4> HIDE DEF r1, r2
            <4> QED BY <3>5, <4>1, <4>2 DEF Make, CreateBucket
        <3>6. CASE Forget(t)
          BY <1>0, <3>6 DEF Forget, RemoveTitleRefs, Quit, Unobserved
        <3> QED BY <1>2, <3>1, <3>2, <3>3, <3>4, <3>5, <3>6
    <2> QED BY <2>1, StillBuried
<1>3. CASE Node(t)
    <2>1. x.pc = "node" /\ x.op \in {"set", "create"}
      BY <1>3, Doing DEF Node, At
    <2> DEFINE k == x.child
               w == [bucket |-> x.up, gray |-> FALSE, child |-> k]
    <2>2. k \in 1..made /\ rec[k].bucket = None
      BY <2>1, Surroundings DEF Wise, Making
    <2>3. k \in Keys /\ k \notin forgone
      BY <2>2, Surroundings DEF Buried, Keys
    <2>4. Put(t, k, w, Idle)
      BY <1>3, <2>1 DEF Node
    <2> HIDE DEF k, w
    <2>5. CASE GiveUp(t)
      BY <1>0, <2>5, StillBuried DEF GiveUp, Quit, LocalStep, treeVars
    <2>6. CASE Write(k, w) /\ Become(t, Idle) /\ Unobserved
        <3>1. rec' = [rec EXCEPT ![k] = w] /\ forgone' = forgone
          BY <2>6 DEF Write, Unobserved
        <3> QED BY <1>0, <2>3, <2>6, <3>1, WritesBuried
    <2> QED BY <2>4, <2>5, <2>6 DEF Put
<1>4. CASE Reread(t)
    <2> DEFINE a == AfterRewrite(x)
    <2>1. a.op # "refresh"
      BY <1>0 DEF TaskRecord, AfterRewrite
    <2>2. \A f : [x EXCEPT !.pc = "rewrite", !.was = f].op # "refresh"
      BY <1>0 DEF TaskRecord
    <2> HIDE DEF a
    <2>3. UNCHANGED <<rec, forgone>>
      BY <1>4 DEF Reread, LocalStep, treeVars
    <2>4. Become(t, a) \/ \E f : Become(t, [x EXCEPT !.pc = "rewrite", !.was = f])
      BY <1>4 DEF Reread, a
    <2> QED BY <2>1, <2>2, <2>3, <2>4, StillBuried
<1>5. CASE Rewrite(t)
    <2> DEFINE k == x.key
               w == [x.was[k] EXCEPT !.gray = TRUE]
               a == AfterRewrite(x)
    <2>1. x.pc = "rewrite" /\ x.op = "delete"
      BY <1>5, Doing DEF Rewrite, At
    <2>2. k \in Buckets /\ x.goal # None /\ x.was[k].bucket = x.goal
      BY <2>1, Surroundings DEF Wise, Deleting
    <2>3. k \in Keys /\ w.gray /\ w.bucket # None
      BY <1>0, <2>2 DEF TaskRecord, MemoryRecord, Keys
    <2>4. a.op # "refresh"
      BY <1>0 DEF TaskRecord, AfterRewrite
    <2>5. \/ Write(k, w) /\ Become(t, a) /\ forgone' = forgone \cup {k}
          \/ GiveUp(t)
      BY <1>5, <2>1 DEF Rewrite
    <2> HIDE DEF k, w, a
    <2>6. CASE GiveUp(t)
      BY <1>0, <2>6, StillBuried DEF GiveUp, Quit, LocalStep, treeVars
    <2>7. CASE Write(k, w) /\ Become(t, a) /\ forgone' = forgone \cup {k}
        <3>1. rec' = [rec EXCEPT ![k] = w]
          BY <2>7 DEF Write
        <3> QED BY <2>3, <2>4, <2>7, <3>1, WritesBuried
    <2> QED BY <2>5, <2>6, <2>7
<1>6. CASE Abandon(t)
    <2>1. task[t].pc # "in"
      BY Doing
    <2> QED BY <1>0, <1>6, <2>1, StillBuried DEF Abandon, At, Quit, treeVars
<1>7. ~Summary(t) /\ ~Save(t) /\ ~NodeRecord(t) /\ ~Tell(t)
  BY <1>0, Doing DEF Summary, Save, NodeRecord, Tell, At
<1> QED BY <1>1, <1>2, <1>3, <1>4, <1>5, <1>6, <1>7, OnlyTitles DEF OnHandles, OnKeys, Beginning

LEMMA NextBuried ==
    ASSUME HInv, TInv, Buried, [Next]_vars,
           \A t \in Tasks : Beginning(t) => task'[t].op # "refresh"
    PROVE  Buried'
<1>1. CASE Next
  BY <1>1, StepBuried DEF Next
<1>2. CASE UNCHANGED vars
  BY <1>2 DEF vars, treeVars, Buried
<1> QED BY <1>1, <1>2

LEMMA InitBuried == Init => Buried
BY DEF Init, Buried, Idle

\* What a task does in the repertoires of titles.
LEMMA OnTitles ==
    ASSUME HInv, mix \in {"titles", "refreshed"}, [MixNext]_<<vars, mix>>, TInv
    PROVE  \A t \in Tasks :
               /\ task'[t].op \in TitleKinds \cup {"idle"}
               /\ mix = "titles" /\ Buried => task'[t].op # "refresh"
<1>1. CASE MixNext
  BY <1>1 DEF MixNext, KindsOf, TitleKinds
<1>2. CASE UNCHANGED <<vars, mix>>
  BY <1>2 DEF vars, TInv, Wise, Buried
<1> QED BY <1>1, <1>2

LEMMA StepMix ==
    ASSUME HInv, mix \in {"titles", "refreshed"} => TInv, mix = "titles" => Buried,
           [MixNext]_<<vars, mix>>
    PROVE  /\ HInv'
           /\ mix' \in {"titles", "refreshed"} => TInv'
           /\ mix' = "titles" => Buried'
<1>1. [Next]_vars /\ mix' = mix
  BY DEF MixNext
<1>2. HInv'
  BY <1>1, StepHInv
<1>3. ASSUME mix \in {"titles", "refreshed"} PROVE TInv'
  BY <1>1, <1>3, OnTitles, StepTitles
<1>4. ASSUME mix = "titles" PROVE Buried'
  BY <1>1, <1>4, OnTitles, NextBuried
<1> QED BY <1>1, <1>2, <1>3, <1>4

\* set_bucket is a setdefault also between callers: as long as children are only
\* created, looked up and deleted, a parent never has two live children made for a
\* title, however the callers' steps interleave and whichever of them are
\* abandoned.  No child is excused.
THEOREM TitlesSingle ==
    ASSUME Kinds \subseteq TitleKinds \ {"refresh"}
    PROVE  Spec => []OneChildPerTitle
<1> DEFINE I == HInv /\ TInv /\ Buried
<1>1. Init => I
  BY InitHInv, InitTInv, InitBuried
<1>2. I /\ [Next]_vars => I'
  BY StepHInv, StepTitles, NextBuried, BegunOne
<1>3. I => OneChildPerTitle
  BY TitlesOnceUnrefreshed
<1> HIDE DEF I
<1> QED BY <1>1, <1>2, <1>3, PTL DEF Spec

\* The same in the words of the run, whose first repertoire is these operations,
\* and with summary refreshes beside them for the children nobody deleted.  When
\* every operation also runs to its end, a title leads to a live child whenever
\* nothing is going on: a deleted one is not handed out again.
THEOREM TitlesLive == ASSUME ~Abandons PROVE MixSpec => []TitlesUntilMoved
<1> DEFINE I == /\ HInv
                /\ mix \in {"titles", "refreshed"} => TInv
                /\ mix = "titles" => Buried
<1>1. MixInit => I
  BY InitHInv, InitTInv, InitBuried DEF MixInit
<1>2. I /\ [MixNext]_<<vars, mix>> => I'
  BY StepMix
<1>3. I => TitlesUntilMoved
  BY TitlesOnce, TitlesOnceUnrefreshed, TitlesAlive DEF TitlesUntilMoved
<1> HIDE DEF I
<1> QED BY <1>1, <1>2, <1>3, PTL DEF MixSpec

----------------------------------------------------------------------------
(* One optimize beside callers that set, create and gray. *)

\* The optimize's tree is the services' tree.
LEMMA SameTree ==
    /\ O!None = None /\ O!Keys = Keys /\ O!Buckets = Buckets /\ O!NoRecord = NoRecord
    /\ O!treeVars = treeVars
    /\ \A b : O!Resolve(b) = Resolve(b) /\ O!Snapshot(b) = Snapshot(b) /\ (O!MayWrite(b) <=> MayWrite(b))
    /\ \A k : O!Live(k) <=> Live(k)
    /\ \A S, x : O!Without(S, x) = Without(S, x)
    /\ \A p, l : O!Row(p, l) = Row(p, l)
<1> USE DEF O!None, None, O!Keys, Keys, O!Buckets, Buckets
<1>1. \A b : O!Resolve(b) = Resolve(b)
  BY DEF O!Resolve, Resolve, O!Made, Made
<1>2. \A b : O!Snapshot(b) = Snapshot(b) /\ (O!MayWrite(b) <=> MayWrite(b))
  BY DEF O!Snapshot, Snapshot, O!MayWrite, MayWrite
<1>3. \A k : O!Live(k) <=> Live(k)
  BY DEF O!Live, Live
<1>4. O!treeVars = treeVars /\ O!NoRecord = NoRecord
  BY DEF O!treeVars, treeVars, O!NoRecord, NoRecord
<1>5. /\ \A S, x : O!Without(S, x) = Without(S, x)
      /\ \A p, l : O!Row(p, l) = Row(p, l)
  BY DEF O!Without, Without, O!Row, Row
<1> QED BY <1>1, <1>2, <1>3, <1>4, <1>5

LEMMA SameTasks ==
    /\ \A p, l, s : O!CreateBucket(p, l, s) => CreateBucket(p, l, s)
    /\ \A c, p, v : O!Reparent(c, p, v) => Reparent(c, p, v)
    /\ \A b, c : O!Seal(b, c) => Seal(b, c)
    /\ \A b, r : O!SaveInfo(b, r) => SaveInfo(b, r)
    /\ \A k, r : O!Write(k, r) => Write(k, r)
    /\ \A b : O!SetRoot(b) => SetRoot(b)
<1> USE DEF O!None, None, O!Keys, Keys, O!Buckets, Buckets
<1>1. \A p, l, s : O!CreateBucket(p, l, s) => CreateBucket(p, l, s)
  BY DEF O!CreateBucket, CreateBucket, O!Row, Row
<1>2. \A c, p, v : O!Reparent(c, p, v) => Reparent(c, p, v)
  BY DEF O!Reparent, Reparent, O!MayReparent, MayReparent, O!MovingTitles, MovingTitles, O!Without, Without
<1>3. \A b, c : O!Seal(b, c) => Seal(b, c)
  BY DEF O!Seal, Seal, O!MaySeal, MaySeal, O!Inherited, Inherited, O!Without, Without
<1>4. \A b, r : O!SaveInfo(b, r) => SaveInfo(b, r)
  BY DEF O!SaveInfo, SaveInfo
<1>5. /\ \A k, r : O!Write(k, r) => Write(k, r)
      /\ \A b : O!SetRoot(b) => SetRoot(b)
  BY DEF O!Write, Write, O!MayWrite, MayWrite, O!SetRoot, SetRoot
<1> QED BY <1>1, <1>2, <1>3, <1>4, <1>5

----------------------------------------------------------------------------
(* What follows at once. *)

LEMMA Sets ==
    /\ Reading \cap Applying = {} /\ "done" \notin Reading \cup Applying
    /\ Shifting \subseteq Applying /\ Omitting \subseteq Applying /\ "switch" \in Applying
    /\ Shifting \cap Omitting = {} /\ "switch" \notin Shifting \cup Omitting
  BY DEF Reading, Applying, Shifting, Omitting

LEMMA Trees ==
    ASSUME HInv
    PROVE  /\ TreeTypeOK /\ Rows /\ made \in Buckets /\ made \in Nat /\ 1..made \subseteq Buckets
           /\ forgone \in SUBSET Keys /\ ops \in 0..MaxOps
           /\ asked \in [Buckets -> Titles \cup {None}] /\ task \in [Tasks -> TaskRecord]
  BY Numbers DEF HInv, TypeOK, TaskTypeOK, TreeTypeOK

LEMMA OApplying == opt \in OptRecord => (O!Applying <=> opt.pc \in Applying)
  BY DEF O!Applying, OptRecord, Reading, Applying, Shifting, Omitting

\* The sets of a plan, and that nothing retained is omitted.
LEMMA Planning ==
    ASSUME OInv
    PROVE  /\ O!Candidates \subseteq Keys /\ O!Explicit \subseteq O!Candidates
           /\ O!Retained \subseteq O!Candidates /\ O!Explicit \subseteq O!Retained
           /\ O!Omitted \subseteq O!Candidates /\ O!Omitted \cap O!Retained = {}
           /\ \A k \in O!Retained \ O!Explicit : \E p \in O!Explicit : k \in opt.under[p]
<1>1. O!Candidates \subseteq Keys
  BY SameTree DEF O!Candidates
<1>2. O!Explicit \subseteq O!Candidates
  BY DEF OInv, Planned, O!Explicit, O!Grouped
<1>3. O!Attached \subseteq O!Candidates
  BY <1>1, <1>2 DEF OInv, ReadSoFar, Attaches, O!Attached
<1>4. O!Retained \subseteq O!Candidates /\ O!Explicit \subseteq O!Retained
  BY <1>2, <1>3 DEF O!Retained
<1>5. O!Omitted \subseteq O!Candidates /\ O!Omitted \cap O!Retained = {}
  BY DEF O!Omitted
<1>6. \A k \in O!Retained \ O!Explicit : \E p \in O!Explicit : k \in opt.under[p]
  BY DEF O!Retained, O!Attached
<1> QED BY <1>1, <1>2, <1>4, <1>5, <1>6

\* A bucket the plan keeps by name is a haven.
LEMMA Havens ==
    ASSUME OInv, NEW k \in O!Explicit, k \in Buckets, opt.pc # "idle"
    PROVE  Haven(k)
<1>1. k \in O!Candidates /\ k \in Keys /\ k \notin O!Omitted
  BY Planning
<1>2. k \in 1..made
  BY <1>1 DEF OInv, ReadSoFar, Noted, Keyed
<1>3. k > opt.b /\ opt.b \in Nat /\ k \in Nat
  BY <1>1, <1>2, Numbers DEF OInv, ReadSoFar, Noted, Target
<1> QED BY <1>1, <1>2, <1>3 DEF Haven

\* As long as the optimize has not sealed its target, a handle is a bucket.
LEMMA NoRedirect ==
    ASSUME HInv, OInv, opt.pc \notin {"switch", "done"}, NEW b \in Buckets
    PROVE  Resolve(b) = b
<1>1. made \in Buckets /\ ~Leads(b)
  BY Numbers DEF OInv, Sealing, Leads, Made, HInv, TypeOK, TreeTypeOK, None
<1> QED BY <1>1, ResolveStep

LEMMA OutOfLimbo == HInv /\ OInv => NeverInLimbo
<1> SUFFICES ASSUME HInv, OInv, opt.pc \in Applying, NEW k \in O!Retained, k \notin forgone
             PROVE  Live(k) /\ ~info[rec[k].bucket].sealed
  BY OApplying, Sets DEF OInv, NeverInLimbo, Applied, Target
<1>1. Live(k)
  BY DEF OInv, Kept
<1>2. CASE opt.pc \in Shifting
    <2>1. rec[k].bucket \in Buckets
        <3>1. k \in Keys
          BY Planning
        <3> QED BY <1>1, <3>1 DEF Live, HInv, TypeOK, TreeTypeOK, MemoryRecord
    <2> QED BY <1>1, <1>2, <2>1 DEF OInv, Sealing
<1>3. CASE opt.pc \in Omitting \cup {"switch"}
    <2>1. ToMove = {}
      BY <1>3 DEF ToMove, Omitting
    <2>2. Haven(rec[k].bucket)
      BY <2>1 DEF OInv, Homed
    <2> QED BY <1>1, <1>3, <2>2, Trees DEF OInv, Sealing, Haven
<1> QED BY <1>2, <1>3 DEF Applying

----------------------------------------------------------------------------
(* What the steps of the optimize have in common. *)

\* The services do not notice a step that keeps the tree.
LEMMA TreeOnly ==
    ASSUME HInv, TreeKept, UNCHANGED <<task, ops, asked, forgone>>
    PROVE  HInv'
<1>1. /\ made \in Buckets /\ made' \in Buckets /\ made' \in {made, made + 1}
      /\ info \in [Buckets -> BucketInfo] /\ info' \in [Buckets -> BucketInfo]
      /\ \A b \in 1..made : info'[b].level = info[b].level
  BY DEF HInv, TypeOK, TreeTypeOK, TreeKept
<1>2. ASSUME NEW t \in Tasks PROVE Sound(task'[t], made', info')
    <2>1. task[t] \in TaskRecord /\ Sound(task[t], made, info)
      BY Known
    <2> HIDE DEF Sound, TaskRecord, BucketInfo, Buckets
    <2> QED BY <1>1, <2>1, SoundHolds
<1>3. TypeOK'
  BY DEF HInv, TypeOK, TaskTypeOK, TreeKept
<1> QED BY <1>2, <1>3 DEF HInv, TreeKept

LEMMA PlanStays ==
    ASSUME SamePlan
    PROVE  /\ O!Candidates' = O!Candidates /\ O!Explicit' = O!Explicit
           /\ O!Retained' = O!Retained /\ O!Omitted' = O!Omitted
<1>1. O!Candidates' = O!Candidates
  BY DEF SamePlan, O!Candidates
<1>2. O!Explicit' = O!Explicit
  BY DEF SamePlan, O!Explicit, O!Grouped
<1>3. O!Attached' = O!Attached
  BY <1>2 DEF SamePlan, O!Attached
<1> QED BY <1>1, <1>2, <1>3 DEF O!Retained, O!Omitted

LEMMA HavensStay ==
    ASSUME HInv, SamePlan, made' \in {made, made + 1}, NEW x, Haven(x)
    PROVE  x \in 1..made' /\ x # opt'.b /\ x \notin O!Omitted'
BY PlanStays, Trees DEF Haven, SamePlan

LEMMA AppliesOn ==
    ASSUME HInv, OInv, SamePlan, opt.pc \in Applying, opt'.pc \in Applying, opt'.end = "none",
           opt' \in OptRecord', UNCHANGED <<task, forgone>>, made' \in {made, made + 1},
           Keyed', Callers', Sealing', \A b \in 1..made : info'[b].level = info[b].level,
           \A k \in O!Candidates : rec'[k].bucket # None,
           Kept', Homed', Targets', AtHand'
    PROVE  OInv'
<1>1. opt'.pc \notin Reading /\ opt'.pc # "done" /\ opt'.pc # "idle" /\ opt.pc # "idle" /\ opt.pc # "done"
      /\ opt'.pc # "expand"
  BY Sets DEF Reading
<1>2. Target'
    <2>1. opt'.b \in 1..made' /\ info'[opt'.b].level < MaxDepth
      BY <1>1, Trees DEF OInv, Target, SamePlan
    <2> QED BY <1>1, <2>1 DEF Target
<1>3. ReadSoFar'
    <2>1. \A k \in O!Candidates' : Noted(k)'
      BY PlanStays DEF OInv, ReadSoFar, Noted, SamePlan
    <2>2. opt'.direct \subseteq O!Candidates'
      BY PlanStays DEF OInv, ReadSoFar, SamePlan
    <2>3. \A p \in Keys : \A k \in opt'.under[p] : Attaches(p, k)'
      BY PlanStays DEF OInv, ReadSoFar, Attaches, SamePlan
    <2> QED BY <2>1, <2>2, <2>3 DEF ReadSoFar
<1>4. Planned'
  BY PlanStays DEF OInv, Planned, SamePlan
<1> QED BY <1>1, <1>2, <1>3, <1>4 DEF OInv

\* A step that leaves the tree alone.
LEMMA QuietOn ==
    ASSUME HInv, OInv, SamePlan, UNCHANGED <<info, made, rec, task, forgone>>,
           opt.pc \in Shifting \cup Omitting, opt'.pc \in Applying, opt'.pc # "node", opt'.end = "none",
           opt' \in OptRecord', opt'.pc \in Shifting => opt.pc \in Shifting,
           opt.pc \in Omitting => opt'.pc \in Omitting, opt'.pc # "switch",
           Homed', Targets', AtHand'
    PROVE  OInv'
<1>0. opt.pc \in Applying
  BY Sets
<1>1. Keyed'
  BY DEF OInv, Keyed
<1>2. Callers'
    <2>1. opt'.pc \notin Reading
      BY Sets
    <2> QED BY <2>1 DEF OInv, Callers, Siblings, Calling, Creating, Graying
<1>3. Sealing'
    <2>1. opt'.pc \notin Reading /\ opt'.pc # "done" /\ opt.pc # "done"
      BY Sets
    <2>2. opt'.pc \in Shifting \cup Omitting
      BY DEF Applying
    <2> QED BY <2>1, <2>2, PlanStays, Sets DEF OInv, Sealing
<1>4. Kept'
  BY <1>0, PlanStays DEF OInv, Kept, Live
<1>5. made' \in {made, made + 1} /\ (\A b \in 1..made : info'[b].level = info[b].level)
      /\ \A k \in O!Candidates : rec'[k].bucket # None
  BY DEF OInv, ReadSoFar, Noted
<1> QED BY <1>0, <1>1, <1>2, <1>3, <1>4, <1>5, AppliesOn

\* Wherever the optimize stops, and whatever raises.
LEMMA Stops ==
    ASSUME HInv, OInv, UNCHANGED <<info, made, rec, task, forgone>>, NEW how,
           opt' = [opt EXCEPT !.pc = "done", !.end = how],
           how \in {"empty", "skipped", "rejected"} \/ (how \in {"failed", "ok"} /\ opt.pc \in Applying),
           opt.pc \notin {"idle", "done"}
    PROVE  OInv'
<1>1. /\ opt \in OptRecord /\ opt'.pc = "done" /\ opt'.end = how /\ SamePlan
      /\ opt' \in OptRecord'
  BY DEF OInv, OptRecord, SamePlan
<1>2. "done" \notin Reading /\ "done" \notin Applying /\ "done" # "idle" /\ "done" \notin Shifting \cup Omitting
  BY Sets DEF Reading
<1>3. Keyed' /\ Planned' /\ ReadSoFar'
  BY <1>1, PlanStays DEF OInv, Keyed, Planned, ReadSoFar, Noted, Attaches, SamePlan
<1>4. Callers'
  BY <1>1, <1>2 DEF OInv, Callers, Siblings, Calling, Creating, Graying
<1>5. Sealing' /\ Target'
  BY <1>1, <1>2 DEF OInv, Sealing, Target, SamePlan
<1>6. NeverInLimbo'
    <2>1. CASE how \in {"failed", "ok"}
        <3>1. NeverInLimbo /\ O!Applying /\ Sane
          BY <2>1, OutOfLimbo, OApplying DEF OInv, Planned, Sane
        <3>2. \A k \in O!Retained \ forgone : Live(k) /\ ~info[rec[k].bucket].sealed
          BY <3>1 DEF NeverInLimbo, Applied
        <3> QED BY <1>1, <3>2, PlanStays, SameTree DEF NeverInLimbo, Live
    <2>2. CASE how \in {"empty", "skipped", "rejected"}
        <3>1. ~O!Applying'
          BY <1>1 DEF O!Applying
        <3> QED BY <1>1, <2>2, <3>1 DEF NeverInLimbo, Applied
    <2> QED BY <2>1, <2>2
<1> QED BY <1>1, <1>2, <1>3, <1>4, <1>5, <1>6 DEF OInv

----------------------------------------------------------------------------
(* Reading the target, and the plan. *)

LEMMA ReadsOn ==
    ASSUME HInv, OInv, UNCHANGED <<info, made, rec, task, forgone>>,
           opt.pc \in Reading, opt'.pc \in Reading, opt'.pc # "idle", opt'.end = "none",
           opt'.into = opt.into, opt' \in OptRecord', opt'.b \in 1..made, info[opt'.b].level < MaxDepth,
           ReadSoFar', Planned', Unmoved',
           opt'.pc = "expand" => opt'.todo \subseteq opt'.direct /\ opt'.todo \subseteq Buckets
    PROVE  OInv'
<1>1. opt'.pc \notin Applying /\ opt'.pc # "done" /\ opt'.pc # "node" /\ opt'.pc # "switch" /\ opt.pc # "switch"
      /\ opt.pc # "done" /\ opt'.pc \notin Omitting
  BY Sets DEF Reading, Shifting, Omitting
<1>2. Keyed' /\ Downwards'
  BY DEF OInv, Keyed, Downwards
<1>3. Callers'
  BY <1>1 DEF OInv, Callers, Siblings, Calling, Creating, Graying
<1>4. Sealing' /\ Target'
  BY <1>1 DEF OInv, Sealing, Target
<1> QED BY <1>1, <1>2, <1>3, <1>4 DEF OInv

\* The records of a bucket are read, but for those that were.
LEMMA SeenOn ==
    ASSUME HInv, OInv, opt.pc \in Reading, UNCHANGED <<info, made, rec, forgone>>,
           NEW p \in Buckets, p >= opt'.b, opt.b \in {None, opt'.b}, opt'.b \in Buckets,
           O!Candidates # {} => opt.b = opt'.b,
           opt'.was = O!Seen(Snapshot(p), opt.was)
    PROVE  /\ O!Candidates' = O!Candidates \cup Snapshot(p)
           /\ \A k \in O!Candidates' : Noted(k)'
           /\ Unmoved'
           /\ opt'.was \in [Keys -> MemoryRecord]
           /\ \A k \in Snapshot(p) : k \in forgone \/ opt'.was[k].bucket = p
           /\ \A k \in O!Candidates : opt'.was[k] = opt.was[k]
<1> DEFINE S == Snapshot(p)
<1>1. /\ opt.was \in [Keys -> MemoryRecord] /\ rec \in [Keys -> MemoryRecord]
      /\ p \in Nat /\ p # None /\ opt'.b \in Nat
  BY Trees, Numbers DEF OInv, OptRecord, TreeTypeOK
<1>2. \A k \in Keys : opt'.was[k] = IF opt.was[k] = NoRecord /\ k \in S THEN rec[k] ELSE opt.was[k]
  BY SameTree DEF O!Seen
<1>3. opt'.was \in [Keys -> MemoryRecord]
    <2>1. opt'.was = [k \in Keys |-> opt'.was[k]]
      BY SameTree DEF O!Seen
    <2> QED BY <1>1, <1>2, <2>1
<1>4. \A k \in S : k \in Keys /\ Live(k) /\ rec[k].bucket = p
  BY <1>1 DEF Snapshot, Live
<1>5. \A k \in S : rec[k] # NoRecord
  BY <1>1, <1>4 DEF NoRecord
<1> HIDE DEF S
<1>6. O!Candidates' = O!Candidates \cup S
  BY <1>2, <1>4, <1>5, SameTree DEF O!Candidates
<1>7. \A k \in O!Candidates : opt'.was[k] = opt.was[k] /\ k \in Keys
  BY <1>2, SameTree DEF O!Candidates
<1>8. \A k \in S : k \notin O!Candidates => opt'.was[k] = rec[k]
  BY <1>2, <1>4, SameTree DEF O!Candidates
<1>9. \A k \in O!Candidates' : Noted(k)'
    <2>1. ASSUME NEW k \in O!Candidates PROVE Noted(k)'
      BY <1>7, <2>1 DEF OInv, ReadSoFar, Noted
    <2>2. ASSUME NEW k \in S, k \notin O!Candidates PROVE Noted(k)'
        <3>1. rec[k].bucket = p /\ rec[k].child = Stands(k) /\ opt'.was[k] = rec[k]
          BY <1>1, <1>4, <1>8, <2>2 DEF OInv, Keyed
        <3>2. k \in Buckets => k > opt'.b
          BY <1>1, <1>4, <3>1, Numbers DEF OInv, Downwards
        <3> QED BY <1>1, <3>1, <3>2 DEF Noted
    <2> QED BY <1>6, <2>1, <2>2
<1>10. Unmoved'
    <2>1. ASSUME NEW k \in O!Candidates PROVE k \in forgone \/ (Live(k)' /\ rec[k].bucket = opt'.was[k].bucket)
      BY <1>7, <2>1 DEF OInv, Unmoved, Live
    <2>2. ASSUME NEW k \in S, k \notin O!Candidates PROVE Live(k)' /\ rec[k].bucket = opt'.was[k].bucket
      BY <1>4, <1>8, <2>2 DEF Live
    <2> QED BY <1>6, <2>1, <2>2 DEF Unmoved
<1>11. \A k \in S : k \in forgone \/ opt'.was[k].bucket = p
  BY <1>4, <1>6, <1>10 DEF Unmoved
<1> QED BY <1>3, <1>6, <1>7, <1>9, <1>10, <1>11 DEF S

LEMMA BeginReads ==
    ASSUME HInv, OInv, NEW h \in Handles, O!BeginOptimize(h), UNCHANGED <<task, forgone>>
    PROVE  OInv'
<1>1. /\ opt.pc = "idle" /\ UNCHANGED <<info, made, rec>>
      /\ info[O!Resolve(h)].level < MaxDepth
      /\ opt' = [opt EXCEPT !.pc = "collect", !.b = O!Resolve(h)]
  BY DEF O!BeginOptimize, O!Doing, O!Goes, O!Quiescent, O!treeVars
<1>2. O!Resolve(h) = h /\ h \in 1..made /\ h \in Buckets
    <2>1. h \in 1..made /\ h \in Buckets
      BY Trees DEF Handles
    <2> QED BY <1>1, <2>1, NoRedirect, SameTree
<1>3. /\ opt \in OptRecord /\ opt'.pc = "collect" /\ opt'.b = h /\ opt'.was = opt.was /\ opt'.under = opt.under
      /\ opt'.direct = opt.direct /\ opt'.flat = opt.flat /\ opt'.groups = opt.groups /\ opt'.end = opt.end /\ opt'.into = opt.into
      /\ opt' \in OptRecord'
  BY <1>1, <1>2 DEF OInv, OptRecord, Reading
<1>4. O!Candidates = {} /\ O!Candidates' = {} /\ opt.end = "none" /\ \A k \in Keys : opt.under[k] = {}
  BY <1>1, <1>3 DEF OInv, Target, O!Candidates
<1>5. ReadSoFar' /\ Unmoved'
  BY <1>3, <1>4 DEF OInv, ReadSoFar, Unmoved
<1>6. Planned'
  BY <1>3, <1>4 DEF OInv, Planned
<1>7. opt.pc \in Reading /\ opt'.pc \in Reading
  BY <1>1, <1>3 DEF Reading
<1> QED BY <1>1, <1>2, <1>3, <1>4, <1>5, <1>6, <1>7, ReadsOn

LEMMA CollectReads ==
    ASSUME HInv, OInv, O!Collect, UNCHANGED <<task, forgone>>
    PROVE  OInv'
<1> DEFINE S == Snapshot(opt.b)
           T == {k \in S : rec[k].child # None}
           w == O!Seen(S, opt.was)
<1>1. /\ opt.pc = "collect" /\ UNCHANGED <<info, made, rec>>
      /\ opt' = [opt EXCEPT !.pc = "expand", !.was = w, !.direct = S, !.todo = T]
  BY SameTree DEF O!Collect, O!Doing, O!Goes, O!Quiescent, O!treeVars
<1>2. /\ opt.b \in 1..made /\ opt.b \in Buckets /\ opt.b \in Nat /\ opt.pc \in Reading
      /\ info[opt.b].level < MaxDepth
  BY <1>1, Trees DEF OInv, Target, Reading
<1>3. S \subseteq Keys /\ T \subseteq S
  BY DEF Snapshot
<1>4. w = O!Seen(Snapshot(opt.b), opt.was)
    OBVIOUS
<1>5. T \subseteq Buckets
  BY <1>2, Numbers, Trees DEF Snapshot, OInv, Keyed, Stands
<1> HIDE DEF S, T, w
<1>6. /\ opt \in OptRecord /\ opt'.pc = "expand" /\ opt'.b = opt.b /\ opt'.was = w /\ opt'.under = opt.under
      /\ opt'.direct = S /\ opt'.flat = opt.flat /\ opt'.groups = opt.groups /\ opt'.end = opt.end /\ opt'.into = opt.into
      /\ opt'.todo = T
  BY <1>1 DEF OInv, OptRecord
<1>7. /\ O!Candidates' = O!Candidates \cup S /\ (\A k \in O!Candidates' : Noted(k)') /\ Unmoved'
      /\ w \in [Keys -> MemoryRecord] /\ \A k \in O!Candidates : opt'.was[k] = opt.was[k]
  BY <1>1, <1>2, <1>4, <1>6, SeenOn DEF S
<1>8. opt' \in OptRecord'
  BY <1>1, <1>3, <1>6, <1>7 DEF OptRecord, Reading
<1>9. ReadSoFar'
    <2>1. \A p \in Keys : \A k \in opt'.under[p] : Attaches(p, k)'
      BY <1>6, <1>7 DEF OInv, ReadSoFar, Attaches
    <2> QED BY <1>6, <1>7, <2>1 DEF ReadSoFar
<1>10. Planned'
  BY <1>6, <1>7 DEF OInv, Planned
<1>11. opt'.end = "none" /\ opt'.pc \in Reading
  BY <1>1, <1>6 DEF OInv, Target, Reading
<1> QED BY <1>1, <1>2, <1>3, <1>5, <1>6, <1>7, <1>8, <1>9, <1>10, <1>11, ReadsOn

LEMMA ExpandReads ==
    ASSUME HInv, OInv, O!Expand, UNCHANGED <<task, forgone>>
    PROVE  OInv'
<1>1. opt.pc = "expand" /\ UNCHANGED <<info, made, rec>> /\ opt \in OptRecord
  BY DEF O!Expand, O!Doing, O!Quiescent, O!treeVars, OInv
<1>2. /\ opt.b \in 1..made /\ opt.b \in Buckets /\ opt.b \in Nat /\ opt.pc \in Reading /\ opt.end = "none"
      /\ info[opt.b].level < MaxDepth /\ opt.todo \subseteq Buckets /\ opt.todo \subseteq opt.direct
  BY <1>1, Trees DEF OInv, Target, Reading
<1>3. CASE O!Ends("empty")
  BY <1>1, <1>3, Stops DEF O!Ends, O!Goes
<1>4. CASE opt' = [opt EXCEPT !.pc = "plan"]
    <2>1. /\ opt'.pc = "plan" /\ opt'.b = opt.b /\ opt'.was = opt.was /\ opt'.under = opt.under
          /\ opt'.direct = opt.direct /\ opt'.flat = opt.flat /\ opt'.groups = opt.groups /\ opt'.end = opt.end /\ opt'.into = opt.into
          /\ opt' \in OptRecord' /\ SamePlan
      BY <1>1, <1>4 DEF OptRecord, Reading, SamePlan
    <2>2. ReadSoFar' /\ Unmoved' /\ Planned'
      BY <1>1, <1>2, <2>1, PlanStays DEF OInv, ReadSoFar, Noted, Attaches, Unmoved, Live, Planned
    <2>3. opt'.pc \in Reading
      BY <2>1 DEF Reading
    <2> QED BY <1>1, <1>2, <2>1, <2>2, <2>3, ReadsOn
<1>5. ASSUME NEW p \in opt.todo,
             opt' = [opt EXCEPT !.was = O!Seen(Snapshot(p), opt.was),
                                !.under = [opt.under EXCEPT ![p] = Snapshot(p)],
                                !.todo = O!Without(opt.todo, p)]
      PROVE  OInv'
    <2> DEFINE S == Snapshot(p)
               w == O!Seen(S, opt.was)
               u == [opt.under EXCEPT ![p] = S]
               T == opt.todo \ {p}
    <2>1. opt' = [opt EXCEPT !.was = w, !.under = u, !.todo = T]
      BY <1>5, SameTree DEF Without
    <2>2. p \in Buckets /\ p \in Keys /\ p \in O!Candidates /\ p > opt.b /\ p \in Nat
      BY <1>2, Numbers DEF OInv, ReadSoFar, Noted
    <2>3. S \subseteq Keys /\ T \subseteq opt.todo /\ w = O!Seen(Snapshot(p), opt.was)
      BY DEF Snapshot
    <2> HIDE DEF S, w, T
    <2>4. \A q \in Keys : u[q] = IF q = p THEN S ELSE opt.under[q]
      BY <1>1 DEF OptRecord
    <2>5. u \in [Keys -> SUBSET Keys]
      BY <1>1, <2>3 DEF OptRecord
    <2> HIDE DEF u
    <2>6. /\ opt'.pc = "expand" /\ opt'.b = opt.b /\ opt'.was = w /\ opt'.under = u
          /\ opt'.direct = opt.direct /\ opt'.flat = opt.flat /\ opt'.groups = opt.groups /\ opt'.end = opt.end /\ opt'.into = opt.into
          /\ opt'.todo = T
      BY <1>1, <2>1 DEF OptRecord
    <2>7. /\ O!Candidates' = O!Candidates \cup S /\ (\A k \in O!Candidates' : Noted(k)') /\ Unmoved'
          /\ w \in [Keys -> MemoryRecord] /\ (\A k \in S : k \in forgone \/ opt'.was[k].bucket = p)
          /\ \A k \in O!Candidates : opt'.was[k] = opt.was[k]
      BY <1>1, <1>2, <2>2, <2>3, <2>6, SeenOn DEF S
    <2>8. opt' \in OptRecord'
      BY <1>1, <2>1, <2>3, <2>5, <2>6, <2>7 DEF OptRecord
    <2>9. ReadSoFar'
        <3>1. ASSUME NEW q \in Keys, NEW k \in u[q] PROVE Attaches(q, k)'
            <4>1. CASE q = p
              BY <1>1, <2>2, <2>4, <2>7, <3>1, <4>1 DEF Attaches
            <4>2. CASE q # p
                <5>1. Attaches(q, k)
                  BY <2>4, <3>1, <4>2 DEF OInv, ReadSoFar
                <5> QED BY <1>1, <2>7, <5>1 DEF Attaches
            <4> QED BY <4>1, <4>2
        <3>2. opt'.direct \subseteq O!Candidates'
          BY <2>6, <2>7 DEF OInv, ReadSoFar
        <3> QED BY <2>6, <2>7, <3>1, <3>2 DEF ReadSoFar
    <2>10. Planned'
      BY <2>6, <2>7 DEF OInv, Planned
    <2>11. opt'.todo \subseteq opt'.direct /\ opt'.todo \subseteq Buckets
      BY <1>2, <2>3, <2>6
    <2>12. opt'.pc \in Reading
      BY <2>6 DEF Reading
    <2> QED BY <1>1, <1>2, <2>6, <2>7, <2>8, <2>9, <2>10, <2>11, <2>12, ReadsOn
<1>6. \A p \in opt.todo : O!Resolve(opt.was[p].child) = p
    <2>1. ASSUME NEW p \in opt.todo PROVE O!Resolve(opt.was[p].child) = p
        <3>1. p \in Buckets /\ opt.was[p].child = p
          BY <1>2 DEF OInv, ReadSoFar, Noted, Stands
        <3> QED BY <1>1, <3>1, NoRedirect, SameTree
    <2> QED BY <2>1
<1>7. \/ O!Ends("empty")
      \/ opt' = [opt EXCEPT !.pc = "plan"]
      \/ \E p \in opt.todo : opt' = [opt EXCEPT !.was = O!Seen(Snapshot(p), opt.was),
                                !.under = [opt.under EXCEPT ![p] = Snapshot(p)],
                                !.todo = O!Without(opt.todo, p)]
  BY <1>6, SameTree DEF O!Expand, O!Goes
<1> QED BY <1>3, <1>4, <1>5, <1>7

\* A plan that is prepared is about no other records.
LEMMA PreparedFits ==
    ASSUME opt.direct \subseteq O!Candidates, NEW p \in O!Plans, NEW q, q = O!Prepared(p.flat, p.groups)
    PROVE  q.flat \subseteq O!Candidates /\ \A i \in DOMAIN q.groups : q.groups[i].members \subseteq O!Candidates
<1> DEFINE C == O!Candidates
           A == {None} \cup 1..made
           flat == p.flat
           said == p.groups
           before(i) == flat \cup UNION {said[j].members : j \in 1..(i - 1)}
           first == [i \in DOMAIN said |-> [said[i] EXCEPT !.members = @ \ before(i)]]
           kept == {i \in DOMAIN first : first[i].members # {} /\ ~O!Folded(first[i])}
           singles == UNION {first[i].members : i \in {j \in DOMAIN first : O!Folded(first[j])}}
<1>1. /\ flat \in SUBSET C /\ opt.direct \subseteq C
      /\ \A i \in DOMAIN said : said[i] \in [members: SUBSET C, at: A]
  BY SameTree DEF O!Plans
<1>2. /\ q = O!Prepared(flat, said)
    OBVIOUS
<1> SUFFICES q.flat \subseteq C /\ \A i \in DOMAIN q.groups : q.groups[i].members \subseteq C
    OBVIOUS
<1> HIDE DEF C, A, flat, said
<1>3. CASE flat = {} /\ said = <<>>
    <2>1. q = [flat |-> opt.direct, groups |-> <<>>]
      BY <1>2, <1>3 DEF O!Prepared
    <2> QED BY <1>1, <1>3, <2>1
<1>4. CASE ~(flat = {} /\ said = <<>>)
    <2>1. q = [flat |-> flat \cup singles, groups |-> [i \in kept |-> first[i]]]
      BY <1>2, <1>4 DEF O!Prepared
    <2> HIDE DEF before
    <2>2. \A i \in DOMAIN said : first[i].members \subseteq C
        <3>1. ASSUME NEW i \in DOMAIN said
              PROVE  first[i].members \subseteq C
            <4> DEFINE m == before(i)
                       r == said[i]
            <4>1. r \in [members: SUBSET C, at: A]
              BY <1>1, <3>1
            <4>2. first[i] = [r EXCEPT !.members = @ \ m]
              BY <3>1
            <4> HIDE DEF m, first
            <4>3. first[i].members \subseteq r.members
              BY <4>1, <4>2
            <4> QED BY <4>1, <4>3
        <3> QED BY <3>1
    <2>3. DOMAIN first = DOMAIN said
        OBVIOUS
    <2> HIDE DEF first
    <2>4. singles \subseteq C /\ kept \subseteq DOMAIN said
      BY <1>1, <2>2, <2>3
    <2> HIDE DEF kept, singles
    <2>5. q.flat = flat \cup singles /\ q.groups = [i \in kept |-> first[i]]
      BY <2>1
    <2> QED BY <1>1, <2>2, <2>4, <2>5
<1> QED BY <1>3, <1>4

LEMMA PlanReads ==
    ASSUME HInv, OInv, Sane', O!Plan, UNCHANGED <<task, forgone>>
    PROVE  OInv'
<1>1. opt.pc = "plan" /\ UNCHANGED <<info, made, rec>> /\ opt \in OptRecord
  BY DEF O!Plan, O!Doing, O!Quiescent, O!treeVars, OInv
<1>2. /\ opt.b \in 1..made /\ opt.pc \in Reading /\ opt.end = "none" /\ info[opt.b].level < MaxDepth
      /\ opt.direct \subseteq O!Candidates
  BY <1>1 DEF OInv, Target, Reading, ReadSoFar
<1>3. CASE O!Ends("skipped")
  BY <1>1, <1>3, Stops DEF O!Ends, O!Goes
<1>4. ASSUME NEW p \in O!Plans, NEW q, q = O!Prepared(p.flat, p.groups),
             opt' = [opt EXCEPT !.pc = "validate", !.flat = q.flat, !.groups = q.groups]
      PROVE  OInv'
    <2> DEFINE C == O!Candidates
    <2>2. q.flat \subseteq C /\ \A i \in DOMAIN q.groups : q.groups[i].members \subseteq C
      BY <1>2, <1>4, PreparedFits
    <2>5. q.flat \subseteq Keys
      BY <2>2, SameTree DEF O!Candidates
    <2>6. /\ opt'.pc = "validate" /\ opt'.b = opt.b /\ opt'.was = opt.was /\ opt'.under = opt.under
          /\ opt'.direct = opt.direct /\ opt'.end = opt.end /\ opt'.into = opt.into
          /\ opt'.flat = q.flat /\ opt'.groups = q.groups
      BY <1>1, <1>4 DEF OptRecord
    <2>7. opt' \in OptRecord'
      BY <1>1, <1>4, <2>5, <2>6 DEF OptRecord, Reading
    <2>8. O!Candidates' = O!Candidates
      BY <2>6 DEF O!Candidates
    <2>9. ReadSoFar' /\ Unmoved'
      BY <1>1, <1>2, <2>6, <2>8 DEF OInv, ReadSoFar, Noted, Attaches, Unmoved, Live
    <2>10. Planned'
      BY <2>2, <2>6, <2>8 DEF Planned, Sane
    <2>11. opt'.pc \in Reading
      BY <2>6 DEF Reading
    <2> QED BY <1>1, <1>2, <2>6, <2>7, <2>9, <2>10, <2>11, ReadsOn
<1> QED BY <1>3, <1>4 DEF O!Plan, O!Goes

LEMMA Validates ==
    ASSUME HInv, OInv, O!Validate, UNCHANGED <<task, forgone>>
    PROVE  OInv'
<1>1. opt.pc = "validate" /\ UNCHANGED <<info, made, rec>> /\ opt \in OptRecord /\ opt.pc \in Reading
  BY DEF O!Validate, O!Doing, O!Quiescent, O!treeVars, OInv, Reading
<1>2. CASE O!Ends("rejected")
  BY <1>1, <1>2, Stops DEF O!Ends, O!Goes
<1>3. CASE opt' = [opt EXCEPT !.pc = "successor"]
    <2>1. /\ SamePlan /\ opt'.pc = "successor" /\ opt'.end = opt.end /\ opt'.into = opt.into
          /\ opt' \in OptRecord'
      BY <1>1, <1>3 DEF OptRecord, SamePlan, Applying, Shifting
    <2>2. opt'.pc \notin Reading /\ opt'.pc \in Shifting /\ opt'.pc \notin Omitting
      BY <2>1 DEF Reading, Shifting, Omitting
    <2>3. Keyed' /\ ReadSoFar' /\ Planned'
      BY <1>1, <2>1, PlanStays DEF OInv, Keyed, ReadSoFar, Noted, Attaches, Planned, SamePlan
    <2>4. Callers' /\ Sealing' /\ Target'
      BY <1>1, <2>1, <2>2 DEF OInv, Callers, Siblings, Calling, Creating, Graying, Sealing, Target, SamePlan
    <2>5. Kept'
      BY <1>1, <2>1, PlanStays, Planning DEF OInv, Kept, Unmoved, Live
    <2>6. Homed'
        <3>1. ASSUME NEW k \in O!Retained \ O!Explicit, k \notin forgone PROVE Haven(rec[k].bucket)
            <4>1. PICK p \in O!Explicit : k \in opt.under[p]
              BY <3>1, Planning
            <4>2. p \in Keys /\ k \in O!Candidates
              BY Planning
            <4>3. p \in Buckets /\ opt.was[k].bucket = p
              BY <3>1, <4>1, <4>2 DEF OInv, ReadSoFar, Attaches
            <4>4. rec[k].bucket = p
              BY <1>1, <3>1, <4>2, <4>3 DEF OInv, Unmoved
            <4> QED BY <1>1, <4>1, <4>3, <4>4, Havens
        <3>2. ToMove' = O!Explicit'
          BY <2>1 DEF ToMove
        <3>3. \A x : Haven(x) => Haven(x)'
          BY <1>1, <2>1, PlanStays DEF Haven, SamePlan
        <3>4. O!Retained' = O!Retained /\ O!Explicit' = O!Explicit
          BY <2>1, PlanStays
        <3> QED BY <1>1, <3>1, <3>2, <3>3, <3>4 DEF Homed
    <2>7. Targets'
      BY <1>1, <2>1 DEF OInv, Targets
    <2>8. AtHand'
      BY <2>1 DEF AtHand
    <2>9. opt'.pc # "expand" /\ opt'.pc # "done"
      BY <2>1
    <2> QED BY <2>1, <2>2, <2>3, <2>4, <2>5, <2>6, <2>7, <2>8, <2>9 DEF OInv
<1> QED BY <1>1, <1>2, <1>3 DEF O!Validate, O!Goes

----------------------------------------------------------------------------
(* The steps of applying a plan that leave the tree alone. *)

LEMMA HomedOn ==
    ASSUME HInv, OInv, SamePlan, UNCHANGED <<rec, forgone>>, opt.pc \in Applying,
           made' \in {made, made + 1},
           \A k \in ToMove \ ToMove' : k \in O!Retained => k \in forgone \/ Haven(rec[k].bucket)
    PROVE  Kept' /\ Homed'
<1>1. Kept'
  BY PlanStays DEF OInv, Kept, Live
<1>2. O!Retained' = O!Retained
  BY PlanStays
<1>3. ASSUME NEW k \in O!Retained, k \notin ToMove', k \notin forgone PROVE Haven(rec[k].bucket)'
    <2>1. Haven(rec[k].bucket)
      BY <1>3 DEF OInv, Homed
    <2> DEFINE x == rec[k].bucket
    <2>2. Haven(x) /\ x = rec'[k].bucket
      BY <2>1
    <2> HIDE DEF x
    <2>3. x \in 1..made' /\ x # opt'.b /\ x \notin O!Omitted'
      BY <2>2, HavensStay
    <2> QED BY <2>2, <2>3 DEF Haven
<1> QED BY <1>1, <1>2, <1>3 DEF Homed

LEMMA TargetsOn ==
    ASSUME HInv, OInv, SamePlan, opt.pc \in Applying, opt.pc # "successor", opt'.pc # "node",
           made' \in {made, made + 1}, \A b \in 1..made : info'[b].level = info[b].level,
           opt'.dst = opt.dst, opt'.into = opt.into,
           opt'.pc \in {"next", "rehang", "write"} =>
               opt.pc \in {"next", "rehang", "write"} \/ O!Homeless = {}
    PROVE  Targets'
<1>1. \A x : Haven(x) => x \in 1..made' /\ x # opt'.b /\ x \notin O!Omitted'
  BY HavensStay
<1>2. Haven(opt.dst) /\ opt.dst > opt.b /\ info[opt.dst].level < MaxDepth
  BY DEF OInv, Targets
<1>3. info'[opt.dst].level < MaxDepth
  BY <1>2 DEF Haven
<1>4. \A i \in DOMAIN opt.into : Haven(opt.into[i])
  BY DEF OInv, Targets
<1>5. opt'.pc \in {"next", "rehang", "write"} => DOMAIN opt.groups \subseteq DOMAIN opt.into
  BY DEF OInv, Targets, O!Homeless
<1> QED BY <1>1, <1>2, <1>3, <1>4, <1>5 DEF Targets, SamePlan, Haven

LEMMA UseGroupOn ==
    ASSUME HInv, OInv, O!UseGroup, UNCHANGED <<task, forgone>>
    PROVE  OInv'
<1>1. opt.pc = "group" /\ UNCHANGED <<info, made, rec>> /\ opt \in OptRecord
  BY DEF O!UseGroup, O!Doing, O!Quiescent, O!treeVars, OInv
<1>2. PICK i \in O!NextGroup : O!Usable(opt.groups[i].at) /\ opt' = O!Housing(i, O!Resolve(opt.groups[i].at))
  BY DEF O!UseGroup, O!Goes
<1>3. i \in DOMAIN opt.groups /\ opt.groups[i].at # None
  BY <1>2, SameTree DEF O!NextGroup, O!Homeless, O!Usable
<1> DEFINE x == opt.groups[i].at
<1>4. x \in opt.flat /\ x \in Buckets
  BY <1>3 DEF OInv, Planned
<1>5. x \in O!Explicit /\ Haven(x) /\ O!Resolve(x) = x
  BY <1>1, <1>4, Havens, NoRedirect, SameTree DEF O!Explicit
<1> DEFINE J == DOMAIN opt.into \cup {i}
           w == [j \in J |-> IF j = i THEN x ELSE opt.into[j]]
<1>6. opt' = [opt EXCEPT !.into = w]
  BY <1>2, <1>5 DEF O!Housing
<1>7. \A j \in DOMAIN w : Haven(w[j])
  BY <1>1, <1>5, Sets DEF OInv, Targets, Shifting
<1> HIDE DEF w
<1>8. /\ SamePlan /\ opt'.pc = "group" /\ opt'.into = w /\ opt'.dst = opt.dst /\ opt'.end = opt.end
      /\ opt' \in OptRecord'
  BY <1>1, <1>6 DEF OptRecord, SamePlan
<1>9. opt.pc \in Applying /\ opt.pc \in Shifting /\ opt'.pc \in Applying /\ opt.pc \notin Omitting
  BY <1>1, <1>8, Sets DEF Shifting
<1>10. Homed'
    <2>1. ToMove = O!Explicit /\ ToMove' = O!Explicit'
      BY <1>1, <1>8 DEF ToMove
    <2> QED BY <1>1, <1>8, <1>9, <2>1, PlanStays, HomedOn
<1>11. Targets'
    <2>1. \A y : Haven(y) => y \in 1..made' /\ y # opt'.b /\ y \notin O!Omitted'
      BY <1>1, <1>8, HavensStay
    <2>2. Haven(opt.dst) /\ opt.dst > opt.b /\ info[opt.dst].level < MaxDepth
      BY <1>1, Sets DEF OInv, Targets, Shifting
    <2> QED BY <1>1, <1>7, <1>8, <2>1, <2>2 DEF Targets, SamePlan, Haven
<1>12. AtHand' /\ opt'.end = "none"
  BY <1>1, <1>8 DEF OInv, AtHand, Target
<1> QED BY <1>1, <1>8, <1>9, <1>10, <1>11, <1>12, QuietOn

LEMMA AssignOn ==
    ASSUME HInv, OInv, O!Assign, UNCHANGED <<task, forgone>>
    PROVE  OInv'
<1>1. /\ opt.pc = "group" /\ UNCHANGED <<info, made, rec>> /\ opt \in OptRecord /\ O!Homeless = {}
      /\ opt' = [opt EXCEPT !.pc = "next", !.todo = O!Explicit]
  BY DEF O!Assign, O!Goes, O!Doing, O!Quiescent, O!treeVars, OInv
<1>2. O!Explicit \subseteq Keys
  BY Planning, SameTree
<1>3. /\ SamePlan /\ opt'.pc = "next" /\ opt'.into = opt.into /\ opt'.dst = opt.dst /\ opt'.end = opt.end
      /\ opt'.todo = O!Explicit /\ opt' \in OptRecord'
  BY <1>1, <1>2 DEF OptRecord, SamePlan, Applying, Shifting
<1>4. opt.pc \in Applying /\ opt.pc \in Shifting /\ opt'.pc \in Applying /\ opt.pc \notin Omitting
  BY <1>1, <1>3, Sets DEF Shifting
<1>5. Homed'
    <2>1. ToMove = O!Explicit /\ ToMove' = O!Explicit
      BY <1>1, <1>3 DEF ToMove
    <2> QED BY <1>1, <1>3, <1>4, <2>1, HomedOn
<1>6. Targets'
  BY <1>1, <1>3, <1>4, TargetsOn
<1>7. AtHand' /\ opt'.end = "none"
  BY <1>1, <1>3, PlanStays DEF OInv, AtHand, Target
<1> QED BY <1>1, <1>3, <1>4, <1>5, <1>6, <1>7, QuietOn

LEMMA FetchOn ==
    ASSUME HInv, OInv, O!Fetch, UNCHANGED <<task, forgone>>
    PROVE  OInv'
<1>1. opt.pc = "next" /\ UNCHANGED <<info, made, rec>> /\ opt \in OptRecord
  BY DEF O!Fetch, O!Doing, O!Quiescent, O!treeVars, OInv
<1>2. PICK k \in opt.todo :
          opt' = IF O!Live(k)
                 THEN [opt EXCEPT !.todo = O!Without(opt.todo, k), !.key = k, !.cur = rec[k],
                                  !.pc = IF rec[k].child # O!None THEN "rehang" ELSE "write"]
                 ELSE [opt EXCEPT !.todo = O!Without(opt.todo, k)]
  BY DEF O!Fetch, O!Goes
<1> DEFINE T == opt.todo \ {k}
           p == IF rec[k].child # None THEN "rehang" ELSE "write"
<1>3. /\ k \in O!Explicit /\ k \in Keys /\ k \in O!Retained /\ rec[k] \in MemoryRecord
      /\ opt.todo \subseteq O!Explicit /\ T \subseteq Keys
    <2>1. opt.todo \subseteq O!Explicit
      BY <1>1, Sets DEF OInv, AtHand, Shifting
    <2>2. k \in Keys /\ k \in O!Retained /\ O!Explicit \subseteq Keys
      BY <2>1, Planning
    <2> QED BY <2>1, <2>2, Trees DEF TreeTypeOK
<1>4. T = O!Without(opt.todo, k) /\ opt.todo = T \cup {k}
  BY SameTree DEF Without
<1> HIDE DEF T
<1>5. opt.pc \in Applying /\ opt.pc \in Shifting /\ opt.pc \notin Omitting /\ opt.end = "none" /\ ToMove = opt.todo
  BY <1>1, Sets DEF OInv, Target, Shifting, Omitting, ToMove
<1>6. CASE Live(k)
    <2>1. opt' = [opt EXCEPT !.todo = T, !.key = k, !.cur = rec[k], !.pc = p]
      BY <1>2, <1>4, <1>6, SameTree
    <2>2. p \in {"rehang", "write"} /\ (p = "rehang" => rec[k].child # None)
        OBVIOUS
    <2> HIDE DEF p
    <2>3. /\ SamePlan /\ opt'.pc = p /\ opt'.into = opt.into /\ opt'.dst = opt.dst /\ opt'.end = opt.end
          /\ opt'.todo = T /\ opt'.key = k /\ opt'.cur = rec[k]
      BY <1>1, <2>1 DEF OptRecord, SamePlan
    <2>4. p \in Applying /\ p \in Shifting
      BY <2>2, Sets DEF Shifting
    <2>5. opt' \in OptRecord'
      BY <1>1, <1>3, <2>1, <2>3, <2>4 DEF OptRecord
    <2>6. Homed'
        <3>1. ToMove' = T \cup {k}
          BY <2>2, <2>3 DEF ToMove
        <3> QED BY <1>1, <1>4, <1>5, <2>3, <3>1, HomedOn
    <2>7. Targets'
      BY <1>1, <1>5, <2>2, <2>3, TargetsOn
    <2>8. AtHand'
        <3>1. rec[k].child = Stands(k) /\ (p = "rehang" => k \in Buckets)
          BY <1>3, <1>6, <2>2 DEF OInv, Keyed, Live, Stands
        <3> QED BY <1>3, <1>4, <2>2, <2>3, <3>1, PlanStays DEF AtHand
    <2> QED BY <1>1, <1>5, <2>2, <2>3, <2>4, <2>5, <2>6, <2>7, <2>8, QuietOn
<1>7. CASE ~Live(k)
    <2>1. opt' = [opt EXCEPT !.todo = T]
      BY <1>2, <1>4, <1>7, SameTree
    <2>2. /\ SamePlan /\ opt'.pc = "next" /\ opt'.into = opt.into /\ opt'.dst = opt.dst /\ opt'.end = opt.end
          /\ opt'.todo = T /\ opt' \in OptRecord'
      BY <1>1, <1>3, <2>1 DEF OptRecord, SamePlan
    <2>3. k \in forgone
      BY <1>3, <1>5, <1>7 DEF OInv, Kept
    <2>4. Homed'
        <3>1. ToMove' = T
          BY <2>2 DEF ToMove
        <3> QED BY <1>1, <1>4, <1>5, <2>2, <2>3, <3>1, HomedOn
    <2>5. Targets'
      BY <1>1, <1>5, <2>2, TargetsOn
    <2>6. AtHand'
      BY <1>3, <1>4, <2>2, PlanStays DEF AtHand
    <2> QED BY <1>1, <1>5, <2>2, <2>4, <2>5, <2>6, QuietOn
<1> QED BY <1>6, <1>7

LEMMA RebuiltOn ==
    ASSUME HInv, OInv, O!Rebuilt, UNCHANGED <<task, forgone>>
    PROVE  OInv'
<1>1. /\ opt.pc = "next" /\ opt.todo = {} /\ UNCHANGED <<info, made, rec>> /\ opt \in OptRecord
      /\ opt' = [opt EXCEPT !.pc = "omit", !.todo = O!Omitted]
  BY DEF O!Rebuilt, O!Goes, O!Doing, O!Quiescent, O!treeVars, OInv
<1>2. O!Omitted \subseteq Keys
  BY Planning
<1>3. /\ SamePlan /\ opt'.pc = "omit" /\ opt'.into = opt.into /\ opt'.dst = opt.dst /\ opt'.end = opt.end
      /\ opt'.todo = O!Omitted /\ opt' \in OptRecord'
  BY <1>1, <1>2 DEF OptRecord, SamePlan, Applying, Omitting
<1>4. opt.pc \in Applying /\ opt.pc \in Shifting /\ opt'.pc \in Applying /\ opt.pc \notin Omitting /\ opt'.pc \notin Shifting
  BY <1>1, <1>3, Sets DEF Shifting, Omitting
<1>5. Homed'
    <2>1. ToMove = {}
      BY <1>1 DEF ToMove
    <2> QED BY <1>1, <1>3, <1>4, <2>1, HomedOn
<1>6. Targets'
  BY <1>1, <1>3, <1>4, TargetsOn
<1>7. AtHand' /\ opt'.end = "none"
  BY <1>1, <1>3, PlanStays DEF OInv, AtHand, Target
<1> QED BY <1>1, <1>3, <1>4, <1>5, <1>6, <1>7, QuietOn

LEMMA OmitOn ==
    ASSUME HInv, OInv, O!Omit, UNCHANGED <<task, forgone>>
    PROVE  OInv'
<1>1. opt.pc = "omit" /\ UNCHANGED <<info, made, rec>> /\ opt \in OptRecord
  BY DEF O!Omit, O!Doing, O!Quiescent, O!treeVars, OInv
<1>2. PICK k \in opt.todo :
          opt' = IF O!Live(k)
                 THEN [opt EXCEPT !.todo = O!Without(opt.todo, k), !.key = k, !.cur = rec[k], !.pc = "gray"]
                 ELSE [opt EXCEPT !.todo = O!Without(opt.todo, k)]
  BY DEF O!Omit, O!Goes
<1> DEFINE T == opt.todo \ {k}
<1>3. /\ k \in O!Omitted /\ k \in Keys /\ rec[k] \in MemoryRecord
      /\ opt.todo \subseteq O!Omitted /\ T \subseteq Keys
    <2>1. opt.todo \subseteq O!Omitted
      BY <1>1, Sets DEF OInv, AtHand, Omitting
    <2>2. k \in Keys /\ O!Omitted \subseteq Keys
      BY <2>1, Planning
    <2> QED BY <2>1, <2>2, Trees DEF TreeTypeOK
<1>4. T = O!Without(opt.todo, k) /\ T \subseteq opt.todo
  BY SameTree DEF Without
<1> HIDE DEF T
<1>5. /\ opt.pc \in Applying /\ opt.pc \in Omitting /\ opt.pc \notin Shifting /\ opt.end = "none" /\ ToMove = {}
      /\ "gray" \in Omitting /\ "gray" \notin Shifting /\ "gray" \in Applying
  BY <1>1, Sets DEF OInv, Target, Shifting, Omitting, ToMove
<1>6. CASE Live(k)
    <2>1. opt' = [opt EXCEPT !.todo = T, !.key = k, !.cur = rec[k], !.pc = "gray"]
      BY <1>2, <1>4, <1>6, SameTree
    <2>2. /\ SamePlan /\ opt'.pc = "gray" /\ opt'.into = opt.into /\ opt'.dst = opt.dst /\ opt'.end = opt.end
          /\ opt'.todo = T /\ opt'.key = k /\ opt'.cur = rec[k] /\ opt' \in OptRecord'
      BY <1>1, <1>3, <1>5, <2>1 DEF OptRecord, SamePlan
    <2>3. Homed' /\ Targets'
      BY <1>1, <1>5, <2>2, HomedOn, TargetsOn
    <2>4. AtHand'
        <3>1. rec[k].child = Stands(k) /\ rec[k].bucket # None
          BY <1>3, <1>6 DEF OInv, Keyed, Live
        <3> QED BY <1>3, <1>4, <2>2, <3>1, PlanStays DEF AtHand
    <2> QED BY <1>1, <1>5, <2>2, <2>3, <2>4, QuietOn
<1>7. CASE ~Live(k)
    <2>1. opt' = [opt EXCEPT !.todo = T]
      BY <1>2, <1>4, <1>7, SameTree
    <2>2. /\ SamePlan /\ opt'.pc = "omit" /\ opt'.into = opt.into /\ opt'.dst = opt.dst /\ opt'.end = opt.end
          /\ opt'.todo = T /\ opt' \in OptRecord'
      BY <1>1, <1>3, <2>1 DEF OptRecord, SamePlan
    <2>3. Homed' /\ Targets'
      BY <1>1, <1>5, <2>2, HomedOn, TargetsOn
    <2>4. AtHand'
      BY <1>3, <1>4, <2>2, PlanStays DEF AtHand
    <2> QED BY <1>1, <1>5, <2>2, <2>3, <2>4, QuietOn
<1> QED BY <1>6, <1>7

LEMMA ArchiveOn ==
    ASSUME HInv, OInv, O!Archive, UNCHANGED <<task, forgone>>
    PROVE  OInv'
<1> DEFINE x == opt.cur.child
           r == info[O!Resolve(x)]
<1>1. /\ opt.pc = "archive" /\ UNCHANGED <<info, made, rec>> /\ opt \in OptRecord
      /\ opt' = [opt EXCEPT !.pc = "archived", !.old = r]
  BY DEF O!Archive, O!Goes, O!Doing, O!Quiescent, O!treeVars, OInv
<1>2. opt.key \in Buckets /\ x = opt.key /\ O!Resolve(x) = x
    <2>1. opt.key \in Buckets /\ x = opt.key
      BY <1>1, Sets DEF OInv, AtHand, Stands, Omitting
    <2> QED BY <1>1, <2>1, NoRedirect, SameTree
<1>3. r = info[opt.key] /\ r \in BucketInfo /\ r.to = None
  BY <1>1, <1>2, Trees DEF TreeTypeOK, OInv, Sealing
<1> DEFINE q == r
<1>4. q = r
    OBVIOUS
<1> HIDE DEF q
<1>5. opt' = [opt EXCEPT !.pc = "archived", !.old = q]
  BY <1>1, <1>4
<1> HIDE DEF r, x
<1>6. /\ SamePlan /\ opt'.pc = "archived" /\ opt'.into = opt.into /\ opt'.dst = opt.dst /\ opt'.end = opt.end
      /\ opt'.todo = opt.todo /\ opt'.key = opt.key /\ opt'.cur = opt.cur /\ opt'.old = q /\ opt' \in OptRecord'
  BY <1>1, <1>3, <1>4, <1>5 DEF OptRecord, SamePlan, Applying, Omitting
<1>7. /\ opt.pc \in Applying /\ opt.pc \in Omitting /\ opt'.pc \in Omitting /\ opt'.pc \notin Shifting
      /\ opt'.pc \in Applying /\ opt.end = "none" /\ ToMove = {}
  BY <1>1, <1>6, Sets DEF OInv, Target, Shifting, Omitting, ToMove
<1>8. Homed' /\ Targets'
  BY <1>1, <1>6, <1>7, HomedOn, TargetsOn
<1>9. AtHand'
  BY <1>1, <1>3, <1>6, <1>7, <1>4, PlanStays DEF OInv, AtHand
<1> QED BY <1>1, <1>6, <1>7, <1>8, <1>9, QuietOn

LEMMA AllOmittedOn ==
    ASSUME HInv, OInv, O!AllOmitted, UNCHANGED <<task, forgone>>
    PROVE  OInv'
<1> DEFINE r == info[opt.dst]
<1>1. /\ opt.pc = "omit" /\ UNCHANGED <<info, made, rec>> /\ opt \in OptRecord
      /\ opt' = [opt EXCEPT !.pc = "summary", !.old = r]
  BY DEF O!AllOmitted, O!Goes, O!Doing, O!Quiescent, O!treeVars, OInv
<1>2. /\ opt.pc \in Applying /\ opt.pc \in Omitting /\ opt.pc \notin Shifting /\ opt.end = "none" /\ ToMove = {}
      /\ "summary" \in Omitting /\ "summary" \notin Shifting /\ "summary" \in Applying
  BY <1>1, Sets DEF OInv, Target, Shifting, Omitting, ToMove
<1>3. r \in BucketInfo /\ r.to = None /\ ~r.sealed
    <2>1. opt.dst \in Buckets /\ opt.dst \notin O!Omitted
      BY <1>1, <1>2, Trees DEF OInv, Targets, Haven
    <2> QED BY <1>1, <1>2, <2>1, Trees DEF TreeTypeOK, OInv, Sealing
<1> DEFINE q == r
<1>4. q = r
    OBVIOUS
<1> HIDE DEF q
<1>5. opt' = [opt EXCEPT !.pc = "summary", !.old = q]
  BY <1>1, <1>4
<1>6. /\ SamePlan /\ opt'.pc = "summary" /\ opt'.into = opt.into /\ opt'.dst = opt.dst /\ opt'.end = opt.end
      /\ opt'.old = q /\ opt' \in OptRecord'
  BY <1>1, <1>2, <1>3, <1>4, <1>5 DEF OptRecord, SamePlan
<1>7. Homed' /\ Targets'
  BY <1>1, <1>2, <1>6, HomedOn, TargetsOn
<1>8. AtHand'
  BY <1>1, <1>3, <1>4, <1>6 DEF AtHand
<1> QED BY <1>1, <1>2, <1>6, <1>7, <1>8, QuietOn

LEMMA RaiseOn ==
    ASSUME HInv, OInv, O!Raise, UNCHANGED <<task, forgone>>
    PROVE  OInv'
<1>1. UNCHANGED <<info, made, rec>> /\ opt' = [opt EXCEPT !.pc = "done", !.end = "failed"] /\ O!Applying
  BY DEF O!Raise, O!Ends, O!Goes, O!Quiescent, O!treeVars
<1>2. opt.pc \in Applying
  BY <1>1, OApplying DEF OInv
<1>3. opt.pc \notin {"idle", "done"}
  BY <1>2, Sets DEF Reading
<1> QED BY <1>1, <1>2, <1>3, Stops

----------------------------------------------------------------------------
(* The steps of applying a plan that write. *)

Aside == UNCHANGED <<task, ops, asked, forgone>>

LEMMA CallersOn ==
    ASSUME HInv, OInv, UNCHANGED task, opt'.pc \in Applying,
           made' \in {made, made + 1},
           \A k \in Keys : rec[k].bucket # None => rec'[k].bucket # None,
           \A k \in Keys : rec[k].bucket = None /\ rec'[k].bucket # None => opt.pc = "node" /\ k = opt.key,
           opt'.pc = "node" => opt'.key = made + 1
    PROVE  Callers'
<1>1. opt'.pc \notin Reading
  BY Sets
<1>2. Siblings'
  BY DEF OInv, Callers, Siblings
<1>3. ASSUME NEW t \in Tasks PROVE Calling(task'[t], made', rec', opt')
    <2> DEFINE r == task[t]
    <2>1. Calling(r, made, rec, opt) /\ r \in TaskRecord /\ Sound(r, made, info)
      BY Known DEF OInv, Callers
    <2>2. r.pc # "done" => r.op # "idle"
      BY <2>1 DEF Sound, InPlace
    <2>3. r.op = "gray" => r.key \in Keys
      BY <2>1 DEF Sound, Records, KeyOps
    <2>4. task'[t] = r
        OBVIOUS
    <2> HIDE DEF r
    <2>5. 1..made \subseteq 1..made' /\ 1..made \subseteq Keys /\ made + 1 \notin 1..made
      BY Trees, Numbers
    <2>6. Creating(r, made', rec')
        <3>1. ASSUME r.op \in {"set", "create"}, r.pc = "node"
              PROVE  r.child \in 1..made' /\ rec'[r.child].bucket = None /\ r.up < r.child
            <4>1. r.child \in 1..made /\ rec[r.child].bucket = None /\ r.up < r.child
              BY <2>1, <3>1 DEF Calling, Creating
            <4>2. opt.pc = "node" => r.child # opt.key
              BY <2>1, <3>1 DEF Calling
            <4> QED BY <2>5, <4>1, <4>2
        <3>2. r.op \in {"set", "create"} =>
                  r.pc \in {"ask", "wait", "look", "retitle", "untitle", "aim", "make", "node"}
          BY <2>1 DEF Calling, Creating
        <3> QED BY <3>1, <3>2 DEF Creating
    <2>7. Graying(r, rec', opt'.pc)
      BY <1>1, <2>1, <2>3 DEF Calling, Graying
    <2>8. opt'.pc = "node" /\ r.pc = "node" => r.child # opt'.key
        <3>1. ASSUME r.pc = "node" PROVE r.child \in 1..made
          BY <2>1, <2>2, <3>1 DEF Calling, Creating, Graying, CreatesAndGrays
        <3> QED BY <2>5, <3>1
    <2> QED BY <2>1, <2>4, <2>6, <2>7, <2>8 DEF Calling
<1> QED BY <1>2, <1>3 DEF Callers

\* A step that does not touch the tree is one of the services' none.
LEMMA QuietKeeps ==
    ASSUME HInv, O!Quiescent, Aside
    PROVE  HInv'
<1>1. UNCHANGED treeVars
  BY DEF O!Quiescent, O!treeVars, treeVars
<1>2. TreeKept
  BY <1>1, Trees, OthersKeep
<1> QED BY <1>2, TreeOnly DEF Aside

LEMMA WriteOn ==
    ASSUME HInv, Aside, NEW k \in Keys, NEW r \in MemoryRecord, O!Write(k, r)
    PROVE  /\ HInv' /\ UNCHANGED <<info, made>> /\ MayWrite(r.bucket)
           /\ \A j \in Keys : rec'[j] = IF j = k THEN r ELSE rec[j]
<1>1. Write(k, r)
  BY SameTasks
<1>2. TreeKept
  BY <1>1, Trees, WriteKeeps
<1>3. HInv'
  BY <1>2, TreeOnly DEF Aside
<1>4. rec \in [Keys -> MemoryRecord]
  BY Trees DEF TreeTypeOK
<1> QED BY <1>1, <1>3, <1>4 DEF Write

\* A record of the plan is written anew.
LEMMA RecordOn ==
    ASSUME HInv, OInv, SamePlan, Aside, NEW k \in O!Candidates, NEW r \in MemoryRecord, O!Write(k, r),
           r.bucket # None, r.child = Stands(k), k \in O!Retained => ~r.gray /\ Haven(r.bucket),
           opt.pc \in Applying, opt'.pc \in Applying, opt.pc # "node", opt'.pc # "node",
           opt'.end = "none", opt' \in OptRecord', opt.pc # "successor", opt.pc # "switch", opt'.pc # "switch",
           opt'.pc \in Shifting <=> opt.pc \in Shifting,
           opt'.dst = opt.dst, opt'.into = opt.into,
           opt'.pc \in {"next", "rehang", "write"} => opt.pc \in {"next", "rehang", "write"},
           ToMove \subseteq ToMove' \cup {k}, AtHand'
    PROVE  HInv' /\ OInv'
<1>1. k \in Keys
  BY Planning
<1>2. /\ HInv' /\ UNCHANGED <<info, made, task, forgone>>
      /\ \A j \in Keys : rec'[j] = IF j = k THEN r ELSE rec[j]
  BY <1>1, WriteOn DEF Aside
<1>3. rec[k].bucket # None
  BY DEF OInv, ReadSoFar, Noted
<1>4. Keyed'
  BY <1>1, <1>2, <1>3 DEF OInv, Keyed
<1>5. Callers'
  BY <1>1, <1>2, <1>3, CallersOn
<1>6. Sealing'
    <2>1. opt'.pc \notin Reading /\ opt'.pc # "done"
      BY Sets
    <2>2. opt'.pc \in Omitting => opt.pc \in Omitting
      BY Sets DEF Applying
    <2>3. opt.pc # "done"
      BY Sets
    <2> QED BY <1>2, <2>1, <2>2, <2>3, PlanStays DEF OInv, Sealing
<1>7. \A j \in O!Candidates : rec'[j].bucket # None
  BY <1>2, Planning DEF OInv, ReadSoFar, Noted
<1>8. Kept'
    <2>1. ASSUME NEW j \in O!Retained, j \notin forgone PROVE rec'[j].bucket # None /\ ~rec'[j].gray
      BY <1>2, <2>1, Planning DEF OInv, Kept, Live
    <2> QED BY <1>2, <2>1, PlanStays DEF Kept, Live
<1>9. Homed'
    <2>1. ASSUME NEW j \in O!Retained, j \notin ToMove', j \notin forgone PROVE Haven(rec'[j].bucket)
        <3>1. CASE j = k
          BY <1>1, <1>2, <3>1
        <3>2. CASE j # k
          BY <1>2, <2>1, <3>2, Planning DEF OInv, Homed
        <3> QED BY <3>1, <3>2
    <2>2. \A x : Haven(x) => x \in 1..made' /\ x # opt'.b /\ x \notin O!Omitted'
      BY <1>2, HavensStay
    <2>3. O!Retained' = O!Retained
      BY PlanStays
    <2> QED BY <1>2, <2>1, <2>2, <2>3 DEF Homed, Haven
<1>10. Targets'
  BY <1>2, TargetsOn
<1> QED BY <1>2, <1>4, <1>5, <1>6, <1>7, <1>8, <1>9, <1>10, AppliesOn

\* A write that is refused ends the optimize.
LEMMA Refused ==
    ASSUME HInv, OInv, Aside, O!Quiescent, O!Ends("failed"), opt.pc \in Applying
    PROVE  HInv' /\ OInv'
<1>1. UNCHANGED <<info, made, rec>> /\ opt' = [opt EXCEPT !.pc = "done", !.end = "failed"]
  BY DEF O!Ends, O!Goes, O!Quiescent, O!treeVars
<1>2. opt.pc \notin {"idle", "done"}
  BY Sets DEF Reading
<1>3. OInv'
  BY <1>1, <1>2, Stops DEF Aside
<1> QED BY <1>3, QuietKeeps

LEMMA GroupNodeOn ==
    ASSUME HInv, OInv, O!GroupNode, Aside
    PROVE  HInv' /\ OInv'
<1> DEFINE k == opt.key
           r == [bucket |-> info[k].parent, gray |-> FALSE, child |-> k]
           q == [opt EXCEPT !.pc = "group"]
<1>1. opt.pc = "node" /\ opt \in OptRecord /\ opt.pc \in Applying /\ opt.pc \in Shifting /\ opt.end = "none"
  BY Sets DEF O!GroupNode, O!Doing, OInv, Shifting, Target
<1>2. k \in 1..made /\ k \in Buckets /\ k \in Keys /\ k \notin O!Candidates /\ rec[k].bucket = None
    <2>1. k \in 1..made /\ k \notin O!Candidates /\ rec[k].bucket = None
      BY <1>1 DEF OInv, Targets
    <2> QED BY <2>1, Trees, Numbers
<1>3. r \in MemoryRecord
    <2>1. info[k].parent \in Buckets \cup {None}
      BY <1>2, Trees DEF TreeTypeOK, BucketInfo
    <2> QED BY <1>2, <2>1 DEF MemoryRecord
<1>4. r.child = Stands(k)
  BY <1>2 DEF Stands
<1>5. (O!Write(k, r) /\ opt' = q) \/ (O!Quiescent /\ O!Ends("failed"))
  BY <1>2 DEF O!GroupNode, O!PutRecord, O!Goes
<1> HIDE DEF r
<1>6. CASE O!Write(k, r) /\ opt' = q
    <2>1. /\ HInv' /\ UNCHANGED <<info, made, task, forgone>>
          /\ \A j \in Keys : rec'[j] = IF j = k THEN r ELSE rec[j]
      BY <1>2, <1>3, <1>6, WriteOn DEF Aside
    <2>2. /\ SamePlan /\ opt'.pc = "group" /\ opt'.into = opt.into /\ opt'.dst = opt.dst /\ opt'.end = opt.end
          /\ opt' \in OptRecord'
      BY <1>1, <1>6 DEF OptRecord, SamePlan, Applying, Shifting
    <2>3. opt'.pc \in Applying /\ opt'.pc \in Shifting /\ opt'.pc \notin Reading /\ opt'.pc \notin Omitting
      BY <2>2, Sets DEF Shifting
    <2>4. Keyed'
      BY <1>2, <1>4, <2>1 DEF OInv, Keyed
    <2>5. Callers'
        <3>1. /\ \A j \in Keys : rec[j].bucket # None => rec'[j].bucket # None
              /\ \A j \in Keys : rec[j].bucket = None /\ rec'[j].bucket # None => opt.pc = "node" /\ j = opt.key
          BY <1>1, <1>2, <2>1
        <3> QED BY <2>1, <2>2, <2>3, <3>1, CallersOn
    <2>6. Sealing'
      BY <1>1, <2>1, <2>2, <2>3, Sets DEF OInv, Sealing
    <2>7. \A j \in O!Candidates : rec'[j] = rec[j] /\ rec[j].bucket # None
      BY <1>2, <2>1, Planning DEF OInv, ReadSoFar, Noted
    <2>8. Kept'
      BY <1>1, <2>1, <2>2, <2>7, PlanStays, Planning DEF OInv, Kept, Live
    <2>9. Homed'
        <3>1. ToMove = O!Explicit /\ ToMove' = O!Explicit'
          BY <1>1, <2>2 DEF ToMove
        <3>2. \A x : Haven(x) => x \in 1..made' /\ x # opt'.b /\ x \notin O!Omitted'
          BY <2>1, <2>2, HavensStay
        <3>3. O!Retained' = O!Retained /\ O!Explicit' = O!Explicit /\ O!Retained \subseteq O!Candidates
          BY <2>2, PlanStays, Planning
        <3>4. \A j \in O!Retained \ O!Explicit : j \in forgone \/ Haven(rec[j].bucket)
          BY <1>1, <3>1 DEF OInv, Homed
        <3> QED BY <2>1, <2>7, <3>1, <3>2, <3>3, <3>4 DEF Homed, Haven
    <2>10. Targets'
      BY <1>1, <2>1, <2>2, TargetsOn
    <2>11. AtHand'
      BY <2>2 DEF AtHand
    <2> QED BY <1>1, <2>1, <2>2, <2>3, <2>4, <2>5, <2>6, <2>7, <2>8, <2>9, <2>10, <2>11, AppliesOn
<1> QED BY <1>1, <1>5, <1>6, Refused

\* Where the record at hand goes.
LEMMA GoesToHaven ==
    ASSUME HInv, OInv, opt.pc \in {"rehang", "write"}
    PROVE  /\ Haven(O!GoesTo(opt.key)) /\ O!GoesTo(opt.key) \in Buckets
           /\ O!Resolve(O!GoesTo(opt.key)) = O!GoesTo(opt.key)
<1> DEFINE k == opt.key
<1>1. opt.pc \in Applying /\ opt.pc \notin {"successor", "switch", "done"}
  BY Sets DEF Shifting
<1>2. k \in O!Explicit /\ Haven(opt.dst) /\ DOMAIN opt.groups \subseteq DOMAIN opt.into
      /\ \A i \in DOMAIN opt.into : Haven(opt.into[i])
  BY <1>1 DEF OInv, AtHand, Targets
<1>3. Haven(O!GoesTo(k))
    <2>1. CASE k \in opt.flat
      BY <1>2, <2>1 DEF O!GoesTo
    <2>2. CASE k \notin opt.flat
        <3> DEFINE i == CHOOSE j \in DOMAIN opt.groups : k \in opt.groups[j].members
        <3>1. \E j \in DOMAIN opt.groups : k \in opt.groups[j].members
          BY <1>2, <2>2 DEF O!Explicit, O!Grouped
        <3>2. i \in DOMAIN opt.groups
          BY <3>1
        <3>3. O!GoesTo(k) = opt.into[i]
          BY <2>2 DEF O!GoesTo
        <3> HIDE DEF i
        <3> QED BY <1>2, <3>2, <3>3
    <2> QED BY <2>1, <2>2
<1>4. O!GoesTo(k) \in Buckets
  BY <1>3, Trees DEF Haven
<1> QED BY <1>1, <1>3, <1>4, NoRedirect, SameTree

LEMMA RebuildOn ==
    ASSUME HInv, OInv, O!Rebuild, Aside
    PROVE  HInv' /\ OInv'
<1> DEFINE k == opt.key
           g == O!GoesTo(k)
           c == opt.cur
           r == [c EXCEPT !.bucket = g, !.gray = FALSE]
           q == [opt EXCEPT !.pc = "next"]
<1>1. opt.pc = "write" /\ opt \in OptRecord /\ opt.pc \in Applying /\ opt.pc \in Shifting /\ opt.end = "none"
  BY Sets DEF O!Rebuild, O!Doing, OInv, Shifting, Target
<1>2. /\ k \in O!Explicit /\ opt.todo \subseteq O!Explicit /\ k \in O!Candidates /\ k \in O!Retained
      /\ c.child = Stands(k) /\ c \in MemoryRecord
    <2>1. k \in O!Explicit /\ opt.todo \subseteq O!Explicit /\ c.child = Stands(k)
      BY <1>1 DEF OInv, AtHand
    <2> QED BY <1>1, <2>1, Planning DEF OptRecord
<1>3. Haven(g) /\ g \in Buckets /\ O!Resolve(g) = g
  BY <1>1, GoesToHaven
<1>4. (O!Write(k, r) /\ opt' = q) \/ (O!Quiescent /\ O!Ends("failed"))
  BY <1>3 DEF O!Rebuild, O!PutRecord, O!Goes
<1> HIDE DEF g, c
<1>5. r \in MemoryRecord /\ r.bucket = g /\ r.child = Stands(k) /\ ~r.gray /\ r.bucket # None
  BY <1>2, <1>3, Numbers DEF MemoryRecord
<1> HIDE DEF r
<1>6. CASE O!Write(k, r) /\ opt' = q
    <2>1. /\ SamePlan /\ opt'.pc = "next" /\ opt'.into = opt.into /\ opt'.dst = opt.dst /\ opt'.end = opt.end
          /\ opt'.todo = opt.todo /\ opt' \in OptRecord'
      BY <1>1, <1>6 DEF OptRecord, SamePlan, Applying, Shifting
    <2>2. opt'.pc \in Applying /\ opt'.pc \in Shifting
      BY <2>1, Sets DEF Shifting
    <2>3. ToMove \subseteq ToMove' \cup {k}
      BY <1>1, <2>1 DEF ToMove
    <2>4. AtHand'
      BY <1>2, <2>1, PlanStays DEF AtHand
    <2> HIDE DEF k
    <2> QED BY <1>1, <1>2, <1>3, <1>5, <1>6, <2>1, <2>2, <2>3, <2>4, RecordOn
<1> QED BY <1>1, <1>4, <1>6, Refused

LEMMA GrayOutOn ==
    ASSUME HInv, OInv, O!GrayOut, Aside
    PROVE  HInv' /\ OInv'
<1> DEFINE k == opt.key
           c == opt.cur
           r == [c EXCEPT !.gray = TRUE]
           p == IF c.child # None THEN "archive" ELSE "omit"
           q == [opt EXCEPT !.pc = p]
<1>1. opt.pc = "gray" /\ opt \in OptRecord /\ opt.pc \in Applying /\ opt.pc \in Omitting /\ opt.end = "none"
  BY Sets DEF O!GrayOut, O!Doing, OInv, Omitting, Target
<1>2. /\ k \in O!Omitted /\ opt.todo \subseteq O!Omitted /\ k \in O!Candidates /\ k \notin O!Retained
      /\ c.child = Stands(k) /\ c \in MemoryRecord /\ c.bucket # None
    <2>1. k \in O!Omitted /\ opt.todo \subseteq O!Omitted /\ c.child = Stands(k) /\ c.bucket # None
      BY <1>1 DEF OInv, AtHand
    <2> QED BY <1>1, <2>1, Planning DEF OptRecord
<1>3. (O!Write(k, r) /\ opt' = q) \/ (O!Quiescent /\ O!Ends("failed"))
  BY SameTree DEF O!GrayOut, O!PutRecord, O!Goes
<1>4. p \in {"archive", "omit"} /\ (p = "archive" => k \in Buckets)
  BY <1>2 DEF Stands
<1> HIDE DEF c, p
<1>5. r \in MemoryRecord /\ r.bucket # None /\ r.child = Stands(k)
  BY <1>2 DEF MemoryRecord
<1> HIDE DEF r
<1>6. CASE O!Write(k, r) /\ opt' = q
    <2>1. p \in Applying /\ p \in Omitting /\ p \notin Shifting /\ opt.pc \notin Shifting
      BY <1>1, <1>4, Sets DEF Omitting
    <2>2. /\ SamePlan /\ opt'.pc = p /\ opt'.into = opt.into /\ opt'.dst = opt.dst /\ opt'.end = opt.end
          /\ opt'.todo = opt.todo /\ opt'.key = opt.key /\ opt'.cur = opt.cur /\ opt' \in OptRecord'
      BY <1>1, <1>6, <2>1 DEF OptRecord, SamePlan
    <2>3. ToMove \subseteq ToMove' \cup {k}
      BY <1>1 DEF ToMove
    <2>4. AtHand'
      BY <1>2, <1>4, <2>2, PlanStays DEF AtHand, c
    <2> HIDE DEF k
    <2> QED BY <1>1, <1>2, <1>4, <1>5, <1>6, <2>1, <2>2, <2>3, <2>4, RecordOn
<1> QED BY <1>1, <1>3, <1>6, Refused

\* A step that changes rows, not records.
LEMMA RowsOn ==
    ASSUME HInv, OInv, SamePlan, Aside, UNCHANGED rec, TreeKept,
           opt.pc \in Applying, opt'.pc \in Applying, opt'.end = "none", opt' \in OptRecord',
           opt'.pc = "node" => opt'.key = made + 1, ToMove \subseteq ToMove',
           Sealing', Targets', AtHand'
    PROVE  HInv' /\ OInv'
<1>1. /\ made' \in {made, made + 1} /\ (\A b \in 1..made : info'[b].level = info[b].level)
      /\ UNCHANGED <<task, forgone>>
  BY DEF TreeKept, Aside
<1>2. HInv'
  BY TreeOnly DEF Aside
<1>3. Keyed'
  BY <1>1, Trees DEF OInv, Keyed
<1>4. Callers'
  BY <1>1, CallersOn
<1>5. Kept' /\ Homed'
  BY <1>1, HomedOn
<1>6. \A k \in O!Candidates : rec'[k].bucket # None
  BY DEF OInv, ReadSoFar, Noted
<1> QED BY <1>1, <1>2, <1>3, <1>4, <1>5, <1>6, AppliesOn

\* A bucket made for the plan.
LEMMA GrowsOn ==
    ASSUME HInv, OInv, SamePlan, Aside, NEW p \in Buckets \cup {None}, NEW lvl \in 1..MaxDepth,
           O!CreateBucket(p, lvl, None), opt.pc \in Shifting, opt'.pc \in Shifting
    PROVE  /\ TreeKept /\ UNCHANGED rec /\ made' = made + 1 /\ info'[made + 1].level = lvl
           /\ made + 1 \in Buckets /\ Sealing'
           /\ made + 1 \in 1..made' /\ made + 1 # opt'.b /\ made + 1 \notin O!Omitted'
<1>1. CreateBucket(p, lvl, None)
  BY SameTasks
<1>2. TreeKept /\ made' = made + 1 /\ made + 1 \in Buckets
  BY <1>1, Trees, CreateKeeps
<1>3. rec' = rec /\ info \in [Buckets -> BucketInfo]
  BY <1>1, Trees DEF CreateBucket, TreeTypeOK
<1>4. \A c \in Buckets : info'[c] = IF c = made + 1 THEN Row(p, lvl)
                                    ELSE IF c = p THEN [info[c] EXCEPT !.children = @ \cup {made + 1}]
                                    ELSE info[c]
  BY <1>1 DEF CreateBucket
<1>5. /\ \A c \in Buckets : c # made + 1 => info'[c].sealed = info[c].sealed /\ info'[c].to = info[c].to
      /\ ~info'[made + 1].sealed /\ info'[made + 1].to = None /\ info'[made + 1].level = lvl
    <2>1. Row(p, lvl).sealed = FALSE /\ Row(p, lvl).to = None /\ Row(p, lvl).level = lvl
      BY DEF Row
    <2> HIDE DEF Row
    <2>2. \A c \in Buckets : info[c] \in BucketInfo
      BY <1>3
    <2>3. \A c \in Buckets : c # made + 1 => info'[c].sealed = info[c].sealed /\ info'[c].to = info[c].to
      BY <1>4, <2>2 DEF BucketInfo
    <2>4. info'[made + 1] = Row(p, lvl)
      BY <1>2, <1>4
    <2> QED BY <2>1, <2>3, <2>4
<1>6. Sealing'
    <2>1. opt.pc \notin {"switch", "done"} /\ opt'.pc \notin {"switch", "done"} /\ opt'.pc \notin Omitting
      BY Sets
    <2> QED BY <1>5, <2>1 DEF OInv, Sealing
<1>7. made + 1 \in 1..made' /\ made + 1 # opt'.b /\ made + 1 \notin O!Omitted'
    <2>1. opt.pc \notin {"idle"} /\ opt.b \in 1..made
      BY Sets DEF OInv, Target, Reading
    <2>2. made + 1 \in 1..made' /\ made + 1 # opt'.b
      BY <1>2, <2>1, Trees DEF SamePlan
    <2>3. made + 1 \notin O!Omitted
        <3>1. made + 1 \notin O!Candidates
          BY <1>2, Trees, Planning, Numbers DEF OInv, ReadSoFar, Noted, Keyed
        <3> QED BY <3>1, Planning
    <2> QED BY <2>2, <2>3, PlanStays
<1> QED BY <1>2, <1>3, <1>5, <1>6, <1>7

LEMMA SuccessorOn ==
    ASSUME HInv, OInv, O!Successor, Aside
    PROVE  HInv' /\ OInv'
<1> DEFINE p == info[opt.b].parent
           lvl == info[opt.b].level
           d == made + 1
<1>1. /\ opt.pc = "successor" /\ opt \in OptRecord /\ opt.pc \in Applying /\ opt.pc \in Shifting /\ opt.end = "none"
      /\ opt' = [opt EXCEPT !.pc = "group", !.dst = d] /\ O!CreateBucket(p, lvl, None)
  BY Sets, SameTree DEF O!Successor, O!Goes, O!Doing, OInv, Shifting, Target
<1>2. /\ opt.b \in 1..made /\ opt.b \in Buckets /\ p \in Buckets \cup {None} /\ lvl \in 1..MaxDepth /\ lvl < MaxDepth
    <2>1. opt.b \in 1..made /\ opt.b \in Buckets /\ lvl < MaxDepth
      BY <1>1, Trees DEF OInv, Target
    <2> QED BY <2>1, Trees DEF TreeTypeOK, BucketInfo
<1> HIDE DEF p, lvl, d
<1>3. /\ SamePlan /\ opt'.pc = "group" /\ opt'.into = opt.into /\ opt'.dst = d /\ opt'.end = opt.end
  BY <1>1 DEF OptRecord, SamePlan
<1>4. opt'.pc \in Shifting /\ opt'.pc \in Applying
  BY <1>3, Sets DEF Shifting
<1>5. /\ TreeKept /\ UNCHANGED rec /\ made' = d /\ info'[d].level = lvl
      /\ d \in Buckets /\ Sealing'
      /\ d \in 1..made' /\ d # opt'.b /\ d \notin O!Omitted'
  BY <1>1, <1>2, <1>3, <1>4, GrowsOn DEF d
<1>6. opt' \in OptRecord'
  BY <1>1, <1>3, <1>4, <1>5 DEF OptRecord
<1>7. ToMove \subseteq ToMove'
  BY <1>1, <1>3, PlanStays DEF ToMove
<1>8. Targets'
    <2>1. \A x : Haven(x) => x \in 1..made' /\ x # opt'.b /\ x \notin O!Omitted'
      BY <1>3, <1>5, HavensStay DEF d
    <2>2. \A i \in DOMAIN opt.into : Haven(opt.into[i])
      BY <1>1 DEF OInv, Targets
    <2>3. d > opt.b
      BY <1>2, Trees DEF d
    <2>4. d \in 1..made' /\ d # opt'.b /\ d \notin O!Omitted'
      BY <1>5
    <2> QED BY <1>2, <1>3, <1>5, <2>1, <2>2, <2>3, <2>4 DEF Targets, SamePlan, Haven
<1>9. AtHand' /\ opt'.end = "none"
  BY <1>1, <1>3 DEF AtHand
<1> QED BY <1>1, <1>3, <1>4, <1>5, <1>6, <1>7, <1>8, <1>9, RowsOn

LEMMA MakeGroupOn ==
    ASSUME HInv, OInv, O!MakeGroup, Aside
    PROVE  HInv' /\ OInv'
<1> DEFINE p == opt.dst
           lvl == info[opt.dst].level + 1
           d == made + 1
<1>1. opt.pc = "group" /\ opt \in OptRecord /\ opt.pc \in Applying /\ opt.pc \in Shifting /\ opt.end = "none"
  BY Sets DEF O!MakeGroup, O!Doing, OInv, Shifting, Target
<1>2. Haven(p) /\ p > opt.b /\ info[p].level < MaxDepth /\ p \in Buckets /\ p \in 1..made
  BY <1>1, Trees DEF OInv, Targets, Haven
<1>3. O!Resolve(opt.dst) = p
  BY <1>1, <1>2, NoRedirect, SameTree
<1>4. O!CreateBucket(p, lvl, None)
  BY <1>3, SameTree DEF O!MakeGroup
<1>5. lvl \in 1..MaxDepth
    <2>1. info[p].level \in 1..MaxDepth
      BY <1>2, Trees DEF TreeTypeOK, BucketInfo
    <2> QED BY <1>2, <2>1, Numbers
<1>6. PICK i \in O!NextGroup : opt' = [O!Housing(i, d) EXCEPT !.pc = "node", !.key = d]
  BY DEF O!MakeGroup, O!Goes
<1> DEFINE J == DOMAIN opt.into \cup {i}
           w == [j \in J |-> IF j = i THEN d ELSE opt.into[j]]
<1>7. opt' = [[opt EXCEPT !.into = w] EXCEPT !.pc = "node", !.key = d]
  BY <1>6 DEF O!Housing
<1>8. \A j \in DOMAIN w : w[j] = d \/ Haven(w[j])
  BY <1>1 DEF OInv, Targets
<1> HIDE DEF w, lvl, d
<1>9. /\ SamePlan /\ opt'.pc = "node" /\ opt'.key = d /\ opt'.into = w /\ opt'.dst = p /\ opt'.end = opt.end
      /\ opt' = [opt EXCEPT !.into = w, !.pc = "node", !.key = d]
  BY <1>1, <1>7 DEF OptRecord, SamePlan
<1> HIDE DEF p
<1>10. opt'.pc \in Shifting /\ opt'.pc \in Applying
  BY <1>9, Sets DEF Shifting
<1>11. /\ TreeKept /\ UNCHANGED rec /\ made' = d /\ d \in Buckets /\ Sealing'
      /\ d \in 1..made' /\ d # opt'.b /\ d \notin O!Omitted'
  BY <1>1, <1>2, <1>4, <1>5, <1>9, <1>10, GrowsOn DEF d
<1>12. opt' \in OptRecord'
  BY <1>1, <1>9, <1>10, <1>11, Numbers DEF OptRecord
<1>13. ToMove \subseteq ToMove'
  BY <1>1, <1>9, PlanStays DEF ToMove
<1>14. Targets'
    <2>1. \A x : Haven(x) => x \in 1..made' /\ x # opt'.b /\ x \notin O!Omitted'
      BY <1>9, <1>11, HavensStay DEF d
    <2>2. d \in 1..made' /\ d # opt'.b /\ d \notin O!Omitted'
      BY <1>11
    <2>3. info'[p].level < MaxDepth
      BY <1>2, <1>11 DEF TreeKept
    <2>4. d \notin O!Candidates' /\ rec'[d].bucket = None
        <3>1. d \notin 1..made /\ d \in Keys
          BY <1>11, Trees, Numbers DEF d
        <3>2. rec[d].bucket = None
          BY <1>11, <3>1 DEF OInv, Keyed
        <3>3. d \notin O!Candidates
          BY <3>2 DEF OInv, ReadSoFar, Noted
        <3> QED BY <1>9, <1>11, <3>2, <3>3, PlanStays
    <2>5. Haven(p) => p \in 1..made' /\ p # opt'.b /\ p \notin O!Omitted'
      BY <2>1
    <2>6. p > opt'.b
      BY <1>2, <1>9 DEF SamePlan
    <2>7. \A j \in DOMAIN w : w[j] \in 1..made' /\ w[j] # opt'.b /\ w[j] \notin O!Omitted'
      BY <1>8, <2>1, <2>2
    <2> QED BY <1>2, <1>9, <2>2, <2>3, <2>4, <2>5, <2>6, <2>7 DEF Targets, Haven
<1>15. AtHand' /\ opt'.end = "none" /\ opt'.key = made + 1
  BY <1>1, <1>9 DEF AtHand, d
<1> QED BY <1>1, <1>9, <1>10, <1>11, <1>12, <1>13, <1>14, <1>15, RowsOn

LEMMA RehangOn ==
    ASSUME HInv, OInv, O!Rehang, Aside
    PROVE  HInv' /\ OInv'
<1> DEFINE c == opt.cur.child
           p == O!GoesTo(opt.key)
<1>1. opt.pc = "rehang" /\ opt \in OptRecord /\ opt.pc \in Applying /\ opt.pc \in Shifting /\ opt.end = "none"
  BY Sets DEF O!Rehang, O!Doing, OInv, Shifting, Target
<1>2. c \in Buckets /\ opt.todo \subseteq O!Explicit /\ opt.key \in O!Explicit /\ opt.cur.child = Stands(opt.key)
  BY <1>1 DEF OInv, AtHand, Stands
<1>3. p \in Buckets /\ O!Resolve(p) = p
  BY <1>1, GoesToHaven
<1>4. \/ O!Reparent(c, p, TRUE) /\ opt' = [opt EXCEPT !.pc = "write"]
      \/ O!Quiescent /\ O!Ends("failed")
  BY <1>3 DEF O!Rehang, O!Goes
<1> HIDE DEF c, p
<1>5. CASE O!Reparent(c, p, TRUE) /\ opt' = [opt EXCEPT !.pc = "write"]
    <2>1. Reparent(c, p, TRUE)
      BY <1>5, SameTasks
    <2>2. TreeKept
      BY <1>2, <1>3, <2>1, Trees, ReparentKeeps
    <2>3. rec' = rec /\ \A x \in Buckets : info'[x].sealed = info[x].sealed /\ info'[x].to = info[x].to
        <3>1. \A x \in Buckets : info[x] \in BucketInfo
          BY Trees DEF TreeTypeOK
        <3> QED BY <2>1, <3>1 DEF Reparent, BucketInfo
    <2>4. /\ SamePlan /\ opt'.pc = "write" /\ opt'.into = opt.into /\ opt'.dst = opt.dst /\ opt'.end = opt.end
          /\ opt'.todo = opt.todo /\ opt'.key = opt.key /\ opt'.cur = opt.cur /\ opt' \in OptRecord'
      BY <1>1, <1>5 DEF OptRecord, SamePlan, Applying, Shifting
    <2>5. opt'.pc \in Shifting /\ opt'.pc \in Applying
      BY <2>4, Sets DEF Shifting
    <2>6. Sealing'
        <3>1. opt.pc \notin {"switch", "done"} /\ opt'.pc \notin {"switch", "done"} /\ opt'.pc \notin Omitting
          BY <1>1, <2>5, Sets
        <3> QED BY <1>1, <2>3, <2>5, <3>1 DEF OInv, Sealing
    <2>7. Targets'
      BY <1>1, <2>2, <2>4, TargetsOn DEF TreeKept
    <2>8. AtHand'
      BY <1>2, <2>4, PlanStays DEF AtHand
    <2>9. ToMove \subseteq ToMove'
      BY <1>1, <2>4 DEF ToMove
    <2> QED BY <1>1, <2>2, <2>3, <2>4, <2>5, <2>6, <2>7, <2>8, <2>9, RowsOn
<1> QED BY <1>1, <1>4, <1>5, Refused

\* A row is written back.
LEMMA SavesOn ==
    ASSUME HInv, OInv, SamePlan, Aside, NEW b \in 1..made, NEW r \in BucketInfo, O!SaveInfo(b, r),
           r.level = info[b].level, r.to = None, r.sealed => b \in O!Omitted,
           opt.pc \in Omitting, opt'.pc \in Omitting
    PROVE  TreeKept /\ UNCHANGED rec /\ Sealing'
<1>1. SaveInfo(b, r) /\ b \in Buckets
  BY SameTasks, Trees
<1>2. TreeKept
  BY <1>1, Trees, SaveKeeps DEF Forward
<1>3. rec' = rec /\ \A x \in Buckets : info'[x] = IF x = b THEN r ELSE info[x]
  BY <1>1, Trees DEF SaveInfo, TreeTypeOK
<1>4. Sealing'
    <2>1. /\ opt.pc \notin {"switch", "done"} /\ opt'.pc \notin {"switch", "done"}
          /\ opt'.pc \notin Reading \cup Shifting
      BY Sets DEF Omitting, Reading, Shifting
    <2> QED BY <1>3, <2>1, PlanStays DEF OInv, Sealing
<1> QED BY <1>2, <1>3, <1>4

LEMMA ArchivedOn ==
    ASSUME HInv, OInv, O!Archived, Aside
    PROVE  HInv' /\ OInv'
<1> DEFINE b == opt.key
           o == opt.old
           r == [o EXCEPT !.sealed = TRUE]
<1>1. opt.pc = "archived" /\ opt \in OptRecord /\ opt.pc \in Applying /\ opt.pc \in Omitting /\ opt.end = "none"
  BY Sets DEF O!Archived, O!Doing, OInv, Omitting, Target
<1>2. /\ b \in O!Omitted /\ opt.cur.child = b /\ b \in Buckets /\ opt.todo \subseteq O!Omitted
      /\ o.to = None /\ o.level = info[b].level /\ o \in BucketInfo
  BY <1>1 DEF OInv, AtHand, Stands, OptRecord
<1>3. b \in 1..made
  BY <1>2, Planning DEF OInv, ReadSoFar, Noted, Keyed
<1>4. O!SaveInfo(b, r) /\ opt' = [opt EXCEPT !.pc = "omit"]
    <2>1. O!Resolve(opt.cur.child) = b
      BY <1>1, <1>2, NoRedirect, SameTree
    <2> QED BY <2>1 DEF O!Archived, O!Goes
<1> HIDE DEF o
<1>5. r \in BucketInfo /\ r.to = None /\ r.level = info[b].level
  BY <1>2 DEF BucketInfo
<1> HIDE DEF r
<1>6. /\ SamePlan /\ opt'.pc = "omit" /\ opt'.into = opt.into /\ opt'.dst = opt.dst /\ opt'.end = opt.end
      /\ opt'.todo = opt.todo /\ opt' \in OptRecord'
  BY <1>1, <1>4 DEF OptRecord, SamePlan, Applying, Omitting
<1>7. opt'.pc \in Omitting /\ opt'.pc \in Applying
  BY <1>6, Sets DEF Omitting
<1> HIDE DEF b
<1>8. TreeKept /\ UNCHANGED rec /\ Sealing'
  BY <1>1, <1>2, <1>3, <1>4, <1>5, <1>6, <1>7, SavesOn
<1>9. Targets'
  BY <1>1, <1>6, <1>8, TargetsOn DEF TreeKept
<1>10. AtHand' /\ ToMove \subseteq ToMove'
  BY <1>1, <1>2, <1>6, PlanStays DEF AtHand, ToMove
<1> QED BY <1>1, <1>6, <1>7, <1>8, <1>9, <1>10, RowsOn

LEMMA SummariseOn ==
    ASSUME HInv, OInv, O!Summarise, Aside
    PROVE  HInv' /\ OInv'
<1> DEFINE b == opt.dst
           r == opt.old
<1>1. /\ opt.pc = "summary" /\ opt \in OptRecord /\ opt.pc \in Applying /\ opt.pc \in Omitting /\ opt.end = "none"
      /\ O!SaveInfo(b, r) /\ opt' = [opt EXCEPT !.pc = "seal"]
  BY Sets DEF O!Summarise, O!Goes, O!Doing, OInv, Omitting, Target
<1>2. b \in 1..made /\ r \in BucketInfo /\ r.to = None /\ ~r.sealed /\ r.level = info[b].level
  BY <1>1 DEF OInv, AtHand, Targets, Haven, OptRecord
<1>3. /\ SamePlan /\ opt'.pc = "seal" /\ opt'.into = opt.into /\ opt'.dst = opt.dst /\ opt'.end = opt.end
      /\ opt' \in OptRecord'
  BY <1>1 DEF OptRecord, SamePlan, Applying, Omitting
<1>4. opt'.pc \in Omitting /\ opt'.pc \in Applying
  BY <1>3, Sets DEF Omitting
<1> HIDE DEF b, r
<1>5. TreeKept /\ UNCHANGED rec /\ Sealing'
  BY <1>1, <1>2, <1>3, <1>4, SavesOn
<1>6. Targets'
  BY <1>1, <1>3, <1>5, TargetsOn DEF TreeKept
<1>7. AtHand' /\ ToMove \subseteq ToMove'
  BY <1>1, <1>3 DEF AtHand, ToMove
<1> QED BY <1>1, <1>3, <1>4, <1>5, <1>6, <1>7, RowsOn

LEMMA SealTargetOn ==
    ASSUME HInv, OInv, O!SealTarget, Aside
    PROVE  HInv' /\ OInv'
<1> DEFINE b == opt.b
           d == opt.dst
<1>1. /\ opt.pc = "seal" /\ opt \in OptRecord /\ opt.pc \in Applying /\ opt.pc \in Omitting /\ opt.end = "none"
      /\ \/ O!Seal(b, d) /\ opt' = [opt EXCEPT !.pc = "switch"]
         \/ O!Quiescent /\ O!Ends("failed")
  BY Sets DEF O!SealTarget, O!Goes, O!Doing, OInv, Omitting, Target
<1>2. b \in 1..made /\ b \in Buckets /\ d \in (b + 1)..made /\ d \in Buckets
    <2>1. b \in 1..made /\ d \in 1..made /\ d > b
      BY <1>1 DEF OInv, Target, Targets, Haven
    <2> QED BY <2>1, Trees
<1>3. CASE O!Seal(b, d) /\ opt' = [opt EXCEPT !.pc = "switch"]
    <2>1. Seal(b, d)
      BY <1>3, SameTasks
    <2>2. /\ SamePlan /\ opt'.pc = "switch" /\ opt'.into = opt.into /\ opt'.dst = opt.dst /\ opt'.end = opt.end
          /\ opt' \in OptRecord'
      BY <1>1, <1>3 DEF OptRecord, SamePlan, Applying
    <2> HIDE DEF b, d
    <2>3. TreeKept
      BY <1>2, <2>1, Trees, SealKeeps
    <2>4. rec' = rec /\ \A x \in Buckets : info'[x].sealed => info[x].sealed \/ x = b
        <3>1. \A x \in Buckets : info[x] \in BucketInfo
          BY Trees DEF TreeTypeOK
        <3> QED BY <2>1, <3>1 DEF Seal, BucketInfo
    <2>5. opt'.pc \in Applying /\ opt'.pc \notin Omitting /\ opt'.pc \notin Shifting /\ opt'.pc \notin Reading
      BY <2>2, Sets
    <2>6. Sealing'
      BY <1>1, <2>2, <2>4, <2>5, PlanStays DEF OInv, Sealing, SamePlan, b
    <2>7. Targets'
      BY <1>1, <2>2, <2>3, TargetsOn DEF TreeKept
    <2>8. AtHand' /\ ToMove \subseteq ToMove'
      BY <1>1, <2>2 DEF AtHand, ToMove
    <2> QED BY <1>1, <2>2, <2>3, <2>4, <2>5, <2>6, <2>7, <2>8, RowsOn
<1> QED BY <1>1, <1>3, Refused

LEMMA SwitchRootOn ==
    ASSUME HInv, OInv, O!SwitchRoot, Aside
    PROVE  HInv' /\ OInv'
<1>1. /\ opt.pc = "switch" /\ opt \in OptRecord /\ opt.pc \in Applying /\ opt.pc \notin {"idle", "done"}
      /\ opt' = [opt EXCEPT !.pc = "done", !.end = "ok"]
  BY Sets DEF O!SwitchRoot, O!Ends, O!Goes, O!Doing, OInv, Reading
<1>2. opt.dst \in Buckets
  BY <1>1, Trees DEF OInv, Targets, Haven
<1>3. SetRoot(opt.dst) \/ UNCHANGED treeVars
  BY SameTasks DEF O!SwitchRoot, O!Quiescent, O!treeVars, treeVars
<1>4. TreeKept
  BY <1>2, <1>3, Trees, OthersKeep
<1>5. UNCHANGED <<info, made, rec>>
  BY <1>3 DEF SetRoot, treeVars
<1>6. HInv'
  BY <1>4, TreeOnly DEF Aside
<1>7. OInv'
  BY <1>1, <1>5, Stops DEF Aside
<1> QED BY <1>6, <1>7

\* Every step of the optimize.
LEMMA StepOptimizes ==
    ASSUME HInv, OInv, Sane', Optimizes
    PROVE  HInv' /\ OInv'
<1>1. Aside
  BY DEF Optimizes, Unobserved, Aside
<1>2. ASSUME O!Quiescent, OInv' PROVE HInv' /\ OInv'
  BY <1>1, <1>2, QuietKeeps
<1>3. ASSUME NEW h \in Handles, O!BeginOptimize(h) PROVE HInv' /\ OInv'
  BY <1>1, <1>2, <1>3, BeginReads DEF Aside, O!BeginOptimize
<1>4. CASE O!Collect
  BY <1>1, <1>2, <1>4, CollectReads DEF Aside, O!Collect
<1>5. CASE O!Expand
  BY <1>1, <1>2, <1>5, ExpandReads DEF Aside, O!Expand
<1>6. CASE O!Plan
  BY <1>1, <1>2, <1>6, PlanReads DEF Aside, O!Plan
<1>7. CASE O!Validate
  BY <1>1, <1>2, <1>7, Validates DEF Aside, O!Validate
<1>8. CASE O!UseGroup
  BY <1>1, <1>2, <1>8, UseGroupOn DEF Aside, O!UseGroup
<1>9. CASE O!Assign
  BY <1>1, <1>2, <1>9, AssignOn DEF Aside, O!Assign
<1>10. CASE O!Fetch
  BY <1>1, <1>2, <1>10, FetchOn DEF Aside, O!Fetch
<1>11. CASE O!Rebuilt
  BY <1>1, <1>2, <1>11, RebuiltOn DEF Aside, O!Rebuilt
<1>12. CASE O!Omit
  BY <1>1, <1>2, <1>12, OmitOn DEF Aside, O!Omit
<1>13. CASE O!Archive
  BY <1>1, <1>2, <1>13, ArchiveOn DEF Aside, O!Archive
<1>14. CASE O!AllOmitted
  BY <1>1, <1>2, <1>14, AllOmittedOn DEF Aside, O!AllOmitted
<1>15. CASE O!Raise
  BY <1>1, <1>2, <1>15, RaiseOn DEF Aside, O!Raise
<1>16. CASE O!Successor \/ O!MakeGroup \/ O!GroupNode \/ O!Rehang \/ O!Rebuild
  BY <1>1, <1>16, SuccessorOn, MakeGroupOn, GroupNodeOn, RehangOn, RebuildOn
<1>17. CASE O!GrayOut \/ O!Archived \/ O!Summarise \/ O!SealTarget \/ O!SwitchRoot
  BY <1>1, <1>17, GrayOutOn, ArchivedOn, SummariseOn, SealTargetOn, SwitchRootOn
<1> QED BY <1>3, <1>4, <1>5, <1>6, <1>7, <1>8, <1>9, <1>10, <1>11, <1>12, <1>13, <1>14, <1>15, <1>16, <1>17
  DEF Optimizes, O!OptimizeNext

----------------------------------------------------------------------------
(* What the callers' tasks do meanwhile. *)

LEMMA Outside ==
    ASSUME HInv, OInv, UNCHANGED opt, Meanwhile, Callers'
    PROVE  OInv'
<1>1. SamePlan /\ opt \in OptRecord /\ opt' \in OptRecord'
  BY DEF SamePlan, OInv, OptRecord
<1>2. \A k \in O!Candidates :
          k \in Keys /\ rec[k].bucket # None /\ rec'[k].bucket # None /\ (rec'[k] = rec[k] \/ k \in forgone')
  BY Planning DEF OInv, ReadSoFar, Noted, Meanwhile, Entered, Given
<1>3. Keyed'
  BY Trees DEF OInv, Keyed, Meanwhile, Entered, Given, Stands
<1>4. Sealing'
  BY <1>1, PlanStays DEF OInv, Sealing, Meanwhile
<1>5. Target'
    <2>1. opt.b \in 1..made => opt.b \in 1..made' /\ info'[opt.b].level = info[opt.b].level
      BY Trees DEF Meanwhile
    <2> QED BY <1>1, <2>1, PlanStays, Sets DEF OInv, Target
<1>6. ReadSoFar'
    <2>1. \A k \in O!Candidates' : Noted(k)'
      BY <1>1, <1>2, PlanStays DEF OInv, ReadSoFar, Noted
    <2>2. \A p \in Keys : \A k \in opt'.under[p] : Attaches(p, k)'
      BY <1>1, PlanStays DEF OInv, ReadSoFar, Attaches, Meanwhile
    <2> QED BY <1>1, <2>1, <2>2, PlanStays DEF OInv, ReadSoFar
<1>7. Planned'
  BY <1>1, PlanStays DEF OInv, Planned
<1>8. opt.pc \in Reading => Downwards' /\ Unmoved'
    <2> SUFFICES ASSUME opt.pc \in Reading PROVE Downwards' /\ Unmoved'
        OBVIOUS
    <2>1. Downwards'
      BY Numbers DEF OInv, Downwards, Meanwhile, Entered, Given
    <2>2. Unmoved'
      BY <1>1, <1>2, PlanStays DEF OInv, Unmoved, Live, Meanwhile
    <2> QED BY <2>1, <2>2
<1>9. opt.pc \in Applying => Kept' /\ Homed' /\ Targets' /\ AtHand'
    <2> SUFFICES ASSUME opt.pc \in Applying PROVE Kept' /\ Homed' /\ Targets' /\ AtHand'
        OBVIOUS
    <2>1. O!Retained' = O!Retained /\ O!Retained \subseteq O!Candidates /\ forgone \subseteq forgone'
      BY <1>1, PlanStays, Planning DEF Meanwhile
    <2>2. Kept'
      BY <1>2, <2>1 DEF OInv, Kept, Live
    <2>3. \A x : Haven(x) => x \in 1..made' /\ x # opt'.b /\ x \notin O!Omitted'
      BY <1>1, HavensStay DEF Meanwhile
    <2>4. Homed'
        <3>1. ToMove' = ToMove
          BY <1>1, PlanStays DEF ToMove
        <3>2. \A k \in O!Retained \ ToMove : k \in forgone \/ Haven(rec[k].bucket)
          BY DEF OInv, Homed
        <3> QED BY <1>2, <2>1, <2>3, <3>1, <3>2 DEF Homed, Haven
    <2>5. Targets'
        <3>1. opt.pc = "node" => opt.key \in 1..made' /\ opt.key \notin O!Candidates' /\ rec'[opt.key].bucket = None
            <4>1. opt.pc = "node" => opt.key \in 1..made /\ opt.key \notin O!Candidates /\ rec[opt.key].bucket = None
              BY DEF OInv, Targets
            <4>2. 1..made \subseteq 1..made' /\ 1..made \subseteq Keys
              BY Trees, Numbers DEF Meanwhile
            <4> QED BY <1>1, <4>1, <4>2, PlanStays DEF Meanwhile, Entered, Given
        <3>2. opt.pc # "successor" => info'[opt.dst].level < MaxDepth
          BY DEF OInv, Targets, Haven, Meanwhile
        <3> QED BY <1>1, <2>3, <3>1, <3>2 DEF OInv, Targets, Haven
    <2>6. AtHand'
        <3>1. opt.pc = "archived" => opt.key \in 1..made
          BY <1>2 DEF OInv, AtHand, Keyed, O!Omitted
        <3>2. opt.pc = "summary" => opt.dst \in 1..made
          BY DEF OInv, Targets, Haven
        <3> QED BY <1>1, <3>1, <3>2, PlanStays DEF OInv, AtHand, Meanwhile
    <2> QED BY <2>2, <2>4, <2>5, <2>6
<1>10. opt.pc = "done" => NeverInLimbo'
    <2> SUFFICES ASSUME opt.pc = "done" PROVE NeverInLimbo'
        OBVIOUS
    <2>1. O!Applying' <=> O!Applying
      BY DEF O!Applying
    <2>2. O!Retained' = O!Retained /\ O!Retained \subseteq O!Candidates /\ forgone \subseteq forgone'
      BY <1>1, PlanStays, Planning DEF Meanwhile
    <2>3. \A k \in O!Retained \ forgone' : Live(k) => Live(k)' /\ rec'[k] = rec[k] /\ rec[k].bucket \in Buckets
      BY <1>2, <2>2, Trees DEF Live, TreeTypeOK, MemoryRecord
    <2>4. Sane' <=> Sane
      BY <1>1 DEF Sane, SamePlan
    <2> QED BY <2>1, <2>2, <2>3, <2>4 DEF OInv, NeverInLimbo, Applied, Meanwhile
<1> QED BY <1>1, <1>3, <1>4, <1>5, <1>6, <1>7, <1>8, <1>9, <1>10 DEF OInv

\* Task t goes on as r: the others do not notice, and r knows what is so.
LEMMA GoesOnAs ==
    ASSUME HInv, OInv, UNCHANGED opt, Meanwhile, NEW t \in Tasks, NEW r, Become(t, r),
           \A k \in Keys : rec[k].bucket = None /\ rec'[k].bucket # None =>
               task[t].pc = "node" /\ k = task[t].child,
           Calling(r, made', rec', opt), r.pc = "node" => r.child = made + 1
    PROVE  OInv'
<1>1. \A u \in Tasks : task'[u] = IF u = t THEN r ELSE task[u]
  BY Trees DEF Become
<1>2. /\ \A k \in Keys : rec[k].bucket # None => rec'[k].bucket # None
      /\ 1..made \subseteq 1..made' /\ 1..made \subseteq Keys /\ made + 1 \notin 1..made
  BY Trees, Numbers DEF Meanwhile, Entered, Given
<1>3. ASSUME NEW u \in Tasks, u # t PROVE Calling(task[u], made', rec', opt) /\ (task[u].pc = "node" => task[u].child \in 1..made)
    <2> DEFINE x == task[u]
    <2>1. Calling(x, made, rec, opt) /\ Sound(x, made, info)
      BY Known DEF OInv, Callers
    <2>2. x.pc # "done" => x.op # "idle"
      BY <2>1 DEF Sound, InPlace
    <2>3. x.op = "gray" => x.key \in Keys
      BY <2>1 DEF Sound, Records, KeyOps
    <2>4. x.pc = "node" /\ task[t].pc = "node" => x.child # task[t].child
      BY <1>3 DEF OInv, Callers, Siblings
    <2> HIDE DEF x
    <2>5. Creating(x, made', rec')
        <3>1. ASSUME x.op \in {"set", "create"}, x.pc = "node"
              PROVE  x.child \in 1..made' /\ rec'[x.child].bucket = None /\ x.up < x.child
            <4>1. x.child \in 1..made /\ rec[x.child].bucket = None /\ x.up < x.child
              BY <2>1, <3>1 DEF Calling, Creating
            <4> QED BY <1>2, <2>4, <3>1, <4>1
        <3>2. x.op \in {"set", "create"} =>
                  x.pc \in {"ask", "wait", "look", "retitle", "untitle", "aim", "make", "node"}
          BY <2>1 DEF Calling, Creating
        <3> QED BY <3>1, <3>2 DEF Creating
    <2>6. Graying(x, rec', opt.pc)
      BY <1>2, <2>1, <2>3 DEF Calling, Graying
    <2>7. x.pc = "node" => x.child \in 1..made
      BY <2>1, <2>2 DEF Calling, Creating, Graying, CreatesAndGrays
    <2> QED BY <2>1, <2>5, <2>6, <2>7 DEF Calling, x
<1>4. Siblings'
    <2>1. ASSUME NEW u \in Tasks, NEW v \in Tasks, u # v, task'[u].pc = "node", task'[v].pc = "node"
          PROVE  task'[u].child # task'[v].child
        <3>1. CASE u = t
          BY <1>1, <1>2, <1>3, <2>1, <3>1
        <3>2. CASE v = t
          BY <1>1, <1>2, <1>3, <2>1, <3>2
        <3>3. CASE u # t /\ v # t
          BY <1>1, <2>1, <3>3 DEF OInv, Callers, Siblings
        <3> QED BY <3>1, <3>2, <3>3
    <2> QED BY <2>1 DEF Siblings
<1>5. Callers'
  BY <1>1, <1>3, <1>4 DEF Callers
<1> QED BY <1>5, Outside

\* A task that leaves rows and records alone.
LEMMA GoesOnQuietly ==
    ASSUME HInv, OInv, UNCHANGED <<opt, info, made, rec, forgone>>, NEW t \in Tasks, NEW r, Become(t, r),
           Calling(r, made, rec, opt), r.pc # "node"
    PROVE  OInv'
<1>1. Meanwhile
  BY DEF Meanwhile
<1> QED BY <1>1, GoesOnAs

LEMMA IdleCalls == ASSUME NEW n, NEW m PROVE Calling(Idle, n, m, opt) /\ Idle.pc # "node"
  BY DEF Calling, Creating, Graying, Idle

LEMMA GoesHome ==
    ASSUME HInv, OInv, UNCHANGED <<opt, info, made, rec, forgone>>, NEW t \in Tasks, Quit(t)
    PROVE  OInv'
<1> DEFINE r == Idle
<1>1. Become(t, r) /\ Calling(r, made, rec, opt) /\ r.pc # "node"
  BY IdleCalls DEF Quit
<1> HIDE DEF r
<1> QED BY <1>1, GoesOnQuietly

\* Where the callers' tasks can be.
LEMMA CallersAt ==
    ASSUME HInv, OInv, NEW t \in Tasks
    PROVE  /\ task[t] \in TaskRecord /\ Sound(task[t], made, info) /\ Calling(task[t], made, rec, opt)
           /\ task[t].op \in {"idle", "set", "create", "gray"}
           /\ task[t].pc \in {"look", "retitle", "untitle", "aim", "make", "node"} =>
                  task[t].op \in {"set", "create"}
           /\ task[t].pc \in {"reread", "rewrite"} => task[t].op = "gray"
           /\ task[t].pc \in {"done", "ask", "wait", "look", "retitle", "untitle", "aim", "make", "node",
                              "reread", "rewrite"}
           /\ task[t].pc \notin {"ask", "done"} => task[t].b \in 1..made /\ task[t].b \in Buckets
<1> DEFINE x == task[t]
<1>1. x \in TaskRecord /\ Sound(x, made, info) /\ Calling(x, made, rec, opt) /\ 1..made \subseteq Buckets
  BY Known DEF OInv, Callers
<1>2. x.op \in {"idle", "set", "create", "gray"}
  BY <1>1 DEF Calling, CreatesAndGrays
<1>3. x.op = "idle" => x.pc = "done"
  BY <1>1 DEF Sound, InPlace
<1>4. x.pc \notin {"ask", "done"} => x.b \in 1..made /\ x.b \in Buckets
  BY <1>1 DEF Sound, Sources
<1>5. x.op \in {"set", "create"} =>
          x.pc \in {"ask", "wait", "look", "retitle", "untitle", "aim", "make", "node"}
  BY <1>1 DEF Calling, Creating
<1>6. x.op = "gray" => x.pc \in {"ask", "wait", "reread", "rewrite"}
  BY <1>1 DEF Calling, Graying
<1> HIDE DEF x
<1> QED BY <1>1, <1>2, <1>3, <1>4, <1>5, <1>6 DEF x

LEMMA OnlyCallers ==
    ASSUME HInv, OInv, NEW t \in Tasks
    PROVE  /\ ~PlanCompress(t) /\ ~PlanSplit(t) /\ ~Carry(t) /\ ~RehangCarried(t)
           /\ ~Place(t) /\ ~Merge(t) /\ ~Adopt(t) /\ ~Fetch(t) /\ ~RehomeSplit(t)
           /\ ~Out(t) /\ ~In(t) /\ ~SealSource(t) /\ ~Switch(t) /\ ~Summary(t) /\ ~Save(t)
           /\ ~NodeRecord(t) /\ ~Tell(t) /\ ~AddMemory(t) /\ ~Forget(t)
           /\ ~Check(t) /\ ~RehomeMove(t)
<1>1. task[t].pc \in {"done", "ask", "wait", "look", "retitle", "untitle", "aim", "make", "node",
                      "reread", "rewrite"}
  BY CallersAt
<1> QED BY <1>1 DEF PlanCompress, PlanSplit, Carry, RehangCarried, Place, Merge, Adopt,
  Fetch, RehomeSplit, Out, In, SealSource, Switch, Summary, Save, NodeRecord, Tell, AddMemory,
  Forget, Check, RehomeMove, At

LEMMA BeginsOn ==
    ASSUME HInv, OInv, Kinds \subseteq CreatesAndGrays, UNCHANGED opt, NEW t \in Tasks, Beginning(t)
    PROVE  OInv'
<1>1. Idle \in TaskRecord
  BY IdleIsSound
<1> HIDE DEF Idle
<1>2. CASE BeginOnBucket(t)
    <2>1. PICK o \in {"set", "create", "compress", "split", "refresh"}, b \in Handles, s \in Titles \cup {None} :
              /\ Starting(t, o)
              /\ Become(t, [Idle EXCEPT !.op = o, !.pc = "ask", !.b = b, !.title = s])
      BY <1>2 DEF BeginOnBucket
    <2> DEFINE r == [Idle EXCEPT !.op = o, !.pc = "ask", !.b = b, !.title = s]
    <2>2. Become(t, r) /\ r.op = o /\ r.pc = "ask"
      BY <1>1, <2>1 DEF TaskRecord
    <2> HIDE DEF r
    <2>3. o \in {"set", "create"} /\ UNCHANGED <<info, made, rec, forgone>>
      BY <2>1 DEF Starting, CreatesAndGrays, treeVars
    <2>4. Calling(r, made, rec, opt) /\ r.pc # "node"
      BY <2>2, <2>3 DEF Calling, Creating, Graying, CreatesAndGrays
    <2> QED BY <2>2, <2>3, <2>4, GoesOnQuietly
<1>3. CASE BeginAdd(t)
  BY <1>3 DEF BeginAdd, Starting, CreatesAndGrays
<1>4. CASE BeginOnKey(t)
    <2>1. PICK o \in {"edit", "gray", "ungray", "delete", "move"}, k \in Keys, g \in Handles \cup {None} :
              /\ Starting(t, o) /\ rec[k].bucket # None
              /\ Become(t, [Idle EXCEPT !.op = o, !.pc = "ask", !.b = rec[k].bucket,
                                  !.key = k, !.child = rec[k].child,
                                  !.goal = IF o = "delete" /\ rec[k].child # None
                                           THEN info[rec[k].child].parent ELSE g])
      BY <1>4 DEF BeginOnKey
    <2> DEFINE y == IF o = "delete" /\ rec[k].child # None THEN info[rec[k].child].parent ELSE g
               r == [Idle EXCEPT !.op = o, !.pc = "ask", !.b = rec[k].bucket,
                                 !.key = k, !.child = rec[k].child, !.goal = y]
    <2>2. Become(t, r) /\ r.op = o /\ r.pc = "ask" /\ r.key = k
      BY <1>1, <2>1 DEF TaskRecord
    <2> HIDE DEF r
    <2>3. o = "gray" /\ UNCHANGED <<info, made, rec, forgone>>
      BY <2>1 DEF Starting, CreatesAndGrays, treeVars
    <2>4. Calling(r, made, rec, opt) /\ r.pc # "node"
      BY <2>1, <2>2, <2>3 DEF Calling, Creating, Graying, CreatesAndGrays
    <2> QED BY <2>2, <2>3, <2>4, GoesOnQuietly
<1> QED BY <1>2, <1>3, <1>4 DEF Beginning

LEMMA LocksOn ==
    ASSUME HInv, OInv, UNCHANGED opt, NEW t \in Tasks, Ask(t) \/ Enter(t)
    PROVE  OInv'
<1> DEFINE x == task[t]
<1>1. /\ UNCHANGED <<info, made, rec, forgone>> /\ x \in TaskRecord /\ Calling(x, made, rec, opt)
      /\ x.op \in {"idle", "set", "create", "gray"} /\ (x.op = "idle" => x.pc = "done")
  BY CallersAt DEF Ask, Enter, LocalStep, treeVars, Sound, InPlace
<1>2. CASE Ask(t)
    <2>1. x.pc = "ask"
      BY <1>2 DEF Ask, At
    <2>2. PICK b, w : Become(t, [x EXCEPT !.pc = "wait", !.b = b, !.want = w])
      BY <1>2 DEF Ask
    <2> DEFINE r == [x EXCEPT !.pc = "wait", !.b = b, !.want = w]
    <2>3. Become(t, r) /\ r.op = x.op /\ r.pc = "wait" /\ r.key = x.key
      BY <1>1, <2>2 DEF TaskRecord
    <2> HIDE DEF r, x
    <2>4. Calling(r, made, rec, opt)
      BY <1>1, <2>1, <2>3 DEF Calling, Creating, Graying
    <2> QED BY <1>1, <2>3, <2>4, GoesOnQuietly
<1>3. CASE Enter(t)
    <2>1. x.pc = "wait" /\ x.op # "idle"
      BY <1>1, <1>3 DEF Enter, At
    <2> DEFINE pc == Begins(x)
               r == [x EXCEPT !.held = x.want, !.want = {}, !.sums = <<x.b>>, !.pc = pc]
    <2>2. Become(t, r)
      BY <1>3 DEF Enter
    <2>3. /\ x.op = "set" => pc = "look"
          /\ x.op = "create" => pc = "aim"
          /\ x.op = "gray" => pc = "reread"
      BY DEF Begins
    <2> HIDE DEF pc
    <2>4. r.op = x.op /\ r.pc = pc /\ r.key = x.key
      BY <1>1 DEF TaskRecord
    <2> HIDE DEF r, x
    <2>5. Calling(r, made, rec, opt) /\ r.pc # "node"
      BY <1>1, <2>1, <2>3, <2>4 DEF Calling, Creating, Graying
    <2> QED BY <1>1, <2>2, <2>5, GoesOnQuietly
<1> QED BY <1>2, <1>3

LEMMA LooksOn ==
    ASSUME HInv, OInv, UNCHANGED opt, NEW t \in Tasks, Look(t) \/ FixTitle(t) \/ Aim(t)
    PROVE  OInv'
<1> DEFINE x == task[t]
<1>1. UNCHANGED <<info, made, rec, forgone>> /\ x \in TaskRecord /\ Calling(x, made, rec, opt)
  BY CallersAt DEF Look, FixTitle, Aim, LocalStep, Unobserved, treeVars, SetTitle, RemoveTitleRefs
<1>2. x.op \in {"set", "create"}
    <2>1. x.pc \in {"look", "retitle", "untitle", "aim"}
      BY DEF Look, FixTitle, Aim, At
    <2> QED BY <2>1, CallersAt
<1>3. \/ Quit(t)
      \/ Become(t, [x EXCEPT !.pc = "aim"])
      \/ \E pc \in {"retitle", "untitle"} : \E c : Become(t, [x EXCEPT !.pc = pc, !.child = c])
      \/ \E p : Become(t, [x EXCEPT !.pc = "make", !.up = p])
  BY DEF Look, FixTitle, Aim, Step
<1>4. ASSUME NEW r, Become(t, r), r.op = x.op, r.pc \in {"retitle", "untitle", "aim", "make"}
      PROVE  OInv'
    <2>1. Calling(r, made, rec, opt) /\ r.pc # "node"
      BY <1>1, <1>2, <1>4 DEF Calling, Creating, Graying
    <2> QED BY <1>1, <1>4, <2>1, GoesOnQuietly
<1>5. CASE Become(t, [x EXCEPT !.pc = "aim"])
    <2> DEFINE r == [x EXCEPT !.pc = "aim"]
    <2>1. Become(t, r) /\ r.op = x.op /\ r.pc = "aim"
      BY <1>1, <1>5 DEF TaskRecord
    <2> HIDE DEF r
    <2> QED BY <1>4, <2>1
<1>6. ASSUME NEW pc \in {"retitle", "untitle"}, NEW c, Become(t, [x EXCEPT !.pc = pc, !.child = c])
      PROVE  OInv'
    <2> DEFINE r == [x EXCEPT !.pc = pc, !.child = c]
    <2>1. Become(t, r) /\ r.op = x.op /\ r.pc = pc
      BY <1>1, <1>6 DEF TaskRecord
    <2> HIDE DEF r
    <2> QED BY <1>4, <2>1
<1>7. ASSUME NEW p, Become(t, [x EXCEPT !.pc = "make", !.up = p])
      PROVE  OInv'
    <2> DEFINE r == [x EXCEPT !.pc = "make", !.up = p]
    <2>1. Become(t, r) /\ r.op = x.op /\ r.pc = "make"
      BY <1>1, <1>7 DEF TaskRecord
    <2> HIDE DEF r
    <2> QED BY <1>4, <2>1
<1> QED BY <1>1, <1>3, <1>5, <1>6, <1>7, GoesHome

LEMMA MakesOn ==
    ASSUME HInv, OInv, UNCHANGED opt, NEW t \in Tasks, Make(t)
    PROVE  OInv'
<1> DEFINE x == task[t]
           r == [x EXCEPT !.child = made + 1, !.pc = "node"]
<1>1. /\ x.pc = "make" /\ x \in TaskRecord /\ x.op \in {"set", "create"} /\ Calling(x, made, rec, opt)
      /\ x.b \in Buckets /\ x.up \in 1..made /\ info[x.up].level < MaxDepth
    <2>1. x.pc = "make"
      BY DEF Make, At
    <2> QED BY <2>1, CallersAt DEF Sound, Children
<1>2. x.up \in Buckets /\ x.title \in Titles \cup {None} /\ info[x.up].level + 1 \in 1..MaxDepth
    <2>1. x.up \in Buckets
      BY <1>1, Trees
    <2>2. info[x.up] \in BucketInfo
      BY <2>1, Trees DEF TreeTypeOK
    <2>3. info[x.up].level \in 1..MaxDepth
      BY <2>2 DEF BucketInfo
    <2>4. x.title \in Titles \cup {None}
      BY <1>1 DEF TaskRecord
    <2>5. info[x.up].level + 1 \in 1..MaxDepth
      BY <1>1, <2>3, Numbers
    <2> QED BY <2>1, <2>4, <2>5
<1> DEFINE lvl == info[x.up].level + 1
           p == x.up
           s == x.title
<1>3. CreateBucket(p, lvl, s) /\ Become(t, r) /\ forgone' = forgone
  BY <1>1 DEF Make, ForChild, IsSuccessor
<1>4. r.op = x.op /\ r.pc = "node" /\ r.child = made + 1 /\ r.up = x.up
  BY <1>1 DEF TaskRecord
<1> HIDE DEF r, lvl
<1>5. lvl \in 1..MaxDepth
  BY <1>2 DEF lvl
<1> HIDE DEF p, s
<1>6. p \in Buckets /\ s \in Titles \cup {None}
  BY <1>2 DEF p, s
<1>7. TreeKept /\ made' = made + 1 /\ made + 1 \in Buckets
  BY <1>3, <1>5, <1>6, Trees, CreateKeeps
<1>8. rec' = rec /\ \A c \in Buckets : (info'[c].sealed => info[c].sealed) /\ info'[c].to \in {None, info[c].to}
    <2>1. \A c \in Buckets : info[c] \in BucketInfo
      BY Trees DEF TreeTypeOK
    <2> QED BY <1>3, <2>1 DEF CreateBucket, BucketInfo, Row
<1>9. Meanwhile
  BY <1>3, <1>7, <1>8 DEF Meanwhile, TreeKept
<1>10. rec[made + 1].bucket = None
  BY <1>7, Trees, Numbers DEF OInv, Keyed
<1>11. Calling(r, made', rec', opt)
    <2>1. opt.pc = "node" => made + 1 # opt.key
      BY Trees, Sets DEF OInv, Targets, Shifting
    <2>2. x.up < made + 1 /\ made + 1 \in 1..made'
      BY <1>1, <1>7, Trees
    <2> HIDE DEF x
    <2> QED BY <1>1, <1>4, <1>7, <1>8, <1>10, <2>1, <2>2 DEF Calling, Creating, Graying
<1> QED BY <1>3, <1>4, <1>8, <1>9, <1>11, GoesOnAs

LEMMA NodesOn ==
    ASSUME HInv, OInv, UNCHANGED opt, NEW t \in Tasks, Node(t)
    PROVE  OInv'
<1> DEFINE x == task[t]
           k == x.child
           w == [bucket |-> x.up, gray |-> FALSE, child |-> k]
           r == Idle
<1>1. /\ x.pc = "node" /\ x \in TaskRecord /\ x.op \in {"set", "create"} /\ Calling(x, made, rec, opt)
      /\ k \in 1..made /\ rec[k].bucket = None /\ x.up < k /\ (opt.pc = "node" => k # opt.key)
    <2>1. x.pc = "node"
      BY DEF Node, At
    <2> QED BY <2>1, CallersAt DEF Calling, Creating
<1>2. (Write(k, w) /\ Become(t, r) /\ Unobserved) \/ GiveUp(t)
  BY <1>1 DEF Node, Put
<1>3. k \in Buckets /\ k \in Keys
  BY <1>1, Trees, Numbers
<1>4. Calling(r, made', rec', opt) /\ r.pc # "node"
  BY IdleCalls
<1> HIDE DEF r
<1>5. CASE Write(k, w) /\ Become(t, r) /\ Unobserved
    <2>1. w.bucket = x.up /\ w.child = k
        OBVIOUS
    <2> HIDE DEF w
    <2>2. UNCHANGED <<info, made, forgone>> /\ \A j \in Keys : rec'[j] = IF j = k THEN w ELSE rec[j]
      BY <1>5, Trees DEF Write, Unobserved, TreeTypeOK
    <2>3. Entered(k)
      BY <1>1, <1>3, <2>1, <2>2 DEF Entered
    <2>4. Meanwhile
      BY <2>2, <2>3 DEF Meanwhile
    <2> QED BY <1>1, <1>4, <1>5, <2>2, <2>4, GoesOnAs
<1>6. CASE GiveUp(t)
  BY <1>6, GoesHome DEF GiveUp, LocalStep, treeVars
<1> QED BY <1>2, <1>5, <1>6

LEMMA RereadsOn ==
    ASSUME HInv, OInv, UNCHANGED opt, NEW t \in Tasks, Reread(t)
    PROVE  OInv'
<1> DEFINE x == task[t]
           k == x.key
           m == Captured({k})
           r == [x EXCEPT !.pc = "rewrite", !.was = m]
<1>1. /\ x.pc = "reread" /\ x \in TaskRecord /\ x.op = "gray" /\ Calling(x, made, rec, opt)
      /\ UNCHANGED <<info, made, rec, forgone>> /\ k \in Keys /\ rec[k].bucket # None
    <2>1. x.pc = "reread" /\ UNCHANGED <<info, made, rec, forgone>>
      BY DEF Reread, At, LocalStep, treeVars
    <2>2. k \in Keys
      BY <2>1, CallersAt DEF Sound, Records, KeyOps
    <2> QED BY <2>1, <2>2, CallersAt DEF Calling, Graying
<1>2. Quit(t) \/ Become(t, r)
  BY <1>1 DEF Reread, AfterRewrite, Quit
<1>3. m[k] = rec[k]
  BY <1>1 DEF Captured
<1> HIDE DEF m
<1>4. r.op = x.op /\ r.pc = "rewrite" /\ r.key = k /\ r.was = m
  BY <1>1 DEF TaskRecord
<1> HIDE DEF r
<1>5. rec[k].child = Stands(k) /\ (opt.pc \in Reading /\ k \in Buckets => rec[k].bucket < k)
  BY <1>1 DEF OInv, Keyed, Downwards
<1>6. Calling(r, made, rec, opt) /\ r.pc # "node"
  BY <1>1, <1>3, <1>4, <1>5 DEF Calling, Creating, Graying, CreatesAndGrays
<1> QED BY <1>1, <1>2, <1>6, GoesHome, GoesOnQuietly

LEMMA RewritesOn ==
    ASSUME HInv, OInv, UNCHANGED opt, NEW t \in Tasks, Rewrite(t)
    PROVE  OInv'
<1> DEFINE x == task[t]
           k == x.key
           v == x.was[k]
           w == [v EXCEPT !.gray = TRUE]
           r == Idle
<1>1. /\ x.pc = "rewrite" /\ x \in TaskRecord /\ x.op = "gray" /\ k \in Keys /\ rec[k].bucket # None
      /\ v.bucket # None /\ v.child = Stands(k) /\ (opt.pc \in Reading /\ k \in Buckets => v.bucket < k)
      /\ v \in MemoryRecord
    <2>1. x.pc = "rewrite"
      BY DEF Rewrite, At
    <2>2. k \in Keys /\ x \in TaskRecord
      BY <2>1, CallersAt DEF Sound, Records, KeyOps
    <2>3. v \in MemoryRecord
      BY <2>2 DEF TaskRecord
    <2> QED BY <2>1, <2>2, <2>3, CallersAt DEF Calling, Graying
<1>2. \/ Write(k, w) /\ Become(t, r) /\ forgone' = forgone \cup {k}
      \/ GiveUp(t)
  BY <1>1 DEF Rewrite, AfterRewrite
<1>3. Calling(r, made', rec', opt) /\ r.pc # "node"
  BY IdleCalls
<1> HIDE DEF r, v
<1>4. w.bucket = v.bucket /\ w.child = v.child
  BY <1>1 DEF MemoryRecord
<1> HIDE DEF w
<1>5. CASE Write(k, w) /\ Become(t, r) /\ forgone' = forgone \cup {k}
    <2>1. UNCHANGED <<info, made>> /\ \A j \in Keys : rec'[j] = IF j = k THEN w ELSE rec[j]
      BY <1>5, Trees DEF Write, TreeTypeOK
    <2>2. Given(k)
      BY <1>1, <1>4, <1>5, <2>1 DEF Given
    <2>3. Meanwhile
      BY <1>5, <2>1, <2>2 DEF Meanwhile
    <2> QED BY <1>1, <1>3, <1>5, <2>1, <2>3, GoesOnAs
<1>6. CASE GiveUp(t)
  BY <1>6, GoesHome DEF GiveUp, LocalStep, treeVars
<1> QED BY <1>2, <1>5, <1>6

\* Every step of the callers.
LEMMA StepWrites ==
    ASSUME HInv, OInv, Kinds \subseteq CreatesAndGrays, Writes
    PROVE  HInv' /\ OInv'
<1>1. HInv'
  BY StepHInv DEF Writes
<1>2. UNCHANGED opt
  BY DEF Writes
<1>3. ASSUME NEW t \in Tasks, Abandon(t) PROVE OInv'
    <2>1. task[t].pc # "in"
      BY CallersAt
    <2>2. Quit(t) /\ UNCHANGED <<info, made, rec, forgone>>
      BY <1>3, <2>1 DEF Abandon, At, treeVars
    <2> QED BY <1>2, <2>2, GoesHome
<1>4. ASSUME NEW t \in Tasks, OnHandles(t) PROVE OInv'
  BY <1>2, <1>3, <1>4, OnlyCallers, BeginsOn, LocksOn, LooksOn, MakesOn, NodesOn DEF OnHandles, Beginning
<1>5. ASSUME NEW t \in Tasks, OnKeys(t) PROVE OInv'
  BY <1>2, <1>5, OnlyCallers, BeginsOn, RereadsOn, RewritesOn DEF OnKeys, Beginning
<1>6. PICK t \in Tasks : OnHandles(t) \/ OnKeys(t)
  BY DEF Writes, Next
<1> QED BY <1>1, <1>4, <1>5, <1>6

----------------------------------------------------------------------------
(* The invariant, and what it gives. *)

LEMMA InitOInv == PlantedInit => HInv /\ OInv /\ Fielded
<1> SUFFICES ASSUME PlantedInit PROVE HInv /\ OInv /\ Fielded
    OBVIOUS
<1> HIDE DEF Idle
<1>1. /\ TypeOK /\ \A b \in Buckets : ~info[b].sealed /\ info[b].to = None
      /\ \A t \in Tasks : task[t] = Idle
  BY DEF PlantedInit
<1>2. HInv
  BY <1>1, IdleIsSound DEF HInv, Rows, Forward
<1>3. /\ opt.pc = "idle" /\ opt.b = None /\ opt.was = [k \in Keys |-> NoRecord] /\ opt.direct = {}
      /\ opt.under = [k \in Keys |-> {}] /\ opt.todo = {} /\ opt.flat = {} /\ opt.groups = <<>>
      /\ opt.into = <<>> /\ opt.end = "none" /\ opt \in OptRecord
    <2> DEFINE w == [k \in Keys |-> NoRecord]
               u == [k \in Keys |-> {}]
               o == Row(None, 1)
               c == NoRecord
    <2>1. w \in [Keys -> MemoryRecord] /\ u \in [Keys -> SUBSET Keys] /\ o \in BucketInfo /\ c \in MemoryRecord
      BY Numbers DEF Row, BucketInfo, NoRecord, MemoryRecord
    <2>2. opt = [pc |-> "idle", b |-> None, was |-> w, direct |-> {}, under |-> u, todo |-> {},
                 flat |-> {}, groups |-> <<>>, into |-> <<>>, dst |-> None, key |-> None,
                 cur |-> c, old |-> o, end |-> "none"]
      BY SameTree DEF PlantedInit, O!OptimizeInit, O!Opt
    <2> HIDE DEF w, u, o, c
    <2>3. opt \in OptRecord
      BY <2>1, <2>2 DEF OptRecord, Reading
    <2> QED BY <2>2, <2>3 DEF w, u
<1>4. Keyed /\ Downwards
  BY DEF PlantedInit, Keyed, Downwards, Stands, Keys
<1>5. Callers
  BY <1>1, <1>3, IdleCalls DEF Callers, Siblings
<1>6. Sealing
  BY <1>1, <1>3, Sets DEF Sealing, Reading
<1>7. O!Candidates = {} /\ \A k \in Keys : opt.under[k] = {}
  BY <1>3, SameTree DEF O!Candidates
<1>8. Target /\ ReadSoFar /\ Planned /\ Unmoved
  BY <1>3, <1>7 DEF Target, ReadSoFar, Planned, Unmoved
<1>9. opt.pc \notin Applying /\ opt.pc \in Reading
  BY <1>3, Sets DEF Reading
<1>10. Fielded
  BY <1>3 DEF Fielded, OptRecord
<1> QED BY <1>2, <1>3, <1>4, <1>5, <1>6, <1>8, <1>9, <1>10 DEF OInv

LEMMA StepOInv ==
    ASSUME HInv, OInv, Sane', Kinds \subseteq CreatesAndGrays, [Optimizes \/ Writes]_<<vars, opt>>
    PROVE  HInv' /\ OInv'
<1>1. CASE UNCHANGED <<vars, opt>>
    <2>1. UNCHANGED <<info, made, titleOf, root, rec, task, ops, asked, forgone, opt>>
      BY <1>1 DEF vars, treeVars
    <2>2. HInv'
      BY <1>1, StepHInv
    <2>3. Callers' /\ Meanwhile
      BY <2>1 DEF OInv, Callers, Siblings, Meanwhile
    <2> QED BY <2>1, <2>2, <2>3, Outside
<1> QED BY <1>1, StepOptimizes, StepWrites

\* Whatever becomes of the tree, a plan stays as it was prepared.
LEMMA PlanSticks ==
    ASSUME Fielded, [Optimizes \/ Writes]_<<vars, opt>>
    PROVE  Fielded' /\ (Sane \/ ~Sane')
<1> DEFINE Same == Fielded' /\ opt'.flat = opt.flat /\ opt'.groups = opt.groups
<1>1. CASE UNCHANGED opt
  BY <1>1 DEF Fielded, Sane
<1>2. ASSUME NEW h \in Handles, O!BeginOptimize(h) PROVE Same
  BY <1>2 DEF Fielded, O!BeginOptimize, O!Doing, O!Goes
<1>3. ASSUME O!Collect PROVE Same
  BY <1>3 DEF Fielded, O!Collect, O!Doing, O!Goes
<1>4. ASSUME O!Expand PROVE Same
  BY <1>4 DEF Fielded, O!Expand, O!Doing, O!Goes, O!Ends
<1>5. CASE O!Plan
  <2>1. Sane
    <3>1. opt.pc = "plan"
      BY <1>5 DEF O!Plan, O!Doing
    <3>2. opt.groups = <<>> /\ DOMAIN <<>> = {}
      BY <3>1 DEF Fielded
    <3> QED BY <3>2 DEF Sane
  <2>2. ASSUME NEW f, NEW gs, opt' = [opt EXCEPT !.pc = "validate", !.flat = f, !.groups = gs] PROVE Fielded'
    BY <2>2 DEF Fielded
  <2>3. O!Ends("skipped") => Fielded'
    BY <1>5 DEF Fielded, O!Ends, O!Goes
  <2>4. Fielded'
    BY <1>5, <2>2, <2>3 DEF O!Plan, O!Goes
  <2> QED BY <2>1, <2>4
<1>6. ASSUME O!Validate \/ O!Successor \/ O!Assign \/ O!Raise PROVE Same
  BY <1>6 DEF Fielded, O!Validate, O!Successor, O!Assign, O!Raise, O!Doing, O!Goes, O!Ends, O!Applying
<1>7. ASSUME O!UseGroup PROVE Same
  BY <1>7 DEF Fielded, O!UseGroup, O!Doing, O!Goes, O!Housing
<1>8. ASSUME O!MakeGroup PROVE Same
  BY <1>8 DEF Fielded, O!MakeGroup, O!Doing, O!Goes, O!Housing
<1>9. ASSUME O!GroupNode \/ O!Rebuild \/ O!GrayOut PROVE Same
  BY <1>9 DEF Fielded, O!GroupNode, O!Rebuild, O!GrayOut, O!PutRecord, O!Doing, O!Goes, O!Ends
<1>10. ASSUME O!Fetch \/ O!Rehang \/ O!Rebuilt PROVE Same
  BY <1>10 DEF Fielded, O!Fetch, O!Rehang, O!Rebuilt, O!Doing, O!Goes, O!Ends
<1>11. ASSUME O!Omit \/ O!Archive \/ O!Archived PROVE Same
  BY <1>11 DEF Fielded, O!Omit, O!Archive, O!Archived, O!Doing, O!Goes
<1>12. ASSUME O!AllOmitted \/ O!Summarise \/ O!SealTarget \/ O!SwitchRoot PROVE Same
  BY <1>12 DEF Fielded, O!AllOmitted, O!Summarise, O!SealTarget, O!SwitchRoot, O!Doing, O!Goes, O!Ends
<1>13. Same => Fielded' /\ (Sane <=> Sane')
  BY DEF Sane
<1> HIDE DEF Same
<1> QED BY <1>1, <1>2, <1>3, <1>4, <1>5, <1>6, <1>7, <1>8, <1>9, <1>10, <1>11, <1>12, <1>13
  DEF Optimizes, O!OptimizeNext, Writes

\* An optimize leaves no record in limbo, as long as its plan puts no group into a
\* bucket that goes: while it applies the plan, beside callers that look up, make
\* and forget children and memories, and wherever it stops or fails, every record
\* that the plan keeps and no caller gave up is live, in a bucket that can be
\* written - if it fails half-way, maybe under a successor nothing leads to.
THEOREM NoLimbo ==
    ASSUME Kinds \subseteq CreatesAndGrays
    PROVE  PlantedSpec => []NeverInLimbo
<1>1. PlantedInit => LimboInv
  BY InitOInv DEF LimboInv
<1>2. LimboInv /\ [Optimizes \/ Writes]_<<vars, opt>> => LimboInv'
  <2> SUFFICES ASSUME LimboInv, [Optimizes \/ Writes]_<<vars, opt>> PROVE LimboInv'
    OBVIOUS
  <2>1. Fielded' /\ (Sane' => Sane)
    BY PlanSticks DEF LimboInv
  <2>2. ASSUME Sane' PROVE HInv' /\ OInv'
    BY <2>1, <2>2, StepOInv DEF LimboInv
  <2> QED BY <2>1, <2>2 DEF LimboInv
<1>3. LimboInv => NeverInLimbo
  BY OutOfLimbo DEF LimboInv, NeverInLimbo
<1> QED BY <1>1, <1>2, <1>3, PTL DEF PlantedSpec

\* The tree of the run is planted.
THEOREM NoLimboGrown ==
    ASSUME Kinds \subseteq CreatesAndGrays, MaxBuckets >= 3, MaxDepth >= 3, {m1, m2} \subseteq Mems
    PROVE  OptimizeSpec => []NeverInLimbo
<1>1. GrownInit => PlantedInit
    <2> SUFFICES ASSUME GrownInit PROVE PlantedInit
        OBVIOUS
    <2> HIDE DEF Idle
    <2>1. {1, 2, 3} \subseteq Buckets /\ Buckets \subseteq Keys /\ None = 0 /\ \A k \in Mems : k \notin Buckets
      BY Numbers
    <2>2. \A b \in Buckets : ~Grown[b].sealed /\ Grown[b].to = None /\ Grown[b] \in BucketInfo
        <3>1. Row(None, 1) \in BucketInfo /\ Row(1, 2) \in BucketInfo /\ Row(2, 3) \in BucketInfo
          BY <2>1, Numbers DEF Row, BucketInfo
        <3>2. /\ ~Row(None, 1).sealed /\ ~Row(1, 2).sealed /\ ~Row(2, 3).sealed
              /\ Row(None, 1).to = None /\ Row(1, 2).to = None /\ Row(2, 3).to = None
          BY DEF Row
        <3> HIDE DEF Row
        <3>3. \A b \in Buckets : Grown[b] \in {[Row(None, 1) EXCEPT !.children = {2}],
                  [Row(1, 2) EXCEPT !.children = {3}], Row(2, 3), Row(None, 1)}
          BY DEF Grown
        <3> QED BY <2>1, <3>1, <3>2, <3>3 DEF BucketInfo
    <2>3. \A k \in Keys : /\ Stored[k] \in MemoryRecord
                          /\ Stored[k].bucket # None => k \in {2, 3, m1, m2}
                          /\ k \in {2, 3} => Stored[k].child = k /\ Stored[k].bucket < k
                          /\ k \in {m1, m2} => Stored[k].child = None
      BY <2>1 DEF Stored, NoRecord, MemoryRecord
    <2>4. info = Grown /\ rec = Stored /\ made = 3 /\ root = 1
      BY DEF GrownInit
    <2>5. TypeOK
        <3>1. info \in [Buckets -> BucketInfo] /\ rec \in [Keys -> MemoryRecord]
            <4>1. Grown \in [Buckets -> BucketInfo]
              BY <2>2 DEF Grown
            <4>2. Stored \in [Keys -> MemoryRecord]
              BY <2>3 DEF Stored
            <4> QED BY <2>4, <4>1, <4>2
        <3>2. TreeTypeOK
          BY <2>1, <2>4, <3>1 DEF GrownInit, TreeTypeOK
        <3>3. TaskTypeOK
          BY IdleIsSound, ServicesAssumption DEF GrownInit, TaskTypeOK, ServicesAssumption
        <3> QED BY <3>2, <3>3 DEF TypeOK
    <2> QED BY <2>1, <2>2, <2>3, <2>4, <2>5 DEF GrownInit, PlantedInit
<1>2. OptimizeSpec => PlantedSpec
  BY <1>1 DEF OptimizeSpec, PlantedSpec
<1> QED BY <1>2, NoLimbo
==============================================================================
