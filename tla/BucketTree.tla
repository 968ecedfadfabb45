----------------------------- MODULE BucketTree -----------------------------
(***************************************************************************)
(* The bucket tree and the memory records as the storage layer keeps them, *)
(* and the storage tasks that change them.  One storage task runs at a     *)
(* time, on a single executor thread, so each is one atomic step.  Every   *)
(* task is a guarded action; its guard is what the code checks before it   *)
(* raises, and a service whose task raises gives its operation up          *)
(* (BucketServices).                                                       *)
(*                                                                         *)
(* Bucket ids are numbers handed out in order of creation (generate_bucket *)
(* _id is monotonic).  Bucket b's node record has key b; memory records    *)
(* have keys in Mems.                                                      *)
(***************************************************************************)
EXTENDS Naturals, FiniteSets

CONSTANTS MaxBuckets,   \* bound on the buckets ever created
          Mems,         \* memory keys
          Titles,       \* titles children are looked up by
          MaxDepth      \* EngineRuntime._max_depth, the root included

None == 0
Buckets == 1..MaxBuckets
Keys == Buckets \cup Mems

ASSUME TreeAssumption ==
    /\ MaxBuckets \in Nat \ {0}
    /\ MaxDepth \in Nat \ {0}
    /\ Mems \cap Nat = {}
    /\ None \notin Titles

VARIABLES info,    \* bucket -> its BucketInfo row
          made,    \* buckets created so far are 1..made
          titleOf, \* parent -> title -> the child it is mapped to
          root,    \* root_bucket_id
          rec      \* key -> latest revision of the record

treeVars == <<info, made, titleOf, root, rec>>

BucketInfo == [parent: Buckets \cup {None}, children: SUBSET Buckets,
               level: 1..MaxDepth, sealed: BOOLEAN, to: Buckets \cup {None}]
MemoryRecord == [bucket: Buckets \cup {None}, gray: BOOLEAN,
                 child: Buckets \cup {None}]

Row(p, lvl) == [parent |-> p, children |-> {}, level |-> lvl,
                sealed |-> FALSE, to |-> None]
NoRecord == [bucket |-> None, gray |-> FALSE, child |-> None]

TreeTypeOK ==
    /\ info \in [Buckets -> BucketInfo]
    /\ made \in Buckets
    /\ titleOf \in [Buckets -> [Titles -> Buckets \cup {None}]]
    /\ root \in Buckets
    /\ rec \in [Keys -> MemoryRecord]

TreeInit ==
    /\ info = [b \in Buckets |-> Row(None, 1)]
    /\ made = 1
    /\ titleOf = [b \in Buckets |-> [s \in Titles |-> None]]
    /\ root = 1
    /\ rec = [k \in Keys |-> NoRecord]

----------------------------------------------------------------------------
(* Reading the tree. *)

Made(b) == b \in 1..made

\* _resolve_bucket_redirect_chain: follow sealed_to while it leads somewhere.
Resolve(b) ==
    LET follow[c \in Buckets] ==
            IF info[c].sealed /\ Made(info[c].to) /\ info[c].to > c
            THEN follow[info[c].to] ELSE c
    IN  follow[b]

Live(k) == rec[k].bucket # None /\ ~rec[k].gray

\* load_bucket_snapshot(include_gray=False)
Snapshot(b) == {k \in Keys : rec[k].bucket = b /\ ~rec[k].gray}

\* _is_bucket_descendant_unlocked, c itself included.
IsDescendant(c, b) ==
    LET up[n \in 0..MaxBuckets] ==
            IF n = 0 THEN {b}
            ELSE up[n - 1] \cup {info[x].parent : x \in up[n - 1] \ {None}}
    IN  c \in up[MaxBuckets]

\* _bucket_subtree_max_level_unlocked less the level of the subtree's root.
DepthSpan(c) ==
    LET levels == {info[x].level : x \in {y \in 1..made : IsDescendant(c, y)}}
        deepest == CHOOSE l \in levels : \A m \in levels : m <= l
    IN  IF deepest > info[c].level THEN deepest - info[c].level ELSE 0

----------------------------------------------------------------------------
(* The storage tasks. *)

Without(S, x) == S \ {x}

\* create_bucket: a row, a link from the parent and a title mapping.  The
\* parent is not required to be unsealed.
CreateBucket(p, lvl, s) ==
    LET b == made + 1
    IN  /\ b \in Buckets
        /\ made' = b
        /\ info' = [x \in Buckets |->
                       IF x = b THEN Row(p, lvl)
                       ELSE IF x = p
                            THEN [info[x] EXCEPT !.children = @ \cup {b}]
                            ELSE info[x]]
        /\ titleOf' = IF s = None \/ p = None THEN titleOf
                      ELSE [titleOf EXCEPT ![p] = [@ EXCEPT ![s] = b]]
        /\ UNCHANGED <<root, rec>>

\* The titles that lead to c under its parent.
MovingTitles(c) ==
    IF info[c].parent = None THEN {}
    ELSE {s \in Titles : titleOf[info[c].parent][s] = c}

MayReparent(c, p) ==
    \A s \in MovingTitles(c) : titleOf[p][s] \in {None, c}

\* Fault: the new parent is not linked to the child.
ReparentUnlinked(c, p, preserve) ==
    /\ MayReparent(c, p)
    /\ info' = [x \in Buckets |->
                   [info[x] EXCEPT
                       !.parent = IF x = c THEN p ELSE @,
                       !.children = IF x = info[c].parent /\ x # p THEN @ \ {c}
                                    ELSE @]]
    /\ UNCHANGED <<made, titleOf, root, rec>>

\* Fault: the old parent keeps its titles whatever preserve says.
ReparentKeepsTitles(c, p, preserve) ==
    LET old == info[c].parent
    IN  /\ MayReparent(c, p)
        /\ info' = [x \in Buckets |->
                       [info[x] EXCEPT
                           !.parent = IF x = c THEN p ELSE @,
                           !.children = IF x = p THEN @ \cup {c}
                                        ELSE IF x = old THEN Without(@, c) ELSE @]]
        /\ titleOf' = [titleOf EXCEPT ![p] = [s \in Titles |->
                          IF s \in MovingTitles(c) THEN c ELSE @[s]]]
        /\ UNCHANGED <<made, root, rec>>

\* reparent_bucket: titles that led to c under its old parent lead to it under
\* the new one, unless the new parent uses one of them for another child.
Reparent(c, p, preserve) ==
    LET old == info[c].parent
    IN  /\ MayReparent(c, p)
        /\ info' = [x \in Buckets |->
                       [info[x] EXCEPT
                           !.parent = IF x = c THEN p ELSE @,
                           !.children = IF x = p THEN @ \cup {c}
                                        ELSE IF x = old THEN Without(@, c) ELSE @]]
        /\ titleOf' = [x \in Buckets |-> [s \in Titles |->
                          IF s \in MovingTitles(c) /\ x = p THEN c
                          ELSE IF s \in MovingTitles(c) /\ x = old /\ ~preserve
                               THEN None
                               ELSE titleOf[x][s]]]
        /\ UNCHANGED <<made, root, rec>>

\* The titles of the children already moved under the successor.
Inherited(src, dst) ==
    {s \in Titles : titleOf[src][s] # None /\ info[titleOf[src][s]].parent = dst}

MaySeal(src, dst) ==
    /\ info[src].parent = info[dst].parent
    /\ \A s \in Inherited(src, dst) : titleOf[dst][s] \in {None, titleOf[src][s]}

\* Fault: the source is sealed without saying where its records went.
SealNowhere(src, dst) ==
    /\ MaySeal(src, dst)
    /\ info' = [x \in Buckets |->
                   IF x = src THEN [info[x] EXCEPT !.sealed = TRUE]
                   ELSE IF x = info[src].parent
                        THEN [info[x] EXCEPT !.children = Without(@, src) \cup {dst}]
                        ELSE info[x]]
    /\ UNCHANGED <<made, titleOf, root, rec>>

\* seal_bucket_successor: the successor inherits the titles of the children
\* already moved under it, takes the source's place under their common parent,
\* and the source becomes a redirect.
Seal(src, dst) ==
    /\ MaySeal(src, dst)
    /\ info' = [x \in Buckets |->
                   IF x = src THEN [info[x] EXCEPT !.sealed = TRUE, !.to = dst]
                   ELSE IF x = info[src].parent
                        THEN [info[x] EXCEPT !.children = Without(@, src) \cup {dst}]
                        ELSE info[x]]
    /\ titleOf' = [x \in Buckets |-> [s \in Titles |->
                      IF x = dst /\ s \in Inherited(src, dst) THEN titleOf[src][s]
                      ELSE IF x = info[src].parent /\ titleOf[x][s] = src THEN dst
                      ELSE titleOf[x][s]]]
    /\ UNCHANGED <<made, root, rec>>

\* update_bucket_info: overwrite the whole row with one read earlier.
SaveInfo(b, row) ==
    /\ info' = [info EXCEPT ![b] = row]
    /\ UNCHANGED <<made, titleOf, root, rec>>

\* set_child_title_target
MaySetTitle(p, c) == info[c].parent = p /\ c \in info[p].children

SetTitle(p, s, c) ==
    /\ MaySetTitle(p, c)
    /\ titleOf' = [titleOf EXCEPT ![p] = [@ EXCEPT ![s] = c]]
    /\ UNCHANGED <<info, made, root, rec>>

\* remove_child_title_refs
RemoveTitleRefs(p, c) ==
    /\ titleOf' = [titleOf EXCEPT ![p] =
                      [s \in Titles |-> IF @[s] = c THEN None ELSE @[s]]]
    /\ UNCHANGED <<info, made, root, rec>>

\* assert_bucket_writable
MayWrite(b) == ~info[b].sealed

\* write_memory_record, which asserts that the bucket is not sealed.
Write(k, r) ==
    /\ MayWrite(r.bucket)
    /\ rec' = [rec EXCEPT ![k] = r]
    /\ UNCHANGED <<info, made, titleOf, root>>

SetRoot(b) ==
    /\ root' = b
    /\ UNCHANGED <<info, made, titleOf, rec>>
============================================================================
